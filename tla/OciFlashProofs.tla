---------------------------- MODULE OciFlashProofs ----------------------------
(***************************************************************************)
(* Theorems about OciFlash, for every layer, buffer and pipe size and      *)
(* detection length.                                                       *)
(***************************************************************************)
EXTENDS OciFlash, MpscProofs

(* The numbers of the chunks.                                              *)
Chunks == 1 .. N

(* Blocks of the layer before the image.                                   *)
Base == First - 1

(* How far in the layer what the reader has passed on reaches.             *)
Produced == IF decoded < Base THEN Base ELSE decoded

(* Where, in the layer, the content of each queue begins.                  *)
AtWchan     == Base + Len(device)
AtToWrite   == AtWchan + Len(wchan.q)
AtDetecting == AtToWrite + Len(toWrite)
AtInlet     == AtDetecting + Len(detecting)
AtStdin     == Base + eaten
AtDchan     == AtStdin + Len(stdin.q)

-----------------------------------------------------------------------------
(* The inductive invariant.                                                *)

BufferPaidFor == PaidFor(pc \in {"seed-enqueue", "enqueue"})

(* Who holds which end of which channel.                                   *)
EndsHeld ==
  /\ buf.tx <=> (pc \notin {"drain", "join-feeder", "reap", "join-writer", "returned"})
  /\ (buf.rx <=> dpc = "running") /\ (dchan.tx <=> dpc = "running")
  /\ wchan.tx <=> (wpc \in {"running", "joining"})
  /\ wchan.rx <=> (bpc \in {"opening", "running"})
  /\ Tar => /\ (dchan.rx <=> fpc = "running") /\ (stdin.tx <=> fpc = "running")
            /\ (stdin.rx <=> child = "running") /\ (stdout.tx <=> child = "running")
            /\ stdout.rx <=> (wpc \in {"running", "closing"})
  /\ ~Tar /\ wpc \in {"running", "joining", "closing"} => dchan.rx
  /\ ~buf.rx => buf.q = <<>>
  /\ ~dchan.rx => dchan.q = <<>>
  /\ ~stdin.rx => stdin.q = <<>>
  /\ ~stdout.rx => stdout.q = <<>>
  /\ ~wchan.rx => wchan.q = <<>>

(* Which parties a pipeline has.                                           *)
Parties ==
  /\ Tar => wpc # "joining"
  /\ ~Tar => /\ fpc = "running" /\ child = "running" /\ eaten = 0
             /\ stdin.q = <<>> /\ stdout.q = <<>>
             /\ pc \notin {"join-feeder", "reap", "join-writer"}

(* Has the writer task got all there is?                                   *)
InletOver == Inlet.q = <<>> /\ ~Inlet.tx

(* What each verdict says of the parties before it.                        *)
Verdicts ==
  /\ pc = "returned" <=> result # "none"
  /\ pc \in {"prepare", "seed-acquire", "seed-enqueue"} => dpc = "running"
  /\ pc \in {"join-feeder", "reap", "join-writer"} => dpc = "ok"
  /\ pc \in {"reap", "join-writer"} => fpc = "ok"
  /\ pc = "join-writer" => child = "exit0"
  /\ result = "ok" => wpc = "ok" /\ dpc = "ok" /\ (Tar => fpc = "ok" /\ child = "exit0")
  /\ bpc = "ok" => ~wchan.tx /\ synced
  /\ wpc = "ok" => bpc = "ok"
  /\ ~Tar /\ wpc \in {"closing", "ok"} => dpc = "ok"
  /\ wpc \in {"joining", "closing", "ok"} /\ result \in {"none", "ok"} =>
       toWrite = <<>> /\ detecting = <<>> /\ InletOver
  /\ fpc = "ok" => dpc # "running"
  /\ fpc = "err" => child = "failed"
  /\ child = "exit0" => fpc # "running" /\ (Program = "none" \/ eaten = Last - First + 1)

(* How the reader's work ends when nothing has gone wrong before it.       *)
ReaderDone ==
  dpc = "ok" /\ result \in {"none", "ok"} =>
    /\ Tar => decoded \in {Last, StreamEnd}
    /\ ~Tar => decoded = StreamEnd /\ ~derailed /\ (Format # "gzip" => StreamEnd = N)

(* The layer, counted in chunks.                                           *)
Counted ==
  /\ pc \in {"seed-acquire", "seed-enqueue", "acquire", "enqueue"} => conn >= 1
  /\ pc \in {"prepare"} => conn = 0
  /\ pc \in {"seed-acquire", "seed-enqueue"} => conn = 1
  /\ pc = "drain" /\ dpc = "running" => conn = N
  /\ decoded + Len(input) + Len(buf.q) <= Accepted
  /\ Tar => decoded <= Last

(* Before the reader: the layer as far as it has been accepted.            *)
UpstreamInOrder ==
  ~derailed /\ dpc = "running" =>
    /\ Run(input, decoded)
    /\ Run(buf.q, decoded + Len(input))
    /\ decoded + Len(input) + Len(buf.q) = Accepted

(* What the reader has read was as it should be, if it has not derailed.   *)
DecodedIsSound ==
  /\ derailed => Format # "none" /\ Undecodable \cap 1 .. Last # {}
  /\ Tar /\ decoded > 0 => ~Misdeclared
  /\ ~derailed /\ Format # "none" =>
       /\ decoded <= StreamEnd
       /\ \A k \in 1 .. decoded : k \notin Undecodable

(* In the tar pipeline, what the child has read and has before it is the   *)
(* image; garbage among it stays where it is until the child meets it.  A  *)
(* child that reads at all understands what it reads.                      *)
FedInOrder ==
  Tar =>
    /\ AtDchan + Len(dchan.q) <= Produced
    /\ eaten > 0 => Program \in {"none", Inner}
    /\ child # "failed" =>
         /\ AtDchan + Len(dchan.q) = Produced
         /\ ~derailed => Run(stdin.q, AtStdin) /\ Run(dchan.q, AtDchan)
         /\ derailed /\ Program # "none" =>
              \/ \E i \in 1 .. Len(stdin.q) : stdin.q[i] = Garbage
              \/ \E i \in 1 .. Len(dchan.q) : dchan.q[i] = Garbage

(* Is what the reader and the child pass on the image?                     *)
Trusted == ~derailed /\ (Tar => Program = Inner)

(* The device, and what is on its way in the writer's channel: this also   *)
(* after a failure.                                                        *)
WrittenInOrder ==
  Trusted => Run(device, Base) /\ Run(wchan.q, AtWchan) /\ AtToWrite <= Produced

(* Is the writer task still to pass on, or has it passed on, everything?   *)
Delivering ==
  /\ bpc # "err" /\ wpc # "err"
  /\ wpc \in {"running", "joining"} \/ result \in {"none", "ok"}

DownstreamInOrder ==
  Trusted /\ Delivering =>
    /\ Run(toWrite, AtToWrite) /\ Run(detecting, AtDetecting) /\ Run(Inlet.q, AtInlet)
    /\ AtInlet + Len(Inlet.q) = (IF Tar THEN AtStdin ELSE decoded)
    /\ \A k \in First .. AtInlet : k \notin Unparsable

FlashInv ==
  /\ TypeOK /\ BufferPaidFor /\ EndsHeld /\ Parties /\ Verdicts /\ ReaderDone /\ Counted
  /\ UpstreamInOrder /\ DecodedIsSound /\ FedInOrder /\ WrittenInOrder /\ DownstreamInOrder

(* Nobody fails for want of a reason: in a sound layer, with a device and  *)
(* a connection that work, no stage takes the end of another for an error. *)
NobodyFails ==
  Sound /\ bpc # "err" /\ result \notin {"broken", "refused"} =>
    dpc # "err" /\ fpc # "err" /\ child # "failed" /\ wpc # "err" /\ result # "err"

-----------------------------------------------------------------------------
(* What the proofs work with.                                              *)

USE DEF Format, StreamEnd, Undecodable, Unparsable, N, First, Last, Inner

(* What is known of the layer.                                             *)
LEMMA SourceFacts ==
  ASSUME TypeOK
  PROVE  /\ N \in Nat \ {0} /\ StreamEnd \in 1 .. N /\ StreamEnd \in Nat
         /\ First \in Nat \ {0} /\ Last \in First .. N + 1 /\ Last \in Nat
         /\ Format \in Compressions /\ Program \in Compressions
         /\ (Format = "none" => StreamEnd = N /\ Undecodable = {})
         /\ Base \in Nat /\ Base + 1 = First /\ Base < Last
         /\ Tar \in BOOLEAN /\ (~Tar => First = 1 /\ Base = 0 /\ Last = StreamEnd)
         /\ BufBytes \in Nat \ {0}
<1>1. /\ source.length \in Nat \ {0} /\ source.end \in 1 .. source.length
      /\ source.first \in Nat \ {0} /\ source.last \in source.first .. source.length + 1
      /\ source.format \in Compressions /\ source.pattern \in Compressions \cup {"unset"}
      /\ source.format = "none" => source.undecodable = {} /\ source.end = source.length
      /\ ~source.tar => source.first = 1 /\ source.last = source.end
      /\ source.tar \in BOOLEAN
      /\ BufBytes \in Nat \ {0}
  BY OciFlashAssumption DEF TypeOK
<1>2. Program \in Compressions /\ Tar \in BOOLEAN
  BY <1>1 DEF Program, Tar
<1>3. ~Tar => ~source.tar
  BY DEF Tar
<1> QED BY <1>1, <1>2, <1>3 DEF Base

(* The layer does not change.                                              *)
LEMMA SourceKept ==
  ASSUME source' = source
  PROVE  /\ Tar' = Tar /\ Program' = Program /\ Misdeclared' = Misdeclared
         /\ Base' = Base /\ Chunks' = Chunks /\ Blocks' = Blocks
         /\ Sound' = Sound /\ Unnoticed' = Unnoticed /\ Image' = Image
BY DEF Tar, Program, Misdeclared, Base, Chunks, Blocks, Sound, Unnoticed, Image, FromTo

(* What the invariant says of the types of what a step works with.         *)
LEMMA InvTypes ==
  ASSUME FlashInv
  PROVE  /\ buf \in Channels(Chunks) /\ buf.q \in Seq(Chunks) /\ input \in Seq(Chunks)
         /\ dchan \in Channels(Blocks) /\ dchan.q \in Seq(Blocks)
         /\ stdin \in Channels(Blocks) /\ stdin.q \in Seq(Blocks)
         /\ stdout \in Channels(Blocks) /\ stdout.q \in Seq(Blocks)
         /\ wchan \in Channels(Blocks) /\ wchan.q \in Seq(Blocks)
         /\ toWrite \in Seq(Blocks) /\ detecting \in Seq(Blocks) /\ device \in Seq(Blocks)
<1>1. /\ buf \in Channels(Chunks) /\ input \in Seq(Chunks)
      /\ dchan \in Channels(Blocks) /\ wchan \in Channels(Blocks)
      /\ stdin \in Channels(Blocks) /\ stdout \in Channels(Blocks)
      /\ toWrite \in Seq(Blocks) /\ detecting \in Seq(Blocks) /\ device \in Seq(Blocks)
  BY DEF FlashInv, TypeOK, Chunks
<1>2. /\ buf.q \in Seq(Chunks) /\ dchan.q \in Seq(Blocks) /\ wchan.q \in Seq(Blocks)
      /\ stdin.q \in Seq(Blocks) /\ stdout.q \in Seq(Blocks)
  BY <1>1, ChannelFields
<1> QED BY <1>1, <1>2

(* ... and of the numbers.                                                 *)
LEMMA InvLengths ==
  ASSUME FlashInv
  PROVE  /\ Len(buf.q) \in Nat /\ Len(input) \in Nat /\ Len(dchan.q) \in Nat
         /\ Len(stdin.q) \in Nat /\ Len(stdout.q) \in Nat /\ Len(wchan.q) \in Nat
         /\ Len(toWrite) \in Nat /\ Len(detecting) \in Nat /\ Len(device) \in Nat
         /\ Len(<<>>) = 0
BY InvTypes, LenProperties, EmptySeq

LEMMA InvNumbers ==
  ASSUME FlashInv
  PROVE  /\ decoded \in Nat /\ eaten \in Nat /\ conn \in Nat /\ permits \in Nat
         /\ Accepted \in Nat /\ Produced \in Nat /\ Base \in Nat
         /\ decoded + Len(input) \in Nat
         /\ AtWchan \in Nat /\ AtToWrite \in Nat /\ AtDetecting \in Nat /\ AtInlet \in Nat
         /\ AtStdin \in Nat /\ AtDchan \in Nat
<1>1. /\ N \in Nat /\ BufBytes \in Nat /\ Base \in Nat
  BY SourceFacts DEF FlashInv
<1>2. /\ decoded \in Nat /\ eaten \in Nat /\ conn \in Nat /\ permits \in Nat
  BY <1>1 DEF FlashInv, TypeOK
<1>3. Accepted \in Nat
  BY <1>2 DEF FlashInv, Counted, Accepted
<1>4. Produced \in Nat
  BY <1>1, <1>2 DEF Produced
<1>5. decoded + Len(input) \in Nat
  BY <1>2, InvLengths
<1>6. AtWchan \in Nat
  BY <1>1, InvLengths DEF AtWchan
<1>7. AtToWrite \in Nat
  BY <1>6, InvLengths DEF AtToWrite
<1>8. AtDetecting \in Nat
  BY <1>7, InvLengths DEF AtDetecting
<1>9. AtInlet \in Nat
  BY <1>8, InvLengths DEF AtInlet
<1>10. AtStdin \in Nat
  BY <1>1, <1>2 DEF AtStdin
<1>11. AtDchan \in Nat
  BY <1>10, InvLengths DEF AtDchan
<1> QED BY <1>1, <1>2, <1>3, <1>4, <1>5, <1>6, <1>7, <1>8, <1>9, <1>10, <1>11

LEMMA InitHolds == Init => FlashInv
<1> SUFFICES ASSUME Init PROVE FlashInv
  OBVIOUS
<1> USE DEF Init, BlockWriterInit, DecoderInit, BufferInit
<1>1. /\ buf \in Channels(Chunks) /\ dchan \in Channels(Blocks) /\ wchan \in Channels(Blocks)
      /\ stdin \in Channels(Blocks) /\ stdout \in Channels(Blocks)
      /\ buf.q = <<>> /\ dchan.q = <<>> /\ wchan.q = <<>> /\ stdin.q = <<>> /\ stdout.q = <<>>
      /\ buf.tx /\ buf.rx /\ dchan.tx /\ dchan.rx /\ wchan.tx /\ wchan.rx
      /\ stdin.tx /\ stdin.rx /\ stdout.tx /\ stdout.rx
      /\ Len(<<>>) = 0
  BY NewChannelFacts, EmptySeq
<1>2. TypeOK
  <2>1. N \in Nat \ {0} /\ BufBytes \in Nat
    BY OciFlashAssumption
  <2>2. <<>> \in Seq(Blocks) /\ <<>> \in Seq(Chunks)
    OBVIOUS
  <2>3. 0 \in 0 .. N /\ BufBytes \in 0 .. BufBytes
    BY <2>1
  <2> QED BY <1>1, <2>2, <2>3 DEF TypeOK, Chunks
<1>3. /\ Base \in Nat /\ StreamEnd \in Nat /\ Last \in Nat /\ N \in Nat /\ BufBytes \in Nat
      /\ Base + 1 = First
  BY <1>2, SourceFacts
<1>4. BufferPaidFor
  BY <1>1, <1>3 DEF BufferPaidFor, PaidFor
<1>5. EndsHeld /\ Parties
  BY <1>1 DEF EndsHeld, Parties
<1>6. Verdicts /\ ReaderDone
  BY DEF Verdicts, ReaderDone
<1>7. Accepted = 0 /\ Counted
  BY <1>1, <1>3 DEF Counted, Accepted
<1>8. UpstreamInOrder
  BY <1>1, <1>3, <1>7, EmptyRun DEF UpstreamInOrder
<1>9. DecodedIsSound
  BY <1>3 DEF DecodedIsSound
<1>10. Produced = Base
  BY <1>3 DEF Produced
<1>11. FedInOrder
  <2>1. AtStdin = Base /\ AtDchan = Base
    BY <1>1, <1>3 DEF AtStdin, AtDchan
  <2> QED BY <1>1, <1>3, <1>10, <2>1, EmptyRun DEF FedInOrder
<1>12. AtWchan = Base /\ AtToWrite = Base /\ AtDetecting = Base /\ AtInlet = Base
  BY <1>1, <1>3 DEF AtWchan, AtToWrite, AtDetecting, AtInlet
<1>13. WrittenInOrder
  BY <1>1, <1>3, <1>10, <1>12, EmptyRun DEF WrittenInOrder
<1>14. DownstreamInOrder
  <2>1. Inlet.q = <<>> /\ Base + 0 = (IF Tar THEN AtStdin ELSE decoded)
    BY <1>1, <1>2, <1>3, SourceFacts DEF Inlet, AtStdin
  <2>2. \A k \in First .. Base : k \notin Unparsable
    BY <1>3
  <2> QED BY <1>1, <1>12, <2>1, <2>2, EmptyRun DEF DownstreamInOrder
<1> QED BY <1>2, <1>4, <1>5, <1>6, <1>7, <1>8, <1>9, <1>11, <1>13, <1>14 DEF FlashInv

-----------------------------------------------------------------------------
(* Steps preserve the invariant.  Each party writes its own variables: what *)
(* the invariant says of the others' needs one argument for all its steps.  *)

LEMMA FedFrame ==
  ASSUME FedInOrder, source' = source, UNCHANGED <<eaten, derailed, decoded>>,
         dchan'.q = dchan.q, stdin'.q = stdin.q, UNCHANGED <<child, fpc>>
  PROVE  FedInOrder'
<1>1. Tar' = Tar /\ Program' = Program /\ Base' = Base
  BY SourceKept
<1>2. AtStdin' = AtStdin /\ AtDchan' = AtDchan /\ Produced' = Produced
  BY <1>1 DEF AtStdin, AtDchan, Produced
<1> QED BY <1>1, <1>2 DEF FedInOrder

LEMMA WrittenFrame ==
  ASSUME WrittenInOrder, source' = source, UNCHANGED device, wchan'.q = wchan.q,
         Trusted' => Trusted,
         Produced \in Nat, Produced' \in Nat, Produced <= Produced', AtToWrite \in Nat
  PROVE  WrittenInOrder'
<1>1. Tar' = Tar /\ Program' = Program /\ Base' = Base
  BY SourceKept
<1>2. AtWchan' = AtWchan /\ AtToWrite' = AtToWrite
  BY <1>1 DEF AtWchan, AtToWrite
<1> QED BY <1>2, <1>1 DEF WrittenInOrder

LEMMA DownstreamFrameAt ==
  ASSUME DownstreamInOrder, source' = source, UNCHANGED <<toWrite, detecting, eaten>>,
         AtToWrite' = AtToWrite, Inlet'.q = Inlet.q, ~Tar => decoded' = decoded,
         Trusted' => Trusted, Delivering' => Delivering
  PROVE  DownstreamInOrder'
<1>1. Tar' = Tar /\ Program' = Program /\ Base' = Base
  BY SourceKept
<1>2. AtDetecting' = AtDetecting /\ AtInlet' = AtInlet /\ AtStdin' = AtStdin
  BY <1>1 DEF AtDetecting, AtInlet, AtStdin
<1>3. (IF Tar THEN AtStdin ELSE decoded)' = (IF Tar THEN AtStdin ELSE decoded)
  BY <1>1, <1>2
<1> QED BY <1>1, <1>2, <1>3 DEF DownstreamInOrder

LEMMA DownstreamFrame ==
  ASSUME DownstreamInOrder, source' = source,
         UNCHANGED <<device, toWrite, detecting, eaten>>,
         wchan'.q = wchan.q, Inlet'.q = Inlet.q, ~Tar => decoded' = decoded,
         Trusted' => Trusted, Delivering' => Delivering
  PROVE  DownstreamInOrder'
<1>1. AtToWrite' = AtToWrite
  BY SourceKept DEF AtWchan, AtToWrite
<1> QED BY <1>1, DownstreamFrameAt

-----------------------------------------------------------------------------
(* The coordinator.                                                        *)

LEMMA CoordinatorFrame ==
  ASSUME FlashInv, CoordinatorOnly, source' = source,
         result' \in {"none", "ok"} => result \in {"none", "ok"}
  PROVE  /\ DecodedIsSound' /\ FedInOrder' /\ WrittenInOrder' /\ DownstreamInOrder'
         /\ Inlet' = Inlet
<1> USE DEF CoordinatorOnly, childVars, writerTaskVars, blockWriterVars
<1>1. Tar' = Tar /\ Misdeclared' = Misdeclared /\ Base' = Base
  BY SourceKept
<1>2. Inlet' = Inlet
  BY <1>1 DEF Inlet
<1>3. DecodedIsSound'
  BY <1>1 DEF FlashInv, DecodedIsSound
<1>4. FedInOrder'
  BY FedFrame DEF FlashInv
<1>5. WrittenInOrder'
  <2>1. Produced' = Produced /\ Produced \in Nat /\ AtToWrite \in Nat
    BY <1>1, InvNumbers DEF Produced
  <2>2. Trusted' = Trusted /\ WrittenInOrder /\ wchan'.q = wchan.q /\ UNCHANGED device
    BY <1>1, SourceKept DEF Trusted, FlashInv
  <2> QED BY <2>1, <2>2, WrittenFrame
<1>6. DownstreamInOrder'
  <2>1. (Delivering' => Delivering) /\ (Trusted' => Trusted)
    BY <1>1, SourceKept DEF Delivering, Trusted
  <2> QED BY <1>2, <2>1, DownstreamFrame DEF FlashInv
<1> QED BY <1>2, <1>3, <1>4, <1>5, <1>6

(* Every return but that of success.                                         *)
LEMMA ReturnKeeps ==
  ASSUME FlashInv, NEW how \in {"err", "broken", "refused"}, Return(how),
         pc \in {"prepare", "stream", "drain", "join-feeder", "reap", "join-writer"},
         UNCHANGED conn, CoordinatorOnly, source' = source
  PROVE  FlashInv'
<1> USE DEF FlashInv, Return, CoordinatorOnly, childVars, writerTaskVars, blockWriterVars
<1>1. /\ Tar' = Tar /\ Program' = Program /\ Blocks' = Blocks /\ Chunks' = Chunks
      /\ DecodedIsSound' /\ FedInOrder' /\ WrittenInOrder' /\ DownstreamInOrder'
      /\ Inlet' = Inlet
  BY SourceKept, CoordinatorFrame
<1>2. /\ buf' \in Channels(Chunks) /\ buf'.q = buf.q /\ ~buf'.tx /\ (buf'.rx <=> buf.rx)
      /\ permits' = permits /\ Len(buf'.q) = Len(buf.q)
  BY InvTypes, TxDroppedFacts DEF DropTx
<1>3. Accepted' = Accepted /\ Accepted \in Nat /\ conn \in Nat
  BY InvNumbers DEF Accepted
<1>4. TypeOK'
  BY <1>1, <1>2, <1>3, SourceFacts DEF TypeOK, Chunks
<1>5. BufferPaidFor'
  BY <1>1, <1>2, <1>3 DEF BufferPaidFor, PaidFor, TypeOK
<1>6. EndsHeld'
  BY <1>1, <1>2, <1>3 DEF EndsHeld
<1>7. Parties'
  BY <1>1, <1>2, <1>3 DEF Parties
<1>8. Verdicts'
  BY <1>1, <1>2, <1>3 DEF Verdicts, InletOver, EndsHeld
<1>9. ReaderDone'
  BY <1>1, <1>2, <1>3 DEF ReaderDone, Verdicts
<1>10. Counted'
  BY <1>1, <1>2, <1>3, SourceFacts DEF Counted
<1>11. UpstreamInOrder'
  BY <1>1, <1>2, <1>3 DEF UpstreamInOrder
<1> QED BY <1>1, <1>4, <1>5, <1>6, <1>7, <1>8, <1>9, <1>10, <1>11

(* ... and that one.                                                         *)
LEMMA SucceedKeeps ==
  ASSUME FlashInv, JoinWriter, wpc = "ok", source' = source
  PROVE  FlashInv'
<1> USE DEF FlashInv, JoinWriter, Return, CoordinatorOnly, childVars, writerTaskVars,
            blockWriterVars
<1>1. /\ Tar' = Tar /\ Program' = Program /\ Blocks' = Blocks /\ Chunks' = Chunks
      /\ DecodedIsSound' /\ FedInOrder' /\ WrittenInOrder' /\ DownstreamInOrder'
      /\ Inlet' = Inlet
  BY SourceKept, CoordinatorFrame DEF Verdicts
<1>2. /\ buf' \in Channels(Chunks) /\ buf'.q = buf.q /\ ~buf'.tx /\ (buf'.rx <=> buf.rx)
      /\ permits' = permits /\ Len(buf'.q) = Len(buf.q)
  BY InvTypes, TxDroppedFacts DEF DropTx
<1>3. Accepted' = Accepted /\ Accepted \in Nat /\ conn \in Nat
  BY InvNumbers DEF Accepted
<1>4. TypeOK'
  BY <1>1, <1>2, <1>3, SourceFacts DEF TypeOK, Chunks
<1>5. BufferPaidFor'
  BY <1>1, <1>2, <1>3 DEF BufferPaidFor, PaidFor, TypeOK
<1>6. EndsHeld'
  BY <1>1, <1>2, <1>3 DEF EndsHeld
<1>7. Parties'
  BY <1>1, <1>2, <1>3 DEF Parties
<1>8. Verdicts'
  BY <1>1, <1>2, <1>3 DEF Verdicts, InletOver, EndsHeld
<1>9. ReaderDone'
  BY <1>1, <1>2, <1>3 DEF ReaderDone, Verdicts
<1>10. Counted'
  BY <1>1, <1>2, <1>3, SourceFacts DEF Counted
<1>11. UpstreamInOrder'
  BY <1>1, <1>2, <1>3 DEF UpstreamInOrder
<1> QED BY <1>1, <1>4, <1>5, <1>6, <1>7, <1>8, <1>9, <1>10, <1>11

LEMMA PreparedKeeps ==
  ASSUME FlashInv, pc = "prepare", conn' = 1, Goto("seed-acquire"), CoordinatorOnly,
         source' = source
  PROVE  FlashInv'
<1> USE DEF FlashInv, Goto, CoordinatorOnly, childVars, writerTaskVars, blockWriterVars
<1>1. /\ Tar' = Tar /\ Program' = Program /\ Blocks' = Blocks /\ Chunks' = Chunks
      /\ DecodedIsSound' /\ FedInOrder' /\ WrittenInOrder' /\ DownstreamInOrder'
      /\ Inlet' = Inlet
  BY SourceKept, CoordinatorFrame
<1>2. Accepted' = Accepted /\ Accepted \in Nat /\ conn \in Nat
  BY InvNumbers DEF Accepted, Counted
<1>3. TypeOK'
  BY <1>1, <1>2, SourceFacts DEF TypeOK, Chunks
<1>4. BufferPaidFor'
  BY <1>1, <1>2 DEF BufferPaidFor, PaidFor, TypeOK
<1>5. EndsHeld'
  BY <1>1, <1>2 DEF EndsHeld
<1>6. Parties'
  BY <1>1, <1>2 DEF Parties
<1>7. Verdicts'
  BY <1>1, <1>2 DEF Verdicts, InletOver, EndsHeld
<1>8. ReaderDone'
  BY <1>1, <1>2 DEF ReaderDone, Verdicts
<1>9. Counted'
  BY <1>1, <1>2, SourceFacts DEF Counted
<1>10. UpstreamInOrder'
  BY <1>1, <1>2 DEF UpstreamInOrder
<1> QED BY <1>1, <1>3, <1>4, <1>5, <1>6, <1>7, <1>8, <1>9, <1>10

LEMMA StreamChunkKeeps ==
  ASSUME FlashInv, StreamChunk, source' = source
  PROVE  FlashInv'
<1> USE DEF FlashInv, StreamChunk, Goto, CoordinatorOnly, childVars, writerTaskVars,
            blockWriterVars
<1>1. /\ Tar' = Tar /\ Program' = Program /\ Blocks' = Blocks /\ Chunks' = Chunks
      /\ DecodedIsSound' /\ FedInOrder' /\ WrittenInOrder' /\ DownstreamInOrder'
      /\ Inlet' = Inlet
  BY SourceKept, CoordinatorFrame
<1>2. Accepted' = Accepted /\ Accepted \in Nat /\ conn \in Nat
  BY InvNumbers DEF Accepted
<1>3. TypeOK'
  BY <1>1, <1>2, SourceFacts DEF TypeOK, Chunks
<1>4. BufferPaidFor'
  BY <1>1, <1>2 DEF BufferPaidFor, PaidFor, TypeOK
<1>5. EndsHeld'
  BY <1>1, <1>2 DEF EndsHeld
<1>6. Parties'
  BY <1>1, <1>2 DEF Parties
<1>7. Verdicts'
  BY <1>1, <1>2 DEF Verdicts, InletOver, EndsHeld
<1>8. ReaderDone'
  BY <1>1, <1>2 DEF ReaderDone, Verdicts
<1>9. Counted'
  BY <1>1, <1>2, SourceFacts DEF Counted
<1>10. UpstreamInOrder'
  BY <1>1, <1>2 DEF UpstreamInOrder
<1> QED BY <1>1, <1>3, <1>4, <1>5, <1>6, <1>7, <1>8, <1>9, <1>10

(* The body has ended, or nobody reads it any more.                          *)
LEMMA DrainKeeps ==
  ASSUME FlashInv, pc \in {"stream", "enqueue"}, pc' = "drain", DropTx,
         pc = "stream" => conn = N, pc = "enqueue" => SendFails(buf),
         UNCHANGED <<result, conn>>, CoordinatorOnly, source' = source
  PROVE  FlashInv'
<1> USE DEF FlashInv, SendFails, CoordinatorOnly, childVars, writerTaskVars, blockWriterVars
<1>1. /\ Tar' = Tar /\ Program' = Program /\ Blocks' = Blocks /\ Chunks' = Chunks
      /\ DecodedIsSound' /\ FedInOrder' /\ WrittenInOrder' /\ DownstreamInOrder'
      /\ Inlet' = Inlet
  BY SourceKept, CoordinatorFrame
<1>2. /\ buf' \in Channels(Chunks) /\ buf'.q = buf.q /\ ~buf'.tx /\ (buf'.rx <=> buf.rx)
      /\ permits' = permits /\ Len(buf'.q) = Len(buf.q)
  BY InvTypes, TxDroppedFacts DEF DropTx
<1>3. pc = "enqueue" => dpc # "running"
  BY DEF EndsHeld
<1>4. /\ decoded \in Nat /\ Len(input) \in Nat /\ Len(buf.q) \in Nat /\ permits \in Nat
      /\ decoded + Len(input) \in Nat /\ BufBytes \in Nat /\ N \in Nat
  BY InvNumbers, InvLengths, SourceFacts
<1>5. Accepted' \in Nat /\ Accepted <= Accepted' /\ (pc = "stream" => Accepted' = Accepted)
      /\ Accepted \in Nat /\ conn \in Nat
  <2>1. Accepted \in Nat /\ conn \in Nat
    BY InvNumbers
  <2>2. Accepted' = conn /\ Accepted \in {conn - 1, conn} /\ (pc = "stream" => Accepted = conn)
    BY DEF Accepted
  <2> QED BY <2>1, <2>2
<1>6. TypeOK'
  BY <1>1, <1>2, <1>3, <1>4, <1>5, SourceFacts DEF TypeOK, Chunks
<1>7. BufferPaidFor'
  BY <1>1, <1>2, <1>3, <1>4, <1>5 DEF BufferPaidFor, PaidFor, TypeOK
<1>8. EndsHeld'
  BY <1>1, <1>2, <1>3, <1>4, <1>5 DEF EndsHeld
<1>9. Parties'
  BY <1>1, <1>2, <1>3, <1>4, <1>5 DEF Parties
<1>10. Verdicts'
  BY <1>1, <1>2, <1>3, <1>4, <1>5 DEF Verdicts, InletOver, EndsHeld
<1>11. ReaderDone'
  BY <1>1, <1>2, <1>3, <1>4, <1>5 DEF ReaderDone, Verdicts
<1>12. Counted'
  <2>1. decoded + Len(input) + Len(buf.q) <= Accepted /\ (Tar => decoded <= Last)
    BY DEF Counted
  <2>2. decoded + Len(input) + Len(buf'.q) <= Accepted'
    <3> DEFINE before == Len(buf.q)
               after == Len(buf'.q)
    <3>1. /\ decoded + Len(input) + before <= Accepted /\ before \in Nat /\ after = before
          /\ Accepted <= Accepted' /\ Accepted \in Nat /\ Accepted' \in Nat
      BY <1>2, <1>4, <1>5, <2>1
    <3> HIDE DEF before, after
    <3>2. decoded + Len(input) + after <= Accepted'
      BY <1>4, <3>1
    <3> QED BY <3>2 DEF after
  <2> QED BY <1>1, <1>3, <2>1, <2>2 DEF Counted
<1>13. UpstreamInOrder'
  BY <1>1, <1>2, <1>3, <1>4, <1>5 DEF UpstreamInOrder
<1> QED BY <1>1, <1>6, <1>7, <1>8, <1>9, <1>10, <1>11, <1>12, <1>13

LEMMA AcquireKeeps ==
  ASSUME FlashInv, Acquire, source' = source
  PROVE  FlashInv'
<1> USE DEF FlashInv, Acquire, TakePermit, CoordinatorOnly, childVars, writerTaskVars,
            blockWriterVars
<1>1. /\ Tar' = Tar /\ Program' = Program /\ Blocks' = Blocks /\ Chunks' = Chunks
      /\ DecodedIsSound' /\ FedInOrder' /\ WrittenInOrder' /\ DownstreamInOrder'
      /\ Inlet' = Inlet
  BY SourceKept, CoordinatorFrame
<1>2. /\ decoded \in Nat /\ Len(input) \in Nat /\ Len(buf.q) \in Nat /\ permits \in Nat
      /\ decoded + Len(input) \in Nat /\ BufBytes \in Nat /\ N \in Nat
  BY InvNumbers, InvLengths, SourceFacts
<1>3. Accepted' = Accepted /\ Accepted \in Nat /\ conn \in Nat
  BY InvNumbers DEF Accepted
<1>4. TypeOK'
  BY <1>1, <1>2, <1>3, SourceFacts DEF TypeOK, Chunks
<1>5. BufferPaidFor'
  <2> SUFFICES ASSUME buf.rx PROVE permits' + Len(buf.q) + 1 = BufBytes
    BY DEF BufferPaidFor, PaidFor
  <2>1. permits + Len(buf.q) + 0 = BufBytes /\ permits' = permits - 1
    BY DEF BufferPaidFor, PaidFor
  <2> QED BY <1>2, <2>1
<1>6. EndsHeld'
  BY <1>1, <1>2, <1>3 DEF EndsHeld
<1>7. Parties'
  BY <1>1, <1>2, <1>3 DEF Parties
<1>8. Verdicts'
  BY <1>1, <1>2, <1>3 DEF Verdicts, InletOver, EndsHeld
<1>9. ReaderDone'
  BY <1>1, <1>2, <1>3 DEF ReaderDone, Verdicts
<1>10. Counted'
  BY <1>1, <1>2, <1>3, SourceFacts DEF Counted
<1>11. UpstreamInOrder'
  BY <1>1, <1>2, <1>3 DEF UpstreamInOrder
<1> QED BY <1>1, <1>4, <1>5, <1>6, <1>7, <1>8, <1>9, <1>10, <1>11

(* A stage has ended well: on to the next.                                   *)
LEMMA JoinKeeps ==
  ASSUME FlashInv, NEW label \in {"join-feeder", "reap", "join-writer"}, Goto(label), Tar,
         pc \in {"drain", "join-feeder", "reap"}, dpc = "ok",
         label \in {"reap", "join-writer"} => fpc = "ok",
         label = "join-writer" => child = "exit0",
         UNCHANGED conn, CoordinatorOnly, source' = source
  PROVE  FlashInv'
<1> USE DEF FlashInv, Goto, CoordinatorOnly, childVars, writerTaskVars, blockWriterVars
<1>1. /\ Tar' = Tar /\ Program' = Program /\ Blocks' = Blocks /\ Chunks' = Chunks
      /\ DecodedIsSound' /\ FedInOrder' /\ WrittenInOrder' /\ DownstreamInOrder'
      /\ Inlet' = Inlet
  BY SourceKept, CoordinatorFrame
<1>2. Accepted' = Accepted /\ Accepted \in Nat /\ conn \in Nat
  BY InvNumbers DEF Accepted
<1>3. TypeOK'
  BY <1>1, <1>2, SourceFacts DEF TypeOK, Chunks
<1>4. BufferPaidFor'
  BY <1>1, <1>2 DEF BufferPaidFor, PaidFor, TypeOK
<1>5. EndsHeld'
  BY <1>1, <1>2 DEF EndsHeld
<1>6. Parties'
  BY <1>1, <1>2 DEF Parties
<1>7. Verdicts'
  BY <1>1, <1>2 DEF Verdicts, InletOver, EndsHeld
<1>8. ReaderDone'
  BY <1>1, <1>2 DEF ReaderDone, Verdicts
<1>9. Counted'
  BY <1>1, <1>2, SourceFacts DEF Counted
<1>10. UpstreamInOrder'
  BY <1>1, <1>2 DEF UpstreamInOrder
<1> QED BY <1>1, <1>3, <1>4, <1>5, <1>6, <1>7, <1>8, <1>9, <1>10

LEMMA EnqueueKeeps ==
  ASSUME FlashInv, Enqueue, source' = source
  PROVE  FlashInv'
<1> USE DEF FlashInv, Enqueue, CoordinatorOnly, childVars, writerTaskVars, blockWriterVars
<1>1. /\ Tar' = Tar /\ Program' = Program /\ Blocks' = Blocks /\ Chunks' = Chunks
      /\ DecodedIsSound' /\ FedInOrder' /\ WrittenInOrder' /\ DownstreamInOrder'
      /\ Inlet' = Inlet
  BY SourceKept, CoordinatorFrame
<1>2. buf \in Channels(Chunks) /\ buf.q \in Seq(Chunks) /\ Len(buf.q) \in Nat
  BY InvTypes, InvLengths
<1>3. conn \in Chunks
  BY DEF Counted, TypeOK, Chunks
<1>4. buf' = Sent(buf, conn) /\ permits' = permits /\ buf.rx
  BY DEF QueueChunk, CanSend
<1>5. /\ buf' \in Channels(Chunks) /\ buf'.q = Append(buf.q, conn)
      /\ (buf'.tx <=> buf.tx) /\ (buf'.rx <=> buf.rx)
  BY <1>2, <1>3, <1>4, SentFacts, SentEnds
<1>6. Len(buf'.q) = Len(buf.q) + 1
  BY <1>2, <1>5
<1>7. Accepted' = Accepted + 1 /\ conn = Accepted + 1 /\ Accepted \in Nat /\ conn \in Nat
  <2>1. Accepted \in Nat /\ conn \in Nat
    BY InvNumbers
  <2>2. Accepted' = conn /\ Accepted = conn - 1
    BY DEF Accepted
  <2> QED BY <2>1, <2>2
<1>8. /\ decoded \in Nat /\ Len(input) \in Nat /\ Len(buf.q) \in Nat /\ permits \in Nat
      /\ decoded + Len(input) \in Nat /\ BufBytes \in Nat /\ N \in Nat
  BY InvNumbers, InvLengths, SourceFacts
<1>9. TypeOK'
  BY <1>1, <1>2, <1>3, <1>4, <1>5, <1>6, <1>7, <1>8, SourceFacts DEF TypeOK, Chunks
<1>10. BufferPaidFor'
  BY <1>1, <1>2, <1>3, <1>4, <1>5, <1>6, <1>7, <1>8 DEF BufferPaidFor, PaidFor, TypeOK
<1>11. EndsHeld'
  BY <1>1, <1>2, <1>3, <1>4, <1>5, <1>6, <1>7, <1>8 DEF EndsHeld
<1>12. Parties'
  BY <1>1, <1>2, <1>3, <1>4, <1>5, <1>6, <1>7, <1>8 DEF Parties
<1>13. Verdicts'
  BY <1>1, <1>2, <1>3, <1>4, <1>5, <1>6, <1>7, <1>8 DEF Verdicts, InletOver, EndsHeld
<1>14. ReaderDone'
  BY <1>1, <1>2, <1>3, <1>4, <1>5, <1>6, <1>7, <1>8 DEF ReaderDone, Verdicts
<1>15. Counted'
  <2>1. decoded + Len(input) + Len(buf.q) <= Accepted
    BY DEF Counted
  <2>2. decoded + Len(input) + Len(buf'.q) <= Accepted'
    <3> DEFINE before == Len(buf.q)
               after == Len(buf'.q)
    <3>1. /\ decoded + Len(input) + before <= Accepted /\ before \in Nat
          /\ after = before + 1 /\ Accepted' = Accepted + 1 /\ Accepted \in Nat
      BY <1>6, <1>7, <1>8, <2>1
    <3> HIDE DEF before, after
    <3>2. decoded + Len(input) + after <= Accepted'
      BY <1>8, <3>1
    <3> QED BY <3>2 DEF after
  <2> QED BY <1>1, <1>7, <2>2 DEF Counted
<1>16. UpstreamInOrder'
  <2> SUFFICES ASSUME ~derailed, dpc = "running"
               PROVE  /\ Run(input, decoded) /\ Run(buf'.q, decoded + Len(input))
                      /\ decoded + Len(input) + Len(buf'.q) = Accepted'
    BY DEF UpstreamInOrder
  <2>1. /\ Run(input, decoded) /\ Run(buf.q, decoded + Len(input))
        /\ decoded + Len(input) + Len(buf.q) = Accepted
    BY DEF UpstreamInOrder
  <2>2. conn = decoded + Len(input) + Len(buf.q) + 1
    BY <1>7, <2>1
  <2>3. Run(buf'.q, decoded + Len(input))
    BY <1>2, <1>3, <1>5, <1>8, <2>1, <2>2, RunAppend
  <2>4. decoded + Len(input) + Len(buf'.q) = Accepted'
    <3> DEFINE before == Len(buf.q)
               after == Len(buf'.q)
    <3>1. /\ decoded + Len(input) + before = Accepted /\ before \in Nat
          /\ after = before + 1 /\ Accepted' = Accepted + 1 /\ Accepted \in Nat
      BY <1>6, <1>7, <1>8, <2>1
    <3> HIDE DEF before, after
    <3>2. decoded + Len(input) + after = Accepted'
      BY <1>8, <3>1
    <3> QED BY <3>2 DEF after
  <2> QED BY <2>1, <2>3, <2>4
<1> QED BY <1>1, <1>9, <1>10, <1>11, <1>12, <1>13, <1>14, <1>15, <1>16

LEMMA CoordinatorKeeps ==
  ASSUME FlashInv, CoordinatorNext, source' = source
  PROVE  FlashInv'
<1>1. /\ dpc \in {"running", "ok", "err"} /\ fpc \in {"running", "ok", "err"}
      /\ child \in {"running", "exit0", "failed"}
  BY DEF FlashInv, TypeOK
<1>2. CASE Prepare
  BY <1>2, PreparedKeeps, ReturnKeeps DEF Prepare
<1>3. CASE StreamChunk
  BY <1>3, StreamChunkKeeps
<1>4. CASE StreamEnds
  BY <1>4, DrainKeeps DEF StreamEnds
<1>5. CASE StreamBreaks
  BY <1>5, ReturnKeeps DEF StreamBreaks
<1>6. CASE Acquire
  BY <1>6, AcquireKeeps
<1>7. CASE Enqueue
  BY <1>7, EnqueueKeeps
<1>8. CASE EnqueueRefused
  <2>1. ~buf.rx
    BY <1>8 DEF EnqueueRefused, SendFails
  <2>2. pc = "enqueue"
    BY <1>8, <2>1 DEF EnqueueRefused, FlashInv, EndsHeld, Verdicts
  <2> QED BY <1>8, <2>2, DrainKeeps DEF EnqueueRefused
<1>9. CASE JoinExtractor
  BY <1>1, <1>9, JoinKeeps, ReturnKeeps DEF JoinExtractor
<1>10. CASE JoinFeeder
  <2>1. Tar /\ dpc = "ok"
    BY <1>10 DEF JoinFeeder, FlashInv, Verdicts, Parties
  <2> QED BY <1>1, <1>10, <2>1, JoinKeeps, ReturnKeeps DEF JoinFeeder
<1>11. CASE Reap
  <2>1. Tar /\ dpc = "ok" /\ fpc = "ok"
    BY <1>11 DEF Reap, FlashInv, Verdicts, Parties
  <2> QED BY <1>1, <1>11, <2>1, JoinKeeps, ReturnKeeps DEF Reap
<1>12. CASE JoinWriter
  BY <1>12, SucceedKeeps, ReturnKeeps DEF JoinWriter
<1> QED BY <1>2, <1>3, <1>4, <1>5, <1>6, <1>7, <1>8, <1>9, <1>10, <1>11, <1>12
        DEF CoordinatorNext

-----------------------------------------------------------------------------
(* The reader: decoder thread or extractor thread.                         *)

ReaderOnly == UNCHANGED <<coordinatorVars, childVars, writerTaskVars, blockWriterVars>>

(* The reader cannot be done with a buffer that nothing has entered.       *)
LEMMA SeedHasNothing ==
  ASSUME FlashInv, pc \in {"prepare", "seed-acquire", "seed-enqueue"}
  PROVE  input = <<>> /\ decoded = 0 /\ ~NoMore /\ ~AtStreamEnd /\ decoded # Last
<1>1. Accepted = 0
  <2>1. conn \in Nat /\ (pc = "prepare" => conn = 0) /\ (pc # "prepare" => conn = 1)
    BY InvNumbers DEF FlashInv, Counted
  <2> QED BY <2>1 DEF Accepted
<1>2. decoded + Len(input) + Len(buf.q) <= 0
  BY <1>1 DEF FlashInv, Counted
<1>3. decoded = 0 /\ Len(input) = 0
  <2> DEFINE read == Len(input)
             queued == Len(buf.q)
  <2>1. decoded \in Nat /\ read \in Nat /\ queued \in Nat /\ decoded + read + queued <= 0
    BY <1>2, InvNumbers, InvLengths
  <2> HIDE DEF read, queued
  <2>2. decoded = 0 /\ read = 0
    BY <2>1
  <2> QED BY <2>2 DEF read
<1>4. input = <<>>
  BY <1>3, InvTypes, EmptySeq
<1>5. ~NoMore
  BY DEF FlashInv, EndsHeld, NoMore, AtEof
<1>6. StreamEnd # 0 /\ Last # 0 /\ Format \in {"none", "gzip", "xz"}
  BY SourceFacts DEF FlashInv, Compressions
<1>7. ~AtStreamEnd
  BY <1>3, <1>5, <1>6 DEF AtStreamEnd, StreamComplete
<1> QED BY <1>3, <1>4, <1>5, <1>6, <1>7

(* All of a layer that has come in is the whole of it, unless the          *)
(* connection has failed.                                                  *)
LEMMA InputOver ==
  ASSUME FlashInv, dpc = "running", ~derailed, input = <<>>, NoMore, result \in {"none", "ok"}
  PROVE  decoded = N
<1>1. pc = "drain"
  BY DEF FlashInv, EndsHeld, Verdicts, NoMore, AtEof
<1>2. Accepted = N
  BY <1>1 DEF FlashInv, Counted, Accepted
<1>3. buf.q = <<>> /\ decoded + Len(input) + Len(buf.q) = N
  BY <1>2 DEF FlashInv, UpstreamInOrder, NoMore, AtEof
<1>4. Len(input) = 0 /\ Len(buf.q) = 0
  BY <1>3, EmptySeq
<1>5. decoded + 0 + 0 = N
  BY <1>3, <1>4
<1> QED BY <1>5, InvNumbers

LEMMA ReadChunkKeeps ==
  ASSUME FlashInv, ReadChunk, ReaderOnly, source' = source
  PROVE  FlashInv'
<1>kept. /\ Tar' = Tar /\ Program' = Program /\ Blocks' = Blocks /\ Chunks' = Chunks
         /\ Base' = Base /\ Misdeclared' = Misdeclared
  BY SourceKept
<1>nums. /\ decoded \in Nat /\ Len(input) \in Nat /\ Len(buf.q) \in Nat /\ permits \in Nat
         /\ decoded + Len(input) \in Nat /\ BufBytes \in Nat /\ Accepted \in Nat
         /\ Produced \in Nat /\ AtToWrite \in Nat
  BY InvNumbers, InvLengths, SourceFacts DEF FlashInv
<1> USE DEF ReadChunk, ReaderOnly, coordinatorVars, childVars, writerTaskVars, blockWriterVars
<1>1. buf \in Channels(Chunks) /\ buf.q \in Seq(Chunks) /\ buf.q # <<>> /\ buf.rx
  BY InvTypes DEF ChunkReady, CanRecv
<1>2. /\ buf' \in Channels(Chunks) /\ buf'.q = Tail(buf.q) /\ buf'.q \in Seq(Chunks)
      /\ (buf'.tx <=> buf.tx) /\ (buf'.rx <=> buf.rx) /\ permits' = permits + 1
  BY <1>1, ReceivedFacts, NonEmptyFacts DEF TakeChunk
<1>3. /\ NextChunk \in Chunks /\ NextChunk = buf.q[1]
      /\ Len(buf'.q) = Len(buf.q) - 1 /\ Len(buf.q) \in Nat \ {0}
  BY <1>1, <1>2, NonEmptyFacts DEF NextChunk
<1>4. input' \in Seq(Chunks) /\ Len(input') = Len(input) + 1
  BY <1>3, InvTypes
<1>5. /\ permits' + Len(buf'.q) = permits + Len(buf.q)
      /\ decoded + Len(input') + Len(buf'.q) = decoded + Len(input) + Len(buf.q)
  <2> DEFINE before == Len(buf.q)
             after == Len(buf'.q)
  <2>1. after = before - 1 /\ before \in Nat
    BY <1>3
  <2> HIDE DEF before, after
  <2>2. /\ permits' + after = permits + before
        /\ decoded + Len(input') + after = decoded + Len(input) + before
    BY <1>2, <1>4, <1>nums, <2>1
  <2> QED BY <2>2 DEF before, after
<1>6. Accepted' = Accepted /\ Produced' = Produced /\ Inlet' = Inlet
      /\ (Trusted' => Trusted) /\ (Delivering' => Delivering)
  BY <1>kept DEF Accepted, Produced, Inlet, Trusted, Delivering
<1>7. TypeOK'
  <2>1. permits + Len(buf.q) + (IF pc \in {"seed-enqueue", "enqueue"} THEN 1 ELSE 0) = BufBytes
    BY <1>1 DEF FlashInv, BufferPaidFor, PaidFor
  <2>3. permits + 1 <= BufBytes
    <3> DEFINE queued == Len(buf.q)
               due == IF pc \in {"seed-enqueue", "enqueue"} THEN 1 ELSE 0
    <3>1. queued \in Nat \ {0} /\ due \in {0, 1} /\ permits + queued + due = BufBytes
      BY <1>3, <2>1
    <3> HIDE DEF queued, due
    <3> QED BY <1>nums, <3>1
  <2>4. permits' \in 0 .. BufBytes
    BY <1>2, <1>nums, <2>3
  <2> QED BY <1>2, <1>4, <1>kept, <2>4 DEF FlashInv, TypeOK, Chunks
<1>8. BufferPaidFor'
  BY <1>1, <1>5 DEF FlashInv, BufferPaidFor, PaidFor
<1>9. EndsHeld'
  BY <1>1, <1>2, <1>kept DEF FlashInv, EndsHeld
<1>10. Parties' /\ ReaderDone'
  BY <1>kept DEF FlashInv, Parties, ReaderDone
<1>11. Verdicts'
  BY <1>6, <1>kept DEF FlashInv, Verdicts, InletOver
<1>12. Counted'
  BY <1>5, <1>6, <1>kept DEF FlashInv, Counted
<1>13. UpstreamInOrder'
  <2> SUFFICES ASSUME ~derailed
               PROVE  /\ Run(input', decoded) /\ Run(buf'.q, decoded + Len(input'))
                      /\ decoded + Len(input') + Len(buf'.q) = Accepted'
    BY DEF UpstreamInOrder
  <2>1. /\ Run(input, decoded) /\ Run(buf.q, decoded + Len(input))
        /\ decoded + Len(input) + Len(buf.q) = Accepted
    BY DEF FlashInv, UpstreamInOrder
  <2>2. NextChunk = decoded + Len(input) + 1 /\ Run(buf'.q, decoded + Len(input) + 1)
    BY <1>1, <1>2, <1>nums, <2>1, RunTail DEF NextChunk
  <2>3. Run(input', decoded)
    BY <1>3, <1>nums, <2>1, <2>2, InvTypes, RunAppend
  <2>4. decoded + Len(input') = decoded + Len(input) + 1
    BY <1>4, <1>nums
  <2> QED BY <1>5, <1>6, <2>1, <2>2, <2>3, <2>4
<1>14. DecodedIsSound'
  BY <1>kept DEF FlashInv, DecodedIsSound
<1>15. FedInOrder'
  BY FedFrame DEF FlashInv
<1>16. WrittenInOrder'
  BY <1>6, <1>nums, WrittenFrame DEF FlashInv
<1>17. DownstreamInOrder'
  BY <1>6, DownstreamFrame DEF FlashInv
<1> QED BY <1>7, <1>8, <1>9, <1>10, <1>11, <1>12, <1>13, <1>14, <1>15, <1>16, <1>17
        DEF FlashInv

(* The thread returns.                                                     *)
LEMMA ReaderReturnsKeeps ==
  ASSUME FlashInv, NEW how \in {"ok", "err"}, dpc = "running", ThreadReturns(how), ReaderDone',
         pc \notin {"prepare", "seed-acquire", "seed-enqueue"}, ReaderOnly, source' = source
  PROVE  FlashInv'
<1>kept. /\ Tar' = Tar /\ Program' = Program /\ Blocks' = Blocks /\ Chunks' = Chunks
         /\ Base' = Base /\ Misdeclared' = Misdeclared
  BY SourceKept
<1>nums. /\ decoded \in Nat /\ Len(input) \in Nat /\ Len(buf.q) \in Nat
         /\ Accepted \in Nat /\ Produced \in Nat /\ AtToWrite \in Nat /\ Len(<<>>) = 0
  BY InvNumbers, InvLengths
<1> USE DEF ThreadReturns, ReaderOnly, coordinatorVars, childVars, writerTaskVars,
            blockWriterVars
<1>1. /\ buf' \in Channels(Chunks) /\ buf'.q = <<>> /\ (buf'.tx <=> buf.tx) /\ ~buf'.rx
      /\ permits' = permits
  BY InvTypes, RxDroppedFacts DEF DropRx
<1>2. /\ dchan' \in Channels(Blocks) /\ dchan'.q = dchan.q /\ ~dchan'.tx
      /\ (dchan'.rx <=> dchan.rx)
  BY InvTypes, TxDroppedFacts
<1>3. /\ Accepted' = Accepted /\ Produced' = Produced /\ Inlet'.q = Inlet.q
      /\ (~Inlet.tx => ~Inlet'.tx)
      /\ (Trusted' => Trusted) /\ (Delivering' => Delivering)
  BY <1>2, <1>kept DEF Accepted, Produced, Inlet, Trusted, Delivering
<1>4. TypeOK'
  BY <1>1, <1>2, <1>kept DEF FlashInv, TypeOK, Chunks
<1>5. BufferPaidFor'
  BY <1>1 DEF BufferPaidFor, PaidFor
<1>6. EndsHeld'
  BY <1>1, <1>2, <1>kept DEF FlashInv, EndsHeld
<1>7. Parties'
  BY <1>kept DEF FlashInv, Parties
<1>8. Verdicts'
  BY <1>3, <1>kept DEF FlashInv, Verdicts, InletOver
<1>9. Counted'
  <2>1. decoded + Len(input) + Len(buf.q) <= Accepted /\ (Tar => decoded <= Last)
    BY DEF FlashInv, Counted
  <2>2. decoded + Len(input) + Len(buf'.q) <= Accepted'
    <3> DEFINE before == Len(buf.q)
               after == Len(buf'.q)
               read == Len(input)
    <3>1. /\ before \in Nat /\ after = 0 /\ read \in Nat
          /\ decoded + read + before <= Accepted
      BY <1>1, <1>nums, <2>1, EmptySeq
    <3> HIDE DEF before, after, read
    <3>2. decoded + read + after <= Accepted
      BY <1>nums, <3>1
    <3> QED BY <1>3, <3>2 DEF after, read
  <2> QED BY <1>3, <1>kept, <2>1, <2>2 DEF FlashInv, Counted
<1>10. UpstreamInOrder'
  BY DEF UpstreamInOrder
<1>11. DecodedIsSound'
  BY <1>kept DEF FlashInv, DecodedIsSound
<1>12. FedInOrder'
  BY <1>2, FedFrame DEF FlashInv
<1>13. WrittenInOrder'
  BY <1>3, <1>nums, WrittenFrame DEF FlashInv
<1>14. DownstreamInOrder'
  BY <1>3, DownstreamFrame DEF FlashInv
<1> QED BY <1>4, <1>5, <1>6, <1>7, <1>8, <1>9, <1>10, <1>11, <1>12, <1>13, <1>14 DEF FlashInv

(* The decoder thread of a disk image passes a block on.                   *)
LEMMA DecodeKeeps ==
  ASSUME FlashInv, ~Tar, Decode, ReaderOnly, source' = source
  PROVE  FlashInv'
<1>kept. /\ Tar' = Tar /\ Program' = Program /\ Blocks' = Blocks /\ Chunks' = Chunks
         /\ Base' = Base /\ Misdeclared' = Misdeclared
  BY SourceKept
<1>nums. /\ decoded \in Nat /\ N \in Nat /\ conn \in 0 .. N /\ Accepted \in Nat
         /\ AtToWrite \in Nat /\ AtInlet \in Nat /\ Produced \in Nat
         /\ Len(dchan.q) \in Nat /\ Base \in Nat /\ StreamEnd \in Nat
  BY InvNumbers, InvLengths, SourceFacts DEF FlashInv, TypeOK
<1> DEFINE good == Format = "none" \/ IsNext(Head(input))
           item == IF good THEN Head(input) ELSE Garbage
<1> USE DEF ReaderOnly, coordinatorVars, childVars, writerTaskVars, blockWriterVars
<1>1. /\ dpc = "running" /\ dpc' = "running" /\ dchan.tx /\ dchan.rx /\ buf' = buf
      /\ permits' = permits /\ derailed' = ~good /\ dchan' = Sent(dchan, item)
      /\ decoded' = (IF good THEN decoded + 1 ELSE decoded) /\ input' = Tail(input)
  BY DEF Decode, CanSend, FlashInv, EndsHeld
<1>2. /\ Head(input) \in Chunks /\ Len(input) \in Nat /\ Len(input) >= 1
      /\ input' \in Seq(Chunks) /\ Len(input') = Len(input) - 1
  BY <1>1, InvTypes, NonEmptyFacts DEF Decode
<1>3. item \in Blocks
  BY <1>2, <1>nums DEF Chunks, Blocks, Garbage
<1>4. /\ dchan' \in Channels(Blocks) /\ dchan'.q = Append(dchan.q, item)
      /\ dchan'.tx /\ dchan'.rx /\ Len(dchan'.q) = Len(dchan.q) + 1
  <2>1. Len(Append(dchan.q, item)) = Len(dchan.q) + 1
    BY <1>3, InvTypes
  <2> QED BY <1>1, <1>3, <2>1, InvTypes, SentFacts, SentEnds
<1>5. (good => ~derailed) /\ (~derailed => Head(input) = decoded + 1)
  <2>1. good => ~derailed
    BY DEF FlashInv, DecodedIsSound, IsNext
  <2>2. ~derailed => Head(input) = decoded + 1
    <3> SUFFICES ASSUME ~derailed PROVE Head(input) = decoded + 1
      OBVIOUS
    <3>1. Run(input, decoded) /\ input # <<>>
      BY <1>1 DEF FlashInv, UpstreamInOrder, Decode
    <3> QED BY <1>nums, <3>1, InvTypes, RunTail
  <2> QED BY <2>1, <2>2
<1>6. /\ decoded' + Len(input') + Len(buf'.q) <= Accepted' /\ decoded' \in 0 .. N
      /\ good => decoded' + Len(input') = decoded + Len(input)
  <2> DEFINE read == Len(input)
             left == Len(input')
             queued == Len(buf.q)
  <2>1. queued \in Nat /\ read \in Nat /\ read >= 1 /\ left = read - 1
    BY <1>2, InvLengths
  <2>a. decoded + read + queued <= Accepted
    BY DEF FlashInv, Counted
  <2>b. Accepted <= conn
    BY <1>nums DEF Accepted
  <2> HIDE DEF read, left, queued
  <2>2. /\ decoded' + left + queued <= Accepted /\ decoded' \in 0 .. N
        /\ good => decoded' + left = decoded + read
    BY <1>1, <1>nums, <2>1, <2>a, <2>b
  <2>3. Accepted' = Accepted
    BY DEF Accepted
  <2> QED BY <1>1, <2>2, <2>3 DEF read, left, queued
<1>7. /\ Trusted' => good /\ Trusted
      /\ Delivering' => Delivering
      /\ Produced' \in Nat /\ Produced <= Produced'
  <2>1. Produced' \in Nat /\ Produced <= Produced'
    <3>1. decoded' \in {decoded, decoded + 1}
      BY <1>1
    <3> QED BY <1>nums, <1>kept, <3>1 DEF Produced
  <2> QED BY <1>1, <1>5, <1>kept, <2>1 DEF Trusted, Delivering
<1>8. TypeOK'
  BY <1>1, <1>2, <1>4, <1>6, <1>kept DEF FlashInv, TypeOK, Chunks
<1>9. BufferPaidFor' /\ Parties' /\ ReaderDone'
  BY <1>1, <1>kept DEF FlashInv, BufferPaidFor, PaidFor, Parties, ReaderDone
<1>10. EndsHeld'
  BY <1>1, <1>4, <1>kept DEF FlashInv, EndsHeld
<1>11. Verdicts'
  <2>1. Inlet = dchan
    BY DEF Inlet
  <2> QED BY <1>1, <1>kept, <2>1 DEF FlashInv, Verdicts, InletOver
<1>12. Counted'
  BY <1>1, <1>6, <1>kept DEF FlashInv, Counted
<1>13. UpstreamInOrder'
  <2> SUFFICES ASSUME ~derailed'
               PROVE  /\ Run(input', decoded') /\ Run(buf'.q, decoded' + Len(input'))
                      /\ decoded' + Len(input') + Len(buf'.q) = Accepted'
    BY DEF UpstreamInOrder
  <2>1. good /\ ~derailed /\ decoded' = decoded + 1
    BY <1>1, <1>5
  <2>2. /\ Run(input, decoded) /\ Run(buf.q, decoded + Len(input)) /\ input # <<>>
        /\ decoded + Len(input) + Len(buf.q) = Accepted
    BY <1>1, <2>1 DEF FlashInv, UpstreamInOrder, Decode
  <2>3. Run(input', decoded')
    BY <1>1, <1>nums, <2>1, <2>2, InvTypes, RunTail
  <2>4. decoded' + Len(input') = decoded + Len(input) /\ Accepted' = Accepted
    BY <1>6, <2>1 DEF Accepted
  <2> QED BY <1>1, <2>2, <2>3, <2>4
<1>14. DecodedIsSound'
  <2>1. ASSUME derailed' PROVE Format # "none" /\ Undecodable \cap 1 .. Last # {}
    <3>1. CASE derailed
      BY <3>1 DEF FlashInv, DecodedIsSound
    <3>2. CASE ~derailed
      <4>1. Format # "none" /\ ~IsNext(decoded + 1)
        BY <1>1, <1>5, <2>1, <3>2
      <4>2. decoded <= StreamEnd /\ decoded # StreamEnd
        BY <3>2, <4>1 DEF FlashInv, DecodedIsSound, Decode, StreamComplete
      <4>3. decoded + 1 <= StreamEnd /\ decoded + 1 \in 1 .. Last
        BY <1>1, <1>nums, <4>2, SourceFacts DEF FlashInv
      <4> QED BY <3>2, <4>1, <4>3 DEF IsNext
    <3> QED BY <3>1, <3>2
  <2>2. ASSUME ~derailed', Format # "none"
        PROVE  decoded' <= StreamEnd /\ \A k \in 1 .. decoded' : k \notin Undecodable
    <3>1. IsNext(Head(input)) /\ decoded' = decoded + 1 /\ ~derailed
      BY <1>1, <1>5, <2>2
    <3>2. \A k \in 1 .. decoded : k \notin Undecodable
      BY <2>2, <3>1 DEF FlashInv, DecodedIsSound
    <3>3. decoded + 1 <= StreamEnd /\ decoded + 1 \notin Undecodable
      BY <3>1 DEF IsNext
    <3> QED BY <1>nums, <3>1, <3>2, <3>3
  <2> QED BY <1>kept, <2>1, <2>2 DEF DecodedIsSound
<1>15. FedInOrder'
  BY <1>kept DEF FedInOrder
<1>16. WrittenInOrder'
  BY <1>7, <1>nums, WrittenFrame DEF FlashInv
<1>17. DownstreamInOrder'
  <2> SUFFICES ASSUME Trusted', Delivering'
               PROVE  /\ Run(toWrite', AtToWrite') /\ Run(detecting', AtDetecting')
                      /\ Run(Inlet'.q, AtInlet')
                      /\ AtInlet' + Len(Inlet'.q) = decoded'
                      /\ \A k \in First .. AtInlet' : k \notin Unparsable
    BY <1>kept DEF DownstreamInOrder
  <2>1. good /\ Trusted /\ Delivering /\ decoded' = decoded + 1
    BY <1>1, <1>7
  <2>2. /\ Run(toWrite, AtToWrite) /\ Run(detecting, AtDetecting) /\ Run(dchan.q, AtInlet)
        /\ AtInlet + Len(dchan.q) = decoded
        /\ \A k \in First .. AtInlet : k \notin Unparsable
    BY <2>1 DEF FlashInv, DownstreamInOrder, Inlet
  <2>3. /\ AtToWrite' = AtToWrite /\ AtDetecting' = AtDetecting /\ AtInlet' = AtInlet
    BY <1>kept DEF AtWchan, AtToWrite, AtDetecting, AtInlet
  <2>4. item = AtInlet + Len(dchan.q) + 1
    BY <1>5, <2>1, <2>2
  <2>5. Run(dchan'.q, AtInlet)
    BY <1>3, <1>4, <1>nums, <2>2, <2>4, InvTypes, RunAppend
  <2>6. AtInlet + Len(dchan'.q) = decoded + 1
    <3> DEFINE before == Len(dchan.q)
               after == Len(dchan'.q)
    <3>1. before \in Nat /\ after = before + 1 /\ AtInlet + before = decoded
      BY <1>4, <1>nums, <2>2
    <3> HIDE DEF before, after
    <3>2. AtInlet + after = decoded + 1
      BY <1>nums, <3>1
    <3> QED BY <3>2 DEF after
  <2>7. Inlet' = dchan'
    BY <1>kept DEF Inlet
  <2> QED BY <2>1, <2>2, <2>3, <2>5, <2>6, <2>7
<1> HIDE DEF good, item
<1> QED BY <1>8, <1>9, <1>10, <1>11, <1>12, <1>13, <1>14, <1>15, <1>16, <1>17 DEF FlashInv

(* The extractor thread of a tar gets one block further.                   *)
LEMMA ExtractBlockKeeps ==
  ASSUME FlashInv, Tar, ExtractBlock, ReaderOnly, source' = source
  PROVE  FlashInv'
<1>kept. /\ Tar' = Tar /\ Program' = Program /\ Blocks' = Blocks /\ Chunks' = Chunks
         /\ Base' = Base /\ Misdeclared' = Misdeclared
  BY SourceKept
<1>nums. /\ decoded \in Nat /\ N \in Nat /\ conn \in 0 .. N /\ Accepted \in Nat
         /\ AtToWrite \in Nat /\ AtDchan \in Nat /\ Produced \in Nat /\ Last \in Nat
         /\ Len(dchan.q) \in Nat /\ Base \in Nat /\ First = Base + 1 /\ StreamEnd \in Nat
  BY InvNumbers, InvLengths, SourceFacts DEF FlashInv, TypeOK
<1> DEFINE good == Extractable(Head(input))
           item == IF good THEN Head(input) ELSE Garbage
           skipped == decoded + 1 < First
<1> USE DEF ReaderOnly, coordinatorVars, childVars, writerTaskVars, blockWriterVars
<1>1. /\ dpc = "running" /\ dpc' = "running" /\ dchan.tx /\ buf' = buf
      /\ permits' = permits /\ derailed' = ~good
      /\ decoded' = decoded + 1 /\ decoded < Last /\ input' = Tail(input) /\ input # <<>>
      /\ ~Misdeclared /\ (skipped => good /\ dchan' = dchan)
      /\ ~skipped => dchan.rx /\ dchan' = Sent(dchan, item)
  BY DEF ExtractBlock, CanSend, FlashInv, EndsHeld, Extractable
<1>2. /\ Head(input) \in Chunks /\ Len(input) \in Nat /\ Len(input) >= 1
      /\ input' \in Seq(Chunks) /\ Len(input') = Len(input) - 1
  BY <1>1, InvTypes, NonEmptyFacts
<1>3. item \in Blocks
  BY <1>2, <1>nums DEF Chunks, Blocks, Garbage
<1>4. /\ dchan' \in Channels(Blocks) /\ dchan'.tx /\ (dchan'.rx <=> dchan.rx)
      /\ ~skipped => /\ dchan'.q = Append(dchan.q, item)
                     /\ Len(dchan'.q) = Len(dchan.q) + 1
                     /\ dchan'.q[Len(dchan'.q)] = item
  <2>1. /\ Len(Append(dchan.q, item)) = Len(dchan.q) + 1
        /\ Append(dchan.q, item)[Len(dchan.q) + 1] = item
    BY <1>3, InvTypes
  <2>2. CASE skipped
    BY <1>1, <2>2, InvTypes
  <2>3. CASE ~skipped
    <3>1. /\ dchan' \in Channels(Blocks) /\ dchan'.q = Append(dchan.q, item)
          /\ dchan'.tx /\ (dchan'.rx <=> dchan.rx)
      <4>1. dchan' = Sent(dchan, item) /\ dchan.tx
        BY <1>1, <2>3
      <4> HIDE DEF item
      <4> QED BY <1>3, <4>1, InvTypes, SentFacts, SentEnds
    <3> QED BY <2>1, <3>1
  <2> QED BY <2>2, <2>3
<1>5. (good => ~derailed) /\ (~derailed => Head(input) = decoded + 1)
  <2>1. good => ~derailed
    BY DEF FlashInv, DecodedIsSound, IsNext, Extractable
  <2>2. ~derailed => Head(input) = decoded + 1
    <3> SUFFICES ASSUME ~derailed PROVE Head(input) = decoded + 1
      OBVIOUS
    <3>1. Run(input, decoded) /\ input # <<>>
      BY <1>1 DEF FlashInv, UpstreamInOrder
    <3> QED BY <1>nums, <3>1, InvTypes, RunTail
  <2> QED BY <2>1, <2>2
<1>6. /\ decoded' + Len(input') + Len(buf'.q) <= Accepted' /\ decoded' \in 0 .. N
      /\ decoded' + Len(input') = decoded + Len(input)
  <2> DEFINE read == Len(input)
             left == Len(input')
             queued == Len(buf.q)
  <2>1. queued \in Nat /\ read \in Nat /\ read >= 1 /\ left = read - 1
    BY <1>2, InvLengths
  <2>a. decoded + read + queued <= Accepted
    BY DEF FlashInv, Counted
  <2>b. Accepted <= conn
    BY <1>nums DEF Accepted
  <2> HIDE DEF read, left, queued
  <2>2. /\ decoded' + left + queued <= Accepted /\ decoded' \in 0 .. N
        /\ decoded' + left = decoded + read
    BY <1>1, <1>nums, <2>1, <2>a, <2>b
  <2>3. Accepted' = Accepted
    BY DEF Accepted
  <2> QED BY <1>1, <2>2, <2>3 DEF read, left, queued
<1>7. /\ Trusted' => Trusted
      /\ Delivering' => Delivering
      /\ Inlet'.q = Inlet.q /\ Inlet'.tx = Inlet.tx
  BY <1>1, <1>5, <1>kept DEF Trusted, Delivering, Inlet
<1>8. /\ Produced' \in Nat /\ Produced <= Produced'
      /\ skipped => Produced' = Produced
      /\ ~skipped => Produced' = Produced + 1 /\ Produced = decoded
  BY <1>1, <1>nums, <1>kept DEF Produced
<1>9. TypeOK'
  BY <1>1, <1>2, <1>4, <1>6, <1>kept DEF FlashInv, TypeOK, Chunks
<1>10. BufferPaidFor' /\ Parties' /\ ReaderDone'
  BY <1>1, <1>kept DEF FlashInv, BufferPaidFor, PaidFor, Parties, ReaderDone
<1>11. EndsHeld'
  BY <1>1, <1>4, <1>kept DEF FlashInv, EndsHeld
<1>12. Verdicts'
  BY <1>1, <1>7, <1>kept DEF FlashInv, Verdicts, InletOver
<1>13. Counted'
  <2>1. decoded' <= Last
    BY <1>1, <1>nums
  <2> QED BY <1>1, <1>6, <1>kept, <2>1 DEF FlashInv, Counted
<1>14. UpstreamInOrder'
  <2> SUFFICES ASSUME ~derailed'
               PROVE  /\ Run(input', decoded') /\ Run(buf'.q, decoded' + Len(input'))
                      /\ decoded' + Len(input') + Len(buf'.q) = Accepted'
    BY DEF UpstreamInOrder
  <2>1. good /\ ~derailed
    BY <1>1, <1>5
  <2>2. /\ Run(input, decoded) /\ Run(buf.q, decoded + Len(input)) /\ input # <<>>
        /\ decoded + Len(input) + Len(buf.q) = Accepted
    BY <1>1, <2>1 DEF FlashInv, UpstreamInOrder
  <2>3. Run(input', decoded')
    BY <1>1, <1>nums, <2>2, InvTypes, RunTail
  <2>4. decoded' + Len(input') = decoded + Len(input) /\ Accepted' = Accepted
    BY <1>6 DEF Accepted
  <2> QED BY <1>1, <2>2, <2>3, <2>4
<1>15. DecodedIsSound'
  <2>1. ASSUME derailed' PROVE Format # "none" /\ Undecodable \cap 1 .. Last # {}
    <3>1. CASE derailed
      BY <3>1 DEF FlashInv, DecodedIsSound
    <3>2. CASE ~derailed
      <4>1. Format # "none" /\ ~IsNext(decoded + 1)
        BY <1>1, <1>5, <2>1, <3>2 DEF Extractable
      <4>2. decoded <= StreamEnd /\ decoded # StreamEnd
        BY <3>2, <4>1 DEF FlashInv, DecodedIsSound, ExtractBlock, StreamComplete
      <4>3. decoded + 1 <= StreamEnd /\ decoded + 1 \in 1 .. Last
        BY <1>1, <1>nums, <4>2
      <4> QED BY <3>2, <4>1, <4>3 DEF IsNext
    <3> QED BY <3>1, <3>2
  <2>2. ASSUME ~derailed', Format # "none"
        PROVE  decoded' <= StreamEnd /\ \A k \in 1 .. decoded' : k \notin Undecodable
    <3>1. IsNext(Head(input)) /\ decoded' = decoded + 1 /\ ~derailed
      BY <1>1, <1>5, <2>2 DEF Extractable
    <3>2. \A k \in 1 .. decoded : k \notin Undecodable
      BY <2>2, <3>1 DEF FlashInv, DecodedIsSound
    <3>3. decoded + 1 <= StreamEnd /\ decoded + 1 \notin Undecodable
      BY <3>1 DEF IsNext
    <3> QED BY <1>nums, <3>1, <3>2, <3>3
  <2> QED BY <1>1, <1>kept, <2>1, <2>2 DEF DecodedIsSound
<1>16. FedInOrder'
  <2>1. CASE skipped
    BY <1>1, <1>4, <1>5, <1>8, <1>kept, <2>1
       DEF FlashInv, FedInOrder, AtDchan, AtStdin
  <2>2. CASE ~skipped
    <3> DEFINE before == Len(dchan.q)
               after == Len(dchan'.q)
    <3>1. /\ AtDchan' = AtDchan /\ AtStdin' = AtStdin /\ before \in Nat /\ after = before + 1
          /\ dchan'.q = Append(dchan.q, item) /\ dchan'.q[after] = item
      BY <1>4, <1>kept, <1>nums, <2>2 DEF AtDchan, AtStdin
    <3>2. AtDchan + before <= Produced
      BY DEF FlashInv, FedInOrder
    <3>3. AtDchan' + after <= Produced'
      <4> HIDE DEF before, after
      <4> QED BY <1>8, <1>nums, <2>2, <3>1, <3>2
    <3>4. ASSUME child # "failed"
          PROVE  /\ AtDchan' + after = Produced'
                 /\ ~derailed' => Run(stdin'.q, AtStdin') /\ Run(dchan'.q, AtDchan')
                 /\ derailed' => \E i \in 1 .. after : dchan'.q[i] = Garbage
      <4>1. /\ AtDchan + before = Produced
            /\ ~derailed => Run(stdin.q, AtStdin) /\ Run(dchan.q, AtDchan)
        BY <3>4 DEF FlashInv, FedInOrder
      <4>2. AtDchan' + after = Produced'
        <5> HIDE DEF before, after
        <5> QED BY <1>8, <1>nums, <2>2, <3>1, <4>1
      <4>3. ASSUME ~derailed'
            PROVE  Run(stdin'.q, AtStdin') /\ Run(dchan'.q, AtDchan')
        <5>1. good /\ ~derailed /\ item = decoded + 1
          BY <1>1, <1>5, <4>3
        <5>2. item = AtDchan + Len(dchan.q) + 1
          BY <1>8, <2>2, <4>1, <5>1
        <5>3. Run(Append(dchan.q, item), AtDchan)
          BY <1>3, <1>nums, <4>1, <5>1, <5>2, InvTypes, RunAppend
        <5> QED BY <3>1, <4>1, <5>1, <5>3
      <4>4. ASSUME derailed' PROVE \E i \in 1 .. after : dchan'.q[i] = Garbage
        <5>1. dchan'.q[after] = Garbage
          BY <1>1, <3>1, <4>4
        <5>2. after \in 1 .. after
          <6> HIDE DEF before, after
          <6> QED BY <3>1
        <5> QED BY <5>1, <5>2
      <4> QED BY <4>2, <4>3, <4>4
    <3>5. eaten > 0 => Program \in {"none", Inner}
      BY DEF FlashInv, FedInOrder
    <3> QED BY <3>3, <3>4, <3>5, <1>kept DEF FedInOrder
  <2> QED BY <2>1, <2>2
<1>17. WrittenInOrder'
  BY <1>7, <1>8, <1>nums, WrittenFrame DEF FlashInv
<1>18. DownstreamInOrder'
  BY <1>7, DownstreamFrame DEF FlashInv
<1> HIDE DEF good, item, skipped
<1> QED BY <1>9, <1>10, <1>11, <1>12, <1>13, <1>14, <1>15, <1>16, <1>17, <1>18 DEF FlashInv

(* The end of the decoded stream is where it should be.                    *)
LEMMA StreamEndReached ==
  ASSUME FlashInv, dpc = "running", AtStreamEnd, result \in {"none", "ok"}
  PROVE  decoded = StreamEnd /\ ~derailed /\ (Format # "gzip" => StreamEnd = N)
<1>1. Format \in {"none", "gzip", "xz"} /\ (Format = "none" => StreamEnd = N)
  BY SourceFacts DEF FlashInv, Compressions
<1>2. CASE Format = "none"
  <2>1. ~derailed /\ input = <<>> /\ NoMore
    BY <1>2 DEF FlashInv, DecodedIsSound, AtStreamEnd
  <2> QED BY <1>1, <1>2, <2>1, InputOver
<1>3. CASE Format = "gzip"
  BY <1>3 DEF AtStreamEnd, StreamComplete
<1>4. CASE Format = "xz"
  <2>1. ~derailed /\ decoded = StreamEnd /\ input = <<>> /\ NoMore
    BY <1>4 DEF AtStreamEnd, StreamComplete
  <2> QED BY <2>1, InputOver
<1> QED BY <1>1, <1>2, <1>3, <1>4

LEMMA ReaderKeeps ==
  ASSUME FlashInv, ReaderStep, source' = source
  PROVE  FlashInv'
<1>1. ReaderOnly /\ pc # "prepare" /\ Tar' = Tar
  BY SourceKept DEF ReaderStep, ReaderOnly, Launched
<1>2. CASE ReadChunk
  BY <1>1, <1>2, ReadChunkKeeps
<1>3. CASE ~Tar /\ Decode
  BY <1>1, <1>3, DecodeKeeps
<1>4. CASE Tar /\ ExtractBlock
  BY <1>1, <1>4, ExtractBlockKeeps
<1>5. CASE dpc = "running" /\ ThreadReturns("err")
           /\ (input # <<>> \/ NoMore \/ AtStreamEnd)
  <2>1. ReaderDone'
    BY <1>5 DEF ThreadReturns, ReaderDone
  <2>2. pc \notin {"prepare", "seed-acquire", "seed-enqueue"}
    BY <1>5, SeedHasNothing
  <2> QED BY <1>1, <1>5, <2>1, <2>2, ReaderReturnsKeeps
<1>6. CASE dpc = "running" /\ ThreadReturns("ok") /\ (AtStreamEnd \/ (Tar /\ decoded = Last))
  <2>1. ReaderDone'
    <3>1. decoded' = decoded /\ result' = result /\ derailed' = derailed
      BY <1>1, <1>6 DEF ThreadReturns, ReaderOnly, coordinatorVars
    <3> QED BY <1>1, <1>6, <3>1, StreamEndReached DEF ReaderDone
  <2>2. pc \notin {"prepare", "seed-acquire", "seed-enqueue"}
    BY <1>6, SeedHasNothing
  <2> QED BY <1>1, <1>6, <2>1, <2>2, ReaderReturnsKeeps
<1>7. CASE Tar
  <2>1. ExtractorNext
    BY <1>7 DEF ReaderStep
  <2> QED BY <1>2, <1>4, <1>5, <1>6, <1>7, <2>1
          DEF ExtractorNext, ExtractDone, ExtractUnwanted, ExtractError, ExtractTruncated
<1>8. CASE ~Tar
  <2>1. DecoderNext
    BY <1>8 DEF ReaderStep
  <2> QED BY <1>2, <1>3, <1>5, <1>6, <1>8, <2>1
          DEF DecoderNext, DecodedUnwanted, DecodeError, DecodeEnd
<1> QED BY <1>7, <1>8

-----------------------------------------------------------------------------
(* The feeder task and the child.                                          *)

LEMMA FeedKeeps ==
  ASSUME FlashInv, Tar, Feed, ChildOnly, source' = source
  PROVE  FlashInv'
<1>kept. /\ Tar' = Tar /\ Program' = Program /\ Blocks' = Blocks /\ Chunks' = Chunks
         /\ Base' = Base /\ Misdeclared' = Misdeclared
  BY SourceKept
<1>nums. /\ Produced \in Nat /\ AtToWrite \in Nat /\ AtDchan \in Nat /\ AtStdin \in Nat
         /\ Len(stdin.q) \in Nat /\ Len(dchan.q) \in Nat
  BY InvNumbers, InvLengths
<1> DEFINE item == Head(dchan.q)
<1> USE DEF ChildOnly, coordinatorVars, writerTaskVars, blockWriterVars
<1>1. /\ fpc = "running" /\ dchan.rx /\ dchan.q # <<>> /\ stdin.rx /\ child = "running"
      /\ stdin' = Sent(stdin, item) /\ dchan' = Received(dchan)
      /\ UNCHANGED <<fpc, child, eaten, stdout>>
  BY DEF Feed, CanRecv, CanSend, FlashInv, EndsHeld
<1>2. /\ item \in Blocks /\ Len(dchan.q) \in Nat \ {0} /\ item = dchan.q[1]
      /\ Tail(dchan.q) \in Seq(Blocks) /\ Len(Tail(dchan.q)) = Len(dchan.q) - 1
  BY <1>1, InvTypes, NonEmptyFacts
<1>3. /\ dchan' \in Channels(Blocks) /\ dchan'.q = Tail(dchan.q)
      /\ (dchan'.tx <=> dchan.tx) /\ (dchan'.rx <=> dchan.rx)
  BY <1>1, InvTypes, ReceivedFacts
<1>4. /\ stdin' \in Channels(Blocks) /\ stdin'.q = Append(stdin.q, item)
      /\ (stdin'.tx <=> stdin.tx) /\ (stdin'.rx <=> stdin.rx)
  <2>1. stdin' = Sent(stdin, item) /\ item \in Blocks /\ stdin \in Channels(Blocks)
    BY <1>1, <1>2, InvTypes
  <2> HIDE DEF item
  <2> QED BY <2>1, SentFacts, SentEnds
<1>5. Len(Append(stdin.q, item)) = Len(stdin.q) + 1
  BY <1>2, InvTypes
<1>6. /\ AtStdin' = AtStdin /\ AtDchan' = AtDchan + 1
      /\ AtDchan' + Len(dchan'.q) = AtDchan + Len(dchan.q)
  <2> DEFINE in == Len(stdin.q)
             in2 == Len(stdin'.q)
             out == Len(dchan.q)
             out2 == Len(dchan'.q)
  <2>1. in \in Nat /\ out \in Nat /\ in2 = in + 1 /\ out2 = out - 1
    BY <1>2, <1>3, <1>4, <1>5, <1>nums
  <2>2. AtStdin' = AtStdin /\ AtDchan = AtStdin + in /\ AtDchan' = AtStdin + in2
    BY <1>1, <1>kept DEF AtStdin, AtDchan
  <2> HIDE DEF in, in2, out, out2
  <2>3. AtDchan' = AtDchan + 1 /\ AtDchan' + out2 = AtDchan + out
    BY <1>nums, <2>1, <2>2
  <2> QED BY <2>2, <2>3 DEF out, out2
<1>7. /\ Accepted' = Accepted /\ Produced' = Produced /\ Inlet' = Inlet
      /\ (Trusted' => Trusted) /\ (Delivering' => Delivering)
  BY <1>1, <1>kept DEF Accepted, Produced, Inlet, Trusted, Delivering
<1>8. TypeOK'
  BY <1>1, <1>3, <1>4, <1>kept DEF FlashInv, TypeOK
<1>9. BufferPaidFor' /\ Parties' /\ ReaderDone'
  BY <1>kept DEF FlashInv, BufferPaidFor, PaidFor, Parties, ReaderDone
<1>10. EndsHeld'
  BY <1>1, <1>3, <1>4, <1>kept DEF FlashInv, EndsHeld
<1>11. Verdicts'
  BY <1>1, <1>7, <1>kept DEF FlashInv, Verdicts, InletOver
<1>12. Counted' /\ UpstreamInOrder' /\ DecodedIsSound'
  BY <1>7, <1>kept DEF FlashInv, Counted, UpstreamInOrder, DecodedIsSound
<1>13. FedInOrder'
  <2>1. /\ AtDchan + Len(dchan.q) = Produced
        /\ eaten > 0 => Program \in {"none", Inner}
        /\ ~derailed => Run(stdin.q, AtStdin) /\ Run(dchan.q, AtDchan)
        /\ derailed /\ Program # "none" =>
             \/ \E i \in 1 .. Len(stdin.q) : stdin.q[i] = Garbage
             \/ \E i \in 1 .. Len(dchan.q) : dchan.q[i] = Garbage
    BY <1>1 DEF FlashInv, FedInOrder
  <2>2. AtDchan' + Len(dchan'.q) <= Produced' /\ AtDchan' + Len(dchan'.q) = Produced'
    BY <1>6, <1>7, <1>nums, <2>1
  <2>3. ASSUME ~derailed
        PROVE  Run(stdin'.q, AtStdin') /\ Run(dchan'.q, AtDchan')
    <3>1. item = AtDchan + 1 /\ Run(Tail(dchan.q), AtDchan + 1)
      <4>1. /\ dchan.q \in Seq(Blocks) /\ dchan.q # <<>> /\ AtDchan \in Nat
            /\ Run(dchan.q, AtDchan)
        BY <1>1, <1>nums, <2>1, <2>3, InvTypes
      <4> QED BY <4>1, RunTail
    <3>2. item = AtStdin + Len(stdin.q) + 1
      BY <1>nums, <3>1 DEF AtDchan
    <3>3. Run(Append(stdin.q, item), AtStdin)
      <4> HIDE DEF item
      <4> QED BY <1>2, <1>nums, <2>1, <2>3, <3>2, InvTypes, RunAppend
    <3> QED BY <1>3, <1>4, <1>6, <3>1, <3>3
  <2>4. ASSUME derailed, Program # "none"
        PROVE  \/ \E i \in 1 .. Len(stdin'.q) : stdin'.q[i] = Garbage
               \/ \E i \in 1 .. Len(dchan'.q) : dchan'.q[i] = Garbage
    <3>1. CASE \E i \in 1 .. Len(stdin.q) : stdin.q[i] = Garbage
      <4>1. PICK i \in 1 .. Len(stdin.q) : stdin.q[i] = Garbage
        BY <3>1
      <4>2. i \in 1 .. Len(Append(stdin.q, item)) /\ Append(stdin.q, item)[i] = stdin.q[i]
        BY <1>2, <1>5, <1>nums, <4>1, InvTypes
      <4> QED BY <1>4, <4>1, <4>2
    <3>2. CASE \E i \in 1 .. Len(dchan.q) : dchan.q[i] = Garbage
      <4>1. PICK i \in 1 .. Len(dchan.q) : dchan.q[i] = Garbage
        BY <3>2
      <4>2. CASE i = 1
        <5>1. item = Garbage
          BY <1>2, <4>1, <4>2
        <5>2. /\ Append(stdin.q, item)[Len(stdin.q) + 1] = item
              /\ Len(stdin.q) + 1 \in 1 .. Len(Append(stdin.q, item))
          BY <1>2, <1>5, <1>nums, InvTypes
        <5> QED BY <1>4, <5>1, <5>2
      <4>3. CASE i # 1
        <5>1. i - 1 \in 1 .. Len(Tail(dchan.q)) /\ Tail(dchan.q)[i - 1] = dchan.q[i]
          BY <1>1, <1>2, <4>1, <4>3, InvTypes
        <5> QED BY <1>3, <4>1, <5>1
      <4> QED BY <4>2, <4>3
    <3> QED BY <2>1, <2>4, <3>1, <3>2
  <2> QED BY <1>1, <1>kept, <2>1, <2>2, <2>3, <2>4 DEF FedInOrder
<1>14. WrittenInOrder'
  BY <1>7, <1>nums, WrittenFrame DEF FlashInv
<1>15. DownstreamInOrder'
  BY <1>1, <1>7, DownstreamFrame DEF FlashInv
<1> HIDE DEF item
<1> QED BY <1>8, <1>9, <1>10, <1>11, <1>12, <1>13, <1>14, <1>15 DEF FlashInv

LEMMA FeedEndsKeeps ==
  ASSUME FlashInv, Tar, FeedEnds, ChildOnly, source' = source
  PROVE  FlashInv'
<1>kept. /\ Tar' = Tar /\ Program' = Program /\ Blocks' = Blocks /\ Chunks' = Chunks
         /\ Base' = Base /\ Misdeclared' = Misdeclared
  BY SourceKept
<1>nums. /\ Produced \in Nat /\ AtToWrite \in Nat /\ AtDchan \in Nat /\ Len(dchan.q) \in Nat
         /\ Len(<<>>) = 0
  BY InvNumbers, InvLengths
<1> USE DEF ChildOnly, coordinatorVars, writerTaskVars, blockWriterVars
<1>1. /\ fpc = "running" /\ dchan.rx /\ stdin.tx /\ UNCHANGED <<child, eaten, stdout>>
      /\ \/ fpc' = "err" /\ child = "failed"
         \/ fpc' = "ok" /\ dchan.q = <<>> /\ dpc # "running"
  <2>1. CASE CanRecv(dchan) /\ SendFails(stdin) /\ fpc' = "err"
    BY <2>1 DEF FeedEnds, CanRecv, SendFails, FlashInv, TypeOK, EndsHeld, Verdicts
  <2>2. CASE AtEof(dchan) /\ fpc' = "ok"
    BY <2>2 DEF FeedEnds, AtEof, FlashInv, EndsHeld
  <2> QED BY <2>1, <2>2 DEF FeedEnds
<1>2. /\ dchan' \in Channels(Blocks) /\ dchan'.q = <<>> /\ ~dchan'.rx
      /\ (dchan'.tx <=> dchan.tx)
  BY InvTypes, RxDroppedFacts DEF FeedEnds
<1>3. /\ stdin' \in Channels(Blocks) /\ stdin'.q = stdin.q /\ ~stdin'.tx
      /\ (stdin'.rx <=> stdin.rx)
  BY InvTypes, TxDroppedFacts DEF FeedEnds
<1>4. /\ Accepted' = Accepted /\ Produced' = Produced /\ Inlet' = Inlet
      /\ AtStdin' = AtStdin /\ AtDchan' = AtDchan
      /\ (Trusted' => Trusted) /\ (Delivering' => Delivering)
  BY <1>1, <1>3, <1>kept
     DEF Accepted, Produced, Inlet, AtStdin, AtDchan, Trusted, Delivering
<1>5. TypeOK'
  BY <1>1, <1>2, <1>3, <1>kept DEF FlashInv, TypeOK
<1>6. BufferPaidFor' /\ Parties' /\ ReaderDone'
  BY <1>kept, <1>1 DEF FlashInv, BufferPaidFor, PaidFor, Parties, ReaderDone
<1>7. EndsHeld'
  BY <1>1, <1>2, <1>3, <1>kept DEF FlashInv, EndsHeld
<1>8. Verdicts'
  BY <1>1, <1>4, <1>kept DEF FlashInv, Verdicts, InletOver
<1>9. Counted' /\ UpstreamInOrder' /\ DecodedIsSound'
  BY <1>4, <1>kept DEF FlashInv, Counted, UpstreamInOrder, DecodedIsSound
<1>10. FedInOrder'
  <2>1. /\ AtDchan + Len(dchan.q) <= Produced /\ (eaten > 0 => Program \in {"none", Inner})
    BY DEF FlashInv, FedInOrder
  <2>2. AtDchan' + Len(dchan'.q) <= Produced'
    <3>1. AtDchan + 0 <= Produced
      <4> DEFINE out == Len(dchan.q)
      <4>1. out \in Nat /\ AtDchan + out <= Produced
        BY <1>nums, <2>1
      <4> HIDE DEF out
      <4> QED BY <1>nums, <4>1
    <3> QED BY <1>2, <1>4, <1>nums, <3>1
  <2>3. CASE child = "failed"
    BY <1>1, <1>kept, <2>1, <2>2, <2>3 DEF FedInOrder
  <2>4. CASE dchan.q = <<>>
    BY <1>1, <1>2, <1>3, <1>4, <1>kept, <2>4 DEF FlashInv, FedInOrder
  <2> QED BY <1>1, <2>3, <2>4
<1>11. WrittenInOrder'
  BY <1>4, <1>nums, WrittenFrame DEF FlashInv
<1>12. DownstreamInOrder'
  BY <1>1, <1>4, DownstreamFrame DEF FlashInv
<1> QED BY <1>5, <1>6, <1>7, <1>8, <1>9, <1>10, <1>11, <1>12 DEF FlashInv

LEMMA ChildPassesKeeps ==
  ASSUME FlashInv, Tar, ChildPasses, ChildOnly, source' = source
  PROVE  FlashInv'
<1>kept. /\ Tar' = Tar /\ Program' = Program /\ Blocks' = Blocks /\ Chunks' = Chunks
         /\ Base' = Base /\ Misdeclared' = Misdeclared
  BY SourceKept
<1>nums. /\ Produced \in Nat /\ AtToWrite \in Nat /\ AtStdin \in Nat /\ AtDchan \in Nat
         /\ AtInlet \in Nat /\ decoded \in 0 .. N /\ eaten \in Nat /\ Base \in Nat /\ N \in Nat
         /\ Len(stdin.q) \in Nat /\ Len(dchan.q) \in Nat /\ Len(stdout.q) \in Nat
  BY InvNumbers, InvLengths, SourceFacts DEF FlashInv, TypeOK
<1> DEFINE item == IF Program = Inner THEN Head(stdin.q) ELSE Garbage
<1> USE DEF ChildOnly, coordinatorVars, writerTaskVars, blockWriterVars
<1>1. /\ child = "running" /\ stdin.rx /\ stdin.q # <<>> /\ stdout.rx /\ stdout.tx
      /\ Digestible(Head(stdin.q)) /\ stdin' = Received(stdin) /\ eaten' = eaten + 1
      /\ stdout' = Sent(stdout, item) /\ UNCHANGED <<fpc, child, dchan>>
  BY DEF ChildPasses, CanRecv, CanSend, FlashInv, EndsHeld
<1>2. /\ Head(stdin.q) \in Blocks /\ Len(stdin.q) \in Nat \ {0} /\ Head(stdin.q) = stdin.q[1]
      /\ Tail(stdin.q) \in Seq(Blocks) /\ Len(Tail(stdin.q)) = Len(stdin.q) - 1
  BY <1>1, InvTypes, NonEmptyFacts
<1>3. item \in Blocks
  BY <1>2, <1>nums DEF Blocks, Garbage
<1>4. /\ stdin' \in Channels(Blocks) /\ stdin'.q = Tail(stdin.q)
      /\ (stdin'.tx <=> stdin.tx) /\ (stdin'.rx <=> stdin.rx)
  BY <1>1, InvTypes, ReceivedFacts
<1>5. /\ stdout' \in Channels(Blocks) /\ stdout'.q = Append(stdout.q, item)
      /\ stdout'.tx /\ stdout'.rx
  <2>1. stdout' = Sent(stdout, item) /\ stdout.tx /\ stdout.rx
    BY <1>1
  <2> HIDE DEF item
  <2> QED BY <1>3, <2>1, InvTypes, SentFacts, SentEnds
<1>6. Len(Append(stdout.q, item)) = Len(stdout.q) + 1
  BY <1>3, InvTypes
<1>7. /\ AtStdin' = AtStdin + 1 /\ AtDchan' = AtDchan
      /\ AtDchan + Len(dchan.q) <= Produced /\ eaten + 1 \in 0 .. N
  <2> DEFINE in == Len(stdin.q)
             in2 == Len(stdin'.q)
             out == Len(dchan.q)
  <2>1. in \in Nat \ {0} /\ out \in Nat /\ in2 = in - 1
    BY <1>2, <1>4, <1>nums
  <2>2. /\ AtStdin = Base + eaten /\ AtDchan = AtStdin + in
        /\ AtStdin' = Base + eaten' /\ AtDchan' = AtStdin' + in2
    BY <1>kept DEF AtStdin, AtDchan
  <2>3. AtDchan + out <= Produced
    BY DEF FlashInv, FedInOrder
  <2>4. Produced = Base \/ Produced = decoded
    BY DEF Produced
  <2> HIDE DEF in, in2, out
  <2>5. AtStdin' = AtStdin + 1 /\ AtDchan' = AtDchan
    BY <1>1, <1>nums, <2>1, <2>2
  <2>6. eaten + 1 \in 0 .. N
    BY <1>nums, <2>1, <2>2, <2>3, <2>4
  <2> QED BY <2>3, <2>5, <2>6 DEF out
<1>8. /\ Accepted' = Accepted /\ Produced' = Produced /\ Inlet = stdout /\ Inlet' = stdout'
      /\ (Trusted' => Trusted) /\ (Delivering' => Delivering)
  BY <1>1, <1>kept DEF Accepted, Produced, Inlet, Trusted, Delivering
<1>9. TypeOK'
  BY <1>1, <1>4, <1>5, <1>7, <1>kept DEF FlashInv, TypeOK
<1>10. BufferPaidFor' /\ Parties' /\ ReaderDone'
  BY <1>kept, <1>1 DEF FlashInv, BufferPaidFor, PaidFor, Parties, ReaderDone
<1>11. EndsHeld'
  BY <1>1, <1>4, <1>5, <1>kept DEF FlashInv, EndsHeld
<1>12. Verdicts'
  BY <1>1, <1>8, <1>kept DEF FlashInv, Verdicts, InletOver
<1>13. Counted' /\ UpstreamInOrder' /\ DecodedIsSound'
  BY <1>8, <1>kept DEF FlashInv, Counted, UpstreamInOrder, DecodedIsSound
<1>14. Program = "none" \/ Program = Inner
  BY <1>1 DEF Digestible
<1>15. FedInOrder'
  <2>1. /\ AtDchan + Len(dchan.q) = Produced
        /\ ~derailed => Run(stdin.q, AtStdin) /\ Run(dchan.q, AtDchan)
        /\ derailed /\ Program # "none" =>
             \/ \E i \in 1 .. Len(stdin.q) : stdin.q[i] = Garbage
             \/ \E i \in 1 .. Len(dchan.q) : dchan.q[i] = Garbage
    BY <1>1 DEF FlashInv, FedInOrder
  <2>2. AtDchan' + Len(dchan'.q) <= Produced' /\ AtDchan' + Len(dchan'.q) = Produced'
    BY <1>1, <1>7, <1>8, <2>1
  <2>3. ASSUME ~derailed
        PROVE  Run(stdin'.q, AtStdin') /\ Run(dchan'.q, AtDchan')
    <3>1. Run(Tail(stdin.q), AtStdin + 1)
      BY <1>1, <1>nums, <2>1, <2>3, InvTypes, RunTail
    <3> QED BY <1>1, <1>4, <1>7, <2>1, <2>3, <3>1
  <2>4. ASSUME derailed, Program # "none"
        PROVE  \/ \E i \in 1 .. Len(stdin'.q) : stdin'.q[i] = Garbage
               \/ \E i \in 1 .. Len(dchan'.q) : dchan'.q[i] = Garbage
    <3>1. CASE \E i \in 1 .. Len(stdin.q) : stdin.q[i] = Garbage
      <4>1. PICK i \in 1 .. Len(stdin.q) : stdin.q[i] = Garbage
        BY <3>1
      <4>2. stdin.q[1] # Garbage
        BY <1>1, <1>2, <2>4 DEF Digestible
      <4>3. i # 1
        BY <4>1, <4>2
      <4>4. i - 1 \in 1 .. Len(Tail(stdin.q)) /\ Tail(stdin.q)[i - 1] = stdin.q[i]
        BY <1>1, <1>2, <4>1, <4>3, InvTypes
      <4> QED BY <1>4, <4>1, <4>4
    <3> QED BY <1>1, <2>1, <2>4, <3>1
  <2> QED BY <1>1, <1>kept, <1>14, <2>1, <2>2, <2>3, <2>4 DEF FedInOrder
<1>16. WrittenInOrder'
  BY <1>8, <1>nums, WrittenFrame DEF FlashInv
<1>17. DownstreamInOrder'
  <2> SUFFICES ASSUME Trusted', Delivering'
               PROVE  /\ Run(toWrite', AtToWrite') /\ Run(detecting', AtDetecting')
                      /\ Run(Inlet'.q, AtInlet')
                      /\ AtInlet' + Len(Inlet'.q) = AtStdin'
                      /\ \A k \in First .. AtInlet' : k \notin Unparsable
    BY <1>kept DEF DownstreamInOrder
  <2>1. Trusted /\ Delivering /\ ~derailed /\ Program = Inner
    BY <1>8 DEF Trusted
  <2>2. /\ Run(toWrite, AtToWrite) /\ Run(detecting, AtDetecting) /\ Run(stdout.q, AtInlet)
        /\ AtInlet + Len(stdout.q) = AtStdin
        /\ \A k \in First .. AtInlet : k \notin Unparsable
    BY <1>8, <2>1 DEF FlashInv, DownstreamInOrder
  <2>3. /\ AtToWrite' = AtToWrite /\ AtDetecting' = AtDetecting /\ AtInlet' = AtInlet
    BY <1>kept DEF AtWchan, AtToWrite, AtDetecting, AtInlet
  <2>4. Run(stdin.q, AtStdin)
    BY <1>1, <2>1 DEF FlashInv, FedInOrder
  <2>5. item = AtInlet + Len(stdout.q) + 1
    <3>1. Head(stdin.q) = AtStdin + 1
      BY <1>1, <1>nums, <2>4, InvTypes, RunTail
    <3> QED BY <2>1, <2>2, <3>1
  <2>6. Run(Append(stdout.q, item), AtInlet)
    <3> HIDE DEF item
    <3> QED BY <1>3, <1>nums, <2>2, <2>5, InvTypes, RunAppend
  <2>7. AtInlet + Len(stdout'.q) = AtStdin + 1
    <3> DEFINE before == Len(stdout.q)
               after == Len(stdout'.q)
    <3>1. before \in Nat /\ after = before + 1 /\ AtInlet + before = AtStdin
      BY <1>5, <1>6, <1>nums, <2>2
    <3> HIDE DEF before, after
    <3>2. AtInlet + after = AtStdin + 1
      BY <1>nums, <3>1
    <3> QED BY <3>2 DEF after
  <2> QED BY <1>5, <1>7, <1>8, <2>2, <2>3, <2>6, <2>7
<1> HIDE DEF item
<1> QED BY <1>9, <1>10, <1>11, <1>12, <1>13, <1>15, <1>16, <1>17 DEF FlashInv

LEMMA ChildExitsKeeps ==
  ASSUME FlashInv, Tar, ChildExits, ChildOnly, source' = source
  PROVE  FlashInv'
<1>kept. /\ Tar' = Tar /\ Program' = Program /\ Blocks' = Blocks /\ Chunks' = Chunks
         /\ Base' = Base /\ Misdeclared' = Misdeclared
  BY SourceKept
<1>nums. /\ Produced \in Nat /\ AtToWrite \in Nat /\ AtStdin \in Nat /\ Len(<<>>) = 0
         /\ Len(stdin.q) \in Nat /\ Len(dchan.q) \in Nat
  BY InvNumbers, InvLengths
<1> USE DEF ChildOnly, coordinatorVars, writerTaskVars, blockWriterVars
<1>1. /\ child = "running" /\ stdin.rx /\ stdout.tx /\ fpc # "err"
      /\ UNCHANGED <<fpc, eaten, dchan>>
      /\ \/ /\ child' = "exit0" /\ stdin.q = <<>> /\ fpc # "running"
            /\ Program = "none" \/ eaten = Last - First + 1
         \/ child' = "failed"
  <2>1. child = "running" /\ stdin.rx /\ stdout.tx /\ fpc # "err"
    BY DEF ChildExits, FlashInv, EndsHeld, Verdicts
  <2>2. AtEof(stdin) => stdin.q = <<>> /\ fpc # "running"
    BY DEF AtEof, FlashInv, EndsHeld
  <2> QED BY <2>1, <2>2 DEF ChildExits
<1>2. /\ stdin' \in Channels(Blocks) /\ stdin'.q = <<>> /\ ~stdin'.rx
      /\ (stdin'.tx <=> stdin.tx)
  BY InvTypes, RxDroppedFacts DEF ChildExits
<1>3. /\ stdout' \in Channels(Blocks) /\ stdout'.q = stdout.q /\ ~stdout'.tx
      /\ (stdout'.rx <=> stdout.rx)
  BY InvTypes, TxDroppedFacts DEF ChildExits
<1>4. /\ Accepted' = Accepted /\ Produced' = Produced
      /\ Inlet = stdout /\ Inlet' = stdout' /\ AtStdin' = AtStdin
      /\ (Trusted' => Trusted) /\ (Delivering' => Delivering)
  BY <1>1, <1>kept DEF Accepted, Produced, Inlet, AtStdin, Trusted, Delivering
<1>5. TypeOK'
  BY <1>1, <1>2, <1>3, <1>kept DEF FlashInv, TypeOK
<1>6. BufferPaidFor' /\ Parties' /\ ReaderDone'
  BY <1>kept DEF FlashInv, BufferPaidFor, PaidFor, Parties, ReaderDone
<1>7. EndsHeld'
  BY <1>1, <1>2, <1>3, <1>kept DEF FlashInv, EndsHeld
<1>8. Verdicts'
  BY <1>1, <1>4, <1>kept DEF FlashInv, Verdicts, InletOver
<1>9. Counted' /\ UpstreamInOrder' /\ DecodedIsSound'
  BY <1>4, <1>kept DEF FlashInv, Counted, UpstreamInOrder, DecodedIsSound
<1>10. FedInOrder'
  <2>1. /\ AtDchan + Len(dchan.q) <= Produced /\ (eaten > 0 => Program \in {"none", Inner})
    BY DEF FlashInv, FedInOrder
  <2>2. AtDchan' + Len(dchan'.q) <= Produced'
    <3> DEFINE in == Len(stdin.q)
               in2 == Len(stdin'.q)
               out == Len(dchan.q)
    <3>1. in \in Nat /\ out \in Nat /\ in2 = 0 /\ AtStdin + in + out <= Produced
      BY <1>2, <1>nums, <2>1 DEF AtDchan
    <3>2. AtDchan' = AtStdin + in2
      BY <1>4 DEF AtDchan
    <3> HIDE DEF in, in2, out
    <3>3. AtDchan' + out <= Produced
      BY <1>nums, <3>1, <3>2
    <3> QED BY <1>1, <1>4, <3>3 DEF out
  <2>3. CASE child' = "failed"
    BY <1>1, <1>kept, <2>1, <2>2, <2>3 DEF FedInOrder
  <2>4. CASE stdin.q = <<>>
    <3>1. AtDchan' = AtDchan /\ stdin'.q = stdin.q
      BY <1>2, <1>4, <2>4 DEF AtDchan
    <3> QED BY <1>1, <1>4, <1>kept, <3>1 DEF FlashInv, FedInOrder
  <2> QED BY <1>1, <2>3, <2>4
<1>11. WrittenInOrder'
  BY <1>4, <1>nums, WrittenFrame DEF FlashInv
<1>12. DownstreamInOrder'
  BY <1>1, <1>3, <1>4, DownstreamFrame DEF FlashInv
<1> QED BY <1>5, <1>6, <1>7, <1>8, <1>9, <1>10, <1>11, <1>12 DEF FlashInv

LEMMA ChildKeeps ==
  ASSUME FlashInv, FeederStep \/ ChildStep, source' = source
  PROVE  FlashInv'
BY FeedKeeps, FeedEndsKeeps, ChildPassesKeeps, ChildExitsKeeps DEF FeederStep, ChildStep

-----------------------------------------------------------------------------
(* The writer task.                                                        *)

LEMMA WriterTaskFrame ==
  ASSUME FlashInv, WriterTaskOnly, source' = source, Tar => UNCHANGED dchan
  PROVE  /\ BufferPaidFor' /\ ReaderDone' /\ Counted' /\ UpstreamInOrder'
         /\ DecodedIsSound' /\ FedInOrder' /\ Accepted' = Accepted /\ Produced' = Produced
<1> USE DEF WriterTaskOnly, coordinatorVars
<1>1. /\ Tar' = Tar /\ Program' = Program /\ Misdeclared' = Misdeclared /\ Base' = Base
  BY SourceKept
<1>2. Accepted' = Accepted /\ Produced' = Produced
  BY <1>1 DEF Accepted, Produced
<1>3. BufferPaidFor' /\ ReaderDone' /\ Counted' /\ UpstreamInOrder' /\ DecodedIsSound'
  BY <1>1, <1>2 DEF FlashInv, BufferPaidFor, PaidFor, ReaderDone, Counted, UpstreamInOrder,
                    DecodedIsSound
<1>4. FedInOrder'
  <2>1. CASE Tar
    BY <2>1, FedFrame DEF FlashInv
  <2>2. CASE ~Tar
    BY <1>1, <2>2 DEF FedInOrder
  <2> QED BY <2>1, <2>2
<1> QED BY <1>2, <1>3, <1>4

(* What becomes of the inlet, in either pipeline.                          *)
LEMMA InletFacts ==
  ASSUME FlashInv, source' = source, NEW ch \in Channels(Blocks), InletBecomes(ch)
  PROVE  /\ Inlet' = ch /\ dchan' \in Channels(Blocks) /\ stdout' \in Channels(Blocks)
         /\ (Tar => dchan' = dchan /\ stdout' = ch) /\ (~Tar => dchan' = ch /\ stdout' = stdout)
         /\ Inlet \in Channels(Blocks) /\ Inlet.q \in Seq(Blocks)
BY SourceKept, InvTypes DEF Inlet, InletBecomes

LEMMA InletIs ==
  ASSUME FlashInv
  PROVE  /\ Inlet \in Channels(Blocks) /\ Inlet.q \in Seq(Blocks) /\ Len(Inlet.q) \in Nat
         /\ (Tar => Inlet = stdout) /\ (~Tar => Inlet = dchan)
BY InvTypes, InvLengths DEF Inlet

LEMMA LetGoFacts ==
  ASSUME FlashInv, LetGo
  PROVE  /\ wchan' \in Channels(Blocks) /\ wchan'.q = wchan.q /\ ~wchan'.tx
         /\ (wchan'.rx <=> wchan.rx) /\ UNCHANGED <<bpc, device, synced>>
BY InvTypes, TxDroppedFacts DEF LetGo

(* There is never more on its way to the block writer than the reader has  *)
(* passed on.                                                              *)
LEMMA DeliveredInTime ==
  ASSUME FlashInv, Trusted, Delivering
  PROVE  AtToWrite + Len(toWrite) <= Produced
<1>1. AtInlet + Len(Inlet.q) = (IF Tar THEN AtStdin ELSE decoded)
  BY DEF FlashInv, DownstreamInOrder
<1>2. (IF Tar THEN AtStdin ELSE decoded) <= Produced
  <2>1. CASE Tar
    <3> DEFINE in == Len(stdin.q)
               out == Len(dchan.q)
    <3>1. AtStdin + in + out <= Produced /\ in \in Nat /\ out \in Nat
      BY <2>1, InvLengths DEF FlashInv, FedInOrder, AtDchan
    <3> HIDE DEF in, out
    <3>2. AtStdin <= Produced
      <4>1. AtStdin \in Nat /\ Produced \in Nat
        BY InvNumbers
      <4> QED BY <3>1, <4>1
    <3> QED BY <2>1, <3>2
  <2>2. CASE ~Tar
    <3>1. Produced = decoded
      <4>1. decoded \in Nat /\ Base = 0
        BY <2>2, InvNumbers, SourceFacts DEF FlashInv
      <4> QED BY <4>1 DEF Produced
    <3> QED BY <2>2, <3>1, InvNumbers
  <2> QED BY <2>1, <2>2
<1> DEFINE a == Len(toWrite)
           b == Len(detecting)
           c == Len(Inlet.q)
<1>3. /\ a \in Nat /\ b \in Nat /\ c \in Nat /\ AtToWrite \in Nat /\ Produced \in Nat
      /\ AtToWrite + a + b + c <= Produced
  BY <1>1, <1>2, InvNumbers, InvLengths, InletIs DEF AtInlet, AtDetecting
<1> HIDE DEF a, b, c
<1>4. AtToWrite + a <= Produced
  BY <1>3
<1> QED BY <1>4 DEF a

LEMMA ProcessBlockKeeps ==
  ASSUME FlashInv, ProcessBlock, WriterTaskOnly, source' = source
  PROVE  FlashInv'
<1>kept. /\ Tar' = Tar /\ Program' = Program /\ Blocks' = Blocks /\ Chunks' = Chunks
         /\ Base' = Base
  BY SourceKept
<1>nums. /\ AtToWrite \in Nat /\ AtDetecting \in Nat /\ AtInlet \in Nat
         /\ Produced \in Nat /\ First \in Nat
         /\ Len(detecting) \in Nat /\ Len(<<>>) = 0
  BY InvNumbers, InvLengths, SourceFacts DEF FlashInv
<1> DEFINE item == Head(Inlet.q)
           seen == Append(detecting, item)
           over == determined \/ Len(seen) >= DetectLen
<1> USE DEF WriterTaskOnly, coordinatorVars, blockWriterVars
<1>1. /\ wpc = "running" /\ wpc' = "running" /\ toWrite = <<>> /\ Inlet.rx /\ Inlet.q # <<>>
      /\ item \notin Unparsable /\ UNCHANGED blockWriterVars
      /\ over => determined' = TRUE /\ detecting' = <<>> /\ toWrite' = seen
      /\ ~over => detecting' = seen /\ UNCHANGED <<determined, toWrite>>
  BY DEF ProcessBlock, Reading, CanRecv
<1>2. /\ item \in Blocks /\ Len(Inlet.q) \in Nat \ {0}
      /\ Tail(Inlet.q) \in Seq(Blocks) /\ Len(Tail(Inlet.q)) = Len(Inlet.q) - 1
  BY <1>1, InletIs, NonEmptyFacts
<1>3. /\ Received(Inlet) \in Channels(Blocks) /\ Received(Inlet).q = Tail(Inlet.q)
      /\ (Received(Inlet).tx <=> Inlet.tx) /\ (Received(Inlet).rx <=> Inlet.rx)
  BY <1>1, InletIs, ReceivedFacts
<1>4. /\ Inlet' = Received(Inlet)
      /\ dchan' \in Channels(Blocks) /\ stdout' \in Channels(Blocks)
      /\ (Tar => dchan' = dchan /\ stdout' = Received(Inlet))
      /\ (~Tar => dchan' = Received(Inlet) /\ stdout' = stdout)
  BY <1>3, InletFacts DEF ProcessBlock
<1>5. seen \in Seq(Blocks) /\ Len(seen) = Len(detecting) + 1
  BY <1>2, InvTypes
<1>6. /\ BufferPaidFor' /\ ReaderDone' /\ Counted' /\ UpstreamInOrder'
      /\ DecodedIsSound' /\ FedInOrder' /\ Accepted' = Accepted /\ Produced' = Produced
  BY <1>4, WriterTaskFrame
<1>7. TypeOK'
  <2>1. /\ toWrite' \in Seq(Blocks) /\ detecting' \in Seq(Blocks) /\ determined' \in BOOLEAN
    <3>1. <<>> \in Seq(Blocks)
      OBVIOUS
    <3> HIDE DEF seen, over
    <3> QED BY <1>1, <1>5, <3>1, InvTypes DEF FlashInv, TypeOK
  <2> QED BY <1>1, <1>4, <1>kept, <2>1 DEF FlashInv, TypeOK
<1>8. EndsHeld'
  <2>1. CASE Tar
    BY <1>1, <1>3, <1>4, <1>kept, <2>1, InletIs DEF FlashInv, EndsHeld
  <2>2. CASE ~Tar
    BY <1>1, <1>3, <1>4, <1>kept, <2>2, InletIs DEF FlashInv, EndsHeld
  <2> QED BY <2>1, <2>2
<1>9. Parties'
  BY <1>1, <1>4, <1>kept DEF FlashInv, Parties
<1>10. Verdicts'
  BY <1>1, <1>kept DEF FlashInv, Verdicts
<1>11. WrittenInOrder'
  BY <1>1, <1>6, <1>nums, <1>kept, WrittenFrame DEF FlashInv, Trusted
<1>12. DownstreamInOrder'
  <2> SUFFICES ASSUME Trusted', Delivering'
               PROVE  /\ Run(toWrite', AtToWrite') /\ Run(detecting', AtDetecting')
                      /\ Run(Inlet'.q, AtInlet')
                      /\ AtInlet' + Len(Inlet'.q) = (IF Tar THEN AtStdin ELSE decoded)'
                      /\ \A k \in First .. AtInlet' : k \notin Unparsable
    BY DEF DownstreamInOrder
  <2>1. Trusted /\ Delivering
    BY <1>1, <1>kept DEF Trusted, Delivering
  <2>2. /\ Run(detecting, AtDetecting) /\ Run(Inlet.q, AtInlet)
        /\ AtInlet + Len(Inlet.q) = (IF Tar THEN AtStdin ELSE decoded)
        /\ \A k \in First .. AtInlet : k \notin Unparsable
    BY <2>1 DEF FlashInv, DownstreamInOrder
  <2>3. /\ item = AtInlet + 1 /\ Run(Tail(Inlet.q), AtInlet + 1)
    BY <1>1, <1>nums, <2>2, InletIs, RunTail
  <2>4. Run(seen, AtDetecting)
    <3>1. item = AtDetecting + Len(detecting) + 1
      BY <2>3 DEF AtInlet
    <3> HIDE DEF item
    <3> QED BY <1>2, <1>nums, <2>2, <3>1, InvTypes, RunAppend
  <2>5. AtToWrite' = AtToWrite /\ AtDetecting = AtToWrite /\ AtStdin' = AtStdin
    BY <1>1, <1>nums, <1>kept DEF AtDetecting, AtToWrite, AtWchan, AtStdin
  <2>6. /\ Run(toWrite', AtToWrite') /\ Run(detecting', AtDetecting')
        /\ AtInlet' = AtToWrite + Len(seen)
    <3>1. CASE over
      <4>1. toWrite' = seen /\ detecting' = <<>>
        BY <1>1, <3>1
      <4>2. AtInlet' = AtToWrite + Len(seen) + 0
        BY <1>nums, <2>5, <4>1 DEF AtInlet, AtDetecting
      <4> HIDE DEF seen
      <4>3. AtInlet' = AtToWrite + Len(seen)
        <5> DEFINE n == Len(seen)
        <5>1. n \in Nat
          BY <1>5, <1>nums
        <5>2. AtInlet' = AtToWrite + n + 0
          BY <4>2
        <5> HIDE DEF n
        <5>3. AtInlet' = AtToWrite + n
          BY <1>nums, <5>1, <5>2
        <5> QED BY <5>3 DEF n
      <4> QED BY <2>4, <2>5, <4>1, <4>3, EmptyRun
    <3>2. CASE ~over
      <4>1. toWrite' = <<>> /\ detecting' = seen
        BY <1>1, <3>2
      <4>2. AtDetecting' = AtToWrite
        BY <1>nums, <2>5, <4>1 DEF AtDetecting
      <4>3. AtInlet' = AtToWrite + Len(seen)
        BY <4>1, <4>2 DEF AtInlet
      <4> HIDE DEF seen
      <4> QED BY <2>4, <2>5, <4>1, <4>2, <4>3, EmptyRun
    <3> QED BY <3>1, <3>2
  <2>7. AtInlet' = AtInlet + 1
    <3>1. AtInlet = AtToWrite + Len(detecting)
      BY <2>5 DEF AtInlet
    <3> DEFINE n == Len(seen)
               m == Len(detecting)
    <3>2. n = m + 1 /\ m \in Nat /\ AtInlet' = AtToWrite + n /\ AtInlet = AtToWrite + m
      BY <1>5, <1>nums, <2>6, <3>1
    <3> HIDE DEF n, m
    <3> QED BY <1>nums, <3>2
  <2>8. AtInlet' + Len(Inlet'.q) = (IF Tar THEN AtStdin ELSE decoded)
    <3> DEFINE n == Len(Inlet.q)
               m == Len(Inlet'.q)
    <3>1. n \in Nat \ {0} /\ m = n - 1 /\ AtInlet + n = (IF Tar THEN AtStdin ELSE decoded)
      BY <1>2, <1>3, <1>4, <2>2
    <3> HIDE DEF n, m
    <3>2. AtInlet + 1 + m = AtInlet + n
      BY <1>nums, <3>1
    <3> QED BY <2>7, <3>1, <3>2 DEF m
  <2>9. \A k \in First .. AtInlet' : k \notin Unparsable
    <3> SUFFICES ASSUME NEW k \in First .. AtInlet + 1 PROVE k \notin Unparsable
      BY <2>7
    <3>1. k \in First .. AtInlet \/ k = AtInlet + 1
      BY <1>nums
    <3> QED BY <1>1, <2>2, <2>3, <3>1
  <2>10. (IF Tar THEN AtStdin ELSE decoded)' = (IF Tar THEN AtStdin ELSE decoded)
    BY <1>kept, <2>5
  <2> QED BY <1>3, <1>4, <2>3, <2>6, <2>7, <2>8, <2>9, <2>10
<1> HIDE DEF item, seen, over
<1> QED BY <1>6, <1>7, <1>8, <1>9, <1>10, <1>11, <1>12 DEF FlashInv

(* An early return of the task: nobody takes what it says for success.     *)
LEMMA TaskFailsKeeps ==
  ASSUME FlashInv, wpc = "running", TaskFails, WriterTaskOnly, source' = source
  PROVE  FlashInv'
<1>kept. /\ Tar' = Tar /\ Program' = Program /\ Blocks' = Blocks /\ Chunks' = Chunks
         /\ Base' = Base
  BY SourceKept
<1>nums. AtToWrite \in Nat /\ Produced \in Nat
  BY InvNumbers
<1> USE DEF WriterTaskOnly, coordinatorVars
<1>1. wpc' = "err" /\ UNCHANGED <<determined, detecting, toWrite>>
  BY DEF TaskFails
<1>2. /\ RxDropped(Inlet) \in Channels(Blocks) /\ RxDropped(Inlet).q = <<>>
      /\ (RxDropped(Inlet).tx <=> Inlet.tx) /\ ~RxDropped(Inlet).rx
  BY InletIs, RxDroppedFacts
<1>3. /\ dchan' \in Channels(Blocks) /\ stdout' \in Channels(Blocks)
      /\ (Tar => dchan' = dchan /\ stdout' = RxDropped(Inlet))
      /\ (~Tar => dchan' = RxDropped(Inlet) /\ stdout' = stdout)
  BY <1>2, InletFacts DEF TaskFails
<1>4. /\ wchan' \in Channels(Blocks) /\ wchan'.q = wchan.q /\ ~wchan'.tx
      /\ (wchan'.rx <=> wchan.rx) /\ UNCHANGED <<bpc, device, synced>>
  BY LetGoFacts DEF TaskFails
<1>5. /\ BufferPaidFor' /\ ReaderDone' /\ Counted' /\ UpstreamInOrder'
      /\ DecodedIsSound' /\ FedInOrder' /\ Accepted' = Accepted /\ Produced' = Produced
  BY <1>3, WriterTaskFrame
<1>6. TypeOK'
  BY <1>1, <1>3, <1>4, <1>kept DEF FlashInv, TypeOK
<1>7. EndsHeld'
  <2>1. CASE Tar
    BY <1>1, <1>2, <1>3, <1>4, <1>kept, <2>1, InletIs DEF FlashInv, EndsHeld
  <2>2. CASE ~Tar
    BY <1>1, <1>2, <1>3, <1>4, <1>kept, <2>2, InletIs DEF FlashInv, EndsHeld
  <2> QED BY <2>1, <2>2
<1>8. Parties'
  BY <1>1, <1>2, <1>3, <1>kept DEF FlashInv, Parties
<1>9. Verdicts'
  BY <1>1, <1>4, <1>kept DEF FlashInv, Verdicts
<1>10. WrittenInOrder'
  BY <1>4, <1>5, <1>nums, <1>kept, WrittenFrame DEF FlashInv, Trusted
<1>11. DownstreamInOrder'
  BY <1>1 DEF DownstreamInOrder, Delivering
<1> QED BY <1>5, <1>6, <1>7, <1>8, <1>9, <1>10, <1>11 DEF FlashInv

LEMMA ProcessAbandonedKeeps ==
  ASSUME FlashInv, ProcessAbandoned, WriterTaskOnly, source' = source
  PROVE  FlashInv'
<1>kept. /\ Tar' = Tar /\ Program' = Program /\ Blocks' = Blocks /\ Chunks' = Chunks
         /\ Base' = Base
  BY SourceKept
<1>nums. AtToWrite \in Nat /\ Produced \in Nat
  BY InvNumbers
<1> USE DEF WriterTaskOnly, coordinatorVars
<1>1. /\ Tar /\ wpc = "running" /\ wpc' = "closing" /\ result \notin {"none", "ok"}
      /\ Inlet.q # <<>> /\ Inlet.rx /\ UNCHANGED <<determined, detecting, toWrite>>
  BY DEF ProcessAbandoned, Reading, CanRecv, Abandoned, FlashInv, Verdicts
<1>2. /\ Received(Inlet) \in Channels(Blocks)
      /\ (Received(Inlet).tx <=> Inlet.tx) /\ (Received(Inlet).rx <=> Inlet.rx)
  BY <1>1, InletIs, ReceivedFacts
<1>3. stdout' = Received(Inlet) /\ dchan' = dchan /\ Inlet = stdout
  BY <1>1, <1>2, InletFacts, InletIs DEF ProcessAbandoned
<1>4. /\ wchan' \in Channels(Blocks) /\ wchan'.q = wchan.q /\ ~wchan'.tx
      /\ (wchan'.rx <=> wchan.rx) /\ UNCHANGED <<bpc, device, synced>>
  BY LetGoFacts DEF ProcessAbandoned
<1>5. /\ BufferPaidFor' /\ ReaderDone' /\ Counted' /\ UpstreamInOrder'
      /\ DecodedIsSound' /\ FedInOrder' /\ Accepted' = Accepted /\ Produced' = Produced
  BY <1>3, WriterTaskFrame
<1>6. TypeOK'
  BY <1>1, <1>2, <1>3, <1>4, <1>kept DEF FlashInv, TypeOK
<1>7. EndsHeld'
  BY <1>1, <1>2, <1>3, <1>4, <1>kept DEF FlashInv, EndsHeld
<1>8. Parties'
  BY <1>1, <1>kept DEF Parties
<1>9. Verdicts'
  BY <1>1, <1>4, <1>kept DEF FlashInv, Verdicts
<1>10. WrittenInOrder'
  BY <1>4, <1>5, <1>nums, <1>kept, WrittenFrame DEF FlashInv, Trusted
<1>11. DownstreamInOrder'
  BY <1>1 DEF DownstreamInOrder, Delivering
<1> QED BY <1>5, <1>6, <1>7, <1>8, <1>9, <1>10, <1>11 DEF FlashInv

LEMMA HandOverKeeps ==
  ASSUME FlashInv, HandOver, WriterTaskOnly, source' = source
  PROVE  FlashInv'
<1>kept. /\ Tar' = Tar /\ Program' = Program /\ Blocks' = Blocks /\ Chunks' = Chunks
         /\ Base' = Base
  BY SourceKept
<1>nums. /\ AtToWrite \in Nat /\ AtWchan \in Nat /\ Produced \in Nat
         /\ Len(wchan.q) \in Nat /\ Len(toWrite) \in Nat
  BY InvNumbers, InvLengths
<1> DEFINE item == Head(toWrite)
<1> USE DEF WriterTaskOnly, coordinatorVars
<1>1. /\ wpc = "running" /\ toWrite # <<>> /\ wchan.rx /\ wchan' = Sent(wchan, item)
      /\ toWrite' = Tail(toWrite) /\ bpc # "err"
      /\ UNCHANGED <<wpc, determined, detecting, dchan, stdout, bpc, device, synced>>
  BY DEF HandOver, CanSubmit, CanSend, Submit, FlashInv, EndsHeld
<1>2. /\ item \in Blocks /\ Len(toWrite) \in Nat \ {0}
      /\ toWrite' \in Seq(Blocks) /\ Len(toWrite') = Len(toWrite) - 1
  BY <1>1, InvTypes, NonEmptyFacts
<1>3. /\ wchan' \in Channels(Blocks) /\ wchan'.q = Append(wchan.q, item)
      /\ (wchan'.tx <=> wchan.tx) /\ (wchan'.rx <=> wchan.rx)
  <2> HIDE DEF item
  <2> QED BY <1>1, <1>2, InvTypes, SentFacts, SentEnds
<1>4. Len(Append(wchan.q, item)) = Len(wchan.q) + 1
  BY <1>2, InvTypes
<1>5. /\ AtWchan' = AtWchan /\ AtToWrite' = AtToWrite + 1 /\ AtDetecting' = AtDetecting
  <2> DEFINE in == Len(wchan.q)
             in2 == Len(wchan'.q)
             out == Len(toWrite)
             out2 == Len(toWrite')
  <2>1. in \in Nat /\ out \in Nat /\ in2 = in + 1 /\ out2 = out - 1
    BY <1>2, <1>3, <1>4, <1>nums
  <2>2. /\ AtWchan' = AtWchan /\ AtToWrite = AtWchan + in /\ AtToWrite' = AtWchan' + in2
        /\ AtDetecting = AtToWrite + out /\ AtDetecting' = AtToWrite' + out2
    BY <1>1, <1>kept DEF AtWchan, AtToWrite, AtDetecting
  <2> HIDE DEF in, in2, out, out2
  <2> QED BY <1>nums, <2>1, <2>2
<1>6. /\ BufferPaidFor' /\ ReaderDone' /\ Counted' /\ UpstreamInOrder'
      /\ DecodedIsSound' /\ FedInOrder' /\ Accepted' = Accepted /\ Produced' = Produced
  BY <1>1, WriterTaskFrame
<1>7. TypeOK'
  BY <1>1, <1>2, <1>3, <1>kept DEF FlashInv, TypeOK
<1>8. EndsHeld'
  BY <1>1, <1>3, <1>kept DEF FlashInv, EndsHeld
<1>9. Parties' /\ Verdicts'
  BY <1>1, <1>3, <1>kept DEF FlashInv, Parties, Verdicts
<1>10. ASSUME Trusted
       PROVE  /\ Run(device, Base) /\ Run(wchan.q, AtWchan)
              /\ Run(toWrite', AtToWrite + 1) /\ item = AtToWrite + 1
              /\ AtToWrite + 1 <= Produced
  <2>1. Delivering
    BY <1>1 DEF Delivering
  <2>2. Run(toWrite, AtToWrite) /\ Run(device, Base) /\ Run(wchan.q, AtWchan)
    BY <1>10, <2>1 DEF FlashInv, DownstreamInOrder, WrittenInOrder
  <2>3. item = AtToWrite + 1 /\ Run(toWrite', AtToWrite + 1)
    <3>1. toWrite \in Seq(Blocks) /\ toWrite # <<>> /\ toWrite' = Tail(toWrite)
      BY <1>1, InvTypes
    <3>2. Head(toWrite) = AtToWrite + 1 /\ Run(Tail(toWrite), AtToWrite + 1)
      BY <1>nums, <2>2, <3>1, RunTail
    <3> QED BY <3>1, <3>2
  <2>4. AtToWrite + 1 <= Produced
    <3> DEFINE n == Len(toWrite)
    <3>1. n \in Nat \ {0} /\ AtToWrite + n <= Produced
      BY <1>2, <1>10, <2>1, DeliveredInTime
    <3> HIDE DEF n
    <3> QED BY <1>nums, <3>1
  <2> QED BY <2>2, <2>3, <2>4
<1>11. WrittenInOrder'
  <2> SUFFICES ASSUME Trusted'
               PROVE  /\ Run(device', Base') /\ Run(wchan'.q, AtWchan')
                      /\ AtToWrite' <= Produced'
    BY DEF WrittenInOrder
  <2>1. Trusted
    BY <1>kept DEF Trusted
  <2>2. item = AtWchan + Len(wchan.q) + 1
    BY <1>10, <2>1 DEF AtToWrite
  <2>3. Run(Append(wchan.q, item), AtWchan)
    <3>1. Run(wchan.q, AtWchan)
      BY <1>10, <2>1
    <3> HIDE DEF item
    <3> QED BY <1>2, <1>nums, <2>2, <3>1, InvTypes, RunAppend
  <2> QED BY <1>1, <1>3, <1>5, <1>6, <1>10, <1>kept, <2>1, <2>3
<1>12. DownstreamInOrder'
  <2>1. /\ AtInlet' = AtInlet /\ AtStdin' = AtStdin /\ Inlet' = Inlet
        /\ (IF Tar THEN AtStdin ELSE decoded)' = (IF Tar THEN AtStdin ELSE decoded)
    BY <1>1, <1>5, <1>kept DEF AtInlet, AtStdin, Inlet
  <2>2. (Trusted' => Trusted) /\ (Delivering' => Delivering)
    BY <1>1, <1>kept DEF Trusted, Delivering
  <2> HIDE DEF item
  <2> QED BY <1>1, <1>5, <1>10, <2>1, <2>2 DEF FlashInv, DownstreamInOrder
<1> HIDE DEF item
<1> QED BY <1>6, <1>7, <1>8, <1>9, <1>11, <1>12 DEF FlashInv

LEMMA FinalizeFormatKeeps ==
  ASSUME FlashInv, FinalizeFormat, WriterTaskOnly, source' = source
  PROVE  FlashInv'
<1>kept. /\ Tar' = Tar /\ Program' = Program /\ Blocks' = Blocks /\ Chunks' = Chunks
         /\ Base' = Base
  BY SourceKept
<1>nums. /\ AtToWrite \in Nat /\ Produced \in Nat /\ Len(<<>>) = 0 /\ Len(detecting) \in Nat
  BY InvNumbers, InvLengths
<1> USE DEF WriterTaskOnly, coordinatorVars, blockWriterVars
<1>1. /\ wpc = "running" /\ toWrite = <<>> /\ determined' = TRUE /\ detecting' = <<>>
      /\ toWrite' = detecting /\ UNCHANGED <<wpc, dchan, stdout, blockWriterVars>>
  BY DEF FinalizeFormat, AtInletEnd
<1>2. /\ BufferPaidFor' /\ ReaderDone' /\ Counted' /\ UpstreamInOrder'
      /\ DecodedIsSound' /\ FedInOrder' /\ Accepted' = Accepted /\ Produced' = Produced
  BY <1>1, WriterTaskFrame
<1>3. TypeOK'
  <2>1. <<>> \in Seq(Blocks)
    OBVIOUS
  <2> QED BY <1>1, <1>kept, <2>1, InvTypes DEF FlashInv, TypeOK
<1>4. EndsHeld' /\ Parties' /\ Verdicts'
  BY <1>1, <1>kept DEF FlashInv, EndsHeld, Parties, Verdicts
<1>5. WrittenInOrder'
  BY <1>1, <1>2, <1>nums, <1>kept, WrittenFrame DEF FlashInv, Trusted
<1>6. DownstreamInOrder'
  <2>1. AtToWrite' = AtToWrite /\ AtDetecting = AtToWrite /\ AtStdin' = AtStdin
    BY <1>1, <1>nums, <1>kept DEF AtToWrite, AtWchan, AtDetecting, AtStdin
  <2>2. AtInlet' = AtInlet
    <3> DEFINE n == Len(detecting)
    <3>1. AtInlet' = AtToWrite + n + 0 /\ AtInlet = AtToWrite + n /\ n \in Nat
      BY <1>1, <1>nums, <2>1 DEF AtInlet, AtDetecting
    <3> HIDE DEF n
    <3> QED BY <1>nums, <3>1
  <2>3. /\ Inlet' = Inlet /\ (Trusted' => Trusted) /\ (Delivering' => Delivering)
        /\ (IF Tar THEN AtStdin ELSE decoded)' = (IF Tar THEN AtStdin ELSE decoded)
    BY <1>1, <1>kept, <2>1 DEF Inlet, Trusted, Delivering
  <2> QED BY <1>1, <2>1, <2>2, <2>3, EmptyRun DEF FlashInv, DownstreamInOrder
<1> QED BY <1>2, <1>3, <1>4, <1>5, <1>6 DEF FlashInv

(* The task has read all there was, or learns from the reader that it has. *)
LEMMA FinishKeeps ==
  ASSUME FlashInv, FinishInlet \/ JoinReader, WriterTaskOnly, source' = source
  PROVE  FlashInv'
<1>kept. /\ Tar' = Tar /\ Program' = Program /\ Blocks' = Blocks /\ Chunks' = Chunks
         /\ Base' = Base
  BY SourceKept
<1>nums. AtToWrite \in Nat /\ Produced \in Nat
  BY InvNumbers
<1> USE DEF WriterTaskOnly, coordinatorVars
<1>1. /\ UNCHANGED <<determined, detecting, toWrite, dchan, stdout>>
      /\ \/ /\ wpc = "running" /\ toWrite = <<>> /\ detecting = <<>> /\ InletOver
            /\ Tar /\ wpc' = "closing" /\ LetGo
         \/ /\ wpc = "running" /\ toWrite = <<>> /\ detecting = <<>> /\ InletOver
            /\ ~Tar /\ wpc' = "joining" /\ UNCHANGED blockWriterVars
         \/ /\ wpc = "joining" /\ ~Tar /\ LetGo
            /\ wpc' = "err" \/ (wpc' = "closing" /\ dpc = "ok")
  BY DEF FinishInlet, JoinReader, AtInletEnd, AtEof, InletOver, FlashInv, Parties
<1>2. /\ wchan' \in Channels(Blocks) /\ wchan'.q = wchan.q /\ (wchan'.rx <=> wchan.rx)
      /\ (wchan'.tx <=> wpc' = "joining") /\ UNCHANGED <<bpc, device, synced>>
  BY <1>1, LetGoFacts, InvTypes DEF FlashInv, EndsHeld, blockWriterVars
<1>3. /\ BufferPaidFor' /\ ReaderDone' /\ Counted' /\ UpstreamInOrder'
      /\ DecodedIsSound' /\ FedInOrder' /\ Accepted' = Accepted /\ Produced' = Produced
  BY <1>1, WriterTaskFrame
<1>4. TypeOK'
  BY <1>1, <1>2, <1>kept DEF FlashInv, TypeOK
<1>5. EndsHeld'
  BY <1>1, <1>2, <1>kept DEF FlashInv, EndsHeld
<1>6. Parties'
  BY <1>1, <1>kept DEF FlashInv, Parties
<1>7. Inlet' = Inlet
  BY <1>1, <1>kept DEF Inlet
<1>8. Verdicts'
  BY <1>1, <1>2, <1>7, <1>kept DEF FlashInv, Verdicts, InletOver, EndsHeld
<1>9. WrittenInOrder'
  BY <1>2, <1>3, <1>nums, <1>kept, WrittenFrame DEF FlashInv, Trusted
<1>10. DownstreamInOrder'
  <2>1. (Trusted' => Trusted) /\ (Delivering' => Delivering)
    BY <1>1, <1>2, <1>kept DEF Trusted, Delivering
  <2> QED BY <1>1, <1>2, <1>7, <2>1, DownstreamFrame DEF FlashInv
<1> QED BY <1>3, <1>4, <1>5, <1>6, <1>8, <1>9, <1>10 DEF FlashInv

LEMMA WriterClosedKeeps ==
  ASSUME FlashInv, WriterClosed, WriterTaskOnly, source' = source
  PROVE  FlashInv'
<1>kept. /\ Tar' = Tar /\ Program' = Program /\ Blocks' = Blocks /\ Chunks' = Chunks
         /\ Base' = Base
  BY SourceKept
<1>nums. AtToWrite \in Nat /\ Produced \in Nat
  BY InvNumbers
<1> USE DEF WriterTaskOnly, coordinatorVars, blockWriterVars
<1>1. /\ wpc = "closing" /\ wpc' = bpc /\ bpc \in {"ok", "err"}
      /\ UNCHANGED <<determined, detecting, toWrite, blockWriterVars>>
  BY DEF WriterClosed, WriterDone
<1>2. /\ RxDropped(Inlet) \in Channels(Blocks) /\ RxDropped(Inlet).q = <<>>
      /\ (RxDropped(Inlet).tx <=> Inlet.tx) /\ ~RxDropped(Inlet).rx
  BY InletIs, RxDroppedFacts
<1>3. /\ dchan' \in Channels(Blocks) /\ stdout' \in Channels(Blocks)
      /\ Inlet' = RxDropped(Inlet)
      /\ (Tar => dchan' = dchan /\ stdout' = RxDropped(Inlet))
      /\ (~Tar => dchan' = RxDropped(Inlet) /\ stdout' = stdout)
  BY <1>2, InletFacts DEF WriterClosed
<1>4. /\ BufferPaidFor' /\ ReaderDone' /\ Counted' /\ UpstreamInOrder'
      /\ DecodedIsSound' /\ FedInOrder' /\ Accepted' = Accepted /\ Produced' = Produced
  BY <1>3, WriterTaskFrame
<1>5. TypeOK'
  BY <1>1, <1>3, <1>kept DEF FlashInv, TypeOK
<1>6. EndsHeld'
  <2>1. CASE Tar
    BY <1>1, <1>2, <1>3, <1>kept, <2>1, InletIs DEF FlashInv, EndsHeld
  <2>2. CASE ~Tar
    BY <1>1, <1>2, <1>3, <1>kept, <2>2, InletIs DEF FlashInv, EndsHeld
  <2> QED BY <2>1, <2>2
<1>7. Parties'
  BY <1>1, <1>2, <1>3, <1>kept DEF FlashInv, Parties
<1>8. Verdicts'
  <2>1. wpc' \in {"joining", "closing", "ok"} /\ result' \in {"none", "ok"} =>
          toWrite' = <<>> /\ detecting' = <<>> /\ InletOver'
    BY <1>1, <1>2, <1>3 DEF FlashInv, Verdicts, InletOver
  <2> QED BY <1>1, <1>kept, <2>1 DEF FlashInv, Verdicts
<1>9. WrittenInOrder'
  BY <1>1, <1>4, <1>nums, <1>kept, WrittenFrame DEF FlashInv, Trusted
<1>10. DownstreamInOrder'
  <2>1. CASE Delivering'
    <3>1. Delivering /\ result \in {"none", "ok"}
      BY <1>1, <2>1 DEF Delivering
    <3>2. Inlet'.q = Inlet.q
      BY <1>1, <1>2, <1>3, <3>1 DEF FlashInv, Verdicts, InletOver
    <3>3. Trusted' => Trusted
      BY <1>kept DEF Trusted
    <3> QED BY <1>1, <3>1, <3>2, <3>3, DownstreamFrame DEF FlashInv
  <2>2. CASE ~Delivering'
    BY <2>2 DEF DownstreamInOrder
  <2> QED BY <2>1, <2>2
<1> QED BY <1>4, <1>5, <1>6, <1>7, <1>8, <1>9, <1>10 DEF FlashInv

LEMMA WriterTaskKeeps ==
  ASSUME FlashInv, WriterTaskStep, source' = source
  PROVE  FlashInv'
<1>1. WriterTaskOnly
  BY DEF WriterTaskStep
<1>2. ProcessFails \/ HandOverFails => wpc = "running" /\ TaskFails
  BY DEF ProcessFails, HandOverFails, Reading
<1> QED BY <1>1, <1>2, ProcessBlockKeeps, TaskFailsKeeps, ProcessAbandonedKeeps, HandOverKeeps,
           FinalizeFormatKeeps, FinishKeeps, WriterClosedKeeps
        DEF WriterTaskStep

-----------------------------------------------------------------------------
(* The block writer.                                                       *)

BlockWriterOnly == UNCHANGED <<coordinatorVars, childVars, writerTaskVars, decoderVars>>

LEMMA BlockWriterFrame ==
  ASSUME FlashInv, BlockWriterOnly, source' = source
  PROVE  /\ BufferPaidFor' /\ Parties' /\ ReaderDone' /\ Counted' /\ UpstreamInOrder'
         /\ DecodedIsSound' /\ FedInOrder' /\ Produced' = Produced /\ Inlet' = Inlet
         /\ Trusted' = Trusted
<1> USE DEF BlockWriterOnly, coordinatorVars, childVars, writerTaskVars, decoderVars
<1>1. /\ Tar' = Tar /\ Program' = Program /\ Misdeclared' = Misdeclared /\ Base' = Base
  BY SourceKept
<1>2. Accepted' = Accepted /\ Produced' = Produced /\ Inlet' = Inlet /\ Trusted' = Trusted
  BY <1>1 DEF Accepted, Produced, Inlet, Trusted
<1>3. /\ BufferPaidFor' /\ Parties' /\ ReaderDone' /\ Counted' /\ UpstreamInOrder'
      /\ DecodedIsSound'
  BY <1>1, <1>2 DEF FlashInv, BufferPaidFor, PaidFor, Parties, ReaderDone, Counted,
                    UpstreamInOrder, DecodedIsSound
<1>4. FedInOrder'
  BY FedFrame DEF FlashInv
<1> QED BY <1>2, <1>3, <1>4

(* The device opens, or fails, or is finished.                             *)
LEMMA BlockWriterTurnsKeep ==
  ASSUME FlashInv, bpc \in {"opening", "running"}, UNCHANGED device,
         \/ bpc' = "running" /\ UNCHANGED <<wchan, synced>>
         \/ bpc' = "err" /\ wchan' = RxDropped(wchan) /\ UNCHANGED synced
         \/ bpc' = "ok" /\ AtEof(wchan) /\ wchan' = RxDropped(wchan) /\ synced' = TRUE,
         BlockWriterOnly, source' = source
  PROVE  FlashInv'
<1>kept. /\ Tar' = Tar /\ Program' = Program /\ Blocks' = Blocks /\ Chunks' = Chunks
         /\ Base' = Base
  BY SourceKept
<1>nums. /\ AtToWrite \in Nat /\ AtWchan \in Nat /\ Produced \in Nat /\ Len(<<>>) = 0
         /\ Len(wchan.q) \in Nat
  BY InvNumbers, InvLengths
<1>1. /\ BufferPaidFor' /\ Parties' /\ ReaderDone' /\ Counted' /\ UpstreamInOrder'
      /\ DecodedIsSound' /\ FedInOrder' /\ Produced' = Produced /\ Inlet' = Inlet
      /\ Trusted' = Trusted
  BY BlockWriterFrame
<1> USE DEF BlockWriterOnly, coordinatorVars, childVars, writerTaskVars, decoderVars
<1>2. /\ wchan' \in Channels(Blocks) /\ (wchan'.tx <=> wchan.tx)
      /\ (wchan'.rx <=> bpc' = "running") /\ (wchan'.q = wchan.q \/ wchan'.q = <<>>)
      /\ (~wchan'.rx => wchan'.q = <<>>) /\ (bpc' # "err" => wchan'.q = wchan.q)
  <2>1. wchan.rx
    BY DEF FlashInv, EndsHeld
  <2>2. /\ RxDropped(wchan) \in Channels(Blocks) /\ RxDropped(wchan).q = <<>>
        /\ (RxDropped(wchan).tx <=> wchan.tx) /\ ~RxDropped(wchan).rx
    BY InvTypes, RxDroppedFacts
  <2> QED BY <2>1, <2>2, InvTypes DEF AtEof
<1>3. TypeOK'
  <2>1. /\ bpc' \in {"opening", "running", "ok", "err"} /\ synced' \in BOOLEAN
        /\ device' \in Seq(Blocks)
    BY InvTypes DEF FlashInv, TypeOK
  <2>2. N' = N /\ decoded' = decoded /\ buf' = buf /\ dchan' = dchan /\ input' = input
    OBVIOUS
  <2> QED BY <1>2, <1>kept, <2>1, <2>2 DEF FlashInv, TypeOK
<1>4. EndsHeld'
  BY <1>2, <1>kept DEF FlashInv, EndsHeld
<1>5. Verdicts'
  BY <1>1, <1>2, <1>kept DEF FlashInv, Verdicts, InletOver, AtEof
<1>6. AtWchan' = AtWchan /\ AtToWrite' <= AtToWrite /\ AtToWrite' \in Nat
      /\ (wchan'.q = wchan.q => AtToWrite' = AtToWrite)
  <2> DEFINE n == Len(wchan.q)
             m == Len(wchan'.q)
  <2>1. n \in Nat /\ (m = n \/ m = 0) /\ (wchan'.q = wchan.q => m = n)
    BY <1>2, <1>nums
  <2>2. AtWchan' = AtWchan /\ AtToWrite = AtWchan + n /\ AtToWrite' = AtWchan' + m
    BY <1>kept DEF AtWchan, AtToWrite
  <2> HIDE DEF n, m
  <2> QED BY <1>nums, <2>1, <2>2
<1>7. WrittenInOrder'
  <2> SUFFICES ASSUME Trusted'
               PROVE  /\ Run(device', Base') /\ Run(wchan'.q, AtWchan')
                      /\ AtToWrite' <= Produced'
    BY DEF WrittenInOrder
  <2>1. Run(device, Base) /\ Run(wchan.q, AtWchan) /\ AtToWrite <= Produced
    BY <1>1 DEF FlashInv, WrittenInOrder
  <2>2. AtToWrite' <= Produced
    BY <1>6, <1>nums, <2>1
  <2> QED BY <1>1, <1>2, <1>6, <1>kept, <2>1, <2>2, EmptyRun
<1>8. DownstreamInOrder'
  <2>1. CASE bpc' = "err"
    BY <2>1 DEF DownstreamInOrder, Delivering
  <2>2. CASE bpc' # "err"
    <3>1. wchan'.q = wchan.q /\ (Delivering' => Delivering)
      BY <1>2, <2>2 DEF Delivering
    <3> QED BY <1>1, <3>1, DownstreamFrame DEF FlashInv
  <2> QED BY <2>1, <2>2
<1> QED BY <1>1, <1>3, <1>4, <1>5, <1>7, <1>8 DEF FlashInv

LEMMA ExecutedKeeps ==
  ASSUME FlashInv, bpc = "running", CanRecv(wchan), device' = Append(device, Head(wchan.q)),
         wchan' = Received(wchan), synced' = FALSE, UNCHANGED bpc,
         BlockWriterOnly, source' = source
  PROVE  FlashInv'
<1>kept. /\ Tar' = Tar /\ Program' = Program /\ Blocks' = Blocks /\ Chunks' = Chunks
         /\ Base' = Base
  BY SourceKept
<1>nums. /\ AtToWrite \in Nat /\ AtWchan \in Nat /\ Produced \in Nat /\ Base \in Nat
         /\ Len(wchan.q) \in Nat /\ Len(device) \in Nat
  BY InvNumbers, InvLengths
<1>1. /\ BufferPaidFor' /\ Parties' /\ ReaderDone' /\ Counted' /\ UpstreamInOrder'
      /\ DecodedIsSound' /\ FedInOrder' /\ Produced' = Produced /\ Inlet' = Inlet
      /\ Trusted' = Trusted
  BY BlockWriterFrame
<1> DEFINE item == Head(wchan.q)
<1> USE DEF BlockWriterOnly, coordinatorVars, childVars, writerTaskVars, decoderVars
<1>2. /\ item \in Blocks /\ Len(wchan.q) \in Nat \ {0} /\ wchan.q # <<>>
      /\ Len(Tail(wchan.q)) = Len(wchan.q) - 1
  BY InvTypes, NonEmptyFacts DEF CanRecv
<1>3. /\ wchan' \in Channels(Blocks) /\ wchan'.q = Tail(wchan.q)
      /\ (wchan'.tx <=> wchan.tx) /\ (wchan'.rx <=> wchan.rx)
  BY <1>2, InvTypes, ReceivedFacts
<1>4. device' \in Seq(Blocks) /\ Len(device') = Len(device) + 1
  BY <1>2, InvTypes
<1>5. TypeOK'
  <2>1. bpc' \in {"opening", "running", "ok", "err"} /\ synced' \in BOOLEAN
    OBVIOUS
  <2>2. N' = N /\ decoded' = decoded /\ buf' = buf /\ dchan' = dchan /\ input' = input
    OBVIOUS
  <2> QED BY <1>3, <1>4, <1>kept, <2>1, <2>2 DEF FlashInv, TypeOK
<1>6. EndsHeld'
  BY <1>3, <1>kept DEF FlashInv, EndsHeld, CanRecv
<1>7. Verdicts'
  BY <1>1, <1>kept DEF FlashInv, Verdicts, InletOver
<1>8. AtWchan' = AtWchan + 1 /\ AtToWrite' = AtToWrite
  <2> DEFINE n == Len(wchan.q)
             n2 == Len(wchan'.q)
             d == Len(device)
             d2 == Len(device')
  <2>1. n \in Nat /\ n2 = n - 1 /\ d \in Nat /\ d2 = d + 1
    BY <1>2, <1>3, <1>4, <1>nums
  <2>2. /\ AtWchan = Base + d /\ AtWchan' = Base + d2
        /\ AtToWrite = AtWchan + n /\ AtToWrite' = AtWchan' + n2
    BY <1>kept DEF AtWchan, AtToWrite
  <2> HIDE DEF n, n2, d, d2
  <2> QED BY <1>nums, <2>1, <2>2
<1>9. WrittenInOrder'
  <2> SUFFICES ASSUME Trusted'
               PROVE  /\ Run(device', Base) /\ Run(wchan'.q, AtWchan + 1)
                      /\ AtToWrite <= Produced
    BY <1>1, <1>8, <1>kept DEF WrittenInOrder
  <2>1. Run(device, Base) /\ Run(wchan.q, AtWchan) /\ AtToWrite <= Produced
    BY <1>1 DEF FlashInv, WrittenInOrder
  <2>2. item = AtWchan + 1 /\ Run(Tail(wchan.q), AtWchan + 1)
    BY <1>2, <1>nums, <2>1, InvTypes, RunTail
  <2>3. item = Base + Len(device) + 1
    BY <2>2 DEF AtWchan
  <2>4. Run(Append(device, item), Base)
    <3> HIDE DEF item
    <3> QED BY <1>2, <1>nums, <2>1, <2>3, InvTypes, RunAppend
  <2> QED BY <1>3, <2>1, <2>2, <2>4
<1>10. DownstreamInOrder'
  <2>1. Delivering' => Delivering
    BY DEF Delivering
  <2> QED BY <1>1, <1>8, <2>1, DownstreamFrameAt DEF FlashInv
<1> HIDE DEF item
<1> QED BY <1>1, <1>5, <1>6, <1>7, <1>9, <1>10 DEF FlashInv

LEMMA BlockWriterKeeps ==
  ASSUME FlashInv, BlockWriterStep, source' = source
  PROVE  FlashInv'
<1>1. BlockWriterOnly
  BY DEF BlockWriterStep, BlockWriterOnly
<1>2. CASE Open
  BY <1>1, <1>2, BlockWriterTurnsKeep DEF Open, ThreadFails
<1>3. CASE Execute
  BY <1>1, <1>3, BlockWriterTurnsKeep, ExecutedKeeps DEF Execute, ThreadFails
<1>4. CASE FinishWriting
  BY <1>1, <1>4, BlockWriterTurnsKeep DEF FinishWriting, ThreadFails
<1> QED BY <1>2, <1>3, <1>4 DEF BlockWriterStep, BlockWriterNext

-----------------------------------------------------------------------------
(* A step in which nothing happens.                                        *)
LEMMA StutterKeeps == ASSUME FlashInv, UNCHANGED vars PROVE FlashInv'
<1>1. /\ Tar' = Tar /\ Program' = Program /\ Blocks' = Blocks /\ Chunks' = Chunks
      /\ Base' = Base /\ Misdeclared' = Misdeclared /\ source' = source
  BY SourceKept DEF vars
<1> USE DEF vars, coordinatorVars, childVars, writerTaskVars, decoderVars, blockWriterVars
<1>2. /\ Accepted' = Accepted /\ Produced' = Produced /\ Inlet' = Inlet
      /\ AtWchan' = AtWchan /\ AtToWrite' = AtToWrite /\ AtDetecting' = AtDetecting
      /\ AtInlet' = AtInlet /\ AtStdin' = AtStdin /\ AtDchan' = AtDchan
      /\ Trusted' = Trusted /\ Delivering' = Delivering
  BY <1>1 DEF Accepted, Produced, Inlet, AtWchan, AtToWrite, AtDetecting, AtInlet, AtStdin,
              AtDchan, Trusted, Delivering
<1>types. TypeOK'
  <2>1. N' = N /\ decoded' = decoded /\ buf' = buf /\ dchan' = dchan /\ input' = input
    OBVIOUS
  <2> QED BY <1>1, <2>1 DEF FlashInv, TypeOK
<1>3. BufferPaidFor' /\ EndsHeld' /\ Parties'
  BY <1>1 DEF FlashInv, BufferPaidFor, PaidFor, EndsHeld, Parties
<1>4. Verdicts' /\ ReaderDone' /\ Counted' /\ UpstreamInOrder' /\ DecodedIsSound'
  BY <1>1, <1>2
     DEF FlashInv, Verdicts, InletOver, ReaderDone, Counted, UpstreamInOrder, DecodedIsSound
<1>5. FedInOrder' /\ WrittenInOrder'
  BY <1>1, <1>2 DEF FlashInv, FedInOrder, WrittenInOrder
<1>6. DownstreamInOrder'
  BY <1>1, <1>2 DEF FlashInv, DownstreamInOrder
<1> QED BY <1>types, <1>3, <1>4, <1>5, <1>6 DEF FlashInv

LEMMA StepKeeps == FlashInv /\ [Next]_vars => FlashInv'
BY CoordinatorKeeps, ReaderKeeps, ChildKeeps, WriterTaskKeeps, BlockWriterKeeps, StutterKeeps
   DEF Next

(* Every reachable state of the pipeline, whichever it is, keeps its       *)
(* permits accounted for, its ends held by who should hold them, and every *)
(* block in its place.                                                     *)
THEOREM FlashInvariant == Spec => []FlashInv
<1>1. Init => FlashInv
  BY InitHolds
<1>2. FlashInv /\ [Next]_vars => FlashInv'
  BY StepKeeps
<1> QED BY <1>1, <1>2, PTL DEF Spec

-----------------------------------------------------------------------------
(* Consequences.                                                           *)

(* All variables of the pipeline keep to their types, the counters of      *)
(* permits and chunks to their bounds.                                     *)
THEOREM TypesHold == Spec => []TypeOK
<1>1. FlashInv => TypeOK
  BY DEF FlashInv
<1> QED BY <1>1, FlashInvariant, PTL

LEMMA SoundIsTrusted ==
  ASSUME FlashInv, Sound
  PROVE  Trusted
BY DEF FlashInv, DecodedIsSound, Sound, Trusted

(* A sound layer gives the reader nothing to complain about.               *)
LEMMA NextIsGood ==
  ASSUME FlashInv, Sound, dpc = "running", input # <<>>, Format # "none",
         ~StreamComplete \/ Format = "xz", Tar => decoded < Last
  PROVE  IsNext(Head(input)) /\ (Tar => ~Misdeclared)
<1>1. ~derailed /\ (Tar => ~Misdeclared)
  BY SoundIsTrusted DEF Trusted, Sound
<1>2. /\ decoded \in Nat /\ StreamEnd \in Nat /\ Last \in Nat /\ N \in Nat
      /\ input \in Seq(Chunks) /\ (~Tar => Last = StreamEnd) /\ decoded <= StreamEnd
  BY <1>1, InvTypes, InvNumbers, SourceFacts DEF FlashInv, DecodedIsSound
<1>3. Head(input) = decoded + 1 /\ Head(input) \in 1 .. N
  <2>1. Run(input, decoded)
    BY <1>1 DEF FlashInv, UpstreamInOrder
  <2>2. Head(input) = decoded + 1
    BY <1>2, <2>1, RunTail
  <2>3. Head(input) \in Chunks
    BY <1>2, NonEmptyFacts
  <2> QED BY <2>2, <2>3 DEF Chunks
<1>4. decoded + 1 <= StreamEnd /\ decoded + 1 <= Last
  <2>1. CASE Tar
    BY <1>2, <2>1 DEF Sound
  <2>2. CASE ~Tar /\ Format = "xz"
    BY <1>2, <1>3, <2>2 DEF Sound
  <2>3. CASE ~Tar /\ ~StreamComplete
    BY <1>1, <1>2, <2>3 DEF StreamComplete
  <2> QED BY <2>1, <2>2, <2>3
<1>5. decoded + 1 \notin Undecodable
  BY <1>2, <1>4 DEF Sound
<1> QED BY <1>1, <1>3, <1>4, <1>5 DEF IsNext

LEMMA ReaderDoesNotFail ==
  ASSUME FlashInv, NobodyFails, Sound, bpc # "err", result \notin {"broken", "refused"},
         ReaderStep
  PROVE  dpc' # "err"
<1>1. wpc # "err" /\ fpc # "err" /\ result \in {"none", "ok"}
  BY DEF NobodyFails, FlashInv, TypeOK
<1>2. CASE dpc' = dpc
  BY <1>2 DEF NobodyFails
<1>3. CASE dpc = "running" /\ SendFails(dchan)
  <2>1. ~dchan.rx
    BY <1>3 DEF SendFails
  <2>2. CASE Tar
    BY <1>1, <1>3, <2>1, <2>2 DEF FlashInv, TypeOK, EndsHeld, Verdicts
  <2>3. CASE ~Tar
    BY <1>1, <1>3, <2>1, <2>3 DEF FlashInv, TypeOK, EndsHeld, Verdicts
  <2> QED BY <2>2, <2>3
<1>4. /\ decoded \in 0 .. N /\ N \in Nat /\ StreamEnd \in 1 .. N
      /\ Last \in Nat /\ First \in Nat /\ First <= Last /\ ~derailed
  BY SourceFacts, SoundIsTrusted DEF FlashInv, TypeOK, Trusted
<1>5. CASE dpc = "running" /\ input = <<>> /\ NoMore /\ Format # "none" /\ ~StreamComplete
  <2>1. decoded = N
    BY <1>1, <1>4, <1>5, InputOver
  <2>2. decoded <= StreamEnd /\ decoded # StreamEnd
    BY <1>4, <1>5 DEF FlashInv, DecodedIsSound, StreamComplete
  <2> QED BY <1>4, <2>1, <2>2
<1>6. CASE Tar
  <2>1. Last <= StreamEnd /\ ~Misdeclared
    BY <1>6 DEF Sound
  <2>2. CASE ExtractError
    <3>1. dpc = "running" /\ decoded < Last
      BY <2>2 DEF ExtractError
    <3>2. ~(input # <<>> /\ ~Extractable(Head(input)) /\ (StreamComplete => Format = "xz"))
      BY <2>1, <3>1, NextIsGood DEF Extractable
    <3>3. ~(AtStreamEnd /\ decoded < First)
      BY <1>1, <1>4, <2>1, <3>1, StreamEndReached
    <3> QED BY <1>5, <2>2, <3>1, <3>2, <3>3 DEF ExtractError
  <2>3. ExtractorNext
    BY <1>6 DEF ReaderStep
  <2>4. CASE ExtractUnwanted
    BY <1>3, <2>4 DEF ExtractUnwanted
  <2>5. CASE ReadChunk \/ ExtractBlock
    BY <1>2, <2>5 DEF ReadChunk, ExtractBlock
  <2>6. CASE ExtractDone \/ ExtractTruncated
    BY <2>6 DEF ExtractDone, ExtractTruncated, ThreadReturns
  <2> QED BY <2>2, <2>3, <2>4, <2>5, <2>6 DEF ExtractorNext
<1>7. CASE ~Tar
  <2>1. CASE DecodeError
    <3>1. dpc = "running" /\ Format # "none"
      BY <2>1 DEF DecodeError
    <3>2. ~(input # <<>> /\ ~IsNext(Head(input)) /\ (StreamComplete => Format = "xz"))
      BY <1>7, <3>1, NextIsGood
    <3> QED BY <1>5, <2>1, <3>1, <3>2 DEF DecodeError
  <2>2. DecoderNext
    BY <1>7 DEF ReaderStep
  <2>3. CASE DecodedUnwanted
    BY <1>3, <2>3 DEF DecodedUnwanted
  <2>4. CASE ReadChunk \/ Decode
    BY <1>2, <2>4 DEF ReadChunk, Decode
  <2>5. CASE DecodeEnd
    BY <2>5 DEF DecodeEnd, ThreadReturns
  <2> QED BY <2>1, <2>2, <2>3, <2>4, <2>5 DEF DecoderNext
<1> QED BY <1>6, <1>7

(* What the extractor has announced as the whole file is the whole file.   *)
LEMMA AllFed ==
  ASSUME FlashInv, Tar, fpc = "ok", dpc = "ok", child # "failed", stdin.q = <<>>,
         result \in {"none", "ok"}
  PROVE  /\ decoded \in {Last, StreamEnd} /\ decoded <= Last
         /\ Base + eaten = Produced /\ dchan.q = <<>>
<1>1. dchan.q = <<>>
  BY DEF FlashInv, EndsHeld
<1>2. AtDchan + Len(dchan.q) = Produced /\ decoded \in {Last, StreamEnd} /\ decoded <= Last
  BY DEF FlashInv, FedInOrder, ReaderDone, Counted
<1>3. Len(dchan.q) = 0 /\ Len(stdin.q) = 0
  BY <1>1, EmptySeq
<1>4. Base + eaten + 0 + 0 = Produced
  BY <1>2, <1>3 DEF AtDchan, AtStdin
<1>5. Base + eaten = Produced
  BY <1>4, InvNumbers
<1> QED BY <1>1, <1>2, <1>5

LEMMA ChildDoesNotFail ==
  ASSUME FlashInv, NobodyFails, Sound, bpc # "err", result \notin {"broken", "refused"},
         FeederStep \/ ChildStep
  PROVE  fpc' # "err" /\ child' # "failed"
<1>1. /\ Tar /\ dpc # "err" /\ wpc # "err" /\ fpc # "err" /\ child # "failed"
      /\ result \in {"none", "ok"} /\ ~derailed /\ Program = Inner
  BY SoundIsTrusted DEF NobodyFails, FlashInv, TypeOK, FeederStep, ChildStep, Trusted
<1>2. CASE Feed \/ ChildPasses
  BY <1>1, <1>2 DEF Feed, ChildPasses
<1>3. CASE FeedEnds
  <2>1. ~SendFails(stdin)
    BY <1>1, <1>3 DEF FlashInv, TypeOK, EndsHeld, Verdicts, SendFails, FeedEnds
  <2> QED BY <1>1, <1>3, <2>1 DEF FeedEnds
<1>4. CASE ChildExits
  <2>1. child = "running"
    BY <1>4 DEF ChildExits
  <2>2. ASSUME AtEof(stdin)
        PROVE  eaten = Last - First + 1
    <3>1. fpc = "ok" /\ dpc = "ok" /\ stdin.q = <<>>
      BY <1>1, <2>2 DEF FlashInv, TypeOK, EndsHeld, Verdicts, AtEof
    <3>2. decoded \in {Last, StreamEnd} /\ decoded <= Last /\ Base + eaten = Produced
      BY <1>1, <3>1, AllFed
    <3>3. /\ Last <= StreamEnd /\ Last \in Nat /\ StreamEnd \in Nat /\ Base < Last
          /\ Base \in Nat /\ First = Base + 1 /\ eaten \in Nat
      BY <1>1, SourceFacts, InvNumbers DEF Sound, FlashInv
    <3>4. decoded = Last
      BY <3>2, <3>3
    <3>5. Produced = Last
      BY <3>3, <3>4 DEF Produced
    <3> QED BY <3>2, <3>3, <3>5
  <2>3. ~SendFails(stdout)
    BY <1>1, <2>1 DEF FlashInv, TypeOK, EndsHeld, Parties, Verdicts, InletOver, Inlet, SendFails
  <2>4. ASSUME CanRecv(stdin)
        PROVE  Digestible(Head(stdin.q))
    <3>1. Run(stdin.q, AtStdin) /\ stdin.q # <<>>
      BY <1>1, <2>4 DEF FlashInv, FedInOrder, CanRecv
    <3>2. Head(stdin.q) = AtStdin + 1 /\ AtStdin \in Nat
      BY <3>1, InvTypes, InvNumbers, RunTail
    <3>3. Head(stdin.q) # Garbage
      BY <3>2 DEF Garbage
    <3> QED BY <1>1, <3>3 DEF Digestible
  <2>5. child' = "exit0" /\ fpc' = fpc
    BY <1>4, <2>2, <2>3, <2>4 DEF ChildExits
  <2> QED BY <1>1, <2>5
<1> QED BY <1>2, <1>3, <1>4 DEF FeederStep, ChildStep

LEMMA WriterTaskDoesNotFail ==
  ASSUME FlashInv, NobodyFails, Sound, bpc # "err", result \notin {"broken", "refused"},
         WriterTaskStep
  PROVE  wpc' # "err"
<1>1. /\ dpc # "err" /\ wpc # "err" /\ result \in {"none", "ok"} /\ Trusted
  BY SoundIsTrusted DEF NobodyFails, FlashInv, TypeOK
<1>2. CASE ProcessFails
  <2>1. Delivering /\ Inlet.q # <<>> /\ Head(Inlet.q) \in Unparsable
    BY <1>1, <1>2 DEF ProcessFails, Reading, Delivering, CanRecv
  <2>2. /\ Run(Inlet.q, AtInlet)
        /\ AtInlet + Len(Inlet.q) = (IF Tar THEN AtStdin ELSE decoded)
    BY <1>1, <2>1 DEF FlashInv, DownstreamInOrder
  <2>3. (IF Tar THEN AtStdin ELSE decoded) <= Last
    <3> DEFINE in == Len(stdin.q)
               out == Len(dchan.q)
    <3>1. /\ in \in Nat /\ out \in Nat /\ AtStdin \in Nat /\ Produced \in Nat /\ Last \in Nat
          /\ decoded \in 0 .. N /\ Base \in Nat /\ Base < Last
      BY InvLengths, InvNumbers, SourceFacts DEF FlashInv, TypeOK
    <3>2. CASE Tar
      <4>1. AtStdin + in + out <= Produced /\ decoded <= Last
        BY <3>2 DEF FlashInv, FedInOrder, Counted, AtDchan
      <4>2. Produced <= Last
        BY <3>1, <4>1 DEF Produced
      <4> HIDE DEF in, out
      <4>3. AtStdin <= Last
        BY <3>1, <4>1, <4>2
      <4> QED BY <3>2, <4>3
    <3>3. CASE ~Tar
      <4>1. /\ Last = StreamEnd /\ (Format = "none" => StreamEnd = N)
            /\ (Format # "none" => decoded <= StreamEnd)
        BY <1>1, <3>3, SourceFacts DEF FlashInv, DecodedIsSound, Trusted
      <4> QED BY <3>1, <3>3, <4>1
    <3> QED BY <3>2, <3>3
  <2>4. Head(Inlet.q) = AtInlet + 1 /\ Len(Inlet.q) \in Nat \ {0}
    BY <2>1, <2>2, InletIs, InvNumbers, RunTail
  <2>5. AtInlet + 1 \in First .. Last
    <3> DEFINE n == Len(Inlet.q)
               end == IF Tar THEN AtStdin ELSE decoded
    <3>1. /\ n \in Nat \ {0} /\ AtInlet + n = end /\ end <= Last
      BY <2>2, <2>3, <2>4
    <3>2. /\ AtInlet \in Nat /\ end \in Nat /\ Last \in Nat /\ First \in Nat /\ AtInlet >= Base
          /\ First = Base + 1 /\ Base \in Nat
      <4>1. AtInlet \in Nat /\ end \in Nat /\ Last \in Nat /\ First = Base + 1 /\ Base \in Nat
        BY InvNumbers, SourceFacts DEF FlashInv
      <4>2. AtInlet >= Base
        <5> DEFINE a == Len(device)
                   b == Len(wchan.q)
                   c == Len(toWrite)
                   d == Len(detecting)
        <5>1. /\ a \in Nat /\ b \in Nat /\ c \in Nat /\ d \in Nat
              /\ AtInlet = Base + a + b + c + d
          BY InvLengths DEF AtInlet, AtDetecting, AtToWrite, AtWchan
        <5> HIDE DEF a, b, c, d
        <5> QED BY <4>1, <5>1
      <4> QED BY <4>1, <4>2
    <3> HIDE DEF n, end
    <3> QED BY <3>1, <3>2
  <2> QED BY <2>1, <2>4, <2>5 DEF Sound
<1>3. CASE HandOverFails
  <2>1. wpc = "running" /\ ~wchan.rx
    BY <1>3 DEF HandOverFails, SubmitFails, SendFails
  <2> QED BY <2>1 DEF FlashInv, TypeOK, EndsHeld, Verdicts
<1>4. CASE JoinReader
  BY <1>1, <1>4 DEF JoinReader, FlashInv, TypeOK
<1>5. CASE WriterClosed
  BY <1>5 DEF WriterClosed
<1>6. CASE ProcessBlock \/ ProcessAbandoned \/ HandOver \/ FinalizeFormat \/ FinishInlet
  BY <1>1, <1>6 DEF ProcessBlock, ProcessAbandoned, HandOver, FinalizeFormat, FinishInlet
<1> QED BY <1>2, <1>3, <1>4, <1>5, <1>6 DEF WriterTaskStep

LEMMA CoordinatorDoesNotFail ==
  ASSUME FlashInv, NobodyFails, Sound, bpc # "err", result \notin {"broken", "refused"},
         CoordinatorNext
  PROVE  result' # "err"
<1>1. /\ dpc # "err" /\ fpc # "err" /\ child # "failed" /\ wpc # "err" /\ result # "err"
  BY DEF NobodyFails
<1>2. CASE EnqueueRefused
  <2>1. pc = "enqueue"
    BY <1>2 DEF EnqueueRefused, SendFails, FlashInv, EndsHeld, Verdicts
  <2> QED BY <1>1, <1>2, <2>1 DEF EnqueueRefused
<1>3. CASE JoinExtractor
  BY <1>1, <1>3 DEF JoinExtractor, Goto, FlashInv, TypeOK
<1>4. CASE JoinFeeder
  BY <1>1, <1>4 DEF JoinFeeder, Goto, FlashInv, TypeOK
<1>5. CASE Reap
  BY <1>1, <1>5 DEF Reap, Goto, FlashInv, TypeOK
<1>6. CASE JoinWriter
  BY <1>1, <1>6 DEF JoinWriter, Return
<1>7. CASE \/ Prepare \/ StreamChunk \/ StreamEnds \/ StreamBreaks \/ Acquire \/ Enqueue
  BY <1>1, <1>7
     DEF Prepare, StreamChunk, StreamEnds, StreamBreaks, Acquire, Enqueue, Goto, Return
<1> QED BY <1>2, <1>3, <1>4, <1>5, <1>6, <1>7 DEF CoordinatorNext

(* A verdict stands.                                                       *)
LEMMA VerdictsStand ==
  ASSUME FlashInv, [Next]_vars
  PROVE  /\ bpc = "err" => bpc' = "err"
         /\ result # "none" => result' = result
         /\ source' = source
<1> USE DEF coordinatorVars, blockWriterVars
<1>1. CASE UNCHANGED vars
  BY <1>1 DEF vars
<1>2. CASE CoordinatorNext /\ source' = source
  <2>1. bpc' = bpc
    BY <1>2 DEF CoordinatorNext, Prepare, StreamChunk, StreamEnds, StreamBreaks, Acquire,
       Enqueue, EnqueueRefused, JoinExtractor, JoinFeeder, Reap, JoinWriter, CoordinatorOnly
  <2>2. pc # "returned"
    BY <1>2 DEF CoordinatorNext, Prepare, StreamChunk, StreamEnds, StreamBreaks, Acquire,
       Enqueue, EnqueueRefused, JoinExtractor, JoinFeeder, Reap, JoinWriter
  <2> QED BY <1>2, <2>1, <2>2 DEF FlashInv, Verdicts
<1>3. CASE ReaderStep /\ source' = source
  BY <1>3 DEF ReaderStep
<1>4. CASE (FeederStep \/ ChildStep) /\ source' = source
  BY <1>4 DEF FeederStep, ChildStep, ChildOnly
<1>5. CASE WriterTaskStep /\ source' = source
  <2>1. UNCHANGED <<pc, result, conn>>
    BY <1>5 DEF WriterTaskStep, WriterTaskOnly
  <2>2. bpc' = bpc
    BY <1>5 DEF WriterTaskStep, ProcessBlock, ProcessFails, ProcessAbandoned, HandOver,
       HandOverFails, TaskFails, FinalizeFormat, FinishInlet, JoinReader, WriterClosed,
       LetGo, Submit
  <2> QED BY <1>5, <2>1, <2>2
<1>6. CASE BlockWriterStep /\ source' = source
  <2>1. bpc # "err" /\ UNCHANGED result
    BY <1>6 DEF BlockWriterStep, BlockWriterNext, Open, Execute, FinishWriting
  <2> QED BY <1>6, <2>1
<1> QED BY <1>1, <1>2, <1>3, <1>4, <1>5, <1>6 DEF Next

(* What a step leaves to the others.                                       *)
LEMMA OthersVerdicts ==
  ASSUME [Next]_vars
  PROVE  \/ CoordinatorNext /\ UNCHANGED <<dpc, fpc, child, wpc>>
         \/ ReaderStep /\ UNCHANGED <<result, fpc, child, wpc>>
         \/ (FeederStep \/ ChildStep) /\ UNCHANGED <<result, dpc, wpc>>
         \/ WriterTaskStep /\ UNCHANGED <<result, dpc, fpc, child>>
         \/ UNCHANGED <<result, dpc, fpc, child, wpc>>
<1> USE DEF coordinatorVars, childVars, writerTaskVars, decoderVars
<1>1. CASE UNCHANGED vars
  BY <1>1 DEF vars
<1>2. CASE CoordinatorNext
  <2>1. CoordinatorOnly
    BY <1>2 DEF CoordinatorNext, Prepare, StreamChunk, StreamEnds, StreamBreaks, Acquire,
       Enqueue, EnqueueRefused, JoinExtractor, JoinFeeder, Reap, JoinWriter
  <2> QED BY <1>2, <2>1 DEF CoordinatorOnly
<1>3. CASE ReaderStep
  BY <1>3 DEF ReaderStep
<1>4. CASE FeederStep \/ ChildStep
  BY <1>4 DEF FeederStep, ChildStep, ChildOnly
<1>5. CASE WriterTaskStep
  BY <1>5 DEF WriterTaskStep, WriterTaskOnly
<1>6. CASE BlockWriterStep
  BY <1>6 DEF BlockWriterStep
<1> QED BY <1>1, <1>2, <1>3, <1>4, <1>5, <1>6 DEF Next

LEMMA NobodyFailsKeeps ==
  ASSUME FlashInv, NobodyFails, [Next]_vars
  PROVE  NobodyFails'
<1> SUFFICES ASSUME Sound', bpc' # "err", result' \notin {"broken", "refused"}
             PROVE  /\ dpc' # "err" /\ fpc' # "err" /\ child' # "failed" /\ wpc' # "err"
                    /\ result' # "err"
  BY DEF NobodyFails
<1>1. Sound /\ bpc # "err" /\ result \notin {"broken", "refused"}
  <2>1. Sound
    BY VerdictsStand, SourceKept
  <2> QED BY <2>1, VerdictsStand
<1>2. dpc # "err" /\ fpc # "err" /\ child # "failed" /\ wpc # "err" /\ result # "err"
  BY <1>1 DEF NobodyFails
<1> QED BY <1>1, <1>2, OthersVerdicts, CoordinatorDoesNotFail, ReaderDoesNotFail,
           ChildDoesNotFail, WriterTaskDoesNotFail

(* NoFalseAlarm: an extractor that has its file and leaves, a child whose  *)
(* stdin is closed, a channel whose other end has gone are never taken for *)
(* a failure of a flash that only lacks the end (from_oci.rs 1313-1322,    *)
(* 1378-1381).                                                             *)
THEOREM NoFalseAlarmTheorem == Spec => []NoFalseAlarm
<1>1. Init => NobodyFails
  BY DEF Init, DecoderInit, NobodyFails
<1>2. FlashInv /\ NobodyFails /\ [Next]_vars => NobodyFails'
  BY NobodyFailsKeeps
<1>3. NobodyFails => NoFalseAlarm
  BY DEF NobodyFails, NoFalseAlarm
<1> QED BY <1>1, <1>2, <1>3, FlashInvariant, PTL DEF Spec

-----------------------------------------------------------------------------
(* NothingLost.                                                            *)

(* A stretch of the layer, as its length says.                             *)
LEMMA RunIs ==
  ASSUME NEW S, NEW q \in Seq(S), NEW from \in Nat, NEW to \in Nat, Run(q, from),
         from + Len(q) = to
  PROVE  q = FromTo(from + 1, to)
<1> DEFINE n == IF to < from + 1 THEN 0 ELSE to - (from + 1) + 1
<1>1. Len(q) \in Nat /\ q = [k \in 1 .. Len(q) |-> q[k]]
  OBVIOUS
<1>2. n = Len(q)
  <2> DEFINE m == Len(q)
  <2>1. m \in Nat /\ from + m = to
    BY <1>1
  <2> HIDE DEF m
  <2>2. n = m
    BY <2>1
  <2> QED BY <2>2 DEF m
<1> HIDE DEF n
<1>3. \A k \in 1 .. n : q[k] = from + 1 + k - 1
  <2>1. \A k \in 1 .. n : q[k] = from + k
    BY <1>2 DEF Run
  <2>2. \A k \in 1 .. n : from + k = from + 1 + k - 1
    BY <1>1, <1>2
  <2> QED BY <2>1, <2>2
<1>4. q = [k \in 1 .. n |-> from + 1 + k - 1]
  BY <1>1, <1>2, <1>3
<1> QED BY <1>4 DEF FromTo, n

(* Stretches of a layer make one, wherever the first begins.               *)
LEMMA RunJoinFrom ==
  ASSUME NEW S, NEW a \in Seq(S), NEW b \in Seq(S), NEW from \in Nat, NEW at, NEW next,
         from + Len(a) = at, at + Len(b) = next, Run(a, from), Run(b, at)
  PROVE  a \o b \in Seq(S) /\ from + Len(a \o b) = next /\ Run(a \o b, from)
<1>1. a \o b \in Seq(S) /\ Len(a \o b) = Len(a) + Len(b) /\ Run(a \o b, from)
  BY RunConcat
<1>2. from + (Len(a) + Len(b)) = next
  <2> DEFINE m == Len(a)
             n == Len(b)
  <2>1. m \in Nat /\ n \in Nat /\ from + m = at /\ at + n = next
    OBVIOUS
  <2> HIDE DEF m, n
  <2>2. from + (m + n) = next
    BY <2>1
  <2> QED BY <2>2 DEF m, n
<1> QED BY <1>1, <1>2

(* The end of what the reader has passed on, whichever way it takes.       *)
LEMMA InFlightInOrder ==
  ASSUME FlashInv, Sound, NoStageFailed
  PROVE  /\ Run(stdout.q, AtInlet)
         /\ Run(stdin.q, AtInlet + Len(stdout.q))
         /\ Run(dchan.q, AtInlet + Len(stdout.q) + Len(stdin.q))
         /\ AtInlet + Len(stdout.q) + Len(stdin.q) + Len(dchan.q) = Produced
<1>1. Trusted /\ Delivering /\ ~derailed
  BY SoundIsTrusted DEF Delivering, NoStageFailed, Trusted
<1>2. /\ Run(Inlet.q, AtInlet)
      /\ AtInlet + Len(Inlet.q) = (IF Tar THEN AtStdin ELSE decoded)
  BY <1>1 DEF FlashInv, DownstreamInOrder
<1>3. CASE Tar
  <2>1. /\ AtDchan + Len(dchan.q) = Produced /\ Run(stdin.q, AtStdin) /\ Run(dchan.q, AtDchan)
    BY <1>1, <1>3 DEF FlashInv, FedInOrder, NoStageFailed
  <2>2. AtInlet + Len(stdout.q) = AtStdin /\ Run(stdout.q, AtInlet)
    BY <1>2, <1>3 DEF Inlet
  <2> QED BY <2>1, <2>2 DEF AtDchan
<1>4. CASE ~Tar
  <2>1. stdout.q = <<>> /\ stdin.q = <<>> /\ Inlet = dchan
    BY <1>4 DEF FlashInv, Parties, Inlet
  <2>2. /\ Len(stdout.q) = 0 /\ Len(stdin.q) = 0 /\ AtInlet \in Nat
        /\ Produced = decoded
    <3>1. Produced = decoded
      <4>1. decoded \in Nat /\ Base = 0
        BY <1>4, InvNumbers, SourceFacts DEF FlashInv
      <4> QED BY <4>1 DEF Produced
    <3> QED BY <2>1, <3>1, InvLengths, InvNumbers
  <2>3. AtInlet + 0 = AtInlet /\ AtInlet + 0 + 0 = AtInlet
    BY <2>2
  <2> QED BY <1>2, <1>4, <2>1, <2>2, <2>3, EmptyRun
<1> QED BY <1>3, <1>4

LEMMA DownstreamIs ==
  ASSUME FlashInv, Sound, NoStageFailed
  PROVE  Downstream = FromTo(First, decoded)
<1>1. Trusted /\ Delivering
  BY SoundIsTrusted DEF Delivering, NoStageFailed
<1>2. /\ device \in Seq(Blocks) /\ wchan.q \in Seq(Blocks) /\ toWrite \in Seq(Blocks)
      /\ detecting \in Seq(Blocks) /\ stdout.q \in Seq(Blocks) /\ stdin.q \in Seq(Blocks)
      /\ dchan.q \in Seq(Blocks)
  BY InvTypes
<1>3. Run(device, Base) /\ Run(wchan.q, AtWchan)
  BY <1>1 DEF FlashInv, WrittenInOrder
<1>4. Run(toWrite, AtToWrite) /\ Run(detecting, AtDetecting)
  BY <1>1 DEF FlashInv, DownstreamInOrder
<1>5. Base \in Nat /\ decoded \in Nat /\ Produced \in Nat /\ First = Base + 1
  BY InvNumbers, SourceFacts DEF FlashInv
<1>6. /\ Base + Len(device) = AtWchan /\ AtWchan + Len(wchan.q) = AtToWrite
      /\ AtToWrite + Len(toWrite) = AtDetecting /\ AtDetecting + Len(detecting) = AtInlet
  BY DEF AtWchan, AtToWrite, AtDetecting, AtInlet
<1> DEFINE s2 == device \o wchan.q
           s3 == s2 \o toWrite
           s4 == s3 \o detecting
           s5 == s4 \o stdout.q
           s6 == s5 \o stdin.q
           s7 == s6 \o dchan.q
           at6 == AtInlet + Len(stdout.q)
           at7 == at6 + Len(stdin.q)
<1>7. /\ Run(stdout.q, AtInlet) /\ Run(stdin.q, at6) /\ Run(dchan.q, at7)
      /\ at7 + Len(dchan.q) = Produced
  BY InFlightInOrder
<1>8. AtInlet + Len(stdout.q) = at6 /\ at6 + Len(stdin.q) = at7
  OBVIOUS
<1> HIDE DEF at6, at7
<1>9. s2 \in Seq(Blocks) /\ Base + Len(s2) = AtToWrite /\ Run(s2, Base)
  BY <1>2, <1>3, <1>5, <1>6, RunJoinFrom
<1> HIDE DEF s2
<1>10. s3 \in Seq(Blocks) /\ Base + Len(s3) = AtDetecting /\ Run(s3, Base)
  BY <1>2, <1>4, <1>5, <1>6, <1>9, RunJoinFrom
<1> HIDE DEF s3
<1>11. s4 \in Seq(Blocks) /\ Base + Len(s4) = AtInlet /\ Run(s4, Base)
  BY <1>2, <1>4, <1>5, <1>6, <1>10, RunJoinFrom
<1> HIDE DEF s4
<1>12. s5 \in Seq(Blocks) /\ Base + Len(s5) = at6 /\ Run(s5, Base)
  BY <1>2, <1>5, <1>7, <1>8, <1>11, RunJoinFrom
<1> HIDE DEF s5
<1>13. s6 \in Seq(Blocks) /\ Base + Len(s6) = at7 /\ Run(s6, Base)
  BY <1>2, <1>5, <1>7, <1>8, <1>12, RunJoinFrom
<1> HIDE DEF s6
<1>14. s7 \in Seq(Blocks) /\ Base + Len(s7) = Produced /\ Run(s7, Base)
  BY <1>2, <1>5, <1>7, <1>13, RunJoinFrom
<1> HIDE DEF s7
<1>15. s7 = FromTo(First, Produced)
  BY <1>5, <1>14, RunIs
<1>16. FromTo(First, Produced) = FromTo(First, decoded)
  <2>1. CASE decoded < Base
    <3>1. Produced < First /\ decoded < First
      BY <1>5, <2>1 DEF Produced
    <3> QED BY <3>1 DEF FromTo
  <2>2. CASE ~(decoded < Base)
    BY <2>2 DEF Produced
  <2> QED BY <2>1, <2>2
<1>17. Downstream = s7
  BY DEF Downstream, s2, s3, s4, s5, s6, s7
<1> QED BY <1>15, <1>16, <1>17

LEMMA UpstreamIs ==
  ASSUME FlashInv, Sound, dpc = "running"
  PROVE  Upstream = FromTo(decoded + 1, Accepted)
<1>1. /\ Run(input, decoded) /\ Run(buf.q, decoded + Len(input))
      /\ decoded + Len(input) + Len(buf.q) = Accepted
  BY SoundIsTrusted DEF Trusted, FlashInv, UpstreamInOrder
<1>2. input \in Seq(Chunks) /\ buf.q \in Seq(Chunks) /\ decoded \in Nat /\ Accepted \in Nat
  BY InvTypes, InvNumbers
<1>3. /\ Upstream \in Seq(Chunks) /\ decoded + Len(Upstream) = Accepted
      /\ Run(Upstream, decoded)
  <2> DEFINE at == decoded + Len(input)
  <2>1. decoded + Len(input) = at /\ at + Len(buf.q) = Accepted /\ Run(buf.q, at)
    BY <1>1
  <2> HIDE DEF at
  <2>2. /\ input \o buf.q \in Seq(Chunks) /\ decoded + Len(input \o buf.q) = Accepted
        /\ Run(input \o buf.q, decoded)
    BY <1>1, <1>2, <2>1, RunJoinFrom
  <2> QED BY <2>2 DEF Upstream
<1> QED BY <1>2, <1>3, RunIs

(* NothingLost: across the change from detection to streaming, the end of  *)
(* the format detection, the pipes and the early end of the extraction the *)
(* pipeline holds the image, without gap, repetition or foreign block      *)
(* (from_oci.rs 1276, 1566).                                               *)
THEOREM NothingLostTheorem == Spec => []NothingLost
<1>1. FlashInv => NothingLost
  BY DownstreamIs, UpstreamIs DEF NothingLost
<1> QED BY <1>1, FlashInvariant, PTL

-----------------------------------------------------------------------------
(* flash_from_oci implements module Flash.                                 *)

(* Ok is answered when the image is on the device, and only of a layer     *)
(* with which all is well, or in which nothing can tell.                   *)
Justified == result = "ok" /\ ~Unnoticed => Sound /\ device = Image /\ synced

LEMMA OkIsJustified ==
  ASSUME FlashInv
  PROVE  Justified
<1> SUFFICES ASSUME result = "ok", ~Unnoticed
             PROVE  Sound /\ device = Image /\ synced
  BY DEF Justified
<1>1. /\ wpc = "ok" /\ dpc = "ok" /\ bpc = "ok" /\ synced
      /\ (Tar => fpc = "ok" /\ child = "exit0")
      /\ toWrite = <<>> /\ detecting = <<>> /\ Inlet.q = <<>>
  BY DEF FlashInv, Verdicts, InletOver
<1>2. wchan.q = <<>> /\ dpc # "running"
  BY <1>1 DEF FlashInv, EndsHeld
<1>3. /\ Base \in Nat /\ Last \in Nat /\ StreamEnd \in Nat /\ N \in Nat /\ First = Base + 1
      /\ Base < Last /\ decoded \in 0 .. N /\ eaten \in Nat
      /\ (~Tar => Base = 0 /\ First = 1 /\ Last = StreamEnd)
      /\ (Format = "none" => StreamEnd = N /\ Undecodable = {})
      /\ Format \in {"none", "gzip", "xz"}
  BY SourceFacts DEF FlashInv, TypeOK, Compressions
<1>4. Delivering
  BY <1>1 DEF Delivering
<1>5. Len(<<>>) = 0 /\ Len(device) \in Nat /\ device \in Seq(Blocks)
  BY InvLengths, InvTypes
<1>6. AtInlet = Base + Len(device)
  <2> DEFINE d == Len(device)
  <2>1. AtInlet = Base + d + 0 + 0 + 0 /\ d \in Nat
    BY <1>1, <1>2, <1>5 DEF AtInlet, AtDetecting, AtToWrite, AtWchan
  <2> HIDE DEF d
  <2>2. AtInlet = Base + d
    BY <1>3, <2>1
  <2> QED BY <2>2 DEF d
<1>7. ASSUME Trusted, (IF Tar THEN AtStdin ELSE decoded) = Last
      PROVE  device = Image /\ Unparsable \cap First .. Last = {}
  <2>1. /\ Run(device, Base) /\ \A k \in First .. AtInlet : k \notin Unparsable
        /\ AtInlet + Len(Inlet.q) = Last
    BY <1>4, <1>7 DEF FlashInv, WrittenInOrder, DownstreamInOrder
  <2>2. AtInlet + 0 = Last
    BY <1>1, <1>5, <2>1
  <2>3. AtInlet = Last
    <3>1. AtInlet \in Nat
      BY InvNumbers
    <3> QED BY <2>2, <3>1
  <2>4. device = FromTo(Base + 1, Last)
    BY <1>3, <1>5, <1>6, <2>1, <2>3, RunIs
  <2> QED BY <1>3, <2>1, <2>3, <2>4 DEF Image
<1>8. ASSUME ~derailed, decoded = Last
      PROVE  Undecodable \cap 1 .. Last = {} /\ Last <= StreamEnd
  BY <1>3, <1>8 DEF FlashInv, DecodedIsSound
<1>9. CASE ~Tar
  <2>1. /\ decoded = Last /\ ~derailed /\ (Format = "xz" => StreamEnd = N)
    BY <1>1, <1>3, <1>9 DEF FlashInv, ReaderDone
  <2>2. Trusted
    BY <1>9, <2>1 DEF Trusted
  <2> QED BY <1>1, <1>7, <1>8, <1>9, <2>1, <2>2 DEF Sound
<1>10. CASE Tar
  <2>1. stdin.q = <<>>
    BY <1>1, <1>10 DEF FlashInv, EndsHeld
  <2>2. /\ decoded \in {Last, StreamEnd} /\ decoded <= Last
        /\ Base + eaten = Produced /\ dchan.q = <<>>
    BY <1>1, <1>10, <2>1, AllFed
  <2>3. decoded = Last /\ ~derailed /\ Program = Inner
    <3>1. CASE Program = "none"
      <4>1. Inner = "none" /\ Undecodable = {} /\ Last <= StreamEnd
        BY <1>3, <1>10, <3>1 DEF Unnoticed
      <4>2. ~derailed
        BY <4>1 DEF FlashInv, DecodedIsSound
      <4> QED BY <1>3, <2>2, <3>1, <4>1, <4>2
    <3>2. CASE Program # "none"
      <4>1. eaten = Last - First + 1
        BY <1>1, <1>10, <3>2 DEF FlashInv, Verdicts
      <4>2. Produced = Last /\ eaten > 0
        <5>1. Base + eaten = Produced /\ eaten = Last - (Base + 1) + 1
          BY <1>3, <2>2, <4>1
        <5>2. Base \in Nat /\ Last \in Nat /\ Base < Last
          BY <1>3
        <5> QED BY <5>1, <5>2
      <4>3. decoded = Last
        BY <1>3, <4>2 DEF Produced
      <4>4. Program = Inner
        BY <1>10, <3>2, <4>2 DEF FlashInv, FedInOrder
      <4>5. ~derailed
        <5>1. derailed => \/ \E i \in 1 .. Len(stdin.q) : stdin.q[i] = Garbage
                          \/ \E i \in 1 .. Len(dchan.q) : dchan.q[i] = Garbage
          BY <1>1, <1>10, <3>2 DEF FlashInv, FedInOrder
        <5>2. Len(stdin.q) = 0 /\ Len(dchan.q) = 0
          BY <1>5, <2>1, <2>2
        <5> QED BY <5>1, <5>2
      <4> QED BY <4>3, <4>4, <4>5
    <3> QED BY <3>1, <3>2
  <2>4. Trusted
    BY <2>3 DEF Trusted
  <2>5. AtStdin = Last
    BY <1>3, <2>2, <2>3 DEF AtStdin, Produced
  <2>6. ~Misdeclared
    BY <1>3, <1>10, <2>3 DEF FlashInv, DecodedIsSound
  <2> QED BY <1>1, <1>7, <1>8, <1>10, <2>3, <2>4, <2>5, <2>6 DEF Sound
<1> QED BY <1>9, <1>10

(* What a step does to what the user sees.                                 *)
WriteOne ==
  /\ bpc = "running" /\ CanRecv(wchan)
  /\ device' = Append(device, Head(wchan.q)) /\ synced' = FALSE /\ result' = result

SyncAll == synced' = TRUE /\ device' = device /\ result' = result

Answer ==
  /\ result = "none" /\ result' \in {"ok", "err", "broken", "refused"}
  /\ device' = device /\ synced' = synced

NothingSeen == result' = result /\ device' = device /\ synced' = synced

LEMMA StepKinds ==
  ASSUME FlashInv, FlashInv', [Next]_vars
  PROVE  WriteOne \/ SyncAll \/ Answer \/ NothingSeen
<1> USE DEF coordinatorVars, blockWriterVars
<1>1. CASE UNCHANGED vars
  BY <1>1 DEF vars, NothingSeen
<1>2. CASE CoordinatorNext
  <2>1. device' = device /\ synced' = synced
    BY <1>2 DEF CoordinatorNext, Prepare, StreamChunk, StreamEnds, StreamBreaks, Acquire,
       Enqueue, EnqueueRefused, JoinExtractor, JoinFeeder, Reap, JoinWriter, CoordinatorOnly
  <2>2. result # "none" => result' = result
    BY VerdictsStand
  <2>3. result' \in {"none", "ok", "err", "broken", "refused"}
    BY DEF FlashInv, TypeOK
  <2> QED BY <2>1, <2>2, <2>3 DEF Answer, NothingSeen
<1>3. CASE ReaderStep
  BY <1>3 DEF ReaderStep, NothingSeen
<1>4. CASE FeederStep \/ ChildStep
  BY <1>4 DEF FeederStep, ChildStep, ChildOnly, NothingSeen
<1>5. CASE WriterTaskStep
  <2>1. result' = result
    BY <1>5 DEF WriterTaskStep, WriterTaskOnly
  <2>2. device' = device /\ synced' = synced
    BY <1>5 DEF WriterTaskStep, ProcessBlock, ProcessFails, ProcessAbandoned, HandOver,
       HandOverFails, TaskFails, FinalizeFormat, FinishInlet, JoinReader, WriterClosed,
       LetGo, Submit
  <2> QED BY <2>1, <2>2 DEF NothingSeen
<1>6. CASE BlockWriterStep
  <2>1. result' = result
    BY <1>6 DEF BlockWriterStep
  <2>2. CASE Open
    BY <2>1, <2>2 DEF Open, ThreadFails, NothingSeen
  <2>3. CASE Execute
    BY <2>1, <2>3 DEF Execute, ThreadFails, WriteOne, NothingSeen
  <2>4. CASE FinishWriting
    BY <2>1, <2>4 DEF FinishWriting, ThreadFails, SyncAll, NothingSeen
  <2> QED BY <1>6, <2>2, <2>3, <2>4 DEF BlockWriterStep, BlockWriterNext
<1> QED BY <1>1, <1>2, <1>3, <1>4, <1>5, <1>6 DEF Next

LEMMA FlashInit ==
  ASSUME Init
  PROVE  OFlash!Init
<1>1. device = <<>> /\ synced = FALSE /\ result = "none"
  BY DEF Init, BlockWriterInit
<1>2. Image \in Seq(Nat)
  <2>1. First \in Nat /\ Last \in Nat
    BY InitHolds, SourceFacts DEF FlashInv
  <2> DEFINE n == IF Last < First THEN 0 ELSE Last - First + 1
  <2>2. n \in Nat /\ \A k \in 1 .. n : First + k - 1 \in Nat
    BY <2>1
  <2>3. Image = [k \in 1 .. n |-> First + k - 1]
    BY DEF Image, FromTo
  <2> HIDE DEF n
  <2> QED BY <2>2, <2>3
<1> QED BY <1>1, <1>2 DEF OFlash!Init

LEMMA FlashStep ==
  ASSUME FlashInv, FlashInv', Justified', [Next]_vars
  PROVE  [OFlash!Next]_(OFlash!vars)
<1> USE DEF OFlash!vars
<1>1. source' = source /\ Image' = Image /\ Sound' = Sound /\ Unnoticed' = Unnoticed
  BY VerdictsStand, SourceKept
<1>2. CASE WriteOne
  <2>1. CASE Sound
    <3>1. Run(wchan.q, AtWchan) /\ AtToWrite <= Produced
      BY <2>1, SoundIsTrusted DEF FlashInv, WrittenInOrder
    <3>2. /\ wchan.q # <<>> /\ wchan.q \in Seq(Blocks) /\ AtWchan \in Nat
          /\ Len(device) \in Nat /\ Base \in Nat /\ Last \in Nat /\ First = Base + 1
          /\ Base < Last /\ decoded \in 0 .. N /\ N \in Nat /\ Produced \in Nat
      <4>1. wchan.q # <<>> /\ wchan.q \in Seq(Blocks)
        BY <1>2, InvTypes DEF WriteOne, CanRecv
      <4>2. AtWchan \in Nat /\ Len(device) \in Nat /\ Produced \in Nat
        BY InvNumbers, InvLengths
      <4>3. /\ Base \in Nat /\ Last \in Nat /\ First = Base + 1 /\ Base < Last
            /\ decoded \in 0 .. N /\ N \in Nat
        BY SourceFacts DEF FlashInv, TypeOK
      <4> QED BY <4>1, <4>2, <4>3
    <3>3. Head(wchan.q) = AtWchan + 1 /\ Len(wchan.q) \in Nat \ {0}
      BY <3>1, <3>2, RunTail
    <3>4. decoded <= Last
      <4>1. Tar => decoded <= Last
        BY DEF FlashInv, Counted
      <4>2. ~Tar => Last = StreamEnd /\ (Format = "none" => StreamEnd = N)
        BY SourceFacts DEF FlashInv
      <4>3. Format # "none" => decoded <= StreamEnd
        BY <2>1, SoundIsTrusted DEF FlashInv, DecodedIsSound, Trusted
      <4> QED BY <3>2, <4>1, <4>2, <4>3
    <3>5. AtWchan < Last
      <4> DEFINE n == Len(wchan.q)
      <4>1. n \in Nat \ {0} /\ AtWchan + n <= Produced
        BY <3>1, <3>3 DEF AtToWrite
      <4>2. Produced <= Last
        BY <3>2, <3>4 DEF Produced
      <4> HIDE DEF n
      <4> QED BY <3>2, <4>1, <4>2
    <3>6. /\ Len(Image) = Last - First + 1 /\ Len(device) < Len(Image)
          /\ Image[Len(device) + 1] = Head(wchan.q)
      <4> DEFINE d == Len(device)
      <4>1. d \in Nat /\ AtWchan = Base + d
        BY <3>2 DEF AtWchan
      <4> HIDE DEF d
      <4>2. /\ Image = [k \in 1 .. Last - First + 1 |-> First + k - 1]
            /\ Last - First + 1 \in Nat
        BY <3>2 DEF Image, FromTo
      <4>3. Len(Image) = Last - First + 1
        BY <4>2
      <4>4. d < Last - First + 1 /\ d + 1 \in 1 .. Last - First + 1
        <5>1. Base \in Nat /\ Last \in Nat /\ First = Base + 1 /\ Base + d < Last
          BY <3>2, <3>5, <4>1
        <5> HIDE DEF Base
        <5> QED BY <4>1, <5>1
      <4>5. Image[d + 1] = First + (d + 1) - 1
        BY <4>2, <4>4
      <4>6. Image[d + 1] = Head(wchan.q)
        BY <3>2, <3>3, <4>1, <4>5
      <4> QED BY <4>3, <4>4, <4>6 DEF d
    <3>7. result # "ok"
      BY <1>2 DEF FlashInv, Verdicts, WriteOne
    <3>8. OFlash!WriteBlock
      BY <1>1, <1>2, <2>1, <3>6, <3>7 DEF OFlash!WriteBlock, WriteOne
    <3> QED BY <3>8 DEF OFlash!Next
  <2>2. CASE ~Sound
    BY <1>1, <1>2, <2>2 DEF WriteOne
  <2> QED BY <2>1, <2>2
<1>3. CASE SyncAll
  <2>1. CASE Sound
    <3>1. OFlash!Sync
      BY <1>1, <1>3, <2>1 DEF SyncAll, OFlash!Sync
    <3> QED BY <3>1 DEF OFlash!Next
  <2>2. CASE ~Sound
    BY <1>1, <1>3, <2>2 DEF SyncAll
  <2> QED BY <2>1, <2>2
<1>4. CASE Answer
  <2>1. CASE Unnoticed
    BY <1>1, <1>4, <2>1 DEF Answer
  <2>2. CASE ~Unnoticed /\ result' = "ok"
    <3>2. Sound /\ device = Image /\ synced
      BY <1>1, <1>4, <2>2 DEF Answer, Justified
    <3>3. OFlash!Succeed
      BY <1>1, <1>4, <2>2, <3>2 DEF OFlash!Succeed, Answer
    <3> QED BY <3>3 DEF OFlash!Next
  <2>3. CASE ~Unnoticed /\ result' # "ok"
    <3>1. OFlash!Fail
      BY <1>1, <1>4, <2>3 DEF OFlash!Fail, Answer
    <3> QED BY <3>1 DEF OFlash!Next
  <2> QED BY <2>1, <2>2, <2>3
<1>5. CASE NothingSeen
  BY <1>1, <1>5 DEF NothingSeen
<1> QED BY <1>2, <1>3, <1>4, <1>5, StepKinds

(* FlashSpec: on a sound layer, flash_from_oci writes the image to the     *)
(* device front to back, nothing skipped, repeated or foreign, and answers *)
(* Ok once all of it is there and synced; a layer that does not decompress *)
(* or parse, or whose tar is not what it is said to be, is never announced *)
(* as flashed, unless nothing in the pipeline can tell.                    *)
THEOREM FlashTheorem == Spec => FlashSpec
<1>1. Init => OFlash!Init
  BY FlashInit
<1>2. FlashInv => Justified
  BY OkIsJustified
<1>3. FlashInv /\ FlashInv' /\ Justified' /\ [Next]_vars => [OFlash!Next]_(OFlash!vars)
  BY FlashStep
<1> QED BY <1>1, <1>2, <1>3, FlashInvariant, PTL DEF Spec, FlashSpec, OFlash!Spec
=============================================================================
