# A TLA+ development of fls

`fls` writes disk images to block devices: it downloads an image (from a URL
or from an OCI registry), decompresses it on the way, recognises Android
sparse images and expands them, and writes the result to the device, all of it
streaming and in parallel; or it extracts images from an OCI artifact and hands
them to `fastboot`. Its value lies in what is hard to test: stages that run
concurrently and fail independently, connections that break at any byte,
back-pressure through five queues, and parsers that are fed in pieces of any
size. This directory models that, checks it with TLC and proves part of it with
TLAPS.

File names below are relative to `src/src/fls/` of the repository.

- [1 The system](#1-the-system)
- [2 Modules and how they correspond to the code](#2-modules-and-how-they-correspond-to-the-code)
- [3 Runs: what is checked](#3-runs-what-is-checked)
- [4 Bounds](#4-bounds)
- [5 Fairness](#5-fairness)
- [6 Proofs](#6-proofs)
- [7 Findings](#7-findings)
- [8 Limits: what is only checked, and what is not modelled](#8-limits)
- [9 Plan](#9-plan)

## 1 The system

### Inventory

| Component | State | Operations | Correct if |
|---|---|---|---|
| byte-bounded channel (`byte_channel.rs`) | mpsc queue, semaphore of `max_bytes` permits | `send` (acquire permits, forget them, enqueue), `recv`/`blocking_recv` (dequeue, give permits back), drop of either end | FIFO and lossless; buffered bytes bounded; permits neither leaked nor minted; a chunk larger than the budget passes |
| URL flash (`from_url.rs`, `http.rs`, `download_error.rs`) | bytes received, retry counter, writer task handle | connect, resume with `Range`, read with a 30 s limit, send, retry or give up, join decoder, await writer | success means the whole image is on the device and synced; a resume neither skips nor repeats a byte; it returns |
| in-process decoder (`decompress.rs`, `stream_utils.rs`) | current chunk, decoder, output channel | `ChannelReader::read`, decode, `blocking_send` | every good block once and in order; a damaged stream ends in an error |
| writer task (in `from_url.rs` and `oci/from_oci.rs`) | detector, parser, `format_determined` | receive, detect or parse, hand over, finalise at the end, close | no byte held back or handed over twice at the change of mode |
| async block writer (`block_writer.rs` 477-593) | command channel, blocking thread | `write`, `seek`, `fill`, `close` | commands executed in order; `close` answers only after flush and sync |
| block writer (`block_writer.rs` 34-475) | open file, aligned buffer, `buffer_pos`, `bytes_written`, `bytes_since_sync`, file position | open, `write`, `write_fill_pattern`, `seek`, `flush`, periodic sync | the device holds what was last written to each offset, and what it held before everywhere else; direct I/O stays aligned; the unsynced data stay bounded |
| format detector (`format_detector.rs`) | up to 64 bytes held back | `process`, `finalize_at_eof` | the answer does not depend on how the stream is cut; the bytes held back are passed on exactly once |
| sparse parser (`simg.rs`) | parser state, header buffer, chunk counters, output offset | `process` | the commands amount to the expansion of the image, however it is cut; `Complete` only if chunks and size agree with the header |
| OCI blob pipeline (`oci/from_oci.rs` 111-527) | initial chunks, bytes received, retry counter, feeder, child process, consumer | fetch with detection, download with retry and resume, feed, decompress, write to file or extract from tar | the blob passes without gap or repetition; teardown is no error; success means completeness |
| OCI flash (`oci/from_oci.rs` 1109-1989, 2365-2503) | coordinator, reader thread, feeder, child, writer task | detection buffer, streaming, five joins; for disk images two | as for the URL flash, without retry |
| OCI artifact resolution (`oci/manifest.rs`, `annotation_schema.rs`, `oci/from_oci.rs` 530-913) | layers extracted so far: `partition_files`, `title_to_path` | choose document, platform, layer, schema, partitions, overrides, or fall back to file names | every partition asked for gets the layer or file meant for it, and no other is touched |
| registry client and authentication (`oci/registry.rs`, `oci/auth.rs`) | token | API check, challenge, token request, manifest and blob requests | an artifact these credentials can read is read, for open, public and private registries |
| fastboot (`fastboot.rs`) | temporary directory, partition map, child process | resolve and extract, detect the device, flash each partition, `continue` | nothing is flashed before all is extracted; the first failure stops; the tool never reads a file that has gone; no directory is left |
| reference parsing (`oci/reference.rs`), magic bytes and compression kinds, HTTP client set-up, progress display, command line | | strings, lookups, configuration, output | |

### How they interact

    URL flash     HTTP -> [byte channel] -> decoder thread -> [8] -> writer task
                       -> [16] -> block writer thread -> device
    OCI, disk     HTTP -> [byte channel] -> decoder thread -> [16] -> writer task
                       -> [16] -> block writer thread -> device
    OCI, tar      HTTP -> [byte channel] -> tar extractor thread -> [16] -> feeder
                       -> pipe -> zcat/xzcat/cat -> pipe -> writer task
                       -> [16] -> block writer thread -> device
    OCI, extract  HTTP -> [byte channel] -> feeder -> pipe -> child -> pipe -> file or tar
    fastboot      registry -> token -> index -> manifest -> "OCI, extract" for each
                       layer chosen -> files in a temporary directory
                       -> fastboot tool, once for each partition -> device

A stage learns that the stage before it has ended when its channel is closed,
and that the stage after it has gone when a send fails. It does **not** learn in
either case whether the other ended well; that is in the result of its task,
which somebody has to join. Most of what can go wrong in this program goes
wrong between these three signals.

### What is hard

1. A permit is paid before the chunk is queued and given back after it is
   dequeued; either end may go away between the two steps.
2. A resume continues at the number of bytes *downloaded* while five stages
   still hold what lies between the connection and the device.
3. Errors travel as closed channels, which look like normal ends.
4. A tar extraction ends early and on purpose; the broken pipes this causes
   travel upstream while the download is still sending.
5. The detector and the sparse parser are fed pieces cut anywhere.
6. With direct I/O a partial block is padded on the device, not in the count.
7. What `fls fastboot` flashes follows from layers, annotations, default lists and
   options together; files are named after partitions, looked up by title, and
   read by a process that a timeout may end at any moment.

`PROJECT.json` lists thirty-nine such hazards with their line and the
property that covers each.

## 2 Modules and how they correspond to the code

| Module | Models | Extends |
|---|---|---|
| `Mpsc` | a bounded tokio mpsc channel, as a record with `q`, `tx`, `rx` (external) | |
| `Pipe` | abstract: a lossless pipe with an end | |
| `ByteChannel` | `byte_channel.rs`, each semaphore and queue operation a step | `Mpsc` |
| `ByteChannelProofs` | the theorems about it | `MpscProofs` |
| `MpscProofs` | lemmas about channels and about stretches of a stream (`Run`), which the other proofs cite | `Mpsc` |
| `DownloadBuffer` | the same channel as the pipelines use it: one permit per chunk | `Mpsc` |
| `AsyncBlockWriter` | command channel and thread | `Mpsc` |
| `InprocessDecoder` | the decoder thread behind `ChannelReader` | `DownloadBuffer` |
| `Flash` | abstract: what flashing an image promises | |
| `UrlFlash` | `flash_from_url` | `AsyncBlockWriter`, `InprocessDecoder` |
| `UrlFlashProofs` | the theorems about it | `MpscProofs` |
| `OciFlash` | `flash_from_oci`, both pipelines | `AsyncBlockWriter`, `InprocessDecoder` |
| `OciFlashProofs` | the theorems about it | `MpscProofs` |
| `OciBlobPipeline` | `fetch_blob_with_detection`, `retry_download_loop`, `run_blob_pipeline`, both consumers | `DownloadBuffer` |
| `OciBlobPipelineProofs` | the theorems about it | `MpscProofs` |
| `Overlay` | functions that are written over (a device's content, a map), in a form the provers can use | |
| `BlockWriter` | opening, buffer, padding, seek, sync | `Overlay` |
| `BlockWriterProofs` | the theorems about it | |
| `FormatDetector` | `process`, `finalize_at_eof` and their callers' use of the answer | |
| `SparseParser` | `process` and the device its commands write | `Overlay` |
| `ImageWriter` | the writer task: detector, parser and the end of the stream | `FormatDetector`; `SparseParser` as an instance |
| `ImageWriterProofs` | the theorems about it, the detector and the parser | |
| `OciManifest` | what is read in a manifest: documents, platforms, layers, schemas, default partitions | |
| `RegistryClient` | the token flow and which requests a registry answers | |
| `FastbootCli` | the `fastboot` tool and its device (external), and how it is spawned and killed | `Overlay` |
| `PartitionFlash` | abstract: what flashing a set of partitions promises | `Overlay` |
| `Fastboot` | `fls fastboot` from the registry to the device | `OciManifest`, `RegistryClient`, `FastbootCli` |
| `FastbootProofs` | the theorems about it | |
| `MC...` | the constants TLC is given | one each |

Conventions. Variables keep the source's names where there is one
(`bytes_received` is `received`, `format_determined` is `determined`). An
action is what a party does between two points where another can act: two
halves of `send` (wait for permits; enqueue), a receive, a join. `pc`, `wpc`,
`dpc`, `bpc`, `fpc`, `cpc` say where the downloader, writer task, decoder
thread, block writer thread, feeder and consumer are. A party that returns
drops its channel ends in the same step, as Rust does. An operator whose name
is another's with a suffix (`FetchRetryOnceMore`) and whose comment says
"Mutant of" is not part of the model: it is a plausible bug, used to see that
a property notices.

**ByteChannel.** The stream of bytes handed to `send` is numbered; a chunk is
its size, the position of its first byte (`at`) and the permits taken when it
was paid for (`paid`). `sent`, `accepted`, `got` count bytes, `taken` and
`returned` permits. `at` and `paid` are history: no guard reads them. They
make FIFO order, loss and leak facts about numbers, which is what makes the
proofs possible.

**Pipelines.** A file, blob or layer is chunks 1..N, and chunk k decodes to
block k; data that is not what was encoded is `Garbage`. So the invariant that
nothing is lost is an equation between the concatenation of all queues and
`1..n`. What the world is like (format, damage, whether the server honours
`Range`, where the image lies in the layer) is a record chosen in `Init`, so
one run covers a set of worlds. Chunks cost one permit each (`DownloadBuffer`);
chunks of different sizes are `ByteChannel`'s subject. In `OciFlash` the
detection buffer (2 MB) is chunk 1, because it is sent as one; the feeder and
the child move a block in one step if there is room behind them, the pipes and
channels being what holds it. The child is a process of the system, external:
it passes on what it understands, fails on what it does not, and fails when its
output is closed.

**BlockWriter** works on units: every write marks its units with the number of
the call, so that the device tells what was lost, moved or overwritten. What the
path names (a block device, a file, nothing, or a name under `/dev/` that is no
device) is chosen in `Init`, and what was there before is marked `Old`.

**ImageWriter** works on 4-byte words known by their position in the stream.
What the detector lets through (`onward`) is the parser's file, of which it has
been given the first `avail` words. The parser gets exactly the pieces the code
gives it: the bytes the detector consumed, then the rest of the piece that
decided, then each piece. Between two pieces it takes as many turns as it needs
(one per iteration of the loop in `process`). `SparseParser` computes the device
from the commands the parser gives; `ImageWriter` adds streams that stop short
and the answer of the task at the end.

**Fastboot.** A world (the document under the tag, the `-t` options, whether `-s`
is given, the registry and the credentials) is chosen in `Init`. `pc` names
where `flash_from_fastboot` stands; each request, each layer, each override and
each command is a step, any of which may fail. Downloading a blob is one step with
the outcomes `OciBlobPipeline` has: the whole of it, a short file that counts as
whole (run `oci_masked`), an error (`ExtractionFails`), or none, when the download
waits for permits that never come back (`DownloadHangs`, the pipeline's `Stuck`):
then `pc` is `"stuck"` and only a kill ends it. `fault` is history: has anything failed
that the program does not command? The tool is external: it tears the partition,
then completes it, or fails, or does nothing for ever. `TempDirGuard` is in
`Return`, which every way out goes through but a kill. The fall-back to file
names starts from the first request again, with a client of its own, as in the code.

## 3 Runs: what is checked

`tlc -workers 2 -config X.cfg MCX.tla`, all in this directory.

| Run | Configuration | States | Properties and what they show |
|---|---|---|---|
| `byte_channel` | `MCByteChannel.cfg` | 11 573 | `TypeOK`; `EofMeansEverythingReceived`: the end of the stream does not overtake a chunk; `BytesBounded`: the promise of the module's comment, for chunks within the budget; `OversizedTravelsAlone`: a chunk beyond it shares the queue with empty chunks only; `SendReturns`: no send waits for ever while the receiver lives; `PipeSpec`: it implements `Pipe` |
| `url_flash` | `UrlFlash.cfg` | 64 052 | `SuccessMeansFlashed`; `NothingLost` across every reconnect; `BufferPaidFor`; `FlashReturns`; `FlashSpec`: it implements `Flash`, and what the decoder or the sparse parser rejects is never a success; `TypeOK` |
| `oci_flash` | `OciFlash.cfg` | 29 596 | `NothingLost` from the detection buffer to the device; `NoFalseAlarm`: the teardown of one stage by the next is never reported as a failure; `FlashReturns`; `FlashSpec`: it implements the same `Flash`, and an unsound layer is never a success unless nothing in the pipeline could tell; `TypeOK` |
| `oci_blob` | `OciBlob.cfg` | 18 682 | `NothingLost` across detection, retries and resumes; `OutputIsPrefix`: also a failed job leaves a front of the blob; `OkNeedsAnHonestUpstream`: when the consumer's Ok may override the other results; `TeardownIsNotAnError`; `PipelineReturns`; `TypeOK` |
| `block_writer` | `BlockWriter.cfg` | 106 311 | `NothingLostOrMoved`: every offset holds what was last written to it, and the position has not drifted; `OnlyPaddingIsAdded`: the rest of a device is as it was, a file holds nothing else, nothing is created under `/dev/`; `DirectWritesAligned`; `UnsyncedBounded`; `TypeOK`; with and without direct I/O |
| `image_writer` | `ImageWriter.cfg` | 213 600 | `PassedExactlyOnce`, `SameAnswerForAllCuts`: the detector holds no word back and passes none twice, and its answer does not depend on the cuts; `DeviceIsExpansion`: at every moment the device holds the expansion of what has been parsed, against a reference that expands the file as a whole; `AcceptsWellFormed`: also nothing is left in the parser at the end; `OkMeansWhole`: Ok for a sparse image only with the size and the chunks its header states, unless the stream brought fewer or the header states none; `WriterTypeOK` |
| `fastboot` | `Fastboot.cfg` | 66 466 | `FlashedAsMapped`: success means that exactly the partitions asked for were flashed, each from the layer or file meant for it, against a reference that reads the artifact as a whole; `ErrorsHaveACause`: an error is answered only if something failed or cannot be had, never because of a layer that is not wanted; `FilesOutliveTheChild`; `FlashReturns`: it ends, whatever the registry and the tool do, unless a download hangs (`DownloadHangs`) or it is killed; `PartitionFlashSpec`: it implements `PartitionFlash`; `TypeOK` |
| `url_norange`, `url_hang`, `oci_masked`, `oci_hint`, `fastboot_alias` | see [Findings](#7-findings) | | each shows one property violated |

Every property of a passing run has a mutant in `PROJECT.json`: a
definition of the model is replaced by one with a plausible bug and TLC then
finds the property violated.

`FlashSpec` in `OciFlash` and `UrlFlash` is stated for the sound sources (the
others are mapped to an image of which nothing is written). That is where the
user's promise makes sense; what is owed for the others is that they are not
reported as flashed, which the mapping of `result` says.

`PartitionFlashSpec` says what a user of a board can rely on when a flash fails
half-way: before everything has been extracted no partition is touched; they are
written in the order of their names, so that those before the one that failed are
whole, those after it untouched; and `continue` is sent only when all are whole.

## 4 Bounds

| Run | Values | Why enough |
|---|---|---|
| `byte_channel` | 3 permits, 3 slots, chunks of 0..4 bytes, stream of 7 | either limit can be the one that blocks; empty, fitting, filling and oversized chunks; two generations of a full queue. The proofs remove the bounds |
| `url_flash` | six files of 3 to 6 chunks, every queue of capacity 1, one retry, two blocks to detect | each file is longer than all queues together or ends inside one, so that every stage is seen both full and empty when another fails. `faultLimit` bounds the faults of a server that ignores `Range`, from which a download may otherwise never end |
| `oci_flash` | sixteen layers of 1 to 6 chunks, buffers of 2, pipes of 1 | a long tar with its image in front (early leave with a full buffer), one-chunk image (format never detected), image absent, every kind of damage, archives that end inside the image, data behind an xz image |
| `oci_blob` | six jobs of 2 to 7 chunks, capacities 1, one retry | a blob shorter than the detection prefix, tars that end early and at the end |
| `block_writer` | all four kinds of target, blocks of 4, alignment 2, sync every 6, four commands, lengths 0, 1, 3, 4, 9, seeks to 0, 2, 5, 8 | a write spans two blocks and a part; every remainder modulo alignment and block occurs. Seeks go forward, as `simg.rs` makes them |
| `image_writer` | every file of one or two chunks of 1 or 2 blocks of 2 words and three of 1 block, headers off by one chunk or one block or that count no chunk, trailing data, invalid chunks, an empty RAW chunk before each type; streams that lack the last 1, 4 or 9 words; other and corrupt streams of 0 to 40 words; pieces of 0, 1, 2, 6, 7, 13 and 20 words; threshold 7, buffer 16 | the threshold and the buffer are the code's 28 and 64 bytes in words; pieces lie below, at and above both; every cut of a header of 7 and of 3 words; every order of chunk types |
| `fastboot` | some hundred artifacts: one to three layers over nine kinds (both schemas, titles, a name that is no file name, zstd), no more than two `-t` options, five default lists in both schemas, images without annotations (bundles, bare tars, false tars, single files, several disks), indexes with one, both, no and a nested platform; seven registries, with and without credentials | every rule of the resolution is met with the two others it interacts with; up to three partitions to flash, so that there are some before and some after the one that fails |

Capacities of 1 or 2 stand for 8, 16 and 4096: a stage distinguishes only
"full", "empty" and "neither". Nothing in the code counts queue entries.

## 5 Fairness

Weak fairness for each party separately (downloader or coordinator, decoder or
extractor, feeder, child, writer task, block writer thread; sender and receiver
for the channel). The code justifies it: each is a tokio task, a
`spawn_blocking` or named thread, or a process, on a multi-threaded runtime;
none holds a lock another needs; every read from the network is wrapped in a
30 s timeout (`from_url.rs` 363, `from_oci.rs` 232, 1297, 1578) or ended by the
client's own. So a party that has a step takes one. There is no fairness for a
*particular* alternative of a party: a connection may break for ever, a retry may
always fail. Time is not modelled: a timeout is one way a read may end. In the
detection stage of a blob (`from_oci.rs` 163-190) there is no such timeout; that
the registry's client ends the wait is an assumption there.

In `Fastboot` the program is one task, with weak fairness as a whole
(`ProgramNext`): requests are ended by the client's timeouts, commands by
`--timeout` (`fastboot.rs` 162). Nothing is assumed of the tool, which may hang.
Nor is the send of a chunk into the buffer of a blob taken to end: it has no timeout
(`from_oci.rs` 225, 239; the 30 s are for the read alone), and `DownloadHangs`, from
which no step of the program leads on, stands for the wait that does not. That a
download which neither hangs nor fails comes to an end is what `PipelineReturns`
shows of `OciBlobPipeline`.

`ByteChannel` assumes fairness of the receiver's `recv`, as its users loop on it.

## 6 Proofs

`tlapm M.tla` for each of the eight modules below proves every obligation. The
theorems hold for **every** value of the constants that the module's named
assumption admits; TLC evaluates these assumptions in the runs. What a theorem
needs beyond them is in its statement and given here.

| Module | Theorems (and the property of a run that each states) |
|---|---|
| `ByteChannelProofs` | `ChannelInvariant`; `TypeTheorem` (`TypeOK`), `EofTheorem` (`EofMeansEverythingReceived`), `BudgetTheorem` (`BytesBounded`), `OversizedTheorem` (`OversizedTravelsAlone`), `PipeTheorem` (`PipeSpec`) |
| `ImageWriterProofs` | `WriterInvariant`; `WriterTypesTheorem` (`WriterTypeOK`), `ExactlyOnceTheorem` (`PassedExactlyOnce`), `SameAnswerTheorem` (`SameAnswerForAllCuts`), `ExpansionTheorem` (`DeviceIsExpansion`), `AcceptsTheorem` (`AcceptsWellFormed`), `OkTheorem` (`OkMeansWhole`) |
| `UrlFlashProofs` | `FlashInvariant`; `TypeTheorem` (`TypeOK`), `BufferTheorem` (`BufferPaidFor`), `NothingLostTheorem` (`NothingLost`), `SuccessTheorem` (`SuccessMeansFlashed`), `FlashTheorem` (`FlashSpec`) |
| `OciBlobPipelineProofs` | `BlobInvariant`; `BlobTypeTheorem` (`TypeOK`), `BlobNothingLostTheorem` (`NothingLost`), `OutputTheorem` (`OutputIsPrefix`), `HonestTheorem` (`OkNeedsAnHonestUpstream`), `TeardownTheorem` (`TeardownIsNotAnError`) |
| `OciFlashProofs` | `FlashInvariant`; `TypesHold` (`TypeOK`), `NothingLostTheorem` (`NothingLost`), `NoFalseAlarmTheorem` (`NoFalseAlarm`), `FlashTheorem` (`FlashSpec`) |
| `BlockWriterProofs` | `WriterInvariant`; `TypeTheorem` (`TypeOK`), `NothingLostTheorem` (`NothingLostOrMoved`), `PaddingTheorem` (`OnlyPaddingIsAdded`), `AlignedTheorem` (`DirectWritesAligned`), `UnsyncedTheorem` (`UnsyncedBounded`) |
| `FastbootProofs` | `FlashInvariant`; `TypeTheorem` (`TypeOK`), `FilesTheorem` (`FilesOutliveTheChild`), `PartitionFlashTheorem` (`PartitionFlashSpec`); `ResolutionInvariant`, `MappedTheorem` (`FlashedAsMapped`), `CauseTheorem` (`ErrorsHaveACause`) |
| `MpscProofs` | lemmas only |

Each component follows one plan: an inductive invariant, checked by TLC on the
configuration of the component's run before it was proved; a lemma for each action
that it preserves the invariant, with a step for each part of it; and the
properties as consequences of the invariant. The model of the mpsc channel
(`Mpsc`) is trusted as what the library does.

**The byte channel.** For every `MaxBytes` (0 included, except where stated),
`MaxItems >= 1`, set of chunk sizes and stream length. `BytesBounded` relates
*bytes* in the queue to *permits* in the semaphore, and neither its two sides nor
the permit balance alone is inductive: after a `Tail` nothing is known of the new
head. So each chunk carries its position in the stream and its position in the
sequence of permits, and `Chained` says for neighbours that both advance by the
chunk's size and cost, and, for *any* two queued chunks, that they do not overlap
(`Follows`), and that over a stretch without an oversized chunk the distance in
bytes is the distance in permits (`SameDistance`). These relations survive
`Append` and `Tail` (`ChainedAppend`, `ChainedTail`), and with the ends tied to
the counters (`QueueIsTheStream`, `PermitsConserved`) the sum over the queue
becomes a difference of two ends, so no sum and no induction over the queue is
needed: `BytesBounded` is that difference, `OversizedTravelsAlone` follows from
two chunks that together cost more than the budget, and the bound of the abstract
pipe from one that fits. `PipeTheorem` is `MaxBytes > 0 /\ Spec => PipeSpec`, by
step simulation: Enqueue maps to a write, Pop to a read, the drops to the two
ends, all else to a stutter.

**The detector.** For every threshold of at least one unit, every buffer no
smaller than it, all sizes of pieces and all lengths of the stream. The two
properties alone are not inductive: they do not say that the detector still has
room. `DetectorInv` adds that, while the format is unknown and the stream goes on,
the buffer is all that was fed and is shorter than the threshold, which the buffer
size is not below. So a piece that does not fit is always long enough to decide
on, and what of it is left over goes onward at once (`SeenByDetect`); the rest is
that neighbouring stretches of the stream join into one (`FrontConcat`).

**The sparse parser and the writer task.** For every set of images, any number, types
and sizes of chunks (empty, invalid and surplus ones among them), any count and size
in the header, every block size, every chunk header of at least two words and shorter
than the file header, and every cut of the stream.
`ParserInv` says for each state of the parser where it stands: between two chunks
(`AtChunk`) what it has buffered begins with the next chunk header and is less than
a header, but for a FILL chunk that lacks its value; in a RAW chunk (`InRawData`)
the bytes still to come end with the chunk, in the stream and in the output alike.
In both the header's count has not been reached, or is 0 and never will be
(`BelowCount`). A word in the buffer is its position in the stream, so a chunk header that
`parse_chunk_header` finds is the one the parser stands at (`ParseAtChunk`), and it
finds none elsewhere (`ParseElsewhere`). `WriterInv` adds the detector's invariant
and `Linked`: the parser has been given what the detector let through and nothing
else, and at the end of a sparse stream all of it. `ExpansionTheorem` relates each
command to the reference: what a RAW, FILL or DONT_CARE chunk writes are the offsets
of its own piece of the expansion (`WriteKeeps`, `SeekKeeps`), and pieces of different
chunks do not overlap (`PiecesDisjoint`). `NothingWaits` is why no image gets stuck:
a parser that has had the last word of the last chunk cannot be in any state but
complete. The reference itself, the positions of the chunks and the expansion, is
three recursive functions. That they have the values their equations say is proved
too: a set that holds 0, and with each number the next, holds all (`Induction`,
from the library's well-foundedness of the numbers, `LeastNumber`), applied to the
set of lengths up to which such a function exists (`SumsExist`, `LayersExist`).
The proof corrected the model twice. Its `CASE` for the end of a chunk
had two arms that can hold together, where the code has an order. And `OkMeansWhole` was false
for an image with an empty RAW chunk before a DONT_CARE chunk at its end, a file the runs
had not contained: they do now, and `Holds` exempts it (see [Findings](#7-findings)).

**The URL flash.** For every file, server, buffer, channel capacity, retry limit
and length of the detection. `NothingLost` is an equation about the concatenation
of seven queues, which no step can be shown to preserve as it stands, and which
says nothing once a stage has failed. `FlashInv` says of each queue where in the
file its content begins (`AtWchan`, `AtToWrite`, ...) and that it is a stretch of
the file from there (`Run`); a step touches the end of one queue and the start of
the next, and `MpscProofs` has the lemma for each. The rest is what a failure
changes: `EndsHeld` says which end of which channel is still held, `Verdicts` what
each party's result says of those before it, `Trusted` and `Delivering` from when
on nothing can be said of the content. For what is before the decoder and for what
is behind it these conditions differ, so there are three parts
(`UpstreamInOrder`, `DownstreamInOrder`, `WrittenInOrder`). The equation follows
by joining the stretches (`RunJoin`). `SuccessTheorem` is stated under `Reliable`:
a compressed file, or a server that resumes and states the length. Without the
first half it is false (finding `url_norange`); without the second a body that
ends early cannot be told from the file. `FlashTheorem` shows `Spec => FlashSpec`
if plain images come framed from servers that resume (`PlainIsFramed`, which the
run's sources satisfy): each step is a block written, a sync, an answer or
nothing (`StepKinds`), and `NoFalseAlarmKeeps` shows that no reconnect makes a
sound stream look corrupt.

**The blob pipeline.** For every blob, detection length, tar or file, decompressor
or `cat`, retry limit, buffer and pipe capacity. `BlobInv` is built the same way,
with one difference: chunks that the child has read may be lost behind a consumer
that has left, so positions are counted from both ends, from the output up to what
the child has read (`DownstreamInOrder`), and from there up to what the buffer
accepted (`UpstreamInOrder`); the two meet in `eaten`. `Counted` ties
`bytes_received`, the connection and the chunks of the detection together at each
place of the caller, which is where a resume could skip or repeat. `Verdicts` says
why a consumer's Ok can be believed: the child's clean exit means that it had all
the feeder had, the feeder's Ok that the buffer had ended, and so on up to the
download. That the pipeline is untouched before the download begins
(`IdlePipeline`) follows from the positions alone. `OkMeansComplete` is not among
the theorems: it is false (`oci_masked`).

**The OCI flash.** For every layer (sound or not, tar or disk image, however
declared), detection length, buffer, channel and pipe capacity. One invariant,
`FlashInv`, covers both pipelines: what the writer task reads is `Inlet`, the
child's output or the decoder's channel, and `AtWchan`, `AtToWrite`, ... count from
`Base`, where the image begins in the layer. The tar pipeline has two gaps to
bridge. What the child has read may be lost behind a writer task that has left, so
positions are counted from both ends and meet in `eaten`, as for blobs
(`FedInOrder`, `DownstreamInOrder`). And the extractor skips what is before the
image, so that what it has passed on is `Produced`, not `decoded`. `Verdicts` says
what each party's result says of those before it, once for the chain of five joins
and once for the two of a disk image. `DecodedIsSound` says that a reader which has
derailed had something undecodable before the end of the image to do so over: that
is why `FlashTheorem` may call such a layer unsound. `FlashTheorem` is
`Spec => FlashSpec` with no further hypothesis: an answer of Ok is `Justified`, by
a sound layer wholly on the device and synced, or by one in which nothing could
tell (`Unnoticed`). `NoFalseAlarm` is not inductive even with `FlashInv`: an error
is answered from the result of a party, so that no party may have failed either.
`NobodyFails` says that of all of them at once, and is inductive relative to
`FlashInv`: a send fails only if the receiver has gone, a receiver goes early only if
it failed or had all it wanted, and a sound layer has nothing to fail over. The
proof corrected the model in three places, each at an end of the stream which the
runs had not met: the extractor read beyond the end of a compressed archive, an
archive that ends inside its disk image was an error, and a disk image with data
behind its xz stream counted as sound (see [Findings](#7-findings)).

**The block writer.** For every block size, alignment that divides it, sync
interval, device size, sets of lengths and offsets, all four kinds of target, and
both modes. `WriterInv` adds to the four properties that the loop of `write()` has
copied what it has copied and no more (`LoopInv`, `WantedInv`: what is still to
come is known, with the mark of the present command, which is what makes a write
that spans blocks inductive), that nothing happens before the device is open
(`UnopenedInv`), and that `bytes_since_sync` is at least the number of offsets
unsynced and below the interval (`SyncInv`). The lemmas are about rounding up to
the alignment: aligned offsets shift the grid onto itself (`AlignedSum`), so the
padding of a partial flush never reaches a byte that was wanted.

**fastboot.** For every set of artifacts, registries, credentials and `-t`
options. What the child does is not what the program last decided but what it was
started with; `ChildInv` ties the two together: a child is at the first partition
of the queue, with the file noted for it, or looks for devices, or continues an
empty queue. `DeviceInv` says that what is before the first partition of the queue
is written, what is behind it is not, and the first itself only while its child is
at it. `PathsInv` says that every path noted is a file in a directory that is
still there. The order of flashing is a rank of the names (`Rank`, `Foremost`), for
which `LeastNumber` shows that a first one exists. `PartitionFlashTheorem` maps
each step to one of `PartitionFlash` or to a stutter.

What is flashed, and why a flash is refused, is a second invariant, `ResolutionInv`.
The reference of `FlashedAsMapped` and `ErrorsHaveACause` reads the artifact as a whole
(`Wanted`, `Source`, `Feasible`); the program reads one layer and then one override
after the other, and notes as it goes. `Extracted(seen, given)` says what the notes
are worth half-way: every partition of a layer seen has the file of its name, with
*some* layer annotated with it in it; every title noted is that of a layer seen, and
has the path of its partition, or that of an override given, and then holds the first
layer with that title; every override given has the path of its title. That is all
that holds when names are claimed twice. If they are not, the layer in the file is the
one meant (`OneLayer`) and no later override writes into the file of an earlier one
(`DistinctTargets`: a map from the overrides onto as many targets is one to one).
`ExtractLayerResolves` and `ExtractOverrideResolves` show that a download preserves
this, `AllExtracted` that at the end of the overrides it is the reference. The same
invariant gives the causes: a title that is looked up and not found is in no layer
(`TitleFound`), a layer that was extracted has left its title behind, so whatever the
program refuses, the reference cannot have either (`Refuse...Resolves`). Whether the
registry answers is settled by `AccessInv`: who may read is answered unless a token
has run out (`ReadableAnswers`), and nobody else is (`AnsweredMayRead`). That defaults
are never invalid in an image that speaks of no partitions is `NoSchema`.
`FlashedAsMapped` joins this with `DeviceInv`: what is on the device when "continue"
has been given is what was chosen.

The assumption says that names are known, each once, that `-t` gives names, that the
layers of an image come in a sequence, and that no annotation key is `"none"`, the
value that stands for the lack of a schema.

## 7 Findings

Five runs show the code doing something other than a message or a comment of
it says.

- `url_norange` (`SuccessMeansFlashed`). A server that ignores `Range` answers a
  resume with 200. `http.rs` 155 warns "starting from beginning" and goes on as
  if resumed; nothing upstream is restarted, so the file is appended to the
  part already sent. A raw image ends up with its front twice, and is reported
  as flashed. (The blob pipeline insists on 206.)
- `url_hang` (`WriterFailureEndsFlash`). When the writer has failed and the
  buffer is full, the downloader waits in `send` for permits that chunks
  dropped with the receiver never give back: the semaphore is not closed with
  the channel. The checks at `from_url.rs` 311 and 374 are never reached. The
  same wait exists in `oci/from_oci.rs`, in a blob pipeline whose consumer has
  all its files or fails (so in `fls fastboot`, which `--timeout` does not end
  then) and in a tar flash whose extractor has its image, if the
  download is ahead by a full buffer. The liveness properties of the passing
  runs exempt exactly this wait and nothing else: as the state `Stuck` in the
  pipelines, as what follows `DownloadHangs` in `Fastboot`, which does not model the
  buffer and so lets any download end in it.
- `oci_masked` (`OkMeansComplete`). `run_blob_pipeline` returns Ok if the
  consumer does, and the consumer of a file takes any end of the decompressor's
  output for the end of the file: a download that failed for good becomes a
  complete file.
- `oci_hint` (`ExtractedFileIsDecompressed`). For a tar without a file pattern,
  the decompressor for the *extracted file* is chosen from the compression of the
  *layer*. An uncompressed tar with `disk.img.xz` is written to the device
  compressed and reported as flashed; a gzip layer with a plain `disk.img` fails
  in `zcat`.
- `fastboot_alias` (`OverrideFlashesItsTitle`). "each entry maps a target partition
  to a layer title" (`oci/from_oci.rs` 705-706), but extracted files are named after
  their partition (790) and a title already extracted is reused by its path
  (834-835). With two layers annotated with the same partition, `-t` for the title
  of the first flashes the content of the second, with success. `FlashedAsMapped`
  therefore asks which layer went where only where names are unambiguous.

Smaller divergences met on the way, without a run of their own:

- `--buffer-size 0` gives a budget of 0, with which every chunk is free: the
  byte bound of `byte_channel.rs` 22-23 is gone and only the item limit is
  left. `PipeSpec` is stated for a positive budget.
- An empty RAW chunk discards whatever part of the next chunk header is already
  buffered (`simg.rs` 422, 437), so that the outcome depends on the cuts: the
  parser may wait for a word that does not come, and the flash is reported as
  done. `NoEmptyRaw` excludes it, also in `OkMeansWhole`.
- A sparse image that ends before its last chunk is reported as flashed: at the
  end of the stream nobody asks the parser if it is complete (`from_url.rs`
  234-247, `from_oci.rs` 1188-1192). So is one whose header counts no chunk, if
  nothing follows its chunks: the count is compared after a chunk (`simg.rs` 443,
  487, 526), so that it is never reached, the chunks behind it are written, and the
  image's size is not checked. `OkMeansWhole` exempts both and, for the reason
  above, images with an empty RAW chunk; no others.
- A regular file that is the target of a sparse image ending with DONT_CARE is
  shorter than the image: the last seek does not extend it.
- `docs/sparse-image-support.md` 63-64 says that what is not recognised is
  written raw; a corrupt sparse header is an error (`format_detector.rs`
  120-127). The same document (54) names zstd, which `from_url.rs` 171 rejects.
- A connection that breaks after the last byte is resumed beyond the end of the
  file; the 416 is fatal, although all had been received.
- The tar extraction stops at the end of its file and so never reaches the
  checksum of a compressed layer. No layer digest is compared.
- The size of the tar entry is printed and not compared with what was read
  (`from_oci.rs` 1959, 1975-1984): an archive that ends inside the disk image,
  compressed or not, ends the extraction with Ok. If the image itself is
  compressed the child notices; behind `cat` nothing does, and a front of the image
  is reported as flashed (`ExtractTruncated`, `Unnoticed`).
- Data behind the end of an xz stream fail the decoder, in an xz disk image when
  all of it has been written; behind the first member of a gzip
  stream they are ignored.
- After `flash_from_url` has returned, the writer task takes the closed progress
  channel for its end and closes the device with Ok.
- Error output of the children of the blob pipeline is piped and not read.
- The repository's `README.md` 127-130 says that the automotive default-partitions
  list restricts what is flashed. It does only for an image in that schema: when
  any layer uses the generic partition key, the generic list alone is read. A
  partition of the list that no layer has is passed over in silence.
- `README.md` 142-143 promises the fall-back to file names for an image that lacks
  annotations. It is taken if no layer has a title, or for a single tar; an image
  with titles only and a name that is none of them is an error.
- Of a single layer that is not a tar, the whole is flashed, whatever file name
  `-t` asks for. A tar with two entries of one name yields the first or the last
  of them, depending on when the other files are found.
- A registry that answers `/v2/` with 200 and wants a token for the rest is never
  asked for one; a Basic challenge on `/v2/` is refused although the credentials
  would do; a token that runs out is not renewed (`ErrorsHaveACause` counts the
  first two as not readable, the third as a fault).
- A layer whose digest is shorter than 12 bytes makes `from_oci.rs` 786 panic, which
  ends the release build at once (`Cargo.toml`, `panic = "abort"`) and leaves the
  temporary directory behind. Digests in the model are long enough.
- `README.md` 166 says `--buffer-size` defaults to 1024; it is 128 (`main.rs` 46-47).

## 8 Limits

Only model-checked: the liveness properties, as fairness and ENABLED are beyond
the prover. Every invariant and every refinement that a passing run checks is a
theorem as well.

Not modelled, and why:

- codecs, TLS, HTTP, tar and the kernel are external: modelled by what the code
  relies on (a decoder rejects in the end what is not its format, perhaps after
  some garbage; gzip ends with its member, xz with the input);
- bodies with no length are modelled in `UrlFlash` (`framed`), not in the OCI
  modules, where a body that ends early is an error of the connection;
- the macOS writer, which opens with F_NOCACHE and never syncs; seeks backwards,
  which no caller makes;
- block sizes of a sparse image that are not multiples of 4, and its integer
  overflow checks;
- zstd, which every path rejects; multi-member gzip;
- durations: retry delays, `Retry-After`, timeouts as numbers;
- what is only displayed: progress, memory, error messages;
- command line, HTTP client configuration, reference parsing: no state, pure
  functions of strings whose rules would be copied, not checked;
- `extract_files_by_annotations_to_dir` (`from_oci.rs` 592-643), which nothing calls;
- directories in file names: tar entries are matched by the last part of
  their path;
- that the tag may be moved between the two requests of the fall-back: both are
  assumed to see one manifest;
- more than one device: the first is used, with a warning.

## 9 Plan

Order: what every byte of an image passes through came first.

1. Done: the byte channel with its proofs and the abstract pipe; the URL flash
   over its parts with the abstract flash; the blob pipeline; the OCI flash; the
   block writer with its opening; detector and parser, composed; artifact resolution, registry client and fastboot
   with the abstract partition flash.
2. Done: inductive invariants of both flashes, the blob pipeline, the block writer,
   the writer task with detector and parser, and fastboot, with all their safety
   properties, and the step simulations of `Flash` (for both flashes) and of
   `PartitionFlash`.
