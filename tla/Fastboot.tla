------------------------------- MODULE Fastboot -------------------------------
(***************************************************************************)
(* fls fastboot (fastboot.rs): an OCI artifact is resolved, its partitions *)
(* are extracted into a temporary directory, and the fastboot tool writes  *)
(* them to a device, one after the other.                                  *)
(*                                                                         *)
(* Composed of the registry client (RegistryClient), the manifest          *)
(* (OciManifest) and the child process (FastbootCli).  Downloading a blob  *)
(* is one step with the outcomes that OciBlobPipeline has: the whole blob, *)
(* a short file that counts as whole (run oci_masked), an error            *)
(* (ExtractionFails), and a download that never ends (DownloadHangs).  The *)
(* step of the program (pc) names where flash_from_fastboot stands.        *)
(***************************************************************************)
EXTENDS OciManifest, RegistryClient, FastbootCli, FiniteSets

CONSTANTS
  Worlds,   (* what a run may meet: root (the document under the tag),     *)
            (* overrides (-t partition:title), serial (is -s given?) and   *)
            (* clients (the registries and credentials to try)             *)
  Order     (* the partition names there are, as sort_by orders them       *)

Names == {Order[k] : k \in DOMAIN Order}

(* The image behind a document: the document itself, or that of the        *)
(* platform chosen if it is an index.                                      *)
ImageBehind(root) ==
  LET document == Parse(root)
      linux    == FindLinuxManifest(document)
  IN  IF document.kind # "index" THEN document
      ELSE IF linux = 0 THEN Unreadable ELSE Parse(document.manifests[linux].document)

(* The names are known, each once: those that may be partitions, and those *)
(* that -t gives.  Layers come in a sequence, and no key is "none", which  *)
(* stands for the lack of a schema.                                        *)
ASSUME FastbootAssumption ==
  /\ DOMAIN Order \subseteq Nat
  /\ \A k, l \in DOMAIN Order : Order[k] = Order[l] => k = l
  /\ GoodNames \subseteq Names
  /\ \A w \in Worlds :
       /\ w.overrides \in Seq(ToSet(w.overrides))
       /\ \A k \in DOMAIN w.overrides : w.overrides[k][1] \in Names
       /\ LET image == ImageBehind(w.root)
          IN  image.kind = "image" =>
                /\ image.layers \in Seq(ToSet(image.layers))
                /\ "none" \notin DOMAIN image.defaults
                /\ \A k \in DOMAIN image.layers : "none" \notin DOMAIN image.layers[k].annotations

VARIABLES
  world,
  pc,
  mode,            (* "annotations", then perhaps "patterns"               *)
  manifest,        (* the manifest resolved                                *)
  tempDir,         (* does the temporary directory exist?                  *)
  files,           (* what was written in it, by path                      *)
  i,               (* the layer, and then the override, to look at next    *)
  partitionFiles,  (* partition_files: partition to path                   *)
  titleToPath,     (* title_to_path                                        *)
  queue,           (* the partitions still to flash                        *)
  result,          (* "none", "ok" or "err"                                *)
  fault            (* history: has something failed that the program does  *)
                   (* not command?                                         *)

programVars == <<world, pc, mode, manifest, tempDir, files, i, partitionFiles,
                 titleToPath, queue, result, fault>>
vars == <<programVars, registry, token, childVars>>

Overrides == world.overrides
Layers    == manifest.layers

Init ==
  /\ world \in Worlds /\ registry \in world.clients /\ token = "none" /\ CliInit
  /\ pc = "tempdir" /\ mode = "annotations" /\ manifest = Unreadable
  /\ tempDir = FALSE /\ files = <<>> /\ i = 1
  /\ partitionFiles = <<>> /\ titleToPath = <<>> /\ queue = {}
  /\ result = "none" /\ fault = FALSE

-----------------------------------------------------------------------------
(* Steps of the program.  Each leaves the rest of the state to Keep.       *)

Keep == UNCHANGED <<world, mode, manifest, files, i, partitionFiles, titleToPath, queue>>
KeepClient == UNCHANGED <<registry, token>>
KeepChild  == UNCHANGED childVars

Goto(step) == pc' = step /\ UNCHANGED <<tempDir, result>>

(* Whatever the way out, the TempDirGuard is dropped.                      *)
Return(answer) == pc' = "returned" /\ result' = answer /\ tempDir' = FALSE

(* Give up for a reason the program found itself, or for a fault.          *)
Refuse == Return("err") /\ UNCHANGED fault /\ Keep
Suffer == Return("err") /\ fault' = TRUE /\ Keep

(* TempDirGuard::new, and flash_from_fastboot from there.                  *)
MakeTempDir ==
  /\ pc = "tempdir"
  /\ pc' = "check" /\ tempDir' = TRUE
  /\ UNCHANGED <<result, fault>> /\ Keep /\ KeepClient /\ KeepChild

MakeTempDirFails == pc = "tempdir" /\ Suffer /\ KeepClient /\ KeepChild

-----------------------------------------------------------------------------
(* connect_and_resolve: a new client, the API check, a token if asked for, *)
(* the manifest, and the platform's manifest if it is an index.            *)

Requesting == pc \in {"check", "token", "manifest", "platform"}

(* send() fails; none of these requests is repeated.                       *)
RequestFails == Requesting /\ Suffer /\ KeepClient /\ KeepChild

CheckApi ==
  /\ pc = "check"
  /\ \/ ApiStatus = "ok" /\ Goto("manifest") /\ UNCHANGED fault /\ Keep
     \/ ApiStatus # "ok" /\ ChallengeParsed /\ Goto("token") /\ UNCHANGED fault /\ Keep
     \/ ApiStatus # "ok" /\ ~ChallengeParsed /\ Refuse
  /\ KeepClient /\ KeepChild

RequestToken ==
  /\ pc = "token"
  /\ IF TokenGranted
     THEN Goto("manifest") /\ token' = "valid" /\ UNCHANGED fault /\ Keep
     ELSE Refuse /\ UNCHANGED token
  /\ UNCHANGED registry /\ KeepChild

AfterManifest == IF mode = "annotations" THEN "layers" ELSE "single"

(* A document has been fetched; only an image can be worked on.            *)
Resolved(document) ==
  \/ /\ document.kind = "image"
     /\ manifest' = document /\ i' = 1
     /\ Goto(AfterManifest)
     /\ UNCHANGED <<world, mode, files, partitionFiles, titleToPath, queue, fault>>
  \/ document.kind # "image" /\ Refuse

FetchManifest ==
  /\ pc = "manifest"
  /\ LET document == Parse(world.root)
     IN  \/ ~Answers /\ Refuse
         \/ Answers /\ document.kind # "index" /\ Resolved(document)
         \/ /\ Answers /\ document.kind = "index"
            /\ IF FindLinuxManifest(document) = 0 THEN Refuse
               ELSE Goto("platform") /\ UNCHANGED fault /\ Keep
  /\ KeepClient /\ KeepChild

FetchPlatformManifest ==
  /\ pc = "platform"
  /\ \/ ~Answers /\ Refuse
     \/ /\ Answers
        /\ Resolved(Parse(world.root.manifests[FindLinuxManifest(world.root)].document))
  /\ KeepClient /\ KeepChild

-----------------------------------------------------------------------------
(* extract_files_by_annotations_with_overrides_to_dir                      *)

Overridden     == {Overrides[k][1] : k \in DOMAIN Overrides}
OverrideTitles == {Overrides[k][2] : k \in DOMAIN Overrides}

ImagePath(partition) == <<"img", partition>>

(* What stream_blob_to_file leaves of a layer.                             *)
Blob(layer, whole) == [layer |-> layer.digest, entry |-> "all", whole |-> whole]

(* The blob arrives.  When the download of it is given up half-way, the    *)
(* short file counts as a whole one.  The other ways for it to end, or not *)
(* to end, are ExtractionFails and DownloadHangs.                          *)
Extract(layer, path) ==
  /\ Answers
  /\ \E whole \in BOOLEAN :
       /\ files' = Put(files, path, Blob(layer, whole))
       /\ fault' = (fault \/ ~whole)

Layer == Layers[i]
HasPartition == ResolveSchema(Layers) \in DOMAIN Layer.annotations
Name  == Partition(Layer, ResolveSchema(Layers))

(* Mutant of Selected: the manifest's default partitions are not asked.    *)
SelectedAll == HasPartition /\ Name \notin Overridden

(* Is the layer extracted for the partition it is annotated with?          *)
Selected ==
  /\ HasPartition
  /\ Name \notin Overridden
  /\ HasDefaults(manifest) => Name \in DefaultPartitions(manifest)

AtLayer == pc = "layers" /\ i <= Len(Layers) /\ ~DefaultsInvalid(manifest)

RefuseDefaults == pc = "layers" /\ DefaultsInvalid(manifest) /\ Refuse /\ KeepClient /\ KeepChild

SkipLayer ==
  /\ AtLayer /\ ~Selected
  /\ i' = i + 1
  /\ Goto(pc) /\ UNCHANGED <<world, mode, manifest, files, partitionFiles, titleToPath, queue, fault>>
  /\ KeepClient /\ KeepChild

(* Mutant of RefuseLayer: the compression is looked at before the          *)
(* selection.                                                              *)
RefuseLayerEarly == AtLayer /\ ~Supported(Layer) /\ Refuse /\ KeepClient /\ KeepChild

RefuseLayer ==
  /\ AtLayer /\ Selected
  /\ ~Supported(Layer) \/ ~Sanitizes(Name)
  /\ Refuse /\ KeepClient /\ KeepChild

(* Mutant of ExtractLayer: the annotation becomes a file name as it is.    *)
ExtractLayerUnsanitized ==
  /\ AtLayer /\ Selected /\ Supported(Layer)
  /\ Extract(Layer, ImagePath(Name))
  /\ partitionFiles' = Put(partitionFiles, Name, ImagePath(Name))
  /\ titleToPath' = IF "title" \in DOMAIN Layer.annotations
                    THEN Put(titleToPath, Layer.annotations.title, ImagePath(Name))
                    ELSE titleToPath
  /\ i' = i + 1
  /\ Goto(pc) /\ UNCHANGED <<world, mode, manifest, queue>>
  /\ KeepClient /\ KeepChild

(* The layer's blob becomes <partition>.img.                               *)
ExtractLayer ==
  /\ AtLayer /\ Selected /\ Supported(Layer) /\ Sanitizes(Name)
  /\ Extract(Layer, ImagePath(Name))
  /\ partitionFiles' = Put(partitionFiles, Name, ImagePath(Name))
  /\ titleToPath' = IF "title" \in DOMAIN Layer.annotations
                    THEN Put(titleToPath, Layer.annotations.title, ImagePath(Name))
                    ELSE titleToPath
  /\ i' = i + 1
  /\ Goto(pc) /\ UNCHANGED <<world, mode, manifest, queue>>
  /\ KeepClient /\ KeepChild

(* A single tar that no override names is taken for a bundle of files.     *)
IsBundle(layers, titles) ==
  /\ Len(layers) = 1 /\ LooksLikeTar(layers[1])
  /\ Titles(layers) \cap titles = {}

(* Ok(None): the caller falls back to file names, with a client of its own.*)
FallBack ==
  /\ pc' = "check" /\ mode' = "patterns" /\ token' = "none"
  /\ UNCHANGED <<world, manifest, tempDir, files, i, partitionFiles, titleToPath, queue,
                 result, fault, registry>>

(* No layer is annotated, and there is nothing -t could name but files.    *)
Bare ==
  /\ Annotated(Layers) = {}
  /\ Titles(Layers) = {} \/ (Overrides # <<>> /\ IsBundle(Layers, OverrideTitles))

LayersDone ==
  /\ pc = "layers" /\ i > Len(Layers) /\ ~DefaultsInvalid(manifest)
  /\ \/ /\ ~Bare
        /\ pc' = "overrides" /\ i' = 1
        /\ UNCHANGED <<world, mode, manifest, tempDir, files, partitionFiles, titleToPath,
                       queue, result, fault>>
        /\ KeepClient
     \/ Bare /\ Overrides = <<>> /\ Refuse /\ KeepClient
     \/ Bare /\ Overrides # <<>> /\ FallBack
  /\ KeepChild

AtOverride == pc = "overrides" /\ i <= Len(Overrides)
Target == Overrides[i][1]
Title  == Overrides[i][2]
Titled == TitleToLayer(Layers, Title)

(* A layer that has been extracted already is not downloaded again.        *)
ReuseFile ==
  /\ AtOverride /\ Sanitizes(Target) /\ Title \in DOMAIN titleToPath
  /\ partitionFiles' = Put(partitionFiles, Target, titleToPath[Title])
  /\ i' = i + 1
  /\ Goto(pc) /\ UNCHANGED <<world, mode, manifest, files, titleToPath, queue, fault>>
  /\ KeepClient /\ KeepChild

RefuseOverride ==
  /\ AtOverride
  /\ \/ ~Sanitizes(Target)
     \/ /\ Title \notin DOMAIN titleToPath
        /\ Titled # 0 => ~Supported(Layers[Titled])
  /\ Refuse /\ KeepClient /\ KeepChild

ExtractOverride ==
  /\ AtOverride /\ Sanitizes(Target) /\ Title \notin DOMAIN titleToPath
  /\ Titled # 0 /\ Supported(Layers[Titled])
  /\ Extract(Layers[Titled], ImagePath(Target))
  /\ titleToPath' = Put(titleToPath, Title, ImagePath(Target))
  /\ partitionFiles' = Put(partitionFiles, Target, ImagePath(Target))
  /\ i' = i + 1
  /\ Goto(pc) /\ UNCHANGED <<world, mode, manifest, queue>>
  /\ KeepClient /\ KeepChild

AfterExtraction == IF world.serial THEN "flash" ELSE "detect"

BeginFlashing(map) ==
  /\ queue' = DOMAIN map
  /\ Goto(AfterExtraction)

OverridesDone ==
  /\ pc = "overrides" /\ i > Len(Overrides)
  /\ IF DOMAIN partitionFiles = {} THEN Refuse
     ELSE BeginFlashing(partitionFiles)
          /\ UNCHANGED <<world, mode, manifest, files, i, partitionFiles, titleToPath, fault>>
  /\ KeepClient /\ KeepChild

-----------------------------------------------------------------------------
(* extract_files_by_patterns_to_dir, extract_files_from_oci_image_to_dir   *)

FilePath(name) == <<"file", name>>
Single == Layers[GetSingleLayer(manifest)]
ReadAsTar(layer, names) == LooksLikeTar(layer) \/ Cardinality(names) > 1

RefuseSingle ==
  /\ pc = "single"
  /\ GetSingleLayer(manifest) # 0 => ~Supported(Single)
  /\ Refuse /\ KeepClient /\ KeepChild

(* The files found become the partitions' files, or the flash ends.        *)
MapPatterns(found) ==
  IF OverrideTitles \subseteq DOMAIN found
  THEN /\ files' = [path \in {FilePath(name) : name \in OverrideTitles} |-> found[path[2]]]
       /\ partitionFiles' = [p \in Overridden |->
            FilePath(Overrides[SelectLastInSeq(Overrides, LAMBDA o : o[1] = p)][2])]
       /\ BeginFlashing(partitionFiles')
       /\ UNCHANGED <<world, mode, manifest, i, titleToPath>>
  ELSE Return("err") /\ Keep

AtSingle == pc = "single" /\ GetSingleLayer(manifest) # 0 /\ Supported(Single) /\ Answers

(* stream_blob_to_tar_files: stops when it has a file for every name.  If  *)
(* the stream breaks off before, the last of them may be short.  What is   *)
(* no tar cannot be read as one.  (See also ExtractionFails and            *)
(* DownloadHangs.)                                                         *)
ExtractFromTar ==
  /\ AtSingle /\ ReadAsTar(Single, OverrideTitles)
  /\ IF Single.entries = <<>>
     THEN Return("err") /\ Keep /\ UNCHANGED fault
     ELSE \E short \in {""} \union OverrideTitles :
            /\ MapPatterns([name \in OverrideTitles \cap ToSet(Single.entries) |->
                 [layer |-> Single.digest, entry |-> name, whole |-> name # short]])
            /\ fault' = (fault \/ short # "")
  /\ KeepClient /\ KeepChild

(* A layer that is one file: it is taken, whatever the name asked for.     *)
(* (See also ExtractionFails and DownloadHangs.)                           *)
ExtractDirectly ==
  /\ AtSingle /\ ~ReadAsTar(Single, OverrideTitles)
  /\ \E whole \in BOOLEAN :
       /\ MapPatterns([name \in OverrideTitles |-> Blob(Single, whole)])
       /\ fault' = (fault \/ ~whole)
  /\ KeepClient /\ KeepChild

(* The blob of a layer is about to be downloaded, by ExtractLayer,         *)
(* ExtractOverride, ExtractFromTar or ExtractDirectly.                     *)
Downloading ==
  \/ AtLayer /\ Selected /\ Supported(Layer) /\ Sanitizes(Name)
  \/ /\ AtOverride /\ Sanitizes(Target) /\ Title \notin DOMAIN titleToPath
     /\ Titled # 0 /\ Supported(Layers[Titled])
  \/ pc = "single" /\ GetSingleLayer(manifest) # 0 /\ Supported(Single)

(* The blob cannot be had, the file cannot be written, the decompressor    *)
(* cannot be started.                                                      *)
ExtractionFails == Downloading /\ Suffer /\ KeepClient /\ KeepChild

(* The consumer or the decompressor has ended before the download, with    *)
(* the buffer full: send waits for permits that never come back, without a *)
(* timeout (OciBlobPipeline's Stuck).  Something must have failed, but for *)
(* a tar: its consumer ends when it has its files, or finds no tar.  What  *)
(* has been written by then is never looked at.                            *)
DownloadHangs ==
  /\ Downloading /\ Answers
  /\ Goto("stuck")
  /\ \/ fault' = TRUE
     \/ pc = "single" /\ ReadAsTar(Single, OverrideTitles) /\ UNCHANGED fault
  /\ Keep /\ KeepClient /\ KeepChild

-----------------------------------------------------------------------------
(* flash_partitions_with_fastboot_cli                                      *)

Commanding == pc \in {"detect", "flash", "continue"}

(* Nothing but the step of the child changes.                              *)
ProgramWaits == UNCHANGED programVars /\ KeepClient

(* partitions.sort_by: the order the partitions are flashed in.            *)
Rank(p) == CHOOSE k \in DOMAIN Order : Order[k] = p
Foremost == CHOOSE p \in queue : \A q \in queue : Rank(p) <= Rank(q)

NextCommand ==
  CASE pc = "detect"                  -> <<"devices">>
    [] pc = "flash" /\ queue # {}     -> <<"flash", Foremost, partitionFiles[Foremost]>>
    [] OTHER                          -> <<"continue">>

StartCommand == Commanding /\ Spawn(NextCommand) /\ ProgramWaits

(* fastboot is not installed, or no process can be had.                    *)
SpawnFails == Commanding /\ child = "none" /\ Suffer /\ KeepClient /\ KeepChild

(* Mutant of CommandDone: the exit status is not looked at.                *)
CommandDoneUnchecked ==
  /\ Commanding /\ child \in {"exit0", "failed"} /\ Reap
  /\ UNCHANGED <<world, mode, manifest, files, i, partitionFiles, titleToPath, fault>>
  /\ KeepClient
  /\ CASE command[1] = "devices"  -> Goto("flash") /\ UNCHANGED queue
       [] command[1] = "flash"    -> Goto("flash") /\ queue' = queue \ {Foremost}
       [] command[1] = "continue" -> Return("ok") /\ UNCHANGED queue

(* The command ended well: the next one, or success.  "devices" must have  *)
(* listed a device.                                                        *)
CommandDone ==
  /\ Commanding /\ child = "exit0" /\ Reap
  /\ \/ command[1] = "devices" /\ attached /\ Goto("flash") /\ UNCHANGED <<queue, fault>>
     \/ command[1] = "devices" /\ ~attached /\ Return("err") /\ UNCHANGED <<queue, fault>>
     \/ command[1] = "flash" /\ Goto("flash") /\ queue' = queue \ {Foremost} /\ UNCHANGED fault
     \/ command[1] = "continue" /\ Return("ok") /\ UNCHANGED <<queue, fault>>
  /\ UNCHANGED <<world, mode, manifest, files, i, partitionFiles, titleToPath>>
  /\ KeepClient

(* One command fails: no other follows, not even "continue".               *)
CommandFailed == Commanding /\ child = "failed" /\ Reap /\ Suffer /\ KeepClient

(* Mutants of TimesOut: the child goes on; there is no timeout.            *)
TimesOutWithoutKill == Commanding /\ child = "running" /\ Suffer /\ KeepClient /\ KeepChild
NeverTimesOut == FALSE /\ Commanding /\ Kill /\ Suffer /\ KeepClient

(* timeout(): the child is killed (kill_on_drop) and the flash ends.       *)
TimesOut == Commanding /\ Kill /\ Suffer /\ KeepClient

-----------------------------------------------------------------------------
ProgramNext ==
  \/ MakeTempDir \/ MakeTempDirFails
  \/ RequestFails \/ CheckApi \/ RequestToken \/ FetchManifest \/ FetchPlatformManifest
  \/ RefuseDefaults \/ SkipLayer \/ RefuseLayer \/ ExtractLayer \/ LayersDone
  \/ ReuseFile \/ RefuseOverride \/ ExtractOverride \/ OverridesDone
  \/ RefuseSingle \/ ExtractFromTar \/ ExtractDirectly
  \/ ExtractionFails \/ DownloadHangs
  \/ StartCommand \/ SpawnFails \/ CommandDone \/ CommandFailed \/ TimesOut

ChildNext ==
  /\ \/ ChildBeginsFlash
     \/ ChildEndsFlash(files)
     \/ ChildContinues \/ ChildLists \/ ChildFails
  /\ ProgramWaits

(* A token lives as long as the registry says.                             *)
TokenRunsOut == TokenExpires /\ pc # "returned" /\ fault' = TRUE /\ Keep
                /\ UNCHANGED <<pc, tempDir, result>> /\ KeepChild

(* The user or the system kills fls: no destructor runs.                   *)
Killed ==
  /\ pc \notin {"returned", "killed"}
  /\ pc' = "killed" /\ fault' = TRUE
  /\ UNCHANGED <<tempDir, result>> /\ Keep /\ KeepClient /\ KeepChild

Next == ProgramNext \/ ChildNext \/ TokenRunsOut \/ Killed

Spec == Init /\ [][Next]_vars

(* The program is one task, and what it waits for ends: requests by the    *)
(* client's timeouts, commands by --timeout.  Nothing is assumed of the    *)
(* child.  The one wait that nothing ends, for the permits of a buffer     *)
(* nobody reads any more, is a step of its own, DownloadHangs, and no step *)
(* of the program follows it.                                              *)
FairSpec == Spec /\ WF_vars(ProgramNext)

-----------------------------------------------------------------------------
(* Properties.                                                             *)

Steps == {"tempdir", "check", "token", "manifest", "platform", "layers", "overrides",
          "single", "stuck", "detect", "flash", "continue", "returned", "killed"}
TypeOK ==
  /\ world \in Worlds /\ registry \in world.clients /\ token \in Tokens
  /\ pc \in Steps /\ mode \in {"annotations", "patterns"}
  /\ manifest.kind \in {"unreadable", "image"}
  /\ tempDir \in BOOLEAN /\ fault \in BOOLEAN
  /\ i \in Nat \ {0}
  /\ DOMAIN partitionFiles \subseteq GoodNames \union Overridden
  /\ queue \subseteq Names
  /\ child \in {"none", "running", "exit0", "failed"} /\ (child = "none" <=> command = <<>>)
  /\ attached \in BOOLEAN /\ booted \in BOOLEAN /\ DOMAIN device \subseteq Names
  /\ result \in {"none", "ok", "err"} /\ (pc = "returned" <=> result # "none")

(* The reference: what a run should flash, read off the artifact and the   *)
(* command line as a whole.                                                *)

Image == ImageBehind(world.root)

Schema == ResolveSchema(Image.layers)
AutoLayers ==
  {k \in Annotated(Image.layers) :
     LET name == Partition(Image.layers[k], Schema)
     IN  name \notin Overridden /\ (HasDefaults(Image) => name \in DefaultPartitions(Image))}
AutoNames == {Partition(Image.layers[k], Schema) : k \in AutoLayers}

(* The image speaks of no partitions: -t names files in it.                *)
NamesFiles ==
  /\ Overrides # <<>> /\ Annotated(Image.layers) = {}
  /\ Titles(Image.layers) = {} \/ IsBundle(Image.layers, OverrideTitles)

(* The title the user wants on a partition: the last one given.            *)
WantedTitle(p) == Overrides[SelectLastInSeq(Overrides, LAMBDA o : o[1] = p)][2]
LayerTitled(title) == Image.layers[TitleToLayer(Image.layers, title)]
AutoLayer(p) == Image.layers[CHOOSE k \in AutoLayers : Partition(Image.layers[k], Schema) = p]

Wanted == IF NamesFiles THEN Overridden ELSE AutoNames \union Overridden

(* Where the content of partition p comes from.                            *)
Source(p) ==
  IF NamesFiles
  THEN LET single == Image.layers[GetSingleLayer(Image)]
       IN  <<single.digest, IF ReadAsTar(single, OverrideTitles) THEN WantedTitle(p) ELSE "all">>
  ELSE <<(IF p \in Overridden THEN LayerTitled(WantedTitle(p)) ELSE AutoLayer(p)).digest, "all">>

(* No two layers claim a title or a partition, no partition is given twice.*)
Unambiguous ==
  /\ \A k, l \in DOMAIN Image.layers : k # l =>
       /\ \A title \in Titles(Image.layers) :
            ~(HasTitle(Image.layers[k], title) /\ HasTitle(Image.layers[l], title))
       /\ {k, l} \subseteq AutoLayers =>
            Partition(Image.layers[k], Schema) # Partition(Image.layers[l], Schema)
  /\ Cardinality(Overridden) = Len(Overrides)

(* Success means that the partitions flashed are those the image and -t    *)
(* ask for, no more and no fewer, and each holds the layer or the file     *)
(* meant for it (from_oci.rs 704-709, README.md 132-143).  That no two     *)
(* layers or options claim the same name is needed for the latter: see run *)
(* fastboot_alias.  Which default list counts is what the code says        *)
(* (from_oci.rs 719-733): README.md 127-130 knows only of one, and differs *)
(* for an automotive list on an image in the generic schema.               *)
FlashedAsMapped ==
  result = "ok" =>
    /\ DOMAIN device = Wanted /\ booted
    /\ Unambiguous => \A p \in Wanted : <<device[p].layer, device[p].entry>> = Source(p)

(* Can the registry be read, is everything asked for in the image?         *)
MayRead ==
  \/ registry.policy \in {"open", "public"}
  \/ registry.policy \in {"private", "lazy_basic"} /\ registry.creds

LayersFit ==
  /\ Annotated(Image.layers) # {} => ~DefaultsInvalid(Image)
  /\ Wanted # {} /\ Wanted \subseteq GoodNames
  /\ OverrideTitles \subseteq Titles(Image.layers)
  /\ \A k \in AutoLayers : Supported(Image.layers[k])
  /\ \A title \in OverrideTitles :
       Supported(LayerTitled(title)) \/ \E k \in AutoLayers : HasTitle(Image.layers[k], title)

FilesFit ==
  LET single == Image.layers[GetSingleLayer(Image)]
  IN  /\ GetSingleLayer(Image) # 0 /\ Supported(single)
      /\ ReadAsTar(single, OverrideTitles) => OverrideTitles \subseteq ToSet(single.entries)

Feasible ==
  /\ MayRead /\ attached
  /\ Image.kind = "image"
  /\ IF NamesFiles THEN FilesFit ELSE LayersFit

(* An error is answered only if something failed or what was asked for     *)
(* cannot be had; a layer that is not wanted, whatever is wrong with it,   *)
(* is no reason.  And nothing is flashed with success that cannot be had.  *)
ErrorsHaveACause ==
  /\ result = "err" => fault \/ ~Feasible
  /\ result = "ok" => Feasible

(* The file a child reads stays until the child has ended, also when it is *)
(* ended by the timeout (fastboot.rs 160, 145-149); what is left of it     *)
(* when the program has returned is nothing.                               *)
FilesOutliveTheChild ==
  /\ child = "running" /\ command[1] = "flash" => tempDir /\ command[3] \in DOMAIN files
  /\ result # "none" => ~tempDir /\ child = "none"

(* The user's view of the device: see PartitionFlash.                      *)
Settled == queue # {} \/ device # <<>>

APartitionFlash == INSTANCE PartitionFlash WITH
  chosen <- IF Settled THEN [p \in DOMAIN partitionFiles |-> files[partitionFiles[p]]] ELSE <<>>
PartitionFlashSpec == APartitionFlash!Spec

(* fls fastboot ends, also when the registry is silent, the tool hangs or  *)
(* there is no device ("--timeout"), unless a download waits for permits   *)
(* nobody gives back, as in OciBlobPipeline's PipelineReturns.             *)
FlashReturns == <>(result # "none" \/ pc \in {"stuck", "killed"})

(* "each entry maps a target partition to a layer title" (from_oci.rs      *)
(* 704-705).                                                               *)
OverrideFlashesItsTitle ==
  result = "ok" /\ ~NamesFiles =>
    \A p \in Overridden : device[p].layer = LayerTitled(WantedTitle(p)).digest
=============================================================================
