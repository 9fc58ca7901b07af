---------------------------- MODULE FastbootProofs ----------------------------
(***************************************************************************)
(* Theorems about Fastboot, for every artifact, every registry, every set  *)
(* of overrides and every order of the program's and the child's steps.    *)
(***************************************************************************)
EXTENDS Fastboot, WellFoundedInduction, FiniteSetTheorems, TLAPS

(* The inductive invariant.                                                *)

(* What goes to a partition.                                               *)
Content(p) == files[partitionFiles[p]]

(* Between the extraction and the return nothing but the child and the     *)
(* device changes.                                                         *)
Flashing == pc \in {"detect", "flash"}

(* The program's own state: the directory is there while it works, and     *)
(* whatever it has noted is the path of a file in it.                      *)
PathsInv ==
  /\ \A p \in DOMAIN partitionFiles : partitionFiles[p] \in DOMAIN files
  /\ mode = "annotations" => \A t \in DOMAIN titleToPath : titleToPath[t] \in DOMAIN files
  /\ pc \notin {"tempdir", "returned", "killed"} => tempDir
  /\ pc = "returned" => ~tempDir
  /\ pc # "continue"
  /\ pc = "single" => mode = "patterns"
  /\ pc \in {"layers", "overrides"} => mode = "annotations"
  /\ mode = "patterns" => Overrides # <<>>

(* A child is there only while partitions are flashed, or survives the     *)
(* program; and it does what the state of the queue calls for.             *)
ChildInv ==
  /\ child # "none" => pc \in {"detect", "flash", "killed"} /\ Settled
  /\ pc = "detect" /\ child # "none" => command = <<"devices">>
  /\ child # "none" =>
       \/ command = <<"devices">> /\ pc \in {"detect", "killed"}
       \/ queue # {} /\ command = <<"flash", Foremost, partitionFiles[Foremost]>>
       \/ queue = {} /\ command = <<"continue">>
  /\ child = "exit0" /\ command[1] = "continue" => booted
  /\ child = "exit0" /\ command[1] = "flash" => Foremost \in DOMAIN device

(* The device: everything before the first partition of the queue is       *)
(* written, nothing after it is, and the first one is if the child is at   *)
(* it or has just ended.                                                   *)
DeviceInv ==
  /\ device = [p \in DOMAIN device |-> device[p]]
  /\ queue \subseteq DOMAIN partitionFiles
  /\ pc \notin {"detect", "flash", "returned", "killed"} => ~Settled
  /\ Flashing => Settled /\ DOMAIN partitionFiles # {}
  /\ booted => Settled /\ queue = {}
  /\ Settled =>
       /\ DOMAIN partitionFiles # {}
       /\ DOMAIN device \subseteq DOMAIN partitionFiles
       /\ \A p \in DOMAIN partitionFiles \ queue :
            /\ p \in DOMAIN device /\ device[p] = Content(p)
            /\ \A q \in queue : Rank(p) < Rank(q)
       /\ result = "none" =>
            \A p \in DOMAIN device \intersect queue :
              /\ p = Foremost /\ child # "none" /\ command[1] = "flash"
              /\ child = "running" => device[p] = Torn
              /\ child = "exit0" => device[p] = Content(p)

FlashInv == TypeOK /\ PathsInv /\ ChildInv /\ DeviceInv /\ FilesOutliveTheChild

(* The names that -t gives stay what they are.                             *)
LEMMA SameNames ==
  ASSUME UNCHANGED world
  PROVE  Overridden' = Overridden
BY DEF Overridden, Overrides

-----------------------------------------------------------------------------
(* Least and greatest numbers, and the first of a set of names.            *)

LEMMA LeastNumber ==
  ASSUME NEW S \in SUBSET Nat, S # {}
  PROVE  \E x \in S : \A y \in S : x <= y
<1>1. \E x \in S : \A y \in S : ~(<<y, x>> \in OpToRel(<, Nat))
  BY NatLessThanWellFounded, WFMin
<1>2. PICK x \in S : \A y \in S : ~(<<y, x>> \in OpToRel(<, Nat))
  BY <1>1
<1>3. \A y \in S : <<y, x>> \in Nat \X Nat /\ <<y, x>>[1] = y /\ <<y, x>>[2] = x
  OBVIOUS
<1>4. \A y \in S : ~(y < x)
  BY <1>2, <1>3 DEF OpToRel
<1> QED BY <1>4

LEMMA GreatestNumber ==
  ASSUME NEW n \in Nat, NEW S \in SUBSET (1 .. n), S # {}
  PROVE  Max(S) \in S
<1> DEFINE T == {n - k : k \in S}
<1>1. T \in SUBSET Nat /\ T # {}
  <2>1. \A k \in S : n - k \in Nat
    OBVIOUS
  <2> QED BY <2>1
<1>2. PICK x \in T : \A y \in T : x <= y
  BY <1>1, LeastNumber
<1>3. PICK k \in S : x = n - k
  BY <1>2
<1>4. \A j \in S : k >= j
  <2> TAKE j \in S
  <2>1. n - j \in T
    OBVIOUS
  <2>2. n - k <= n - j
    BY <1>2, <1>3, <2>1
  <2> QED BY <2>2
<1> QED BY <1>3, <1>4 DEF Max

(* The title an override gives: there is one.                              *)
LEMMA LastOverride ==
  ASSUME world \in Worlds, NEW p \in Overridden
  PROVE  /\ \E o \in DOMAIN Overrides : Overrides[o][1] = p /\ Overrides[o][2] = WantedTitle(p)
         /\ WantedTitle(p) \in OverrideTitles
<1> DEFINE I == {k \in 1 .. Len(Overrides) : Overrides[k][1] = p}
<1>1. Len(Overrides) \in Nat /\ DOMAIN Overrides = 1 .. Len(Overrides)
  <2>1. Overrides \in Seq(ToSet(Overrides))
    BY FastbootAssumption DEF Overrides
  <2> QED BY <2>1
<1>2. I \in SUBSET (1 .. Len(Overrides)) /\ I # {}
  BY <1>1 DEF Overridden
<1>3. SelectLastInSeq(Overrides, LAMBDA o : o[1] = p) = Max(I)
  BY <1>2 DEF SelectLastInSeq
<1>4. Max(I) \in I
  BY <1>1, <1>2, GreatestNumber
<1>5. Max(I) \in DOMAIN Overrides /\ Overrides[Max(I)][1] = p
  BY <1>1, <1>4
<1> HIDE DEF I
<1>6. Overrides[Max(I)][2] = WantedTitle(p)
  BY <1>3 DEF WantedTitle
<1> QED BY <1>5, <1>6 DEF OverrideTitles

LEMMA RankFacts ==
  ASSUME NEW p \in Names
  PROVE  Rank(p) \in Nat /\ Rank(p) \in DOMAIN Order /\ Order[Rank(p)] = p
<1>1. \E k \in DOMAIN Order : Order[k] = p
  BY DEF Names
<1>2. Rank(p) \in DOMAIN Order /\ Order[Rank(p)] = p
  BY <1>1 DEF Rank
<1> QED BY <1>2, FastbootAssumption

(* The first of the queue is before all others in it.                      *)
LEMMA ForemostFacts ==
  ASSUME queue \subseteq Names, queue # {}
  PROVE  Foremost \in queue /\ \A q \in queue \ {Foremost} : Rank(Foremost) < Rank(q)
<1> DEFINE ranks == {Rank(p) : p \in queue}
<1>1. \A p \in queue : Rank(p) \in Nat /\ Order[Rank(p)] = p
  BY RankFacts
<1>2. ranks \in SUBSET Nat /\ ranks # {}
  BY <1>1
<1>3. PICK x \in ranks : \A y \in ranks : x <= y
  BY <1>2, LeastNumber
<1>4. \E p \in queue : \A q \in queue : Rank(p) <= Rank(q)
  BY <1>3
<1>5. Foremost \in queue /\ \A q \in queue : Rank(Foremost) <= Rank(q)
  BY <1>4 DEF Foremost
<1>6. \A q \in queue \ {Foremost} : Rank(Foremost) # Rank(q)
  BY <1>1, <1>5
<1> QED BY <1>1, <1>5, <1>6

-----------------------------------------------------------------------------
(* The steps before the flash.                                             *)

Preparing == pc \notin {"detect", "flash", "continue", "returned", "killed"}

LEMMA PreparingFacts ==
  ASSUME FlashInv, Preparing
  PROVE  /\ child = "none" /\ command = <<>> /\ queue = {} /\ device = <<>> /\ DOMAIN device = {}
         /\ ~booted /\ ~Settled /\ result = "none"
         /\ pc # "tempdir" => tempDir
<1>1. child = "none" /\ ~Settled
  BY DEF FlashInv, ChildInv, DeviceInv, Preparing
<1>2. queue = {} /\ device = <<>> /\ ~booted
  BY <1>1 DEF FlashInv, DeviceInv, Settled
<1>3. DOMAIN <<>> = {}
  OBVIOUS
<1> QED BY <1>1, <1>2, <1>3 DEF FlashInv, TypeOK, PathsInv, Preparing

(* Any of them that stays before it needs to be looked at for its types    *)
(* and its paths only.                                                     *)
LEMMA PreparingKeeps ==
  ASSUME FlashInv, Preparing, Preparing', TypeOK', PathsInv',
         UNCHANGED <<queue, childVars, result>>
  PROVE  FlashInv'
<1>1. /\ child = "none" /\ queue = {} /\ device = <<>> /\ DOMAIN device = {}
      /\ ~booted /\ ~Settled /\ result = "none"
  BY PreparingFacts
<1>2. UNCHANGED <<child, command, attached, device, booted, queue, result>>
  BY DEF childVars
<1>3. ~Settled'
  BY <1>1, <1>2 DEF Settled
<1>4. ChildInv' /\ FilesOutliveTheChild'
  BY <1>1, <1>2 DEF ChildInv, FilesOutliveTheChild
<1>5. DeviceInv'
  <2>1. device' = [p \in DOMAIN device' |-> device'[p]]
    BY <1>2 DEF FlashInv, DeviceInv
  <2> QED BY <1>1, <1>2, <1>3, <2>1 DEF DeviceInv, Flashing, Preparing
<1> QED BY <1>4, <1>5 DEF FlashInv

(* The end of them: everything extracted is queued.                        *)
LEMMA BeginsKeeps ==
  ASSUME FlashInv, Preparing, TypeOK', BeginFlashing(partitionFiles'),
         DOMAIN partitionFiles' # {},
         \A p \in DOMAIN partitionFiles' : partitionFiles'[p] \in DOMAIN files',
         mode' = "annotations" => \A t \in DOMAIN titleToPath' : titleToPath'[t] \in DOMAIN files',
         mode' = mode, Overrides' = Overrides, UNCHANGED childVars, pc # "tempdir"
  PROVE  FlashInv'
<1>1. /\ child = "none" /\ queue = {} /\ device = <<>> /\ DOMAIN device = {}
      /\ ~booted /\ result = "none" /\ tempDir
  BY PreparingFacts
<1>2. UNCHANGED <<child, command, attached, device, booted>>
  BY DEF childVars
<1>3. /\ queue' = DOMAIN partitionFiles' /\ result' = result /\ tempDir' = tempDir
      /\ pc' \in {"detect", "flash"}
  BY DEF BeginFlashing, AfterExtraction, Goto
<1>4. Settled'
  BY <1>3 DEF Settled
<1>5. PathsInv'
  BY <1>1, <1>3 DEF FlashInv, PathsInv
<1>6. ChildInv' /\ FilesOutliveTheChild'
  BY <1>1, <1>2, <1>3 DEF ChildInv, FilesOutliveTheChild
<1>7. DeviceInv'
  <2>1. device' = [p \in DOMAIN device' |-> device'[p]]
    BY <1>2 DEF FlashInv, DeviceInv
  <2> QED BY <1>1, <1>2, <1>3, <1>4, <2>1 DEF DeviceInv, Flashing
<1> QED BY <1>5, <1>6, <1>7 DEF FlashInv

(* The program gives up, with no child left.                               *)
LEMMA ErrorKeeps ==
  ASSUME FlashInv, pc \notin {"returned", "killed"}, Return("err"), Keep, fault' \in BOOLEAN,
         registry' = registry, token' \in Tokens, child' = "none", command' = <<>>,
         UNCHANGED <<attached, device, booted>>
  PROVE  FlashInv'
<1>1. /\ pc' = "returned" /\ result' = "err" /\ ~tempDir' /\ result = "none"
      /\ tempDir' \in BOOLEAN
      /\ UNCHANGED <<world, mode, manifest, files, i, partitionFiles, titleToPath, queue>>
  BY DEF Return, Keep, FlashInv, TypeOK
<1>2. TypeOK'
  BY <1>1, SameNames DEF FlashInv, TypeOK, Steps
<1>3. PathsInv' /\ ChildInv' /\ FilesOutliveTheChild'
  BY <1>1 DEF FlashInv, PathsInv, ChildInv, FilesOutliveTheChild, Overrides
<1>4. Settled' = Settled
  BY <1>1 DEF Settled
<1>5. DeviceInv'
  <2>1. \A p : Content(p)' = Content(p) /\ Rank(p)' = Rank(p)
    BY <1>1 DEF Content, Rank
  <2> QED BY <1>1, <1>4, <2>1 DEF FlashInv, DeviceInv, Flashing
<1> QED BY <1>2, <1>3, <1>5 DEF FlashInv

(* The names of partitions are known.                                      *)
LEMMA KnownNames ==
  ASSUME world \in Worlds
  PROVE  GoodNames \subseteq Names /\ Overridden \subseteq Names
BY FastbootAssumption DEF Overridden, Overrides

LEMMA PutFacts ==
  ASSUME NEW g, NEW k, NEW v
  PROVE  /\ DOMAIN Put(g, k, v) = DOMAIN g \union {k}
         /\ Put(g, k, v)[k] = v
         /\ \A x \in DOMAIN g \ {k} : Put(g, k, v)[x] = g[x]
BY DEF Put

LEMMA PutIsFunction ==
  ASSUME NEW g, NEW k, NEW v
  PROVE  Put(g, k, v) = [x \in DOMAIN Put(g, k, v) |-> Put(g, k, v)[x]]
BY DEF Put

(* A file more, and a note of it.                                          *)
LEMMA NotedFile ==
  ASSUME NEW fs, NEW note, \A x \in DOMAIN note : note[x] \in DOMAIN fs,
         NEW path, NEW blob, NEW x0
  PROVE  /\ \A x \in DOMAIN note : note[x] \in DOMAIN Put(fs, path, blob)
         /\ \A x \in DOMAIN Put(note, x0, path) :
              Put(note, x0, path)[x] \in DOMAIN Put(fs, path, blob)
<1>1. DOMAIN Put(fs, path, blob) = DOMAIN fs \union {path}
  BY PutFacts
<1>2. DOMAIN Put(note, x0, path) = DOMAIN note \union {x0}
  BY PutFacts
<1>3. Put(note, x0, path)[x0] = path
  BY DEF Put
<1>4. \A x \in DOMAIN note \ {x0} : Put(note, x0, path)[x] = note[x]
  BY DEF Put
<1> QED BY <1>1, <1>2, <1>3, <1>4

-----------------------------------------------------------------------------
(* The steps of the program, one by one.                                   *)

LEMMA MakeTempDirKeeps ==
  ASSUME FlashInv, MakeTempDir \/ MakeTempDirFails
  PROVE  FlashInv'
<1>1. pc = "tempdir" /\ Preparing /\ child = "none" /\ command = <<>>
  BY PreparingFacts DEF MakeTempDir, MakeTempDirFails, Preparing
<1>2. CASE MakeTempDir
  <2>1. /\ pc' = "check" /\ tempDir' = TRUE /\ result' = result /\ fault' = fault
        /\ Keep /\ KeepClient /\ KeepChild
    BY <1>2 DEF MakeTempDir
  <2>2. TypeOK'
    BY <1>1, <2>1, SameNames DEF FlashInv, TypeOK, Keep, KeepClient, KeepChild, childVars, Steps
  <2>3. PathsInv'
    BY <1>1, <2>1 DEF FlashInv, PathsInv, Keep, Overrides
  <2> QED BY <1>1, <2>1, <2>2, <2>3, PreparingKeeps DEF Preparing, Keep, KeepChild
<1>3. CASE MakeTempDirFails
  BY <1>1, <1>3, ErrorKeeps DEF MakeTempDirFails, Suffer, KeepClient, KeepChild, childVars,
     FlashInv, TypeOK
<1> QED BY <1>2, <1>3

(* A step that answers an error before there is a child.                   *)
LEMMA GivesUpKeeps ==
  ASSUME FlashInv, Preparing, Refuse \/ Suffer, registry' = registry, token' = token, KeepChild
  PROVE  FlashInv'
<1>1. child = "none" /\ command = <<>> /\ pc \notin {"returned", "killed"}
  BY PreparingFacts DEF Preparing
<1>2. Return("err") /\ Keep /\ fault' \in BOOLEAN /\ token' \in Tokens
  BY DEF Refuse, Suffer, FlashInv, TypeOK
<1> QED BY <1>1, <1>2, ErrorKeeps DEF KeepChild, childVars

(* A step on to another of the preparing ones that keeps its notes.        *)
LEMMA GoesOnKeeps ==
  ASSUME FlashInv, Preparing, pc # "tempdir",
         NEW step \in {"check", "token", "manifest", "platform", "layers", "overrides", "single"},
         step = "single" => mode = "patterns",
         step \in {"layers", "overrides"} => mode = "annotations", Goto(step),
         manifest'.kind \in {"unreadable", "image"}, i' \in Nat \ {0}, token' \in Tokens,
         UNCHANGED <<world, mode, files, partitionFiles, titleToPath, queue, fault, registry>>, KeepChild
  PROVE  FlashInv'
<1>1. pc' = step /\ UNCHANGED <<tempDir, result>> /\ UNCHANGED <<child, command, attached, device, booted>>
  BY DEF Goto, KeepChild, childVars
<1>2. TypeOK'
  BY <1>1, PreparingFacts, SameNames DEF FlashInv, TypeOK, Steps
<1>3. PathsInv'
  BY <1>1, PreparingFacts DEF FlashInv, PathsInv, Overrides
<1>4. Preparing'
  BY <1>1 DEF Preparing
<1> QED BY <1>1, <1>2, <1>3, <1>4, PreparingKeeps DEF KeepChild

(* connect_and_resolve: requests and their answers.                        *)
LEMMA RequestKeeps ==
  ASSUME FlashInv, RequestFails \/ CheckApi \/ RequestToken
  PROVE  FlashInv'
<1>1. Preparing /\ pc # "tempdir"
  BY DEF RequestFails, Requesting, CheckApi, RequestToken, Preparing
<1>2. manifest.kind \in {"unreadable", "image"} /\ i \in Nat \ {0} /\ token \in Tokens
  BY DEF FlashInv, TypeOK
<1>3. CASE RequestFails
  BY <1>1, <1>3, GivesUpKeeps DEF RequestFails, KeepClient
<1>4. CASE CheckApi
  <2>1. registry' = registry /\ token' = token /\ KeepChild
    BY <1>4 DEF CheckApi, KeepClient
  <2>2. CASE Refuse
    BY <1>1, <2>1, <2>2, GivesUpKeeps
  <2>3. CASE Goto("manifest") /\ UNCHANGED fault /\ Keep
    BY <1>1, <1>2, <2>1, <2>3, GoesOnKeeps DEF Keep
  <2>4. CASE Goto("token") /\ UNCHANGED fault /\ Keep
    BY <1>1, <1>2, <2>1, <2>4, GoesOnKeeps DEF Keep
  <2> QED BY <1>4, <2>2, <2>3, <2>4 DEF CheckApi
<1>5. CASE RequestToken
  <2>1. registry' = registry /\ KeepChild
    BY <1>5 DEF RequestToken
  <2>2. CASE Refuse /\ UNCHANGED token
    BY <1>1, <2>1, <2>2, GivesUpKeeps
  <2>3. CASE Goto("manifest") /\ token' = "valid" /\ UNCHANGED fault /\ Keep
    <3>1. token' \in Tokens
      BY <2>3 DEF Tokens
    <3> QED BY <1>1, <1>2, <2>1, <2>3, <3>1, GoesOnKeeps DEF Keep
  <2> QED BY <1>5, <2>2, <2>3 DEF RequestToken
<1> QED BY <1>3, <1>4, <1>5

LEMMA ResolvedKeeps ==
  ASSUME FlashInv, Preparing, pc # "tempdir", NEW document, Resolved(document), KeepClient,
         KeepChild
  PROVE  FlashInv'
<1>1. CASE Refuse
  BY <1>1, GivesUpKeeps DEF KeepClient
<1>2. CASE /\ document.kind = "image" /\ manifest' = document /\ i' = 1
           /\ Goto(AfterManifest)
           /\ UNCHANGED <<world, mode, files, partitionFiles, titleToPath, queue, fault>>
  <2>1. /\ AfterManifest \in {"layers", "single"}
        /\ (AfterManifest = "single" => mode = "patterns")
        /\ (AfterManifest = "layers" => mode = "annotations")
    BY DEF AfterManifest, FlashInv, TypeOK
  <2>2. manifest'.kind \in {"unreadable", "image"} /\ i' \in Nat \ {0} /\ token' \in Tokens
    BY <1>2 DEF KeepClient, FlashInv, TypeOK
  <2> QED BY <1>2, <2>1, <2>2, GoesOnKeeps DEF KeepClient
<1> QED BY <1>1, <1>2 DEF Resolved

LEMMA FetchKeeps ==
  ASSUME FlashInv, FetchManifest \/ FetchPlatformManifest
  PROVE  FlashInv'
<1>1. /\ Preparing /\ pc # "tempdir" /\ KeepClient /\ KeepChild
      /\ registry' = registry /\ token' = token
  BY DEF FetchManifest, FetchPlatformManifest, Preparing, KeepClient
<1>2. CASE Refuse
  BY <1>1, <1>2, GivesUpKeeps
<1>3. ASSUME NEW document, Resolved(document) PROVE FlashInv'
  BY <1>1, <1>3, ResolvedKeeps
<1>4. CASE Goto("platform") /\ UNCHANGED fault /\ Keep
  <2>1. manifest.kind \in {"unreadable", "image"} /\ i \in Nat \ {0} /\ token \in Tokens
    BY DEF FlashInv, TypeOK
  <2> QED BY <1>1, <1>4, <2>1, GoesOnKeeps DEF Keep
<1> QED BY <1>2, <1>3, <1>4 DEF FetchManifest, FetchPlatformManifest

(* A layer is looked at.                                                   *)
LEMMA LayerKeeps ==
  ASSUME FlashInv, RefuseDefaults \/ SkipLayer \/ RefuseLayer
  PROVE  FlashInv'
<1>1. /\ pc = "layers" /\ Preparing /\ KeepChild /\ registry' = registry /\ token' = token
  BY DEF RefuseDefaults, SkipLayer, RefuseLayer, AtLayer, Preparing, KeepClient
<1>2. CASE Refuse
  BY <1>1, <1>2, GivesUpKeeps
<1>3. CASE SkipLayer
  <2>1. Goto("layers") /\ i' = i + 1 /\ UNCHANGED <<world, mode, manifest, files, partitionFiles, titleToPath, queue, fault>>
    BY <1>1, <1>3 DEF SkipLayer
  <2>2. manifest'.kind \in {"unreadable", "image"} /\ i' \in Nat \ {0} /\ token' \in Tokens
        /\ mode = "annotations"
    BY <1>1, <2>1 DEF FlashInv, TypeOK, PathsInv
  <2> QED BY <1>1, <2>1, <2>2, GoesOnKeeps
<1> QED BY <1>2, <1>3 DEF RefuseDefaults, RefuseLayer

(* A blob becomes a file, which is noted for its partition and perhaps for *)
(* its title.                                                              *)
LEMMA NotesKeep ==
  ASSUME FlashInv, Preparing, pc # "tempdir", NEW layer, NEW path, NEW name \in GoodNames,
         Extract(layer, path), partitionFiles' = Put(partitionFiles, name, path),
         NEW title, titleToPath' \in {titleToPath, Put(titleToPath, title, path)},
         i' = i + 1, Goto(pc), UNCHANGED <<world, mode, manifest, queue>>, KeepClient, KeepChild
  PROVE  FlashInv'
<1>1. /\ pc' = pc /\ UNCHANGED <<tempDir, result, registry, token>>
      /\ UNCHANGED <<child, command, attached, device, booted>>
  BY DEF Goto, KeepClient, KeepChild, childVars
<1>2. PICK whole \in BOOLEAN :
        files' = Put(files, path, Blob(layer, whole)) /\ fault' = (fault \/ ~whole)
  BY DEF Extract
<1>3. DOMAIN partitionFiles' \subseteq GoodNames \union Overridden /\ fault' \in BOOLEAN /\ i' \in Nat \ {0}
  <2>1. DOMAIN Put(partitionFiles, name, path) = DOMAIN partitionFiles \union {name}
    BY PutFacts
  <2>2. /\ fault \in BOOLEAN /\ i \in Nat \ {0}
        /\ DOMAIN partitionFiles \subseteq GoodNames \union Overridden
    BY DEF FlashInv, TypeOK
  <2> QED BY <1>2, <2>1, <2>2
<1>4. TypeOK'
  BY <1>1, <1>3, SameNames DEF FlashInv, TypeOK
<1>5. \A p \in DOMAIN partitionFiles' : partitionFiles'[p] \in DOMAIN files'
  BY <1>2, NotedFile DEF FlashInv, PathsInv
<1>6. mode = "annotations" => \A t \in DOMAIN titleToPath' : titleToPath'[t] \in DOMAIN files'
  BY <1>2, NotedFile DEF FlashInv, PathsInv
<1>7. PathsInv'
  BY <1>1, <1>5, <1>6 DEF FlashInv, PathsInv, Overrides
<1> QED BY <1>1, <1>4, <1>7, PreparingKeeps DEF Preparing, KeepChild

LEMMA ExtractLayerKeeps ==
  ASSUME FlashInv, ExtractLayer
  PROVE  FlashInv'
<1>1. /\ pc = "layers" /\ Preparing /\ Extract(Layer, ImagePath(Name)) /\ Sanitizes(Name)
      /\ partitionFiles' = Put(partitionFiles, Name, ImagePath(Name))
      /\ titleToPath' \in {titleToPath, Put(titleToPath, Layer.annotations.title, ImagePath(Name))}
      /\ i' = i + 1 /\ Goto(pc) /\ UNCHANGED <<world, mode, manifest, queue>>
      /\ KeepClient /\ KeepChild
  BY DEF ExtractLayer, AtLayer, Preparing
<1>2. Name \in GoodNames
  BY <1>1 DEF Sanitizes
<1> QED BY <1>1, <1>2, NotesKeep

LEMMA LayersDoneKeeps ==
  ASSUME FlashInv, LayersDone
  PROVE  FlashInv'
<1>1. pc = "layers" /\ Preparing /\ KeepChild
  BY DEF LayersDone, Preparing
<1>2. CASE Refuse /\ KeepClient
  BY <1>1, <1>2, GivesUpKeeps DEF KeepClient
<1>3. CASE /\ pc' = "overrides" /\ i' = 1 /\ KeepClient
           /\ UNCHANGED <<world, mode, manifest, tempDir, files, partitionFiles, titleToPath,
                          queue, result, fault>>
  <2>1. manifest'.kind \in {"unreadable", "image"} /\ i' \in Nat \ {0} /\ token' \in Tokens
    BY <1>3 DEF FlashInv, TypeOK, KeepClient
  <2>2. mode = "annotations" /\ Goto("overrides") /\ registry' = registry
    BY <1>1, <1>3 DEF Goto, KeepClient, FlashInv, PathsInv
  <2> QED BY <1>1, <1>3, <2>1, <2>2, GoesOnKeeps
<1>4. CASE Overrides # <<>> /\ FallBack
  <2>1. /\ pc' = "check" /\ mode' = "patterns" /\ token' = "none" /\ Overrides # <<>>
        /\ UNCHANGED <<world, manifest, tempDir, files, i, partitionFiles, titleToPath, queue,
                       result, fault, registry>>
    BY <1>4 DEF FallBack
  <2>2. TypeOK'
    <3>1. UNCHANGED <<child, command, attached, device, booted>>
      BY <1>1 DEF KeepChild, childVars
    <3> QED BY <1>1, <2>1, <3>1, SameNames DEF FlashInv, TypeOK, Steps, Tokens
  <2>3. PathsInv'
    BY <1>1, <2>1 DEF FlashInv, PathsInv, Overrides
  <2> QED BY <1>1, <2>1, <2>2, <2>3, PreparingKeeps DEF Preparing, KeepChild
<1> QED BY <1>2, <1>3, <1>4 DEF LayersDone

LEMMA OverrideKeeps ==
  ASSUME FlashInv, ReuseFile \/ RefuseOverride \/ ExtractOverride
  PROVE  FlashInv'
<1>1. pc = "overrides" /\ Preparing /\ KeepChild /\ registry' = registry /\ token' = token
  BY DEF ReuseFile, RefuseOverride, ExtractOverride, AtOverride, Preparing, KeepClient
<1>2. CASE RefuseOverride
  BY <1>1, <1>2, GivesUpKeeps DEF RefuseOverride
<1>3. CASE ReuseFile
  <2>1. /\ Target \in GoodNames /\ Title \in DOMAIN titleToPath /\ pc' = pc /\ i' = i + 1
        /\ partitionFiles' = Put(partitionFiles, Target, titleToPath[Title])
        /\ UNCHANGED <<tempDir, result, world, mode, manifest, files, titleToPath, queue, fault>>
    BY <1>3 DEF ReuseFile, Goto, Sanitizes
  <2>2. UNCHANGED <<child, command, attached, device, booted>>
    BY <1>1 DEF KeepChild, childVars
  <2>3. DOMAIN partitionFiles' = DOMAIN partitionFiles \union {Target}
    BY <2>1, PutFacts
  <2>4. TypeOK'
    BY <1>1, <2>1, <2>2, <2>3, SameNames DEF FlashInv, TypeOK
  <2>5. mode = "annotations"
    BY <1>1 DEF FlashInv, PathsInv
  <2>6. \A p \in DOMAIN partitionFiles' : partitionFiles'[p] \in DOMAIN files'
    <3>1. /\ partitionFiles'[Target] = titleToPath[Title]
          /\ \A p \in DOMAIN partitionFiles \ {Target} : partitionFiles'[p] = partitionFiles[p]
      BY <2>1 DEF Put
    <3> QED BY <2>1, <2>3, <2>5, <3>1 DEF FlashInv, PathsInv
  <2>7. PathsInv'
    BY <1>1, <2>1, <2>6 DEF FlashInv, PathsInv, Overrides
  <2> QED BY <1>1, <2>1, <2>4, <2>7, PreparingKeeps DEF Preparing, KeepChild
<1>4. CASE ExtractOverride
  <2>1. /\ Target \in GoodNames /\ Extract(Layers[Titled], ImagePath(Target))
        /\ titleToPath' = Put(titleToPath, Title, ImagePath(Target))
        /\ partitionFiles' = Put(partitionFiles, Target, ImagePath(Target))
        /\ i' = i + 1 /\ Goto(pc) /\ UNCHANGED <<world, mode, manifest, queue>> /\ KeepClient
    BY <1>4 DEF ExtractOverride, Sanitizes
  <2> QED BY <1>1, <2>1, NotesKeep
<1> QED BY <1>2, <1>3, <1>4

LEMMA OverridesDoneKeeps ==
  ASSUME FlashInv, OverridesDone
  PROVE  FlashInv'
<1>1. pc = "overrides" /\ Preparing /\ KeepChild /\ registry' = registry /\ token' = token
  BY DEF OverridesDone, Preparing, KeepClient
<1>2. CASE Refuse
  BY <1>1, <1>2, GivesUpKeeps
<1>3. CASE /\ DOMAIN partitionFiles # {} /\ BeginFlashing(partitionFiles)
           /\ UNCHANGED <<world, mode, manifest, files, i, partitionFiles, titleToPath, fault>>
  <2>1. /\ BeginFlashing(partitionFiles') /\ Overrides' = Overrides
        /\ UNCHANGED <<world, mode, manifest, files, i, partitionFiles, titleToPath, fault>>
    BY <1>3 DEF Overrides
  <2>2. /\ queue' = DOMAIN partitionFiles /\ UNCHANGED <<tempDir, result>>
        /\ pc' \in {"detect", "flash"}
        /\ UNCHANGED <<child, command, attached, device, booted>>
    BY <1>1, <1>3 DEF BeginFlashing, Goto, AfterExtraction, KeepChild, childVars
  <2>3. TypeOK'
    <3>1. DOMAIN partitionFiles' \subseteq Names
      BY <2>1, KnownNames DEF FlashInv, TypeOK
    <3> QED BY <1>1, <2>1, <2>2, <3>1, SameNames DEF FlashInv, TypeOK, Steps
  <2>4. /\ \A p \in DOMAIN partitionFiles' : partitionFiles'[p] \in DOMAIN files'
        /\ mode' = "annotations" => \A t \in DOMAIN titleToPath' : titleToPath'[t] \in DOMAIN files'
    BY <2>1 DEF FlashInv, PathsInv
  <2> QED BY <1>1, <1>3, <2>1, <2>3, <2>4, BeginsKeeps DEF KeepChild
<1> QED BY <1>2, <1>3 DEF OverridesDone

(* The files the overrides name are found, or the program gives up.        *)
LEMMA MapPatternsKeeps ==
  ASSUME FlashInv, pc = "single", NEW found, MapPatterns(found), fault' \in BOOLEAN,
         KeepClient, KeepChild
  PROVE  FlashInv'
<1>1. Preparing /\ registry' = registry /\ token' = token /\ world \in Worlds /\ mode = "patterns"
  BY DEF Preparing, KeepClient, FlashInv, TypeOK, PathsInv
<1>2. UNCHANGED <<child, command, attached, device, booted>>
  BY DEF KeepChild, childVars
<1>3. CASE Return("err") /\ Keep
  BY <1>1, <1>2, <1>3, PreparingFacts, ErrorKeeps DEF Preparing, FlashInv, TypeOK
<1>4. CASE /\ files' = [path \in {FilePath(name) : name \in OverrideTitles} |-> found[path[2]]]
           /\ partitionFiles' = [p \in Overridden |-> FilePath(WantedTitle(p))]
           /\ BeginFlashing(partitionFiles')
           /\ UNCHANGED <<world, mode, manifest, i, titleToPath>>
  <2>1. /\ DOMAIN files' = {FilePath(name) : name \in OverrideTitles}
        /\ DOMAIN partitionFiles' = Overridden
        /\ \A p \in Overridden : partitionFiles'[p] = FilePath(WantedTitle(p))
    BY <1>4
  <2>2. \A p \in DOMAIN partitionFiles' : partitionFiles'[p] \in DOMAIN files'
    BY <1>1, <2>1, LastOverride
  <2>3. Overridden \subseteq Names
    BY <1>1, KnownNames
  <2>4. Overridden # {}
    <3>1. Overrides # <<>>
      BY <1>1 DEF FlashInv, PathsInv
    <3>2. Overrides \in Seq(ToSet(Overrides))
      BY <1>1, FastbootAssumption DEF Overrides
    <3>3. 1 \in DOMAIN Overrides
      BY <3>1, <3>2
    <3> QED BY <3>3 DEF Overridden
  <2>5. /\ queue' = Overridden /\ UNCHANGED <<tempDir, result>> /\ pc' \in {"detect", "flash"}
    BY <1>4, <2>1 DEF BeginFlashing, Goto, AfterExtraction
  <2>6. TypeOK'
    BY <1>1, <1>2, <1>4, <2>1, <2>3, <2>5, SameNames DEF FlashInv, TypeOK, Steps
  <2>7. mode' = mode /\ Overrides' = Overrides /\ mode' # "annotations"
    BY <1>1, <1>4 DEF Overrides
  <2> QED BY <1>1, <1>4, <2>1, <2>2, <2>4, <2>6, <2>7, BeginsKeeps DEF KeepChild
<1> QED BY <1>3, <1>4 DEF MapPatterns, WantedTitle

LEMMA SingleKeeps ==
  ASSUME FlashInv, RefuseSingle \/ ExtractFromTar \/ ExtractDirectly
  PROVE  FlashInv'
<1>1. pc = "single" /\ Preparing /\ KeepClient /\ KeepChild /\ fault \in BOOLEAN
  BY DEF RefuseSingle, ExtractFromTar, ExtractDirectly, AtSingle, Preparing, FlashInv, TypeOK
<1>2. CASE Refuse
  BY <1>1, <1>2, GivesUpKeeps DEF KeepClient
<1>3. CASE Return("err") /\ Keep /\ UNCHANGED fault
  BY <1>1, <1>3, PreparingFacts, ErrorKeeps
     DEF Preparing, KeepClient, KeepChild, childVars, FlashInv, TypeOK
<1>4. ASSUME NEW found, MapPatterns(found), NEW b, fault' = (fault \/ b)
      PROVE  FlashInv'
  BY <1>1, <1>4, MapPatternsKeeps
<1> QED BY <1>2, <1>3, <1>4 DEF RefuseSingle, ExtractFromTar, ExtractDirectly

LEMMA ExtractionFailsKeeps ==
  ASSUME FlashInv, ExtractionFails
  PROVE  FlashInv'
BY GivesUpKeeps DEF ExtractionFails, Downloading, AtLayer, AtOverride, Preparing, KeepClient

(* A download that hangs leaves everything as it is.                       *)
LEMMA DownloadHangsKeeps ==
  ASSUME FlashInv, DownloadHangs
  PROVE  FlashInv'
<1>1. /\ pc \in {"layers", "overrides", "single"} /\ pc' = "stuck" /\ fault' \in BOOLEAN
      /\ UNCHANGED <<world, mode, manifest, files, i, partitionFiles, titleToPath, queue>>
      /\ UNCHANGED <<tempDir, result, registry, token>>
      /\ UNCHANGED <<child, command, attached, device, booted>>
  BY DEF DownloadHangs, Downloading, AtLayer, AtOverride, Goto, Keep, KeepClient, KeepChild,
         childVars, FlashInv, TypeOK
<1>2. /\ Foremost' = Foremost /\ Settled' = Settled
      /\ \A p : Content(p)' = Content(p) /\ Rank(p)' = Rank(p)
  BY <1>1 DEF Foremost, Settled, Content, Rank
<1>3. TypeOK' /\ PathsInv'
  BY <1>1, SameNames DEF FlashInv, TypeOK, PathsInv, Overrides, Steps
<1>4. ChildInv'
  BY <1>1, <1>2 DEF FlashInv, ChildInv
<1>5. DeviceInv'
  BY <1>1, <1>2 DEF FlashInv, DeviceInv, Flashing
<1>6. FilesOutliveTheChild'
  BY <1>1 DEF FlashInv, FilesOutliveTheChild
<1> QED BY <1>3, <1>4, <1>5, <1>6 DEF FlashInv

-----------------------------------------------------------------------------
(* The steps of the flash.                                                 *)

(* What they have in common: the device and the child change, and the      *)
(* program's place and its queue.                                          *)
StillFlashing == UNCHANGED <<world, mode, manifest, files, i, partitionFiles, titleToPath>>

LEMMA CommandingFacts ==
  ASSUME FlashInv, Commanding
  PROVE  pc \in {"detect", "flash"} /\ Flashing /\ Settled /\ tempDir /\ result = "none"
BY DEF FlashInv, TypeOK, PathsInv, DeviceInv, Commanding, Flashing

LEMMA StartCommandKeeps ==
  ASSUME FlashInv, StartCommand
  PROVE  FlashInv'
<1>1. /\ pc \in {"detect", "flash"} /\ Settled /\ tempDir /\ result = "none" /\ Flashing
      /\ child = "none" /\ child' = "running" /\ command' = NextCommand
      /\ UNCHANGED <<attached, device, booted, registry, token>>
      /\ UNCHANGED <<world, pc, mode, manifest, tempDir, files, i>>
      /\ UNCHANGED <<partitionFiles, titleToPath, queue, result, fault>>
  BY CommandingFacts DEF StartCommand, Spawn, ProgramWaits, programVars, KeepClient
<1>2. Foremost' = Foremost /\ Settled' = Settled
  BY <1>1 DEF Foremost, Rank, Settled
<1>3. /\ pc = "detect" => NextCommand = <<"devices">>
      /\ pc = "flash" /\ queue # {} => NextCommand = <<"flash", Foremost, partitionFiles[Foremost]>>
      /\ pc = "flash" /\ queue = {} => NextCommand = <<"continue">>
  BY DEF NextCommand
<1>4. NextCommand # <<>>
  BY <1>1, <1>3
<1>5. TypeOK' /\ PathsInv'
  BY <1>1, <1>4, SameNames DEF FlashInv, TypeOK, PathsInv, Overrides
<1>6. ChildInv'
  BY <1>1, <1>2, <1>3 DEF ChildInv
<1>7. DOMAIN device \intersect queue = {}
  BY <1>1 DEF FlashInv, DeviceInv
<1>8. DeviceInv'
  <2>1. \A p : Content(p)' = Content(p) /\ Rank(p)' = Rank(p)
    BY <1>1 DEF Content, Rank
  <2> QED BY <1>1, <1>2, <1>7, <2>1 DEF FlashInv, DeviceInv, Flashing
<1>9. FilesOutliveTheChild'
  <2>1. ASSUME queue # {} PROVE partitionFiles[Foremost] \in DOMAIN files
    <3>1. Foremost \in queue
      BY <2>1, ForemostFacts DEF FlashInv, TypeOK
    <3> QED BY <3>1 DEF FlashInv, PathsInv, DeviceInv
  <2> QED BY <1>1, <1>3, <2>1 DEF FilesOutliveTheChild
<1> QED BY <1>5, <1>6, <1>8, <1>9 DEF FlashInv

LEMMA CommandEndsKeeps ==
  ASSUME FlashInv, SpawnFails \/ CommandFailed \/ TimesOut
  PROVE  FlashInv'
<1>1. Commanding /\ Suffer /\ KeepClient /\ pc \notin {"returned", "killed"}
  BY CommandingFacts DEF SpawnFails, CommandFailed, TimesOut
<1>2. child' = "none" /\ command' = <<>> /\ UNCHANGED <<attached, device, booted>>
  BY DEF SpawnFails, CommandFailed, TimesOut, Kill, Reap, KeepChild, childVars, FlashInv, TypeOK
<1> QED BY <1>1, <1>2, ErrorKeeps DEF Suffer, KeepClient, FlashInv, TypeOK

LEMMA CommandDoneKeeps ==
  ASSUME FlashInv, CommandDone
  PROVE  FlashInv'
<1>1. /\ pc \in {"detect", "flash"} /\ Settled /\ tempDir /\ result = "none" /\ Flashing
      /\ child = "exit0" /\ child' = "none" /\ command' = <<>>
      /\ UNCHANGED <<attached, device, booted, registry, token, fault>>
      /\ UNCHANGED <<world, mode, manifest, files, i, partitionFiles, titleToPath>>
  BY CommandingFacts DEF CommandDone, Reap, KeepClient
<1>2. /\ \A p : Content(p)' = Content(p) /\ Rank(p)' = Rank(p)
      /\ device' = [p \in DOMAIN device' |-> device'[p]]
  BY <1>1 DEF Content, Rank, FlashInv, DeviceInv
<1>3. CASE command[1] = "devices" /\ ~attached /\ Return("err") /\ UNCHANGED <<queue, fault>>
  BY <1>1, <1>3, ErrorKeeps DEF Keep, FlashInv, TypeOK
<1>4. CASE command[1] = "devices" /\ Goto("flash") /\ UNCHANGED <<queue, fault>>
  <2>1. pc' = "flash" /\ UNCHANGED <<tempDir, result, queue>>
    BY <1>4 DEF Goto
  <2>2. TypeOK' /\ PathsInv' /\ ChildInv' /\ FilesOutliveTheChild'
    BY <1>1, <2>1, SameNames DEF FlashInv, TypeOK, PathsInv, ChildInv, FilesOutliveTheChild,
       Overrides, Steps
  <2>3. DOMAIN device \intersect queue = {} /\ Settled'
    BY <1>1, <1>4, <2>1 DEF FlashInv, DeviceInv, Settled
  <2>4. DeviceInv'
    BY <1>1, <1>2, <2>1, <2>3 DEF FlashInv, DeviceInv, Flashing
  <2> QED BY <2>2, <2>4 DEF FlashInv
<1>5. CASE command[1] = "flash" /\ Goto("flash") /\ queue' = queue \ {Foremost} /\ UNCHANGED fault
  <2>1. pc' = "flash" /\ UNCHANGED <<tempDir, result>> /\ queue' = queue \ {Foremost}
    BY <1>5 DEF Goto
  <2>2. TypeOK' /\ PathsInv' /\ ChildInv' /\ FilesOutliveTheChild'
    BY <1>1, <2>1, SameNames DEF FlashInv, TypeOK, PathsInv, ChildInv, FilesOutliveTheChild,
       Overrides, Steps
  <2>3. /\ queue # {} /\ Foremost \in DOMAIN device
    BY <1>1, <1>5 DEF FlashInv, ChildInv
  <2>4. Foremost \in queue /\ \A q \in queue \ {Foremost} : Rank(Foremost) < Rank(q)
    BY <2>3, ForemostFacts DEF FlashInv, TypeOK
  <2>5. device[Foremost] = Content(Foremost) /\ DOMAIN device \intersect queue' = {}
    BY <1>1, <2>1, <2>3, <2>4 DEF FlashInv, DeviceInv
  <2>6. Settled'
    <3>1. DOMAIN <<>> = {} /\ device' = device
      BY <1>1
    <3> QED BY <2>3, <3>1 DEF Settled
  <2>7. ~booted
    BY <2>3 DEF FlashInv, DeviceInv
  <2>8. \A p \in DOMAIN partitionFiles \ queue' :
          /\ p \in DOMAIN device /\ device[p] = Content(p)
          /\ \A q \in queue' : Rank(p) < Rank(q)
    BY <1>1, <2>1, <2>3, <2>4, <2>5 DEF FlashInv, DeviceInv
  <2>9. DeviceInv'
    BY <1>1, <1>2, <2>1, <2>5, <2>6, <2>7, <2>8 DEF FlashInv, DeviceInv, Flashing
  <2> QED BY <2>2, <2>9 DEF FlashInv
<1>6. CASE command[1] = "continue" /\ Return("ok") /\ UNCHANGED <<queue, fault>>
  <2>1. pc' = "returned" /\ result' = "ok" /\ ~tempDir' /\ tempDir' \in BOOLEAN /\ queue' = queue
    BY <1>6 DEF Return
  <2>2. TypeOK' /\ PathsInv' /\ ChildInv' /\ FilesOutliveTheChild'
    BY <1>1, <2>1, SameNames DEF FlashInv, TypeOK, PathsInv, ChildInv, FilesOutliveTheChild,
       Overrides, Steps
  <2>3. Settled'
    BY <1>1, <2>1 DEF Settled
  <2>4. DeviceInv'
    BY <1>1, <1>2, <2>1, <2>3 DEF FlashInv, DeviceInv, Flashing
  <2> QED BY <2>2, <2>4 DEF FlashInv
<1> QED BY <1>3, <1>4, <1>5, <1>6 DEF CommandDone

(* The child, or time: the program does nothing.                           *)
LEMMA ChildKeeps ==
  ASSUME FlashInv, ChildNext
  PROVE  FlashInv'
<1>1. /\ child = "running" /\ attached' = attached /\ ProgramWaits
      /\ UNCHANGED <<world, pc, mode, manifest, tempDir, files, i, registry, token>>
      /\ UNCHANGED <<partitionFiles, titleToPath, queue, result, fault>>
  BY DEF ChildNext, ProgramWaits, programVars, KeepClient, ChildBeginsFlash, ChildEndsFlash,
         ChildContinues, ChildLists, ChildFails, Doing
<1>2. command' = command /\ command # <<>>
  BY <1>1 DEF ChildNext, ChildBeginsFlash, ChildEndsFlash, ChildContinues, ChildLists, ChildFails,
              FlashInv, TypeOK
<1>3. /\ Foremost' = Foremost /\ \A p : Content(p)' = Content(p) /\ Rank(p)' = Rank(p)
  BY <1>1 DEF Foremost, Content, Rank
<1>4. Settled /\ result = "none" /\ pc \in {"detect", "flash", "killed"}
  BY <1>1 DEF FlashInv, ChildInv, TypeOK
<1>5. PathsInv'
  BY <1>1 DEF FlashInv, PathsInv, Overrides
<1>6. /\ \/ command = <<"devices">> /\ pc \in {"detect", "killed"}
         \/ queue # {} /\ command = <<"flash", Foremost, partitionFiles[Foremost]>>
         \/ queue = {} /\ command = <<"continue">>
      /\ pc = "detect" => command = <<"devices">>
      /\ command[1] = "flash" => /\ queue # {} /\ command[2] = Foremost
                                 /\ command[3] = partitionFiles[Foremost]
      /\ command[1] = "continue" => queue = {}
  BY <1>1 DEF FlashInv, ChildInv
<1>7. queue # {} => Foremost \in queue /\ Foremost \in DOMAIN partitionFiles /\ Foremost \in Names
  BY ForemostFacts DEF FlashInv, TypeOK, DeviceInv
<1>8. FilesOutliveTheChild'
  BY <1>1, <1>2, <1>4 DEF FlashInv, FilesOutliveTheChild
<1> DEFINE Written == DOMAIN partitionFiles \ queue
<1>9. /\ queue \subseteq DOMAIN partitionFiles /\ DOMAIN partitionFiles # {}
      /\ DOMAIN device \subseteq DOMAIN partitionFiles
      /\ \A p \in Written : /\ p \in DOMAIN device /\ device[p] = Content(p)
                            /\ \A q \in queue : Rank(p) < Rank(q)
      /\ \A p \in DOMAIN device \intersect queue :
           p = Foremost /\ command[1] = "flash" /\ device[p] = Torn
      /\ device = [p \in DOMAIN device |-> device[p]]
      /\ (booted => queue = {})
  BY <1>1, <1>4 DEF FlashInv, DeviceInv
<1>10. CASE ChildBeginsFlash
  <2>1. /\ child' = child /\ booted' = booted /\ queue # {} /\ command[1] = "flash"
        /\ device' = Put(device, Foremost, Torn)
    BY <1>6, <1>10 DEF ChildBeginsFlash, Doing
  <2>2. /\ DOMAIN device' = DOMAIN device \union {Foremost} /\ device'[Foremost] = Torn
        /\ \A p \in DOMAIN device \ {Foremost} : device'[p] = device[p]
    BY <2>1 DEF Put
  <2>3. device' = [p \in DOMAIN device' |-> device'[p]]
    BY <2>1, PutIsFunction
  <2>4. TypeOK'
    BY <1>1, <1>2, <1>7, <2>1, <2>2, SameNames DEF FlashInv, TypeOK
  <2>5. Settled'
    BY <1>1, <2>1 DEF Settled
  <2>6. ChildInv'
    BY <1>1, <1>2, <1>3, <1>4, <1>6, <2>1, <2>5 DEF ChildInv
  <2>7. DeviceInv'
    BY <1>1, <1>2, <1>3, <1>4, <1>7, <1>9, <2>1, <2>2, <2>3, <2>5 DEF DeviceInv, Flashing
  <2> QED BY <1>5, <1>8, <2>4, <2>6, <2>7 DEF FlashInv
<1>11. CASE ChildEndsFlash(files)
  <2>1. /\ child' = "exit0" /\ booted' = booted /\ queue # {} /\ command[1] = "flash"
        /\ Foremost \in DOMAIN device
        /\ device' = [device EXCEPT ![Foremost] = Content(Foremost)]
    BY <1>6, <1>11 DEF ChildEndsFlash, Doing, Content
  <2>2. /\ DOMAIN device' = DOMAIN device /\ device'[Foremost] = Content(Foremost)
        /\ \A p \in DOMAIN device \ {Foremost} : device'[p] = device[p]
        /\ device' = [p \in DOMAIN device' |-> device'[p]]
    BY <2>1
  <2>3. TypeOK'
    BY <1>1, <1>2, <2>1, <2>2, SameNames DEF FlashInv, TypeOK
  <2>4. Settled'
    BY <1>1, <2>1 DEF Settled
  <2>5. ChildInv'
    BY <1>1, <1>2, <1>3, <1>4, <1>6, <2>1, <2>2, <2>4 DEF ChildInv
  <2>6. DeviceInv'
    BY <1>1, <1>2, <1>3, <1>4, <1>7, <1>9, <2>1, <2>2, <2>4 DEF DeviceInv, Flashing
  <2> QED BY <1>5, <1>8, <2>3, <2>5, <2>6 DEF FlashInv
<1>12. CASE ChildContinues \/ ChildLists \/ ChildFails
  <2>1. /\ child' \in {"exit0", "failed"} /\ device' = device
        /\ booted' \in BOOLEAN
        /\ booted' => booted \/ command[1] = "continue"
        /\ child' = "exit0" /\ command[1] = "continue" => booted'
        /\ child' = "exit0" => command[1] # "flash"
    <3>1. CASE ChildContinues
      BY <1>1, <1>6, <3>1 DEF ChildContinues, Doing
    <3>2. CASE ChildLists
      BY <1>1, <1>6, <3>2 DEF ChildLists, Doing, FlashInv, TypeOK
    <3>3. CASE ChildFails
      BY <1>1, <3>3 DEF ChildFails, FlashInv, TypeOK
    <3> QED BY <1>12, <3>1, <3>2, <3>3
  <2>2. TypeOK'
    BY <1>1, <1>2, <2>1, SameNames DEF FlashInv, TypeOK
  <2>3. Settled'
    BY <1>1, <1>4, <2>1 DEF Settled
  <2>4. ChildInv'
    BY <1>1, <1>2, <1>3, <1>4, <1>6, <2>1, <2>3 DEF ChildInv
  <2>5. DeviceInv'
    BY <1>1, <1>2, <1>3, <1>4, <1>6, <1>7, <1>9, <2>1, <2>3 DEF DeviceInv, Flashing
  <2> QED BY <1>5, <1>8, <2>2, <2>4, <2>5 DEF FlashInv
<1> QED BY <1>10, <1>11, <1>12 DEF ChildNext

LEMMA OutsideKeeps ==
  ASSUME FlashInv, TokenRunsOut \/ Killed
  PROVE  FlashInv'
<1>1. /\ UNCHANGED <<world, mode, manifest, files, i, partitionFiles, titleToPath, queue>>
      /\ UNCHANGED <<tempDir, result, registry>>
      /\ UNCHANGED <<child, command, attached, device, booted>>
      /\ token' \in Tokens /\ fault' \in BOOLEAN
      /\ pc' \in {pc, "killed"} /\ (pc' = "killed" => pc # "returned") /\ result' = result
  BY DEF TokenRunsOut, Killed, TokenExpires, Keep, KeepClient, KeepChild, childVars, Tokens,
         FlashInv, TypeOK
<1>2. /\ Foremost' = Foremost /\ Settled' = Settled
      /\ \A p : Content(p)' = Content(p) /\ Rank(p)' = Rank(p)
  BY <1>1 DEF Foremost, Settled, Content, Rank
<1>3. TypeOK' /\ PathsInv'
  BY <1>1, SameNames DEF FlashInv, TypeOK, PathsInv, Overrides, Steps
<1>4. ChildInv'
  BY <1>1, <1>2 DEF FlashInv, ChildInv
<1>5. DeviceInv'
  BY <1>1, <1>2 DEF FlashInv, DeviceInv, Flashing
<1>6. FilesOutliveTheChild'
  BY <1>1 DEF FlashInv, FilesOutliveTheChild
<1> QED BY <1>3, <1>4, <1>5, <1>6 DEF FlashInv

LEMMA UnchangedKeeps ==
  ASSUME FlashInv, UNCHANGED vars
  PROVE  FlashInv'
<1>1. /\ UNCHANGED <<world, mode, manifest, files, i, partitionFiles, titleToPath, queue>>
      /\ UNCHANGED <<pc, tempDir, result, fault, registry, token>>
      /\ UNCHANGED <<child, command, attached, device, booted>>
  BY DEF vars, programVars, childVars
<1>2. /\ Foremost' = Foremost /\ Settled' = Settled
      /\ \A p : Content(p)' = Content(p) /\ Rank(p)' = Rank(p)
  BY <1>1 DEF Foremost, Settled, Content, Rank
<1>3. TypeOK' /\ PathsInv'
  BY <1>1, SameNames DEF FlashInv, TypeOK, PathsInv, Overrides
<1>4. ChildInv'
  BY <1>1, <1>2 DEF FlashInv, ChildInv
<1>5. DeviceInv'
  BY <1>1, <1>2 DEF FlashInv, DeviceInv, Flashing
<1>6. FilesOutliveTheChild'
  BY <1>1 DEF FlashInv, FilesOutliveTheChild
<1> QED BY <1>3, <1>4, <1>5, <1>6 DEF FlashInv

LEMMA InitFlashInv == Init => FlashInv
<1> SUFFICES ASSUME Init PROVE FlashInv
  OBVIOUS
<1>1. DOMAIN <<>> = {} /\ <<>> = [p \in DOMAIN <<>> |-> <<>>[p]]
  OBVIOUS
<1>2. ~Settled
  BY DEF Init, CliInit, Settled
<1>3. TypeOK
  <2>1. /\ world \in Worlds /\ registry \in world.clients /\ token \in Tokens
        /\ pc \in Steps /\ mode \in {"annotations", "patterns"}
    BY DEF Init, Steps, Tokens
  <2>2. manifest.kind \in {"unreadable", "image"} /\ i \in Nat \ {0}
    BY DEF Init, Unreadable
  <2>3. /\ tempDir \in BOOLEAN /\ fault \in BOOLEAN
        /\ DOMAIN partitionFiles \subseteq GoodNames \union Overridden
        /\ queue \subseteq Names /\ child = "none" /\ command = <<>>
        /\ attached \in BOOLEAN /\ booted \in BOOLEAN /\ DOMAIN device \subseteq Names
        /\ result = "none" /\ pc # "returned"
    BY <1>1 DEF Init, CliInit
  <2> QED BY <2>1, <2>2, <2>3 DEF TypeOK
<1>4. PathsInv /\ ChildInv /\ FilesOutliveTheChild
  BY <1>1 DEF Init, CliInit, PathsInv, ChildInv, FilesOutliveTheChild
<1>5. DeviceInv
  BY <1>1, <1>2 DEF Init, CliInit, DeviceInv, Flashing
<1> QED BY <1>3, <1>4, <1>5 DEF FlashInv

LEMMA NextKeeps ==
  ASSUME FlashInv, [Next]_vars
  PROVE  FlashInv'
<1>1. CASE ProgramNext
  BY <1>1, MakeTempDirKeeps, RequestKeeps, FetchKeeps, LayerKeeps, ExtractLayerKeeps,
     LayersDoneKeeps, OverrideKeeps, OverridesDoneKeeps, SingleKeeps, ExtractionFailsKeeps,
     DownloadHangsKeeps, StartCommandKeeps, CommandEndsKeeps, CommandDoneKeeps
     DEF ProgramNext
<1>2. CASE ChildNext
  BY <1>2, ChildKeeps
<1>3. CASE TokenRunsOut \/ Killed
  BY <1>3, OutsideKeeps
<1>4. CASE UNCHANGED vars
  BY <1>4, UnchangedKeeps
<1> QED BY <1>1, <1>2, <1>3, <1>4 DEF Next

-----------------------------------------------------------------------------

(* The strengthened invariant of flash_from_fastboot: the paths noted, the *)
(* directory, the child and the device belong together at every step.      *)
THEOREM FlashInvariant == Spec => []FlashInv
<1>1. Init => FlashInv
  BY InitFlashInv
<1>2. FlashInv /\ [Next]_vars => FlashInv'
  BY NextKeeps
<1> QED BY <1>1, <1>2, PTL DEF Spec

(* The variables keep their types; a child is running exactly if it has a  *)
(* command, and the flash has a result exactly when it has returned.       *)
THEOREM TypeTheorem == Spec => []TypeOK
<1>1. FlashInv => TypeOK
  BY DEF FlashInv
<1> QED BY <1>1, FlashInvariant, PTL

(* The directory and the file that a fastboot child reads stay until the   *)
(* child has ended, whatever the way out; nothing is left behind when      *)
(* flash_from_fastboot has returned.                                       *)
THEOREM FilesTheorem == Spec => []FilesOutliveTheChild
<1>1. FlashInv => FilesOutliveTheChild
  BY DEF FlashInv
<1> QED BY <1>1, FlashInvariant, PTL

-----------------------------------------------------------------------------
(* The flash as the user sees it.                                          *)

Chosen == IF Settled THEN [p \in DOMAIN partitionFiles |-> files[partitionFiles[p]]] ELSE <<>>

(* Before the flash no step touches the device, and an error changes       *)
(* nothing else.                                                           *)
LEMMA PreparingSteps ==
  ASSUME FlashInv, Preparing, Next
  PROVE  /\ device' = device /\ booted' = booted
         /\ result' = result \/ (result' = "err" /\ queue' = queue)
<1>1. child = "none"
  BY PreparingFacts
<1>2. /\ ~ChildNext /\ ~StartCommand /\ ~SpawnFails /\ ~CommandDone /\ ~CommandFailed /\ ~TimesOut
  BY <1>1 DEF ChildNext, ChildBeginsFlash, ChildEndsFlash, ChildContinues, ChildLists, ChildFails,
              Doing, Preparing, StartCommand, SpawnFails, CommandDone, CommandFailed, TimesOut,
              Commanding
<1>3. KeepChild
  BY <1>2 DEF Next, ProgramNext, MakeTempDir, MakeTempDirFails, RequestFails, CheckApi,
     RequestToken,
              FetchManifest, FetchPlatformManifest, RefuseDefaults, SkipLayer, RefuseLayer,
              ExtractLayer, LayersDone, ReuseFile, RefuseOverride, ExtractOverride, OverridesDone,
              RefuseSingle, ExtractFromTar, ExtractDirectly, ExtractionFails, DownloadHangs,
              TokenRunsOut, Killed
<1> SUFFICES result' = result \/ (result' = "err" /\ queue' = queue)
  BY <1>3 DEF KeepChild, childVars
<1>4. Refuse \/ Suffer \/ (Return("err") /\ Keep) => result' = "err" /\ queue' = queue
  BY DEF Refuse, Suffer, Return, Keep
<1>5. ASSUME NEW step, Goto(step) PROVE result' = result
  BY <1>5 DEF Goto
<1>6. ASSUME NEW found, MapPatterns(found) PROVE result' = result \/ (Return("err") /\ Keep)
  BY <1>6, <1>5 DEF MapPatterns, BeginFlashing
<1>7. ASSUME NEW document, Resolved(document) PROVE result' = result \/ Refuse
  BY <1>5, <1>7 DEF Resolved
<1>8. CASE \/ MakeTempDir \/ MakeTempDirFails \/ RequestFails \/ CheckApi \/ RequestToken
           \/ FetchManifest \/ FetchPlatformManifest
  BY <1>4, <1>5, <1>7, <1>8 DEF MakeTempDir, MakeTempDirFails, RequestFails, CheckApi,
     RequestToken,
                                FetchManifest, FetchPlatformManifest
<1>9. CASE \/ RefuseDefaults \/ SkipLayer \/ RefuseLayer \/ ExtractLayer \/ LayersDone
           \/ ReuseFile \/ RefuseOverride \/ ExtractOverride \/ OverridesDone
  BY <1>4, <1>5, <1>9 DEF RefuseDefaults, SkipLayer, RefuseLayer, ExtractLayer, LayersDone,
     FallBack,
                          ReuseFile, RefuseOverride, ExtractOverride, OverridesDone, BeginFlashing
<1>10. CASE \/ RefuseSingle \/ ExtractFromTar \/ ExtractDirectly
            \/ ExtractionFails \/ DownloadHangs
  BY <1>4, <1>5, <1>6, <1>10 DEF RefuseSingle, ExtractFromTar, ExtractDirectly, ExtractionFails,
     DownloadHangs
<1>11. CASE TokenRunsOut \/ Killed
  BY <1>11 DEF TokenRunsOut, Killed
<1> QED BY <1>2, <1>8, <1>9, <1>10, <1>11 DEF Next, ProgramNext

LEMMA PreparingMaps ==
  ASSUME FlashInv, FlashInv', Preparing, Next
  PROVE  \/ Chosen = <<>> /\ Chosen' # <<>> /\ result = "none" /\ UNCHANGED <<device, booted, result>>
         \/ UNCHANGED <<Chosen, device, booted, result>>
         \/ result = "none" /\ result' = "err" /\ UNCHANGED <<Chosen, device, booted>>
<1>1. /\ device' = device /\ booted' = booted
      /\ result' = result \/ (result' = "err" /\ queue' = queue)
  BY PreparingSteps
<1>2. Chosen = <<>> /\ result = "none" /\ device = <<>> /\ queue = {}
  BY PreparingFacts DEF Chosen
<1>3. CASE Settled'
  <2>1. result' = result
    BY <1>1, <1>2, <1>3 DEF Settled
  <2>2. DOMAIN Chosen' = DOMAIN partitionFiles' /\ DOMAIN partitionFiles' # {}
    BY <1>3 DEF Chosen, FlashInv, DeviceInv
  <2>3. Chosen' # <<>>
    BY <2>2
  <2> QED BY <1>1, <1>2, <2>1, <2>3
<1>4. CASE ~Settled'
  <2>1. Chosen' = <<>>
    BY <1>4 DEF Chosen
  <2> QED BY <1>1, <1>2, <2>1
<1> QED BY <1>3, <1>4

(* Once it is settled what goes where, it stays so.                        *)
LEMMA ChosenStays ==
  ASSUME Settled, Settled', UNCHANGED <<files, partitionFiles>>
  PROVE  /\ Chosen' = Chosen /\ DOMAIN Chosen = DOMAIN partitionFiles
         /\ \A p \in DOMAIN partitionFiles : Chosen[p] = Content(p)
BY DEF Chosen, Content

LEMMA ProgramMaps ==
  ASSUME FlashInv, FlashInv', ~Preparing, ProgramNext \/ TokenRunsOut \/ Killed
  PROVE  \/ UNCHANGED <<Chosen, device, booted, result>>
         \/ result = "none" /\ result' = "err" /\ UNCHANGED <<Chosen, device, booted>>
         \/ result = "none" /\ booted /\ result' = "ok" /\ UNCHANGED <<Chosen, device, booted>>
<1>1. CASE TokenRunsOut \/ Killed
  <2>1. UNCHANGED <<files, partitionFiles, queue, result>> /\ UNCHANGED <<device, booted>>
    BY <1>1 DEF TokenRunsOut, Killed, Keep, KeepChild, childVars
  <2> QED BY <2>1 DEF Chosen, Settled
<1>2. CASE ProgramNext
  <2>1. StartCommand \/ SpawnFails \/ CommandDone \/ CommandFailed \/ TimesOut
    BY <1>2 DEF ProgramNext, Preparing, MakeTempDir, MakeTempDirFails, RequestFails, Requesting,
       CheckApi, RequestToken, FetchManifest, FetchPlatformManifest, RefuseDefaults, SkipLayer,
       RefuseLayer, ExtractLayer, LayersDone, ReuseFile, RefuseOverride, ExtractOverride,
       OverridesDone, RefuseSingle, ExtractFromTar, ExtractDirectly, ExtractionFails,
       DownloadHangs, Downloading, AtLayer, AtOverride, AtSingle
  <2>2. Commanding
    BY <2>1 DEF StartCommand, SpawnFails, CommandDone, CommandFailed, TimesOut
  <2>3. Settled /\ result = "none"
    BY <2>2, CommandingFacts
  <2>4. UNCHANGED <<files, partitionFiles, device, booted>>
    BY <2>1 DEF StartCommand, SpawnFails, CommandDone, CommandFailed, TimesOut, ProgramWaits,
                programVars, Suffer, Keep, Spawn, Kill, Reap, KeepChild, childVars
  <2>5. /\ result' \in {"none", "err"} \/ (result' = "ok" /\ booted)
        /\ Settled'
    <3>1. CASE StartCommand
      BY <2>3, <2>4, <3>1 DEF StartCommand, ProgramWaits, programVars, Settled
    <3>2. CASE SpawnFails \/ CommandFailed \/ TimesOut
      BY <2>3, <2>4, <3>2 DEF SpawnFails, CommandFailed, TimesOut, Suffer, Return, Keep, Settled
    <3>3. CASE CommandDone
      <4>1. CASE command[1] = "flash" /\ Goto("flash")
        <5>1. pc' = "flash" /\ result' = result
          BY <4>1 DEF Goto
        <5> QED BY <2>3, <5>1 DEF FlashInv, DeviceInv, Flashing
      <4>2. CASE /\ queue' = queue
                 /\ \/ command[1] = "devices" /\ (Goto("flash") \/ Return("err"))
                    \/ command[1] = "continue" /\ Return("ok")
        <5>1. Settled'
          BY <2>3, <2>4, <4>2 DEF Settled
        <5>2. command[1] = "continue" => booted
          BY <3>3 DEF CommandDone, FlashInv, ChildInv
        <5> QED BY <2>3, <4>2, <5>1, <5>2 DEF Goto, Return
      <4> QED BY <3>3, <4>1, <4>2 DEF CommandDone
    <3> QED BY <2>1, <3>1, <3>2, <3>3
  <2>6. Chosen' = Chosen
    BY <2>3, <2>4, <2>5, ChosenStays
  <2> QED BY <2>3, <2>4, <2>5, <2>6
<1> QED BY <1>1, <1>2

LEMMA ChildMaps ==
  ASSUME FlashInv, FlashInv', ChildNext
  PROVE  \/ UNCHANGED <<Chosen, device, booted, result>>
         \/ \E p \in DOMAIN Chosen : APartitionFlash!Begin(p) \/ APartitionFlash!Complete(p)
         \/ APartitionFlash!Boot
<1>1. /\ child = "running" /\ UNCHANGED <<files, partitionFiles, queue, result>>
  BY DEF ChildNext, ProgramWaits, programVars, ChildBeginsFlash, ChildEndsFlash, ChildContinues,
         ChildLists, ChildFails, Doing
<1>2. Settled /\ result = "none"
  BY <1>1 DEF FlashInv, ChildInv, TypeOK
<1>3. child' # "none"
  BY DEF ChildNext, ChildBeginsFlash, ChildEndsFlash, ChildContinues, ChildLists, ChildFails,
     Doing
<1>4. Settled'
  BY <1>3 DEF FlashInv, ChildInv
<1>5. /\ Chosen' = Chosen /\ DOMAIN Chosen = DOMAIN partitionFiles
      /\ \A p \in DOMAIN partitionFiles : Chosen[p] = Content(p)
  BY <1>1, <1>2, <1>4, ChosenStays
<1>6. /\ command[1] = "flash" => /\ queue # {} /\ command[2] = Foremost
                                 /\ command[3] = partitionFiles[Foremost]
      /\ command[1] = "continue" => queue = {}
  BY <1>1 DEF FlashInv, ChildInv
<1>7. /\ queue \subseteq DOMAIN partitionFiles /\ DOMAIN partitionFiles # {}
      /\ DOMAIN device \subseteq DOMAIN partitionFiles
      /\ \A p \in DOMAIN partitionFiles \ queue : /\ p \in DOMAIN device /\ device[p] = Content(p)
                                                  /\ \A q \in queue : Rank(p) < Rank(q)
      /\ \A p \in DOMAIN device \intersect queue : p = Foremost /\ device[p] = Torn
      /\ device = [p \in DOMAIN device |-> device[p]]
      /\ (booted => queue = {})
  BY <1>1, <1>2 DEF FlashInv, DeviceInv
<1>8. CASE ChildBeginsFlash
  <2>1. /\ queue # {} /\ booted' = booted /\ device' = Put(device, Foremost, Torn)
        /\ Foremost \in DOMAIN device => device[Foremost] # Torn
    BY <1>6, <1>8 DEF ChildBeginsFlash, Doing
  <2>2. /\ Foremost \in queue
        /\ \A q \in queue : Rank(q) \in Nat /\ ~(Rank(q) < Rank(Foremost))
    <3>1. queue \subseteq Names
      BY DEF FlashInv, TypeOK
    <3>2. Foremost \in queue /\ \A q \in queue \ {Foremost} : Rank(Foremost) < Rank(q)
      BY <2>1, <3>1, ForemostFacts
    <3>3. \A q \in queue : Rank(q) \in Nat
      BY <3>1, RankFacts
    <3> QED BY <3>2, <3>3
  <2>3. Foremost \notin DOMAIN device /\ ~booted
    BY <1>7, <2>1, <2>2
  <2>4. \A q \in DOMAIN Chosen : IF Rank(q) < Rank(Foremost)
                                 THEN q \in DOMAIN device /\ device[q] = Chosen[q]
                                 ELSE q \notin DOMAIN device
    BY <1>5, <1>7, <2>2, <2>3
  <2>5. APartitionFlash!Begin(Foremost)
    BY <1>1, <1>2, <1>5, <2>1, <2>3, <2>4
       DEF APartitionFlash!Begin, APartitionFlash!Whole, APartitionFlash!Rank, APartitionFlash!Put,
           Rank, Put, Chosen
  <2> QED BY <1>5, <1>7, <2>2, <2>5
<1>9. CASE ChildEndsFlash(files)
  <2>1. /\ queue # {} /\ booted' = booted /\ Foremost \in DOMAIN device /\ device[Foremost] = Torn
        /\ device' = [device EXCEPT ![Foremost] = Content(Foremost)]
    BY <1>6, <1>9 DEF ChildEndsFlash, Doing, Content
  <2>2. Foremost \in DOMAIN Chosen /\ Chosen[Foremost] = Content(Foremost)
    BY <1>5, <1>7, <2>1
  <2>3. APartitionFlash!Complete(Foremost)
    BY <1>1, <1>2, <1>5, <2>1, <2>2 DEF APartitionFlash!Complete, Chosen
  <2> QED BY <2>2, <2>3
<1>10. CASE ChildContinues
  <2>1. queue = {} /\ booted' = TRUE /\ device' = device
    BY <1>6, <1>10 DEF ChildContinues, Doing
  <2>2. device = Chosen /\ Chosen # <<>>
    <3>1. Chosen = [p \in DOMAIN partitionFiles |-> Content(p)]
      BY <1>2 DEF Chosen, Content
    <3>2. DOMAIN device = DOMAIN partitionFiles /\ \A p \in DOMAIN device : device[p] = Content(p)
      BY <1>7, <2>1
    <3>3. device = Chosen
      BY <1>7, <3>1, <3>2
    <3> QED BY <1>5, <1>7, <3>3
  <2>3. APartitionFlash!Boot
    BY <1>1, <1>2, <1>5, <2>1, <2>2 DEF APartitionFlash!Boot, Chosen
  <2> QED BY <2>3
<1>11. CASE ChildLists \/ ChildFails
  BY <1>1, <1>5, <1>11 DEF ChildLists, ChildFails
<1> QED BY <1>8, <1>9, <1>10, <1>11 DEF ChildNext

(* flash_from_fastboot implements PartitionFlash: what goes where is       *)
(* settled before the device is touched, the partitions are written one by *)
(* one in the order of their names, "continue" is given when all of them   *)
(* are whole, and success is answered after that only.                     *)
THEOREM PartitionFlashTheorem == Spec => PartitionFlashSpec
<1>1. Init => APartitionFlash!Init
  BY DEF Init, CliInit, APartitionFlash!Init, Settled
<1>2. FlashInv /\ FlashInv' /\ [Next]_vars => [APartitionFlash!Next]_(APartitionFlash!vars)
  <2> SUFFICES ASSUME FlashInv, FlashInv', [Next]_vars
               PROVE  APartitionFlash!Next \/ UNCHANGED APartitionFlash!vars
    OBVIOUS
  <2>1. CASE UNCHANGED vars
    <3>1. UNCHANGED <<files, partitionFiles, queue, device, booted, result>>
      BY <2>1 DEF vars, programVars, childVars
    <3> QED BY <3>1 DEF APartitionFlash!vars, Settled
  <2>2. CASE Next /\ Preparing
    BY <2>2, PreparingMaps
       DEF APartitionFlash!Next, APartitionFlash!Choose, APartitionFlash!Fail, APartitionFlash!vars, Chosen
  <2>3. CASE Next /\ ~Preparing /\ ~ChildNext
    <3>1. ProgramNext \/ TokenRunsOut \/ Killed
      BY <2>3 DEF Next
    <3> QED BY <2>3, <3>1, ProgramMaps
            DEF APartitionFlash!Next, APartitionFlash!Succeed, APartitionFlash!Fail,
                APartitionFlash!vars, Chosen
  <2>4. CASE ChildNext
    BY <2>4, ChildMaps DEF APartitionFlash!Next, APartitionFlash!vars, Chosen
  <2> QED BY <2>1, <2>2, <2>3, <2>4
<1> QED BY <1>1, <1>2, FlashInvariant, PTL DEF Spec, PartitionFlashSpec, APartitionFlash!Spec

-----------------------------------------------------------------------------
(* What is flashed is what is asked for, and an error has a cause.         *)

(* The image is at hand.                                                   *)
Working == pc \in {"layers", "overrides", "single", "detect", "flash"}

(* Only what may be read has been read, and a token is one the registry    *)
(* granted.                                                                *)
AccessInv ==
  /\ token # "none" =>
       registry.policy = "public" \/ (registry.policy = "private" /\ registry.creds)
  /\ token = "expired" => fault
  /\ pc = "token" => ChallengeParsed
  /\ pc \in {"manifest", "platform"} \/ Working => ApiStatus = "ok" \/ token # "none"
  /\ pc = "platform" \/ Working => MayRead

(* The manifest worked on is that of the image, and file names are looked  *)
(* for only in an image that says nothing of partitions.                   *)
ManifestInv ==
  /\ pc = "platform" => Parse(world.root).kind = "index" /\ FindLinuxManifest(Parse(world.root)) # 0
  /\ Working => manifest = Image /\ Image.kind = "image"
  /\ mode = "patterns" => NamesFiles
  /\ pc \in {"tempdir", "check", "token", "manifest", "platform"} /\ mode = "annotations" =>
       DOMAIN partitionFiles = {} /\ DOMAIN titleToPath = {}

NameOf(k) == Partition(Image.layers[k], Schema)

IsBlobOf(path, layer) == files[path].layer = layer.digest /\ files[path].entry = "all"

(* A title noted is that of a layer seen, whose file it has, or that of an *)
(* override given, whose file then holds the layer with the title.         *)
TitleNoted(title, seen, given) ==
  \/ \E k \in seen : /\ HasTitle(Image.layers[k], title)
                     /\ titleToPath[title] = ImagePath(NameOf(k))
  \/ \E o \in given : /\ Overrides[o][2] = title /\ titleToPath[title] = ImagePath(Overrides[o][1])
                      /\ TitleToLayer(Image.layers, title) # 0 /\ Supported(LayerTitled(title))
                      /\ Unambiguous => IsBlobOf(titleToPath[title], LayerTitled(title))

(* What is in the directory when the layers seen and the overrides given   *)
(* have been dealt with.  The file of a partition holds a layer that is    *)
(* annotated with it; if nothing is claimed twice, a partition overridden  *)
(* has the file of its title.                                              *)
Extracted(seen, given) ==
  /\ \A k \in seen : Supported(Image.layers[k]) /\ Sanitizes(NameOf(k))
  /\ \A o \in given : Sanitizes(Overrides[o][1]) /\ Overrides[o][2] \in DOMAIN titleToPath
  /\ DOMAIN partitionFiles = {NameOf(k) : k \in seen} \union {Overrides[o][1] : o \in given}
  /\ \A k \in seen : \E l \in seen :
       /\ NameOf(l) = NameOf(k) /\ partitionFiles[NameOf(k)] = ImagePath(NameOf(k))
       /\ IsBlobOf(ImagePath(NameOf(k)), Image.layers[l])
  /\ \A k \in seen : "title" \in DOMAIN Image.layers[k].annotations =>
                       Image.layers[k].annotations.title \in DOMAIN titleToPath
  /\ \A title \in DOMAIN titleToPath : TitleNoted(title, seen, given)
  /\ Unambiguous =>
       \A o \in given : partitionFiles[Overrides[o][1]] = titleToPath[Overrides[o][2]]

(* The layers of AutoLayers that have been dealt with.                     *)
Seen == {k \in AutoLayers : k < i}

LayersInv == pc = "layers" => Extracted(Seen, {})

(* The overrides that have been dealt with.                                *)
Given == {o \in DOMAIN Overrides : o < i}

OverridesInv ==
  pc = "overrides" => ~NamesFiles /\ ~DefaultsInvalid(Image) /\ Extracted(AutoLayers, Given)

(* When the flash begins it is settled that all asked for is there.        *)
Fits == Image.kind = "image" /\ IF NamesFiles THEN FilesFit ELSE LayersFit

(* The file chosen for a partition holds what is meant for it.             *)
AsMapped(p) == <<Content(p).layer, Content(p).entry>> = Source(p)

ChosenInv ==
  pc \in {"detect", "flash"} \/ result = "ok" =>
    /\ MayRead /\ Fits /\ DOMAIN partitionFiles = Wanted
    /\ Unambiguous => \A p \in Wanted : AsMapped(p)

(* Success is answered when the device has gone on, an error for a cause.  *)
AnswerInv ==
  /\ booted => attached
  /\ result = "ok" => booted
  /\ result = "err" => fault \/ ~Feasible

ResolutionInv ==
  AccessInv /\ ManifestInv /\ LayersInv /\ OverridesInv /\ ChosenInv /\ AnswerInv

-----------------------------------------------------------------------------
(* What is selected in a sequence.                                         *)

LEMMA LeastSelected ==
  ASSUME NEW n \in Nat, NEW S \in SUBSET (1 .. n), S # {}
  PROVE  Min(S) \in S
<1>1. S \in SUBSET Nat
  OBVIOUS
<1>2. PICK x \in S : \A y \in S : x <= y
  BY <1>1, LeastNumber
<1> QED BY <1>2 DEF Min

(* A layer with a title is found exactly if there is one.                  *)
LEMMA TitleFound ==
  ASSUME NEW layers, layers \in Seq(ToSet(layers)), NEW title
  PROVE  /\ TitleToLayer(layers, title) # 0 => /\ TitleToLayer(layers, title) \in DOMAIN layers
                                               /\ HasTitle(layers[TitleToLayer(layers, title)], title)
         /\ TitleToLayer(layers, title) # 0 <=> title \in Titles(layers)
         /\ \A k \in DOMAIN layers : HasTitle(layers[k], title) => TitleToLayer(layers, title) # 0
<1> DEFINE I == {k \in 1 .. Len(layers) : HasTitle(layers[k], title)}
<1>1. Len(layers) \in Nat /\ DOMAIN layers = 1 .. Len(layers)
  OBVIOUS
<1>2. TitleToLayer(layers, title) = IF I # {} THEN Min(I) ELSE 0
  BY DEF TitleToLayer, SelectInSeq
<1>3. I # {} => Min(I) \in I
  BY <1>1, LeastSelected
<1>4. I # {} <=> title \in Titles(layers)
  BY <1>1 DEF Titles, HasTitle
<1>5. \A k \in I : k # 0 /\ k \in DOMAIN layers /\ HasTitle(layers[k], title)
  BY <1>1
<1>6. \A k \in DOMAIN layers : HasTitle(layers[k], title) => k \in I
  BY <1>1
<1> HIDE DEF I
<1> QED BY <1>2, <1>3, <1>4, <1>5, <1>6

(* If no layer is annotated there is no schema.                            *)
LEMMA NoSchema ==
  ASSUME NEW layers, Annotated(layers) = {}
  PROVE  ResolveSchema(layers) = "none"
<1> DEFINE I == {s \in 1 .. Len(SearchOrder) :
                   \E k \in DOMAIN layers : SearchOrder[s] \in DOMAIN layers[k].annotations}
           used == IF I # {} THEN Min(I) ELSE 0
<1>1. ResolveSchema(layers) = IF used = 0 THEN "none" ELSE SearchOrder[used]
  BY DEF ResolveSchema, SelectInSeq
<1>2. Len(SearchOrder) \in Nat
  BY DEF SearchOrder
<1>3. I # {} => Min(I) \in I
  BY <1>2, LeastSelected
<1>4. ASSUME used # 0 PROVE FALSE
  <2>1. used \in I
    BY <1>3, <1>4
  <2>2. \E k \in DOMAIN layers : ResolveSchema(layers) \in DOMAIN layers[k].annotations
    BY <1>1, <1>4, <2>1
  <2> QED BY <2>2 DEF Annotated
<1> QED BY <1>1, <1>4

(* If no partition is overridden twice, two overrides differ in it.        *)
LEMMA DistinctTargets ==
  ASSUME world \in Worlds, Unambiguous,
         NEW o \in DOMAIN Overrides, NEW q \in DOMAIN Overrides, Overrides[o][1] = Overrides[q][1]
  PROVE  o = q
<1> DEFINE target == [k \in DOMAIN Overrides |-> Overrides[k][1]]
<1>1. Len(Overrides) \in Nat /\ DOMAIN Overrides = 1 .. Len(Overrides)
  <2>1. Overrides \in Seq(ToSet(Overrides))
    BY FastbootAssumption DEF Overrides
  <2> QED BY <2>1
<1>2. Cardinality(Overridden) = Len(Overrides)
  BY DEF Unambiguous
<1>3. IsFiniteSet(DOMAIN Overrides) /\ Cardinality(DOMAIN Overrides) = Len(Overrides)
  BY <1>1, FS_Interval
<1>4. target \in Surjection(DOMAIN Overrides, Overridden)
  BY DEF Surjection, Overridden
<1>5. target \in Injection(DOMAIN Overrides, Overridden)
  BY <1>2, <1>3, <1>4, FS_Surjection
<1> QED BY <1>5 DEF Injection, IsInjective

-----------------------------------------------------------------------------
(* What is wanted, what fits and what is ambiguous is settled from the     *)
(* start.                                                                  *)
LEMMA SameImage ==
  ASSUME world' = world
  PROVE  /\ Image' = Image /\ Overrides' = Overrides /\ Overridden' = Overridden
         /\ OverrideTitles' = OverrideTitles /\ Schema' = Schema
         /\ AutoLayers' = AutoLayers /\ AutoNames' = AutoNames /\ NamesFiles' = NamesFiles
         /\ Unambiguous' = Unambiguous /\ Wanted' = Wanted /\ LayersFit' = LayersFit
         /\ FilesFit' = FilesFit /\ Fits' = Fits
         /\ \A k : NameOf(k)' = NameOf(k)
         /\ \A p : Source(p)' = Source(p)
         /\ \A title : LayerTitled(title)' = LayerTitled(title)
<1>1. Image' = Image /\ Overrides' = Overrides
  BY DEF Image, Overrides
<1>2. Overridden' = Overridden /\ OverrideTitles' = OverrideTitles /\ Schema' = Schema
  BY <1>1 DEF Overridden, OverrideTitles, Schema
<1>3. AutoLayers' = AutoLayers
  BY <1>1, <1>2 DEF AutoLayers
<1>4. AutoNames' = AutoNames /\ NamesFiles' = NamesFiles
  BY <1>1, <1>2, <1>3 DEF AutoNames, NamesFiles
<1>5. Unambiguous' = Unambiguous
  BY <1>1, <1>2, <1>3 DEF Unambiguous
<1>6. Wanted' = Wanted
  BY <1>2, <1>4 DEF Wanted
<1>7. /\ \A k : NameOf(k)' = NameOf(k)
      /\ \A title : LayerTitled(title)' = LayerTitled(title)
  BY <1>1, <1>2 DEF NameOf, LayerTitled
<1>8. LayersFit' = LayersFit /\ FilesFit' = FilesFit
  BY <1>1, <1>2, <1>3, <1>6, <1>7 DEF LayersFit, FilesFit
<1>9. Fits' = Fits
  BY <1>1, <1>4, <1>8 DEF Fits
<1>10. \A p : WantedTitle(p)' = WantedTitle(p)
  BY <1>1 DEF WantedTitle, SelectLastInSeq
<1>11. \A p : AutoLayer(p)' = AutoLayer(p)
  BY <1>1, <1>2, <1>3 DEF AutoLayer
<1>12. \A p : Source(p)' = Source(p)
  BY <1>1, <1>2, <1>4, <1>7, <1>10, <1>11 DEF Source
<1> QED BY <1>1, <1>2, <1>3, <1>4, <1>5, <1>6, <1>7, <1>8, <1>9, <1>12

(* The answer depends on the user's request, the registry and the device.  *)
LEMMA FeasibleMeans ==
  Feasible <=> MayRead /\ attached /\ Fits
BY DEF Feasible, Fits

LEMMA SameFeasible ==
  ASSUME UNCHANGED <<world, registry, attached>>
  PROVE  Feasible' = Feasible /\ MayRead' = MayRead
<1>1. Fits' = Fits
  BY SameImage
<1>2. MayRead' = MayRead
  BY DEF MayRead
<1> QED BY <1>1, <1>2 DEF Feasible, Fits

(* What has been extracted is so as long as its files and notes stay.      *)
LEMMA SameExtracted ==
  ASSUME UNCHANGED <<world, files, partitionFiles, titleToPath>>
  PROVE  \A seen, given : Extracted(seen, given)' <=> Extracted(seen, given)
<1>1. /\ Image' = Image /\ Overrides' = Overrides /\ Unambiguous' = Unambiguous
      /\ \A k : NameOf(k)' = NameOf(k)
      /\ \A title : LayerTitled(title)' = LayerTitled(title)
  BY SameImage
<1>2. \A path, layer : IsBlobOf(path, layer)' <=> IsBlobOf(path, layer)
  BY DEF IsBlobOf
<1>3. \A title, seen, given : TitleNoted(title, seen, given)' <=> TitleNoted(title, seen, given)
  BY <1>1, <1>2 DEF TitleNoted
<1>4. \A seen, given :
        {NameOf(k)' : k \in seen} \union {Overrides'[o][1] : o \in given} =
          {NameOf(k) : k \in seen} \union {Overrides[o][1] : o \in given}
  BY <1>1
<1> SUFFICES ASSUME NEW seen, NEW given
             PROVE  Extracted(seen, given)' <=> Extracted(seen, given)
  OBVIOUS
<1>5. (\A k \in seen : \E l \in seen :
         /\ NameOf(l) = NameOf(k) /\ partitionFiles[NameOf(k)] = ImagePath(NameOf(k))
         /\ IsBlobOf(ImagePath(NameOf(k)), Image.layers[l]))'
      <=> \A k \in seen : \E l \in seen :
            /\ NameOf(l) = NameOf(k) /\ partitionFiles[NameOf(k)] = ImagePath(NameOf(k))
            /\ IsBlobOf(ImagePath(NameOf(k)), Image.layers[l])
  BY <1>1, <1>2
<1>6. (\A title \in DOMAIN titleToPath : TitleNoted(title, seen, given))'
      <=> \A title \in DOMAIN titleToPath : TitleNoted(title, seen, given)
  BY <1>3
<1> QED BY <1>1, <1>4, <1>5, <1>6 DEF Extracted

(* The layers of an image come in a sequence; "none" is no key.            *)
LEMMA ImageFacts ==
  ASSUME world \in Worlds, Image.kind = "image"
  PROVE  /\ Image.layers \in Seq(ToSet(Image.layers))
         /\ Len(Image.layers) \in Nat /\ DOMAIN Image.layers = 1 .. Len(Image.layers)
         /\ "none" \notin DOMAIN Image.defaults
         /\ \A k \in DOMAIN Image.layers : "none" \notin DOMAIN Image.layers[k].annotations
         /\ AutoLayers \subseteq Annotated(Image.layers) /\ AutoLayers \subseteq 1 .. Len(Image.layers)
<1>1. /\ Image.layers \in Seq(ToSet(Image.layers))
      /\ "none" \notin DOMAIN Image.defaults
      /\ \A k \in DOMAIN Image.layers : "none" \notin DOMAIN Image.layers[k].annotations
  BY FastbootAssumption DEF Image
<1>2. Len(Image.layers) \in Nat /\ DOMAIN Image.layers = 1 .. Len(Image.layers)
  BY <1>1
<1>3. AutoLayers \subseteq Annotated(Image.layers) /\ Annotated(Image.layers) \subseteq DOMAIN Image.layers
  BY DEF AutoLayers, Annotated
<1> QED BY <1>1, <1>2, <1>3

(* Overrides come in a sequence, too.                                      *)
LEMMA OverrideFacts ==
  ASSUME world \in Worlds
  PROVE  Len(Overrides) \in Nat /\ DOMAIN Overrides = 1 .. Len(Overrides)
<1>1. Overrides \in Seq(ToSet(Overrides))
  BY FastbootAssumption DEF Overrides
<1> QED BY <1>1

-----------------------------------------------------------------------------
(* The registry answers whoever may read, unless something has failed; and *)
(* nobody else.                                                            *)
LEMMA ReadableAnswers ==
  ASSUME FlashInv, AccessInv, pc \in {"manifest", "platform"} \/ Working, MayRead, ~fault
  PROVE  Answers
<1>1. token \in {"none", "valid"} /\ (ApiStatus = "ok" \/ token # "none")
  BY DEF FlashInv, TypeOK, AccessInv, Tokens
<1>2. CASE registry.policy \in {"open", "public", "private"}
  BY <1>1, <1>2 DEF ApiStatus, Answers, AddAuth
<1>3. CASE registry.policy = "lazy_basic" /\ registry.creds
  <2>1. token = "none"
    BY <1>3 DEF AccessInv
  <2> QED BY <1>3, <2>1 DEF Answers, AddAuth
<1> QED BY <1>2, <1>3 DEF MayRead

LEMMA AnsweredMayRead ==
  ASSUME AccessInv, Answers
  PROVE  MayRead
<1>1. token = "valid" => registry.policy = "public" \/ (registry.policy = "private" /\ registry.creds)
  BY DEF AccessInv
<1>2. AddAuth = "basic" => registry.creds
  BY DEF AddAuth
<1> QED BY <1>1, <1>2 DEF Answers, MayRead

-----------------------------------------------------------------------------
(* An error is answered, and there is a cause.                             *)
LEMMA ErrorResolves ==
  ASSUME FlashInv, ResolutionInv, Return("err"), Keep, UNCHANGED <<registry, token, attached, booted>>,
         fault => fault', fault' \/ ~Feasible
  PROVE  ResolutionInv'
<1>1. /\ pc' = "returned" /\ result' = "err"
      /\ UNCHANGED <<world, mode, manifest, files, i, partitionFiles, titleToPath, queue>>
  BY DEF Return, Keep
<1>2. Feasible' = Feasible /\ NamesFiles' = NamesFiles
  BY <1>1, SameImage, SameFeasible
<1>3. AccessInv' /\ ManifestInv'
  BY <1>1, <1>2 DEF ResolutionInv, AccessInv, ManifestInv, Working
<1>4. LayersInv' /\ OverridesInv' /\ ChosenInv'
  BY <1>1 DEF LayersInv, OverridesInv, ChosenInv
<1>5. AnswerInv'
  BY <1>1, <1>2 DEF ResolutionInv, AnswerInv
<1> QED BY <1>3, <1>4, <1>5 DEF ResolutionInv

LEMMA GivesUpResolves ==
  ASSUME FlashInv, ResolutionInv, KeepClient, KeepChild, Suffer \/ (Refuse /\ (fault \/ ~Feasible))
  PROVE  ResolutionInv'
<1>1. UNCHANGED <<registry, token, attached, booted>>
  BY DEF KeepClient, KeepChild, childVars
<1>2. CASE Suffer
  <2>1. Return("err") /\ Keep /\ fault'
    BY <1>2 DEF Suffer
  <2> QED BY <1>1, <2>1, ErrorResolves
<1>3. CASE Refuse /\ (fault \/ ~Feasible)
  <2>1. Return("err") /\ Keep /\ fault' = fault
    BY <1>3 DEF Refuse
  <2> QED BY <1>1, <1>3, <2>1, ErrorResolves
<1> QED BY <1>2, <1>3

(* A step on to another request.                                           *)
LEMMA RequestsOn ==
  ASSUME FlashInv, ResolutionInv, pc \in {"tempdir", "check", "token", "manifest"},
         pc' \in {"check", "token", "manifest", "platform"}, Keep,
         UNCHANGED <<result, fault, registry, booted, attached>>, AccessInv',
         pc' = "platform" => Parse(world.root).kind = "index" /\ FindLinuxManifest(Parse(world.root)) # 0
  PROVE  ResolutionInv'
<1>1. result = "none" /\ UNCHANGED <<world, mode, partitionFiles, titleToPath>>
  BY DEF Keep, FlashInv, TypeOK
<1>2. NamesFiles' = NamesFiles
  BY <1>1, SameImage
<1>3. ManifestInv'
  BY <1>1, <1>2 DEF ResolutionInv, ManifestInv, Working
<1>4. LayersInv' /\ OverridesInv' /\ ChosenInv'
  BY <1>1 DEF LayersInv, OverridesInv, ChosenInv
<1>5. AnswerInv'
  BY <1>1 DEF ResolutionInv, AnswerInv
<1> QED BY <1>3, <1>4, <1>5 DEF ResolutionInv

(* The way to the image.                                                   *)
LEMMA MakeTempDirResolves ==
  ASSUME FlashInv, ResolutionInv, MakeTempDir \/ MakeTempDirFails
  PROVE  ResolutionInv'
<1>1. CASE MakeTempDir
  <2>1. /\ pc = "tempdir" /\ pc' = "check" /\ Keep
        /\ UNCHANGED <<result, fault, registry, token, booted, attached>>
    BY <1>1 DEF MakeTempDir, KeepClient, KeepChild, childVars
  <2>2. AccessInv'
    BY <2>1 DEF ResolutionInv, AccessInv, Working
  <2> QED BY <2>1, <2>2, RequestsOn
<1>2. CASE MakeTempDirFails
  BY <1>2, GivesUpResolves DEF MakeTempDirFails
<1> QED BY <1>1, <1>2

LEMMA RequestResolves ==
  ASSUME FlashInv, ResolutionInv, RequestFails \/ CheckApi \/ RequestToken
  PROVE  ResolutionInv'
<1>1. CASE RequestFails
  BY <1>1, GivesUpResolves DEF RequestFails
<1>2. CASE CheckApi
  <2>1. pc = "check" /\ KeepClient /\ KeepChild /\ UNCHANGED <<registry, token, booted, attached>>
    BY <1>2 DEF CheckApi, KeepClient, KeepChild, childVars
  <2>2. CASE ApiStatus # "ok" /\ ~ChallengeParsed /\ Refuse
    <3>1. ~MayRead
      BY <2>2 DEF ChallengeParsed, ApiStatus, MayRead
    <3> QED BY <2>1, <2>2, <3>1, GivesUpResolves DEF Feasible
  <2>3. CASE /\ UNCHANGED fault /\ Keep
             /\ \/ ApiStatus = "ok" /\ Goto("manifest")
                \/ ApiStatus # "ok" /\ ChallengeParsed /\ Goto("token")
    <3>1. ApiStatus' = ApiStatus /\ ChallengeParsed' = ChallengeParsed
      BY <2>1 DEF ApiStatus, ChallengeParsed
    <3>2. pc' \in {"manifest", "token"} /\ result' = result
      BY <2>3 DEF Goto
    <3>3. AccessInv'
      BY <2>1, <2>3, <3>1, <3>2 DEF ResolutionInv, AccessInv, Working, Goto
    <3> QED BY <2>1, <2>3, <3>2, <3>3, RequestsOn
  <2> QED BY <1>2, <2>2, <2>3 DEF CheckApi
<1>3. CASE RequestToken
  <2>1. pc = "token" /\ KeepChild /\ UNCHANGED <<registry, booted, attached>>
    BY <1>3 DEF RequestToken, KeepChild, childVars
  <2>2. CASE ~TokenGranted /\ Refuse /\ UNCHANGED token
    <3>1. ApiStatus = "bearer"
      BY <2>1 DEF ResolutionInv, AccessInv, ChallengeParsed
    <3>2. ~MayRead
      BY <2>2, <3>1 DEF ApiStatus, TokenGranted, MayRead
    <3> QED BY <2>1, <2>2, <3>2, GivesUpResolves DEF Feasible, KeepClient
  <2>3. CASE TokenGranted /\ Goto("manifest") /\ token' = "valid" /\ UNCHANGED fault /\ Keep
    <3>1. pc' = "manifest" /\ result' = result
      BY <2>3 DEF Goto
    <3>2. AccessInv'
      BY <2>1, <2>3, <3>1 DEF AccessInv, Working, TokenGranted
    <3> QED BY <2>1, <2>3, <3>1, <3>2, RequestsOn
  <2> QED BY <1>3, <2>2, <2>3 DEF RequestToken
<1> QED BY <1>1, <1>2, <1>3

(* The image has been fetched.                                             *)
LEMMA ResolvedResolves ==
  ASSUME FlashInv, ResolutionInv, pc \in {"manifest", "platform"}, Answers, KeepClient, KeepChild,
         Resolved(Image)
  PROVE  ResolutionInv'
<1>1. CASE Image.kind # "image" /\ Refuse
  BY <1>1, GivesUpResolves DEF Feasible
<1>2. CASE /\ Image.kind = "image" /\ manifest' = Image /\ i' = 1
           /\ Goto(AfterManifest)
           /\ UNCHANGED <<world, mode, files, partitionFiles, titleToPath, queue, fault>>
  <2>1. /\ pc' = AfterManifest /\ result' = result /\ result = "none" /\ world \in Worlds
        /\ UNCHANGED <<registry, token, attached, booted>>
    BY <1>2 DEF Goto, KeepClient, KeepChild, childVars, FlashInv, TypeOK
  <2>2. /\ pc' \in {"layers", "single"} /\ (pc' = "layers" => mode = "annotations")
    BY <2>1 DEF AfterManifest
  <2>3. MayRead
    BY AnsweredMayRead DEF ResolutionInv
  <2>4. AccessInv'
    BY <1>2, <2>1, <2>2, <2>3 DEF ResolutionInv, AccessInv, Working, MayRead, ApiStatus
  <2>5. ManifestInv'
    <3>1. NamesFiles' = NamesFiles /\ Image' = Image
      BY <1>2, SameImage
    <3> QED BY <1>2, <2>2, <3>1 DEF ResolutionInv, ManifestInv, Working
  <2>6. LayersInv'
    <3> SUFFICES ASSUME pc' = "layers" PROVE Extracted(Seen, {})'
      BY DEF LayersInv
    <3>1. DOMAIN partitionFiles = {} /\ DOMAIN titleToPath = {}
      BY <2>2 DEF ResolutionInv, ManifestInv
    <3>2. AutoLayers' = AutoLayers /\ AutoLayers \subseteq 1 .. Len(Image.layers) /\ Len(Image.layers) \in Nat
      BY <1>2, <2>1, SameImage, ImageFacts
    <3>3. Seen' = {}
      <4>1. \A k \in AutoLayers' : ~(k < i')
        BY <1>2, <3>2
      <4> QED BY <4>1 DEF Seen
    <3>4. Extracted({}, {})
      BY <3>1 DEF Extracted
    <3>5. \A seen, given : Extracted(seen, given)' <=> Extracted(seen, given)
      BY <1>2, SameExtracted
    <3> QED BY <3>3, <3>4, <3>5
  <2>7. OverridesInv' /\ ChosenInv' /\ AnswerInv'
    BY <2>1, <2>2 DEF OverridesInv, ChosenInv, ResolutionInv, AnswerInv
  <2> QED BY <2>4, <2>5, <2>6, <2>7 DEF ResolutionInv
<1> QED BY <1>1, <1>2 DEF Resolved

LEMMA FetchResolves ==
  ASSUME FlashInv, ResolutionInv, FetchManifest \/ FetchPlatformManifest
  PROVE  ResolutionInv'
<1>1. /\ KeepClient /\ KeepChild /\ UNCHANGED <<registry, token, attached, booted>>
      /\ pc \in {"manifest", "platform"} /\ AccessInv
  BY DEF FetchManifest, FetchPlatformManifest, KeepClient, KeepChild, childVars, ResolutionInv
<1>2. CASE ~Answers /\ Refuse
  <2>1. fault \/ ~Feasible
    BY <1>1, <1>2, ReadableAnswers DEF Feasible
  <2> QED BY <1>1, <1>2, <2>1, GivesUpResolves
<1> DEFINE document == Parse(world.root)
           linux    == FindLinuxManifest(document)
<1>3. Image = IF document.kind # "index" THEN document
              ELSE IF linux = 0 THEN Unreadable ELSE Parse(document.manifests[linux].document)
  BY DEF Image, ImageBehind
<1>4. CASE pc = "manifest" /\ Answers /\ document.kind # "index" /\ Resolved(document)
  BY <1>1, <1>3, <1>4, ResolvedResolves
<1>5. CASE document.kind = "index" /\ linux = 0 /\ Refuse
  <2>1. ~Feasible
    BY <1>3, <1>5 DEF Unreadable, Feasible
  <2> QED BY <1>1, <1>5, <2>1, GivesUpResolves
<1>6. CASE /\ pc = "manifest" /\ Answers /\ document.kind = "index" /\ linux # 0
           /\ Goto("platform") /\ UNCHANGED fault /\ Keep
  <2>1. pc' = "platform" /\ result' = result
    BY <1>6 DEF Goto
  <2>2. MayRead
    BY <1>1, <1>6, AnsweredMayRead
  <2>3. AccessInv'
    BY <1>1, <1>6, <2>1, <2>2 DEF AccessInv, Working, MayRead, ApiStatus
  <2>4. document' = document
    BY <1>6 DEF Keep
  <2> QED BY <1>1, <1>6, <2>1, <2>3, <2>4, RequestsOn
<1>7. CASE /\ pc = "platform" /\ Answers
           /\ Resolved(Parse(world.root.manifests[FindLinuxManifest(world.root)].document))
  <2>1. document.kind = "index" /\ linux # 0
    BY <1>7 DEF ResolutionInv, ManifestInv
  <2>2. document = world.root
    BY <2>1 DEF Parse, Unreadable
  <2>3. Image = Parse(world.root.manifests[FindLinuxManifest(world.root)].document)
    BY <1>3, <2>1, <2>2
  <2> QED BY <1>1, <1>7, <2>3, ResolvedResolves
<1> QED BY <1>2, <1>4, <1>5, <1>6, <1>7 DEF FetchManifest, FetchPlatformManifest

(* The layers.                                                             *)

(* While there is an image to work on, it is the one the user means.       *)
LEMMA WorkingFacts ==
  ASSUME FlashInv, ResolutionInv, Working
  PROVE  /\ manifest = Image /\ Layers = Image.layers /\ Image.kind = "image" /\ MayRead
         /\ world \in Worlds /\ i \in Nat \ {0} /\ result = "none"
         /\ Feasible => IF NamesFiles THEN FilesFit ELSE LayersFit
BY DEF ResolutionInv, ManifestInv, AccessInv, FlashInv, TypeOK, Layers, Feasible, Working

(* The layer looked at is extracted exactly if the image says so.          *)
LEMMA AtLayerFacts ==
  ASSUME FlashInv, ResolutionInv, AtLayer
  PROVE  /\ Layer = Image.layers[i] /\ Name = NameOf(i) /\ i \in DOMAIN Image.layers
         /\ Selected <=> i \in AutoLayers
<1>1. /\ pc = "layers" /\ manifest = Image /\ Layers = Image.layers /\ i \in 1 .. Len(Image.layers)
      /\ DOMAIN Image.layers = 1 .. Len(Image.layers)
  BY WorkingFacts, ImageFacts DEF AtLayer, Working
<1>2. Layer = Image.layers[i] /\ Name = NameOf(i)
  BY <1>1 DEF Layer, Name, NameOf, Schema
<1>3. Selected <=> i \in AutoLayers
  BY <1>1, <1>2 DEF Selected, HasPartition, AutoLayers, Annotated, NameOf, Schema
<1> QED BY <1>1, <1>2, <1>3

(* A layer of a partition, or defaults, make it an image that speaks of    *)
(* partitions.                                                             *)
LEMMA RefuseLayersResolves ==
  ASSUME FlashInv, ResolutionInv, RefuseDefaults \/ RefuseLayer
  PROVE  ResolutionInv'
<1>1. /\ pc = "layers" /\ KeepClient /\ KeepChild /\ Refuse
      /\ manifest = Image /\ Image.kind = "image" /\ world \in Worlds
  BY WorkingFacts DEF RefuseDefaults, RefuseLayer, AtLayer, Working
<1>2. CASE RefuseDefaults
  <2>1. DefaultsInvalid(Image)
    BY <1>1, <1>2 DEF RefuseDefaults
  <2>2. Annotated(Image.layers) # {}
    BY <1>1, <2>1, ImageFacts, NoSchema DEF DefaultsInvalid, HasDefaults
  <2>3. ~Feasible
    BY <2>1, <2>2 DEF Feasible, LayersFit, NamesFiles
  <2> QED BY <1>1, <2>3, GivesUpResolves
<1>3. CASE RefuseLayer
  <2>1. i \in AutoLayers /\ (~Supported(Image.layers[i]) \/ NameOf(i) \notin GoodNames)
    BY <1>3, AtLayerFacts DEF RefuseLayer, Sanitizes
  <2>2. ~NamesFiles
    BY <1>1, <2>1, ImageFacts DEF NamesFiles
  <2>3. NameOf(i) \in Wanted
    BY <2>1, <2>2 DEF Wanted, AutoNames, NameOf
  <2>4. ~Feasible
    BY <2>1, <2>2, <2>3 DEF Feasible, LayersFit
  <2> QED BY <1>1, <2>4, GivesUpResolves
<1> QED BY <1>2, <1>3

(* A step on to the next layer or override.                                *)
LEMMA ExtractionGoesOn ==
  ASSUME FlashInv, ResolutionInv, pc \in {"layers", "overrides"}, pc' \in {"layers", "overrides"},
         UNCHANGED <<world, mode, manifest, result>>, fault => fault', KeepClient, KeepChild,
         LayersInv', OverridesInv'
  PROVE  ResolutionInv'
<1>1. /\ Working /\ result = "none" /\ mode = "annotations"
      /\ UNCHANGED <<registry, token, attached, booted>>
  BY WorkingFacts DEF Working, KeepClient, KeepChild, childVars, FlashInv, PathsInv
<1>2. NamesFiles' = NamesFiles /\ Image' = Image
  BY SameImage
<1>3. AccessInv'
  BY <1>1 DEF ResolutionInv, AccessInv, Working, MayRead, ApiStatus
<1>4. ManifestInv'
  BY <1>1, <1>2 DEF ResolutionInv, ManifestInv, Working
<1>5. ChosenInv' /\ AnswerInv'
  BY <1>1 DEF ChosenInv, ResolutionInv, AnswerInv
<1> QED BY <1>3, <1>4, <1>5 DEF ResolutionInv

(* The layer is passed over: none of those the image asks for.             *)
LEMMA SkipLayerResolves ==
  ASSUME FlashInv, ResolutionInv, SkipLayer
  PROVE  ResolutionInv'
<1>1. /\ AtLayer /\ pc = "layers" /\ pc' = pc /\ i' = i + 1 /\ KeepClient /\ KeepChild
      /\ UNCHANGED <<world, mode, manifest, result, fault>>
      /\ UNCHANGED <<world, files, partitionFiles, titleToPath>>
  BY DEF SkipLayer, Goto, AtLayer
<1>2. i \notin AutoLayers
  BY <1>1, AtLayerFacts DEF SkipLayer
<1>3. Seen' = Seen
  <2>1. AutoLayers' = AutoLayers
    BY <1>1, SameImage
  <2>2. \A k \in AutoLayers : k < i' <=> k < i
    <3>1. AutoLayers \subseteq Nat /\ i \in Nat
      BY <1>1, WorkingFacts, ImageFacts DEF Working
    <3> QED BY <1>1, <1>2, <3>1
  <2> QED BY <2>1, <2>2 DEF Seen
<1>4. Extracted(Seen, {})'
  <2>1. Extracted(Seen, {})
    BY <1>1 DEF ResolutionInv, LayersInv
  <2> QED BY <1>1, <1>3, <2>1, SameExtracted
<1>5. LayersInv' /\ OverridesInv'
  BY <1>1, <1>4 DEF LayersInv, OverridesInv
<1> QED BY <1>1, <1>5, ExtractionGoesOn

(* The layer is extracted: its file, its partition and its title are noted. *)
LEMMA ExtractLayerResolves ==
  ASSUME FlashInv, ResolutionInv, ExtractLayer
  PROVE  ResolutionInv'
<1> DEFINE layer == Image.layers[i]
           name  == NameOf(i)
           path  == ImagePath(name)
<1>1. /\ AtLayer /\ pc = "layers" /\ pc' = pc /\ i' = i + 1 /\ KeepClient /\ KeepChild
      /\ UNCHANGED <<world, mode, manifest, result>>
  BY DEF ExtractLayer, Goto, AtLayer
<1>2. i \in AutoLayers /\ Layer = layer /\ Name = name /\ Supported(layer) /\ Sanitizes(name)
  BY <1>1, AtLayerFacts DEF ExtractLayer
<1>3. PICK whole \in BOOLEAN :
        files' = Put(files, path, Blob(layer, whole)) /\ fault' = (fault \/ ~whole)
  BY <1>2 DEF ExtractLayer, Extract
<1>4. /\ partitionFiles' = Put(partitionFiles, name, path)
      /\ titleToPath' = IF "title" \in DOMAIN layer.annotations
                        THEN Put(titleToPath, layer.annotations.title, path) ELSE titleToPath
  BY <1>2 DEF ExtractLayer
<1>5. /\ AutoLayers' = AutoLayers /\ Image' = Image
      /\ \A k : NameOf(k)' = NameOf(k)
  BY <1>1, SameImage
<1>6. Seen' = Seen \union {i}
  <2>1. \A k \in AutoLayers : k < i' <=> k < i \/ k = i
    <3>1. AutoLayers \subseteq Nat /\ i \in Nat
      BY <1>1, WorkingFacts, ImageFacts DEF Working
    <3> QED BY <1>1, <3>1
  <2> QED BY <1>2, <1>5, <2>1 DEF Seen
<1>7. Extracted(Seen, {})
  BY <1>1 DEF ResolutionInv, LayersInv
<1>8. layer = Image.layers[i] /\ name = NameOf(i) /\ path = ImagePath(name)
  OBVIOUS
<1> HIDE DEF layer, name, path
<1>9. /\ DOMAIN partitionFiles' = DOMAIN partitionFiles \union {name}
      /\ partitionFiles'[name] = path
      /\ \A p \in DOMAIN partitionFiles \ {name} : partitionFiles'[p] = partitionFiles[p]
  BY <1>4 DEF Put
<1>10. /\ files'[path].layer = layer.digest /\ files'[path].entry = "all"
      /\ \A x \in DOMAIN files \ {path} : files'[x] = files[x]
  <2>1. files'[path] = Blob(layer, whole)
    BY <1>3 DEF Put
  <2>2. \A x \in DOMAIN files \ {path} : files'[x] = files[x]
    BY <1>3 DEF Put
  <2> QED BY <2>1, <2>2 DEF Blob
<1>11. \A k \in Seen' : \E l \in Seen' :
         /\ NameOf(l) = NameOf(k) /\ partitionFiles'[NameOf(k)] = ImagePath(NameOf(k))
         /\ files'[ImagePath(NameOf(k))].layer = Image.layers[l].digest
         /\ files'[ImagePath(NameOf(k))].entry = "all"
  <2> SUFFICES ASSUME NEW k \in Seen \union {i}
               PROVE  \E l \in Seen \union {i} :
                        /\ NameOf(l) = NameOf(k) /\ partitionFiles'[NameOf(k)] = ImagePath(NameOf(k))
                        /\ files'[ImagePath(NameOf(k))].layer = Image.layers[l].digest
                        /\ files'[ImagePath(NameOf(k))].entry = "all"
    BY <1>6
  <2>1. CASE NameOf(k) = name
    BY <1>9, <1>10, <1>8, <2>1
  <2>2. CASE NameOf(k) # name
    <3>1. k \in Seen
      BY <1>8, <2>2
    <3>2. PICK l \in Seen :
            /\ NameOf(l) = NameOf(k) /\ partitionFiles[NameOf(k)] = ImagePath(NameOf(k))
            /\ IsBlobOf(ImagePath(NameOf(k)), Image.layers[l])
      BY <1>7, <3>1 DEF Extracted
    <3>3. NameOf(k) \in DOMAIN partitionFiles
      BY <1>7, <3>1 DEF Extracted
    <3>4. ImagePath(NameOf(k)) \in DOMAIN files \ {path}
      BY <1>8, <2>2, <3>2, <3>3 DEF FlashInv, PathsInv, ImagePath
    <3> QED BY <1>9, <1>10, <2>2, <3>2, <3>3, <3>4 DEF IsBlobOf
  <2> QED BY <2>1, <2>2
<1>12. /\ \A k \in Seen' : "title" \in DOMAIN Image.layers[k].annotations =>
                            Image.layers[k].annotations.title \in DOMAIN titleToPath'
       /\ \A title \in DOMAIN titleToPath' :
            \E k \in Seen' : HasTitle(Image.layers[k], title) /\ titleToPath'[title] = ImagePath(NameOf(k))
  <2>1. /\ \A k \in Seen : "title" \in DOMAIN Image.layers[k].annotations =>
                            Image.layers[k].annotations.title \in DOMAIN titleToPath
        /\ \A title \in DOMAIN titleToPath :
            \E k \in Seen : HasTitle(Image.layers[k], title) /\ titleToPath[title] = ImagePath(NameOf(k))
    BY <1>7 DEF Extracted, TitleNoted
  <2>2. CASE "title" \notin DOMAIN layer.annotations
    BY <1>4, <1>6, <1>8, <2>1, <2>2
  <2>3. CASE "title" \in DOMAIN layer.annotations
    <3>1. /\ DOMAIN titleToPath' = DOMAIN titleToPath \union {layer.annotations.title}
          /\ titleToPath'[layer.annotations.title] = path
          /\ \A t \in DOMAIN titleToPath \ {layer.annotations.title} : titleToPath'[t] = titleToPath[t]
      BY <1>4, <2>3 DEF Put
    <3>2. HasTitle(layer, layer.annotations.title)
      BY <2>3 DEF HasTitle
    <3> QED BY <1>6, <1>8, <2>1, <3>1, <3>2
  <2> QED BY <2>2, <2>3
<1>13. DOMAIN partitionFiles' = {NameOf(k) : k \in Seen'}
  BY <1>6, <1>7, <1>9, <1>8 DEF Extracted
<1>14. \A k \in Seen' : Supported(Image.layers[k]) /\ Sanitizes(NameOf(k))
  BY <1>2, <1>6, <1>7, <1>8 DEF Extracted
<1>15. Extracted(Seen, {})'
  BY <1>5, <1>11, <1>12, <1>13, <1>14 DEF Extracted, TitleNoted, IsBlobOf
<1>16. LayersInv' /\ OverridesInv'
  BY <1>1, <1>15 DEF LayersInv, OverridesInv
<1>17. fault => fault'
  BY <1>3
<1> QED BY <1>1, <1>16, <1>17, ExtractionGoesOn

(* All layers are dealt with.                                              *)
LEMMA LayersDoneResolves ==
  ASSUME FlashInv, ResolutionInv, LayersDone
  PROVE  ResolutionInv'
<1>1. /\ pc = "layers" /\ manifest = Image /\ Layers = Image.layers /\ Image.kind = "image"
      /\ world \in Worlds /\ KeepChild /\ Extracted(Seen, {}) /\ i \in Nat
  BY WorkingFacts DEF LayersDone, Working, ResolutionInv, LayersInv
<1>2. Len(Overrides) \in Nat /\ DOMAIN Overrides = 1 .. Len(Overrides)
  BY <1>1, OverrideFacts
<1>3. CASE /\ ~Bare /\ pc' = "overrides" /\ i' = 1 /\ KeepClient
           /\ UNCHANGED <<world, mode, manifest, tempDir, files, partitionFiles, titleToPath,
                          queue, result, fault>>
  <2>1. Seen = AutoLayers
    <3>1. AutoLayers \subseteq 1 .. Len(Image.layers) /\ Len(Image.layers) \in Nat /\ i > Len(Image.layers)
      BY <1>1, ImageFacts DEF LayersDone
    <3>2. \A k \in AutoLayers : k < i
      BY <1>1, <3>1
    <3> QED BY <3>2 DEF Seen
  <2>2. ~NamesFiles
    BY <1>1, <1>3 DEF Bare, NamesFiles
  <2>3. /\ AutoLayers' = AutoLayers /\ Overrides' = Overrides /\ NamesFiles' = NamesFiles
        /\ Image' = Image
    BY <1>3, SameImage
  <2>4. Given' = {}
    <3>1. \A o \in DOMAIN Overrides' : ~(o < i')
      BY <1>2, <1>3, <2>3
    <3> QED BY <3>1 DEF Given
  <2>5. Extracted(AutoLayers, Given)'
    BY <1>1, <1>3, <2>1, <2>3, <2>4, SameExtracted
  <2>6. ~DefaultsInvalid(Image)
    BY <1>1 DEF LayersDone
  <2>7. LayersInv' /\ OverridesInv'
    BY <1>3, <2>2, <2>3, <2>5, <2>6 DEF LayersInv, OverridesInv
  <2> QED BY <1>1, <1>3, <2>7, ExtractionGoesOn
<1>4. CASE Bare /\ Overrides = <<>> /\ Refuse /\ KeepClient
  <2>1. AutoLayers = {} /\ Overridden = {}
    BY <1>1, <1>2, <1>4, ImageFacts DEF Bare, Overridden
  <2>2. Wanted = {} /\ ~NamesFiles
    BY <1>4, <2>1 DEF Wanted, AutoNames, NamesFiles
  <2>3. ~Feasible
    BY <2>2 DEF Feasible, LayersFit
  <2> QED BY <1>1, <1>4, <2>3, GivesUpResolves
<1>5. CASE Bare /\ Overrides # <<>> /\ FallBack
  <2>1. NamesFiles
    BY <1>1, <1>5 DEF Bare, NamesFiles
  <2>2. /\ pc' = "check" /\ mode' = "patterns" /\ token' = "none" /\ result' = result /\ result = "none"
        /\ UNCHANGED <<world, registry, attached, booted>>
    BY <1>1, <1>5, WorkingFacts DEF FallBack, KeepChild, childVars, Working
  <2>3. NamesFiles'
    BY <2>1, <2>2, SameImage
  <2>4. AccessInv' /\ ManifestInv'
    BY <2>2, <2>3 DEF AccessInv, ManifestInv, Working
  <2>5. LayersInv' /\ OverridesInv' /\ ChosenInv' /\ AnswerInv'
    BY <2>2 DEF LayersInv, OverridesInv, ChosenInv, ResolutionInv, AnswerInv
  <2> QED BY <2>4, <2>5 DEF ResolutionInv
<1> QED BY <1>3, <1>4, <1>5 DEF LayersDone

(* The overrides.                                                          *)

(* The override looked at names no partition that a layer is extracted for. *)
LEMMA AtOverrideFacts ==
  ASSUME FlashInv, ResolutionInv, AtOverride
  PROVE  /\ Extracted(AutoLayers, Given) /\ ~NamesFiles /\ i \in DOMAIN Overrides
         /\ Target = Overrides[i][1] /\ Title = Overrides[i][2]
         /\ Target \in Overridden /\ Title \in OverrideTitles
         /\ Titled = TitleToLayer(Image.layers, Title) /\ Layers[Titled] = LayerTitled(Title)
         /\ \A k \in AutoLayers : NameOf(k) # Target
<1>1. /\ pc = "overrides" /\ Layers = Image.layers /\ i \in Nat \ {0} /\ i <= Len(Overrides)
      /\ Len(Overrides) \in Nat /\ DOMAIN Overrides = 1 .. Len(Overrides)
  BY WorkingFacts, OverrideFacts DEF AtOverride, Working
<1>2. /\ i \in DOMAIN Overrides /\ Target = Overrides[i][1] /\ Title = Overrides[i][2]
  BY <1>1 DEF Target, Title
<1>3. Target \in Overridden /\ Title \in OverrideTitles
  BY <1>2 DEF Overridden, OverrideTitles
<1>4. Titled = TitleToLayer(Image.layers, Title) /\ Layers[Titled] = LayerTitled(Title)
  BY <1>1 DEF Titled, LayerTitled
<1>5. \A k \in AutoLayers : NameOf(k) # Target
  BY <1>3 DEF AutoLayers, NameOf
<1> QED BY <1>1, <1>2, <1>3, <1>4, <1>5 DEF ResolutionInv, OverridesInv

(* No file can be named so, or no layer (that can be read) has the title.  *)
LEMMA RefuseOverrideResolves ==
  ASSUME FlashInv, ResolutionInv, RefuseOverride
  PROVE  ResolutionInv'
<1>1. AtOverride /\ Refuse /\ KeepClient /\ KeepChild /\ pc = "overrides"
  BY DEF RefuseOverride, AtOverride
<1>2. /\ ~NamesFiles /\ Target \in Overridden /\ Title \in OverrideTitles
      /\ Extracted(AutoLayers, Given)
  BY <1>1, AtOverrideFacts
<1>3. CASE ~Sanitizes(Target)
  <2>1. Target \in Wanted /\ Target \notin GoodNames
    BY <1>2, <1>3 DEF Wanted, Sanitizes
  <2>2. ~Feasible
    BY <1>2, <2>1 DEF Feasible, LayersFit
  <2> QED BY <1>1, <2>2, GivesUpResolves
<1>4. CASE /\ Title \notin DOMAIN titleToPath
           /\ Titled # 0 => ~Supported(Layers[Titled])
  <2>1. ASSUME LayersFit PROVE FALSE
    <3>1. Title \in Titles(Image.layers)
      BY <1>2, <2>1 DEF LayersFit
    <3>2. Image.layers \in Seq(ToSet(Image.layers))
      BY <1>1, WorkingFacts, ImageFacts DEF Working
    <3>3. Titled # 0
      BY <1>1, <3>1, <3>2, TitleFound, AtOverrideFacts
    <3>4. ~Supported(LayerTitled(Title))
      BY <1>1, <1>4, <3>3, AtOverrideFacts
    <3>5. PICK k \in AutoLayers : HasTitle(Image.layers[k], Title)
      BY <1>2, <2>1, <3>4 DEF LayersFit
    <3>6. Title \in DOMAIN titleToPath
      BY <1>2, <3>5 DEF Extracted, HasTitle
    <3> QED BY <1>4, <3>6
  <2>2. ~Feasible
    BY <1>2, <2>1 DEF Feasible
  <2> QED BY <1>1, <2>2, GivesUpResolves
<1> QED BY <1>3, <1>4 DEF RefuseOverride

(* The overrides dealt with after this step.                               *)
LEMMA GivenGrows ==
  ASSUME FlashInv, ResolutionInv, AtOverride, i' = i + 1, UNCHANGED world
  PROVE  Given' = Given \union {i}
<1>1. i \in DOMAIN Overrides /\ Overrides' = Overrides
  BY AtOverrideFacts, SameImage
<1>2. \A o \in DOMAIN Overrides : o < i' <=> o < i \/ o = i
  <2>1. i \in Nat /\ DOMAIN Overrides \subseteq Nat
    BY WorkingFacts, OverrideFacts DEF AtOverride, Working
  <2> QED BY <2>1
<1> QED BY <1>1, <1>2 DEF Given

(* The file of a partition is that of another partition's override: the    *)
(* rest of the notes stays as it is.                                       *)
LEMMA OverrideExtracted ==
  ASSUME FlashInv, ResolutionInv, AtOverride, Sanitizes(Target), i' = i + 1, UNCHANGED world,
         NEW path, partitionFiles' = Put(partitionFiles, Target, path),
         Title \in DOMAIN titleToPath', titleToPath'[Title] = path,
         DOMAIN titleToPath \subseteq DOMAIN titleToPath',
         \A title \in DOMAIN titleToPath : titleToPath'[title] = titleToPath[title],
         \A k \in AutoLayers : files'[ImagePath(NameOf(k))] = files[ImagePath(NameOf(k))],
         \A title \in DOMAIN titleToPath' : TitleNoted(title, AutoLayers, Given)'
  PROVE  Extracted(AutoLayers, Given)'
<1>1. Given' = Given \union {i}
  BY GivenGrows
<1>2. /\ AutoLayers' = AutoLayers /\ Image' = Image /\ Overrides' = Overrides
      /\ Unambiguous' = Unambiguous /\ \A k : NameOf(k)' = NameOf(k)
  BY SameImage
<1>3. /\ Extracted(AutoLayers, Given) /\ i \in DOMAIN Overrides
      /\ Target = Overrides[i][1] /\ Title = Overrides[i][2]
      /\ \A k \in AutoLayers : NameOf(k) # Target
  BY AtOverrideFacts
<1>4. /\ DOMAIN partitionFiles' = DOMAIN partitionFiles \union {Target}
      /\ partitionFiles'[Target] = path
      /\ \A p \in DOMAIN partitionFiles \ {Target} : partitionFiles'[p] = partitionFiles[p]
  BY DEF Put
<1>5. /\ \A k \in AutoLayers : Supported(Image.layers[k]) /\ Sanitizes(NameOf(k))
      /\ \A o \in Given \union {i} :
           Sanitizes(Overrides[o][1]) /\ Overrides[o][2] \in DOMAIN titleToPath'
  BY <1>3 DEF Extracted
<1>6. DOMAIN partitionFiles' =
        {NameOf(k) : k \in AutoLayers} \union {Overrides[o][1] : o \in Given \union {i}}
  <2>1. DOMAIN partitionFiles = {NameOf(k) : k \in AutoLayers} \union {Overrides[o][1] : o \in Given}
    BY <1>3 DEF Extracted
  <2>2. {Overrides[o][1] : o \in Given \union {i}} = {Overrides[o][1] : o \in Given} \union {Target}
    BY <1>3
  <2> QED BY <1>4, <2>1, <2>2
<1>7. \A k \in AutoLayers : \E l \in AutoLayers :
        /\ NameOf(l) = NameOf(k) /\ partitionFiles'[NameOf(k)] = ImagePath(NameOf(k))
        /\ files'[ImagePath(NameOf(k))].layer = Image.layers[l].digest
        /\ files'[ImagePath(NameOf(k))].entry = "all"
  <2> TAKE k \in AutoLayers
  <2>1. PICK l \in AutoLayers :
          /\ NameOf(l) = NameOf(k) /\ partitionFiles[NameOf(k)] = ImagePath(NameOf(k))
          /\ IsBlobOf(ImagePath(NameOf(k)), Image.layers[l])
    BY <1>3 DEF Extracted
  <2>2. NameOf(k) \in DOMAIN partitionFiles \ {Target}
    BY <1>3 DEF Extracted
  <2>3. files'[ImagePath(NameOf(k))] = files[ImagePath(NameOf(k))]
    OBVIOUS
  <2> WITNESS l \in AutoLayers
  <2> QED BY <1>4, <2>1, <2>2, <2>3 DEF IsBlobOf
<1>8. \A k \in AutoLayers : "title" \in DOMAIN Image.layers[k].annotations =>
                              Image.layers[k].annotations.title \in DOMAIN titleToPath'
  BY <1>3 DEF Extracted
<1>9. Unambiguous =>
        \A o \in Given \union {i} : partitionFiles'[Overrides[o][1]] = titleToPath'[Overrides[o][2]]
  <2> SUFFICES ASSUME Unambiguous, NEW o \in Given
               PROVE  partitionFiles'[Overrides[o][1]] = titleToPath'[Overrides[o][2]]
    BY <1>3, <1>4
  <2>1. o \in DOMAIN Overrides /\ o # i
    <3>1. i \in Nat
      BY DEF FlashInv, TypeOK
    <3> QED BY <3>1 DEF Given
  <2>2. Overrides[o][1] # Target
    BY <1>3, <2>1, DistinctTargets DEF FlashInv, TypeOK
  <2>3. /\ Overrides[o][1] \in DOMAIN partitionFiles /\ Overrides[o][2] \in DOMAIN titleToPath
        /\ partitionFiles[Overrides[o][1]] = titleToPath[Overrides[o][2]]
    BY <1>3 DEF Extracted
  <2> QED BY <1>4, <2>2, <2>3
<1>10. \A title \in DOMAIN titleToPath' : TitleNoted(title, AutoLayers, Given)'
  OBVIOUS
<1>11. (\A k \in AutoLayers : \E l \in AutoLayers :
           /\ NameOf(l) = NameOf(k) /\ partitionFiles[NameOf(k)] = ImagePath(NameOf(k))
           /\ IsBlobOf(ImagePath(NameOf(k)), Image.layers[l]))'
  BY <1>2, <1>7 DEF IsBlobOf
<1>12. /\ DOMAIN partitionFiles' = {NameOf(k)' : k \in AutoLayers'} \union {Overrides'[o][1] : o \in Given'}
       /\ Unambiguous' => \A o \in Given' : partitionFiles'[Overrides'[o][1]] = titleToPath'[Overrides'[o][2]]
  BY <1>1, <1>2, <1>6, <1>9
<1>13. /\ \A k \in AutoLayers' : Supported(Image'.layers[k]) /\ Sanitizes(NameOf(k)')
       /\ \A o \in Given' : Sanitizes(Overrides'[o][1]) /\ Overrides'[o][2] \in DOMAIN titleToPath'
       /\ \A k \in AutoLayers' : "title" \in DOMAIN Image'.layers[k].annotations =>
                                Image'.layers[k].annotations.title \in DOMAIN titleToPath'
  BY <1>1, <1>2, <1>5, <1>8
<1> QED BY <1>10, <1>11, <1>12, <1>13 DEF Extracted

(* The partition gets the file that its title has already.                 *)
LEMMA ReuseFileResolves ==
  ASSUME FlashInv, ResolutionInv, ReuseFile
  PROVE  ResolutionInv'
<1>1. /\ AtOverride /\ pc = "overrides" /\ pc' = pc /\ i' = i + 1 /\ KeepClient /\ KeepChild
      /\ Sanitizes(Target) /\ Title \in DOMAIN titleToPath
      /\ partitionFiles' = Put(partitionFiles, Target, titleToPath[Title])
      /\ UNCHANGED <<world, mode, manifest, files, titleToPath, result, fault>>
  BY DEF ReuseFile, AtOverride, Goto
<1>2. /\ AutoLayers' = AutoLayers /\ Image' = Image /\ Overrides' = Overrides
      /\ Unambiguous' = Unambiguous /\ NamesFiles' = NamesFiles
      /\ \A k : NameOf(k)' = NameOf(k)
      /\ \A title : LayerTitled(title)' = LayerTitled(title)
  BY <1>1, SameImage
<1>3. Extracted(AutoLayers, Given) /\ Given' = Given \union {i}
  BY <1>1, AtOverrideFacts, GivenGrows
<1>4. ASSUME NEW title \in DOMAIN titleToPath
      PROVE  TitleNoted(title, AutoLayers, Given)'
  <2>1. TitleNoted(title, AutoLayers, Given)
    BY <1>3 DEF Extracted
  <2> QED BY <1>1, <1>2, <1>3, <2>1 DEF TitleNoted, IsBlobOf
<1>5. Extracted(AutoLayers, Given)'
  BY <1>1, <1>4, OverrideExtracted
<1>6. LayersInv' /\ OverridesInv'
  BY <1>1, <1>2, <1>5 DEF LayersInv, OverridesInv, ResolutionInv
<1> QED BY <1>1, <1>6, ExtractionGoesOn

(* The partition gets a file of its own, and the title has it from then on. *)
LEMMA ExtractOverrideResolves ==
  ASSUME FlashInv, ResolutionInv, ExtractOverride
  PROVE  ResolutionInv'
<1> DEFINE path == ImagePath(Target)
<1>1. /\ AtOverride /\ pc = "overrides" /\ pc' = pc /\ i' = i + 1 /\ KeepClient /\ KeepChild
      /\ Sanitizes(Target) /\ Title \notin DOMAIN titleToPath /\ Titled # 0
      /\ titleToPath' = Put(titleToPath, Title, path)
      /\ partitionFiles' = Put(partitionFiles, Target, path)
      /\ UNCHANGED <<world, mode, manifest, result>>
  BY DEF ExtractOverride, AtOverride, Goto
<1>2. /\ AutoLayers' = AutoLayers /\ Image' = Image /\ Overrides' = Overrides
      /\ Unambiguous' = Unambiguous /\ NamesFiles' = NamesFiles
      /\ \A k : NameOf(k)' = NameOf(k)
      /\ \A title : LayerTitled(title)' = LayerTitled(title)
  BY <1>1, SameImage
<1>3. /\ Extracted(AutoLayers, Given) /\ Given' = Given \union {i} /\ i \in DOMAIN Overrides
      /\ Target = Overrides[i][1] /\ Title = Overrides[i][2]
      /\ Titled = TitleToLayer(Image.layers, Title) /\ Layers[Titled] = LayerTitled(Title)
      /\ \A k \in AutoLayers : NameOf(k) # Target
  BY <1>1, AtOverrideFacts, GivenGrows
<1>4. Supported(LayerTitled(Title)) /\ Extract(LayerTitled(Title), path)
  BY <1>3 DEF ExtractOverride
<1>5. PICK whole \in BOOLEAN :
        files' = Put(files, path, Blob(LayerTitled(Title), whole)) /\ fault' = (fault \/ ~whole)
  BY <1>4 DEF Extract
<1>6. path = ImagePath(Target)
  OBVIOUS
<1> HIDE DEF path
<1>7. /\ files'[path].layer = LayerTitled(Title).digest /\ files'[path].entry = "all"
      /\ \A x \in DOMAIN files \ {path} : files'[x] = files[x]
  <2>1. files'[path] = Blob(LayerTitled(Title), whole)
    BY <1>5 DEF Put
  <2>2. \A x \in DOMAIN files \ {path} : files'[x] = files[x]
    BY <1>5 DEF Put
  <2> QED BY <2>1, <2>2 DEF Blob
<1>8. /\ DOMAIN titleToPath' = DOMAIN titleToPath \union {Title} /\ titleToPath'[Title] = path
      /\ \A title \in DOMAIN titleToPath : titleToPath'[title] = titleToPath[title]
  BY <1>1 DEF Put
<1>9. \A k \in AutoLayers : files'[ImagePath(NameOf(k))] = files[ImagePath(NameOf(k))]
  <2> TAKE k \in AutoLayers
  <2>1. /\ NameOf(k) \in DOMAIN partitionFiles
        /\ partitionFiles[NameOf(k)] = ImagePath(NameOf(k))
    BY <1>3 DEF Extracted
  <2>2. ImagePath(NameOf(k)) \in DOMAIN files
    BY <2>1 DEF FlashInv, PathsInv
  <2>3. ImagePath(NameOf(k)) # path
    BY <1>3, <1>6 DEF ImagePath
  <2> QED BY <1>7, <2>2, <2>3
<1>10. ASSUME NEW title \in DOMAIN titleToPath'
       PROVE  TitleNoted(title, AutoLayers, Given)'
  <2>1. CASE title = Title
    <3>1. /\ i \in Given' /\ Overrides[i][2] = title /\ titleToPath'[title] = ImagePath(Overrides[i][1])
          /\ TitleToLayer(Image.layers, title) # 0 /\ Supported(LayerTitled(title))
          /\ files'[titleToPath'[title]].layer = LayerTitled(title).digest
          /\ files'[titleToPath'[title]].entry = "all"
      BY <1>1, <1>3, <1>4, <1>6, <1>7, <1>8, <2>1
    <3> QED BY <1>2, <3>1 DEF TitleNoted, IsBlobOf
  <2>2. CASE title # Title
    <3>1. title \in DOMAIN titleToPath /\ titleToPath'[title] = titleToPath[title]
      BY <1>8, <2>2
    <3>2. TitleNoted(title, AutoLayers, Given)
      BY <1>3, <3>1 DEF Extracted
    <3>3. CASE \E k \in AutoLayers : /\ HasTitle(Image.layers[k], title)
                                     /\ titleToPath[title] = ImagePath(NameOf(k))
      BY <1>2, <3>1, <3>3 DEF TitleNoted
    <3>4. ASSUME NEW o \in Given, Overrides[o][2] = title, titleToPath[title] = ImagePath(Overrides[o][1]),
                 TitleToLayer(Image.layers, title) # 0, Supported(LayerTitled(title)),
                 Unambiguous => IsBlobOf(titleToPath[title], LayerTitled(title))
          PROVE  TitleNoted(title, AutoLayers, Given)'
      <4>1. ASSUME Unambiguous PROVE files'[titleToPath[title]] = files[titleToPath[title]]
        <5>1. o \in DOMAIN Overrides /\ o # i
          <6>1. i \in Nat
            BY DEF FlashInv, TypeOK
          <6> QED BY <6>1 DEF Given
        <5>2. Overrides[o][1] # Target
          BY <1>3, <4>1, <5>1, DistinctTargets DEF FlashInv, TypeOK
        <5>3. titleToPath[title] # path
          BY <1>6, <3>4, <5>2 DEF ImagePath
        <5>4. titleToPath[title] \in DOMAIN files
          BY <1>1, <3>1 DEF FlashInv, PathsInv
        <5> QED BY <1>7, <5>3, <5>4
      <4> QED BY <1>2, <1>3, <3>1, <3>4, <4>1 DEF TitleNoted, IsBlobOf
    <3> QED BY <3>2, <3>3, <3>4 DEF TitleNoted
  <2> QED BY <2>1, <2>2
<1>11. Extracted(AutoLayers, Given)'
  BY <1>1, <1>8, <1>9, <1>10, OverrideExtracted
<1>12. LayersInv' /\ OverridesInv'
  BY <1>1, <1>2, <1>11 DEF LayersInv, OverridesInv, ResolutionInv
<1>13. fault => fault'
  BY <1>5
<1> QED BY <1>1, <1>12, <1>13, ExtractionGoesOn

(* From the extraction to the flash.                                       *)

LEMMA BeginsResolves ==
  ASSUME FlashInv, ResolutionInv, Working, pc' \in {"detect", "flash"},
         UNCHANGED <<world, mode, manifest, result>>, fault => fault', KeepClient, KeepChild,
         IF NamesFiles THEN FilesFit ELSE LayersFit, DOMAIN partitionFiles' = Wanted,
         Unambiguous => \A p \in Wanted : <<Content(p)'.layer, Content(p)'.entry>> = Source(p)
  PROVE  ResolutionInv'
<1>1. /\ result = "none" /\ MayRead /\ Image.kind = "image"
      /\ UNCHANGED <<registry, token, attached, booted>>
  BY WorkingFacts DEF KeepClient, KeepChild, childVars
<1>2. /\ NamesFiles' = NamesFiles /\ Image' = Image /\ Wanted' = Wanted /\ Fits' = Fits
      /\ Unambiguous' = Unambiguous /\ \A p : Source(p)' = Source(p)
  BY SameImage
<1>3. MayRead' = MayRead /\ ApiStatus' = ApiStatus
  BY <1>1 DEF MayRead, ApiStatus
<1>4. AccessInv'
  BY <1>1, <1>3 DEF ResolutionInv, AccessInv, Working
<1>5. ManifestInv'
  BY <1>1, <1>2 DEF ResolutionInv, ManifestInv, Working
<1>6. Fits
  BY <1>1 DEF Fits
<1>7. ChosenInv'
  BY <1>1, <1>2, <1>3, <1>6 DEF ChosenInv, AsMapped
<1>8. LayersInv' /\ OverridesInv' /\ AnswerInv'
  BY <1>1 DEF LayersInv, OverridesInv, ResolutionInv, AnswerInv
<1> QED BY <1>4, <1>5, <1>7, <1>8 DEF ResolutionInv

(* When all layers and overrides have been dealt with, what is asked for   *)
(* is there.                                                               *)
LEMMA AllExtracted ==
  ASSUME FlashInv, ResolutionInv, pc = "overrides", i > Len(Overrides)
  PROVE  /\ Extracted(AutoLayers, DOMAIN Overrides) /\ ~NamesFiles /\ Image.kind = "image"
         /\ world \in Worlds /\ DOMAIN partitionFiles = Wanted
         /\ ~DefaultsInvalid(Image) /\ Image.layers \in Seq(ToSet(Image.layers))
<1>1. Image.kind = "image" /\ world \in Worlds /\ i \in Nat
  BY WorkingFacts DEF Working
<1>2. Given = DOMAIN Overrides
  <2>1. \A o \in DOMAIN Overrides : o < i
    BY <1>1, OverrideFacts
  <2> QED BY <2>1 DEF Given
<1>3. Extracted(AutoLayers, DOMAIN Overrides) /\ ~NamesFiles /\ ~DefaultsInvalid(Image)
  BY <1>2 DEF ResolutionInv, OverridesInv
<1>4. DOMAIN partitionFiles = Wanted
  BY <1>3 DEF Extracted, Wanted, AutoNames, NameOf, Overridden
<1> QED BY <1>1, <1>3, <1>4, ImageFacts

(* It all can be had,                                                      *)
LEMMA ExtractedFits ==
  ASSUME FlashInv, ResolutionInv, pc = "overrides", i > Len(Overrides), DOMAIN partitionFiles # {}
  PROVE  LayersFit
<1>1. /\ Extracted(AutoLayers, DOMAIN Overrides) /\ ~NamesFiles /\ DOMAIN partitionFiles = Wanted
      /\ ~DefaultsInvalid(Image) /\ Image.layers \in Seq(ToSet(Image.layers))
      /\ AutoLayers \subseteq DOMAIN Image.layers
  BY AllExtracted, ImageFacts
<1>2. Wanted \subseteq GoodNames
  BY <1>1 DEF Wanted, AutoNames, NameOf, Overridden, Extracted, Sanitizes
<1>3. ASSUME NEW title \in OverrideTitles
      PROVE  /\ title \in Titles(Image.layers)
             /\ Supported(LayerTitled(title)) \/ \E k \in AutoLayers : HasTitle(Image.layers[k], title)
  <2>1. TitleNoted(title, AutoLayers, DOMAIN Overrides)
    BY <1>1 DEF OverrideTitles, Extracted
  <2>2. CASE \E k \in AutoLayers : HasTitle(Image.layers[k], title)
    BY <1>1, <2>2, TitleFound
  <2>3. CASE TitleToLayer(Image.layers, title) # 0 /\ Supported(LayerTitled(title))
    BY <1>1, <2>3, TitleFound
  <2> QED BY <2>1, <2>2, <2>3 DEF TitleNoted
<1>4. \A k \in AutoLayers : Supported(Image.layers[k])
  BY <1>1 DEF Extracted
<1> QED BY <1>1, <1>2, <1>3, <1>4 DEF LayersFit

(* If nothing is claimed twice, a layer is known by its title, and by its  *)
(* partition.                                                              *)
LEMMA OneLayer ==
  ASSUME Unambiguous, AutoLayers \subseteq DOMAIN Image.layers
  PROVE  /\ \A k, l \in AutoLayers : NameOf(k) = NameOf(l) => k = l
         /\ \A k, l \in DOMAIN Image.layers : \A title :
              HasTitle(Image.layers[k], title) /\ HasTitle(Image.layers[l], title) => k = l
<1>1. \A k, l \in AutoLayers : NameOf(k) = NameOf(l) => k = l
  BY DEF Unambiguous, NameOf
<1>2. ASSUME NEW k \in DOMAIN Image.layers, NEW l \in DOMAIN Image.layers, NEW title,
             HasTitle(Image.layers[k], title), HasTitle(Image.layers[l], title)
      PROVE  k = l
  <2>1. title \in Titles(Image.layers)
    BY <1>2 DEF Titles, HasTitle
  <2> QED BY <1>2, <2>1 DEF Unambiguous
<1> QED BY <1>1, <1>2

(* and is what is meant for it, unless a name is claimed twice.            *)
LEMMA ExtractedAsMapped ==
  ASSUME FlashInv, ResolutionInv, pc = "overrides", i > Len(Overrides), Unambiguous,
         NEW p \in Wanted
  PROVE  AsMapped(p)
<1>1. /\ Extracted(AutoLayers, DOMAIN Overrides) /\ ~NamesFiles /\ world \in Worlds
      /\ Image.layers \in Seq(ToSet(Image.layers)) /\ AutoLayers \subseteq DOMAIN Image.layers
  BY AllExtracted, ImageFacts
(* The file of a partition of the image's own holds the layer for it.      *)
<1>2. ASSUME NEW k \in AutoLayers
      PROVE  /\ partitionFiles[NameOf(k)] = ImagePath(NameOf(k))
             /\ IsBlobOf(ImagePath(NameOf(k)), Image.layers[k])
  <2>1. PICK l \in AutoLayers :
          /\ NameOf(l) = NameOf(k) /\ partitionFiles[NameOf(k)] = ImagePath(NameOf(k))
          /\ IsBlobOf(ImagePath(NameOf(k)), Image.layers[l])
    BY <1>1 DEF Extracted
  <2>2. l = k
    BY <1>1, <2>1, OneLayer
  <2> QED BY <2>1, <2>2
<1>3. CASE p \in Overridden
  <2> DEFINE title == WantedTitle(p)
  <2>1. PICK o \in DOMAIN Overrides : Overrides[o][1] = p /\ Overrides[o][2] = title
    BY <1>1, <1>3, LastOverride
  <2>2. partitionFiles[p] = titleToPath[title] /\ title \in DOMAIN titleToPath
    BY <1>1, <2>1 DEF Extracted
  <2>3. TitleNoted(title, AutoLayers, DOMAIN Overrides)
    BY <1>1, <2>2 DEF Extracted
  <2>4. IsBlobOf(titleToPath[title], LayerTitled(title))
    <3>1. CASE \E k \in AutoLayers : /\ HasTitle(Image.layers[k], title)
                                     /\ titleToPath[title] = ImagePath(NameOf(k))
      <4>1. PICK k \in AutoLayers : /\ HasTitle(Image.layers[k], title)
                                    /\ titleToPath[title] = ImagePath(NameOf(k))
        BY <3>1
      <4>2. /\ TitleToLayer(Image.layers, title) \in DOMAIN Image.layers
            /\ HasTitle(Image.layers[TitleToLayer(Image.layers, title)], title)
        BY <1>1, <4>1, TitleFound
      <4>3. TitleToLayer(Image.layers, title) = k
        BY <1>1, <4>1, <4>2, OneLayer
      <4> QED BY <1>2, <4>1, <4>3 DEF LayerTitled
    <3> QED BY <2>3, <3>1 DEF TitleNoted
  <2> QED BY <1>1, <1>3, <2>2, <2>4 DEF AsMapped, Content, Source, IsBlobOf
<1>4. CASE p \notin Overridden
  <2>1. \E k \in AutoLayers : NameOf(k) = p
    BY <1>1, <1>4 DEF Wanted, AutoNames, NameOf
  <2>2. PICK k \in AutoLayers : NameOf(k) = p /\ AutoLayer(p) = Image.layers[k]
    BY <2>1 DEF AutoLayer, NameOf
  <2>3. partitionFiles[p] = ImagePath(p) /\ IsBlobOf(ImagePath(p), AutoLayer(p))
    BY <1>2, <2>2
  <2> QED BY <1>1, <1>4, <2>3 DEF AsMapped, Content, Source, IsBlobOf
<1> QED BY <1>3, <1>4

(* The flash begins, or there is nothing to flash.                         *)
LEMMA OverridesDoneResolves ==
  ASSUME FlashInv, ResolutionInv, OverridesDone
  PROVE  ResolutionInv'
<1>1. /\ pc = "overrides" /\ i > Len(Overrides) /\ KeepClient /\ KeepChild /\ Working
      /\ ~NamesFiles /\ DOMAIN partitionFiles = Wanted
  BY AllExtracted DEF OverridesDone, Working
<1>2. CASE DOMAIN partitionFiles = {} /\ Refuse
  <2>1. ~Feasible
    BY <1>1, <1>2 DEF Feasible, LayersFit
  <2> QED BY <1>1, <1>2, <2>1, GivesUpResolves
<1>3. CASE /\ DOMAIN partitionFiles # {} /\ BeginFlashing(partitionFiles)
           /\ UNCHANGED <<world, mode, manifest, files, i, partitionFiles, titleToPath, fault>>
  <2>1. pc' \in {"detect", "flash"} /\ result' = result
    BY <1>3 DEF BeginFlashing, AfterExtraction, Goto
  <2>2. LayersFit
    BY <1>1, <1>3, ExtractedFits
  <2>3. ASSUME Unambiguous, NEW p \in Wanted
        PROVE  <<Content(p)'.layer, Content(p)'.entry>> = Source(p)
    <3>1. AsMapped(p)
      BY <1>1, <2>3, ExtractedAsMapped
    <3>2. Content(p)' = Content(p)
      BY <1>3 DEF Content
    <3> QED BY <3>1, <3>2 DEF AsMapped
  <2> QED BY <1>1, <1>3, <2>1, <2>2, <2>3, BeginsResolves
<1> QED BY <1>2, <1>3 DEF OverridesDone

-----------------------------------------------------------------------------
(* An image that speaks of no partitions.                                  *)

(* The only layer to look at is the one the reference looks at.            *)
LEMMA SingleFacts ==
  ASSUME FlashInv, ResolutionInv, pc = "single"
  PROVE  /\ Working /\ manifest = Image /\ world \in Worlds /\ NamesFiles /\ Wanted = Overridden
         /\ Single = Image.layers[GetSingleLayer(Image)] /\ GetSingleLayer(manifest) = GetSingleLayer(Image)
         /\ Feasible => FilesFit
         /\ OverrideTitles # {}
<1>1. /\ Working /\ manifest = Image /\ Layers = Image.layers /\ NamesFiles /\ world \in Worlds
  BY WorkingFacts DEF Working, FlashInv, PathsInv, ResolutionInv, ManifestInv
<1>2. OverrideTitles # {}
  <2>1. Overrides # <<>> /\ Overrides \in Seq(ToSet(Overrides))
    BY <1>1, FastbootAssumption DEF NamesFiles, Overrides
  <2>2. 1 \in DOMAIN Overrides
    BY <2>1
  <2> QED BY <2>2 DEF OverrideTitles
<1> QED BY <1>1, <1>2 DEF Single, Wanted, Feasible

(* The files found are those named, or the program gives up because one is *)
(* not there.                                                              *)
LEMMA MapPatternsResolves ==
  ASSUME FlashInv, ResolutionInv, AtSingle, KeepClient, KeepChild, fault => fault',
         NEW found, MapPatterns(found),
         DOMAIN found \subseteq OverrideTitles,
         \A name \in DOMAIN found :
           /\ found[name].layer = Single.digest
           /\ found[name].entry = IF ReadAsTar(Single, OverrideTitles) THEN name ELSE "all",
         OverrideTitles \subseteq DOMAIN found <=> FilesFit
  PROVE  ResolutionInv'
<1>1. /\ Working /\ NamesFiles /\ Wanted = Overridden /\ world \in Worlds
      /\ Single = Image.layers[GetSingleLayer(Image)] /\ (Feasible => FilesFit)
  BY SingleFacts DEF AtSingle
<1>2. CASE ~(OverrideTitles \subseteq DOMAIN found) /\ Return("err") /\ Keep
  <2>1. ~Feasible /\ UNCHANGED <<registry, token, attached, booted>>
    BY <1>1, <1>2 DEF KeepClient, KeepChild, childVars
  <2> QED BY <1>2, <2>1, ErrorResolves
<1>3. CASE /\ OverrideTitles \subseteq DOMAIN found
           /\ files' = [path \in {FilePath(name) : name \in OverrideTitles} |-> found[path[2]]]
           /\ partitionFiles' = [p \in Overridden |-> FilePath(WantedTitle(p))]
           /\ BeginFlashing(partitionFiles')
           /\ UNCHANGED <<world, mode, manifest, i, titleToPath>>
  <2>1. pc' \in {"detect", "flash"} /\ result' = result
    BY <1>3 DEF BeginFlashing, AfterExtraction, Goto
  <2>2. DOMAIN partitionFiles' = Wanted
    BY <1>1, <1>3
  <2>3. ASSUME NEW p \in Wanted
        PROVE  <<Content(p)'.layer, Content(p)'.entry>> = Source(p)
    <3>1. p \in Overridden /\ WantedTitle(p) \in OverrideTitles
      BY <1>1, LastOverride
    <3>2. partitionFiles'[p] = FilePath(WantedTitle(p))
      BY <1>3, <3>1
    <3>3. files'[FilePath(WantedTitle(p))] = found[WantedTitle(p)]
      <4>1. FilePath(WantedTitle(p))[2] = WantedTitle(p)
        BY DEF FilePath
      <4> QED BY <1>3, <3>1, <4>1
    <3>4. Content(p)' = found[WantedTitle(p)]
      BY <3>2, <3>3 DEF Content
    <3>5. /\ Content(p)'.layer = Single.digest
          /\ Content(p)'.entry = IF ReadAsTar(Single, OverrideTitles) THEN WantedTitle(p) ELSE "all"
      BY <1>3, <3>1, <3>4
    <3> QED BY <1>1, <3>5 DEF Source
  <2> QED BY <1>1, <1>3, <2>1, <2>2, <2>3, BeginsResolves
<1> QED BY <1>2, <1>3 DEF MapPatterns, WantedTitle

(* A tar holds what is named or not; a file that is none is taken as it is. *)
LEMMA SingleResolves ==
  ASSUME FlashInv, ResolutionInv, RefuseSingle \/ ExtractFromTar \/ ExtractDirectly
  PROVE  ResolutionInv'
<1>1. /\ pc = "single" /\ KeepClient /\ KeepChild
      /\ UNCHANGED <<registry, token, attached, booted>>
  BY DEF RefuseSingle, ExtractFromTar, ExtractDirectly, AtSingle, KeepClient, KeepChild, childVars
<1>2. /\ Single = Image.layers[GetSingleLayer(Image)] /\ GetSingleLayer(manifest) = GetSingleLayer(Image)
      /\ Feasible => FilesFit
      /\ OverrideTitles # {}
  BY <1>1, SingleFacts
<1>3. CASE RefuseSingle
  <2>1. ~Feasible /\ Refuse
    BY <1>2, <1>3 DEF RefuseSingle, FilesFit
  <2> QED BY <1>1, <2>1, GivesUpResolves
<1>4. CASE ExtractFromTar /\ Single.entries = <<>>
  <2>1. Return("err") /\ Keep /\ fault' = fault /\ ReadAsTar(Single, OverrideTitles)
    BY <1>4 DEF ExtractFromTar
  <2>2. ToSet(Single.entries) = {}
    BY <1>4 DEF ToSet
  <2>3. ~Feasible
    BY <1>2, <2>1, <2>2 DEF FilesFit
  <2> QED BY <1>1, <2>1, <2>3, ErrorResolves
<1>5. CASE ExtractFromTar /\ Single.entries # <<>>
  <2>1. /\ AtSingle /\ ReadAsTar(Single, OverrideTitles)
        /\ GetSingleLayer(Image) # 0 /\ Supported(Single)
    BY <1>2, <1>5 DEF ExtractFromTar, AtSingle
  <2>2. PICK short \in {""} \union OverrideTitles :
          /\ MapPatterns([name \in OverrideTitles \cap ToSet(Single.entries) |->
               [layer |-> Single.digest, entry |-> name, whole |-> name # short]])
          /\ fault' = (fault \/ short # "")
    BY <1>5 DEF ExtractFromTar
  <2> DEFINE found == [name \in OverrideTitles \cap ToSet(Single.entries) |->
                        [layer |-> Single.digest, entry |-> name, whole |-> name # short]]
  <2>3. DOMAIN found = OverrideTitles \cap ToSet(Single.entries)
    OBVIOUS
  <2>4. \A name \in DOMAIN found : found[name].layer = Single.digest /\ found[name].entry = name
    OBVIOUS
  <2>5. MapPatterns(found) /\ (fault => fault')
    BY <2>2
  <2> HIDE DEF found
  <2>6. OverrideTitles \subseteq DOMAIN found <=> FilesFit
    BY <1>2, <2>1, <2>3 DEF FilesFit
  <2> QED BY <1>1, <2>1, <2>3, <2>4, <2>5, <2>6, MapPatternsResolves
<1>6. CASE ExtractDirectly
  <2>1. /\ AtSingle /\ ~ReadAsTar(Single, OverrideTitles)
        /\ GetSingleLayer(Image) # 0 /\ Supported(Single)
    BY <1>2, <1>6 DEF ExtractDirectly, AtSingle
  <2>2. PICK whole \in BOOLEAN :
          /\ MapPatterns([name \in OverrideTitles |-> Blob(Single, whole)])
          /\ fault' = (fault \/ ~whole)
    BY <1>6 DEF ExtractDirectly
  <2> DEFINE found == [name \in OverrideTitles |-> Blob(Single, whole)]
  <2>3. DOMAIN found = OverrideTitles
    OBVIOUS
  <2>4. \A name \in DOMAIN found : found[name].layer = Single.digest /\ found[name].entry = "all"
    BY DEF Blob
  <2>5. MapPatterns(found) /\ (fault => fault')
    BY <2>2
  <2> HIDE DEF found
  <2>6. OverrideTitles \subseteq DOMAIN found <=> FilesFit
    BY <1>2, <2>1, <2>3 DEF FilesFit
  <2> QED BY <1>1, <2>1, <2>3, <2>4, <2>5, <2>6, MapPatternsResolves
<1> QED BY <1>3, <1>4, <1>5, <1>6

-----------------------------------------------------------------------------
(* The flash, the child, and time.                                         *)

(* A step that changes nothing the invariant speaks of but the place.      *)
LEMMA StaysResolved ==
  ASSUME FlashInv, ResolutionInv,
         UNCHANGED <<world, registry, mode, manifest, files, partitionFiles, titleToPath, i>>,
         UNCHANGED <<result, attached>>, fault => fault',
         pc' \in {pc, "stuck", "killed"} \/ (pc \in {"detect", "flash"} /\ pc' \in {"detect", "flash"}),
         token' = token \/ (token = "valid" /\ token' = "expired" /\ fault'),
         booted' => booted \/ attached, booted => booted'
  PROVE  ResolutionInv'
<1>1. /\ NamesFiles' = NamesFiles /\ Image' = Image /\ Wanted' = Wanted /\ Fits' = Fits
      /\ Unambiguous' = Unambiguous /\ AutoLayers' = AutoLayers /\ Overrides' = Overrides
      /\ \A p : Source(p)' = Source(p)
  BY SameImage
<1>2. MayRead' = MayRead /\ Feasible' = Feasible /\ ApiStatus' = ApiStatus
  BY SameFeasible DEF ApiStatus
<1>3. Seen' = Seen /\ Given' = Given /\ \A p : Content(p)' = Content(p)
  BY <1>1 DEF Seen, Given, Content
<1>4. \A seen, given : Extracted(seen, given)' <=> Extracted(seen, given)
  BY SameExtracted
<1>5. AccessInv'
  BY <1>2 DEF ResolutionInv, AccessInv, Working, ChallengeParsed
<1>6. ManifestInv'
  BY <1>1 DEF ResolutionInv, ManifestInv, Working
<1>7. LayersInv' /\ OverridesInv'
  BY <1>1, <1>3, <1>4 DEF ResolutionInv, LayersInv, OverridesInv
<1>8. ChosenInv'
  BY <1>1, <1>2, <1>3 DEF ResolutionInv, ChosenInv, AsMapped
<1>9. AnswerInv'
  BY <1>2 DEF ResolutionInv, AnswerInv
<1> QED BY <1>5, <1>6, <1>7, <1>8, <1>9 DEF ResolutionInv

(* No command has a say in what goes where; "continue" comes before success. *)
LEMMA CommandResolves ==
  ASSUME FlashInv, ResolutionInv,
         StartCommand \/ SpawnFails \/ CommandDone \/ CommandFailed \/ TimesOut
  PROVE  ResolutionInv'
<1>1. /\ pc \in {"detect", "flash"} /\ result = "none"
      /\ UNCHANGED <<registry, token, attached, booted>>
  BY CommandingFacts DEF StartCommand, SpawnFails, CommandDone, CommandFailed, TimesOut, Spawn, Kill,
     Reap, ProgramWaits, KeepClient, KeepChild, childVars
<1>2. CASE StartCommand
  BY <1>1, <1>2, StaysResolved DEF StartCommand, ProgramWaits, programVars
<1>3. CASE SpawnFails \/ CommandFailed \/ TimesOut
  BY <1>1, <1>3, ErrorResolves DEF SpawnFails, CommandFailed, TimesOut, Suffer
<1>4. CASE CommandDone
  <2>1. /\ child = "exit0"
        /\ UNCHANGED <<world, registry, mode, manifest, files, partitionFiles, titleToPath, i, fault>>
    BY <1>1, <1>4 DEF CommandDone
  <2>2. CASE Goto("flash")
    BY <1>1, <2>1, <2>2, StaysResolved DEF Goto
  <2>3. CASE ~attached /\ Return("err") /\ queue' = queue
    BY <1>1, <2>1, <2>3, ErrorResolves DEF Keep, Feasible
  <2>4. CASE command[1] = "continue" /\ Return("ok")
    <3>1. booted /\ pc' = "returned" /\ result' = "ok"
      BY <2>1, <2>4 DEF FlashInv, ChildInv, Return
    <3>2. /\ NamesFiles' = NamesFiles /\ Wanted' = Wanted /\ Fits' = Fits /\ MayRead' = MayRead
          /\ Unambiguous' = Unambiguous
          /\ \A p : Source(p)' = Source(p) /\ Content(p)' = Content(p)
      BY <1>1, <2>1, SameImage, SameFeasible DEF Content
    <3>3. AccessInv' /\ ManifestInv'
      BY <1>1, <2>1, <3>1, <3>2 DEF ResolutionInv, AccessInv, ManifestInv, Working
    <3>4. ChosenInv'
      BY <1>1, <2>1, <3>2 DEF ResolutionInv, ChosenInv, AsMapped
    <3>5. LayersInv' /\ OverridesInv' /\ AnswerInv'
      BY <1>1, <3>1 DEF LayersInv, OverridesInv, ResolutionInv, AnswerInv
    <3> QED BY <3>3, <3>4, <3>5 DEF ResolutionInv
  <2> QED BY <1>4, <2>2, <2>3, <2>4 DEF CommandDone
<1> QED BY <1>2, <1>3, <1>4

(* Nor have the child, the registry or a kill.                             *)
LEMMA ElseResolves ==
  ASSUME FlashInv, ResolutionInv, ChildNext \/ TokenRunsOut \/ Killed \/ UNCHANGED vars
  PROVE  ResolutionInv'
<1>1. CASE ChildNext
  <2>1. /\ UNCHANGED <<world, registry, mode, manifest, files, partitionFiles, titleToPath, i>>
        /\ UNCHANGED <<pc, result, token, fault>>
    BY <1>1 DEF ChildNext, ProgramWaits, programVars, KeepClient
  <2>2. attached' = attached /\ (booted' = booted \/ (attached /\ booted'))
    BY <1>1 DEF ChildNext, ChildBeginsFlash, ChildEndsFlash, ChildContinues, ChildLists, ChildFails
  <2> QED BY <2>1, <2>2, StaysResolved
<1>2. CASE TokenRunsOut \/ Killed
  <2>1. /\ UNCHANGED <<world, registry, mode, manifest, files, partitionFiles, titleToPath, i>>
        /\ UNCHANGED <<result, attached, booted>> /\ fault' /\ pc' \in {pc, "killed"}
        /\ token' = token \/ (token = "valid" /\ token' = "expired")
    BY <1>2 DEF TokenRunsOut, Killed, TokenExpires, Keep, KeepClient, KeepChild, childVars
  <2> QED BY <2>1, StaysResolved
<1>3. CASE UNCHANGED vars
  BY <1>3, StaysResolved DEF vars, programVars, childVars
<1> QED BY <1>1, <1>2, <1>3

LEMMA InitResolves == Init => ResolutionInv
<1> SUFFICES ASSUME Init PROVE ResolutionInv
  OBVIOUS
<1>1. /\ pc = "tempdir" /\ token = "none" /\ mode = "annotations" /\ result = "none" /\ ~booted
      /\ DOMAIN partitionFiles = {} /\ DOMAIN titleToPath = {}
  BY DEF Init, CliInit
<1>2. AccessInv /\ ManifestInv
  BY <1>1 DEF AccessInv, ManifestInv, Working
<1>3. LayersInv /\ OverridesInv /\ ChosenInv /\ AnswerInv
  BY <1>1 DEF LayersInv, OverridesInv, ChosenInv, AnswerInv
<1> QED BY <1>2, <1>3 DEF ResolutionInv

LEMMA NextResolves ==
  ASSUME FlashInv, ResolutionInv, [Next]_vars
  PROVE  ResolutionInv'
<1>1. CASE ProgramNext
  <2>1. CASE ExtractionFails
    BY <2>1, GivesUpResolves DEF ExtractionFails
  <2>2. CASE DownloadHangs
    <3>1. /\ UNCHANGED <<world, registry, mode, manifest, files, partitionFiles, titleToPath, i>>
          /\ UNCHANGED <<result, token, attached, booted>> /\ pc' = "stuck" /\ (fault => fault')
      BY <2>2 DEF DownloadHangs, Goto, Keep, KeepClient, KeepChild, childVars
    <3> QED BY <3>1, StaysResolved
  <2> QED BY <1>1, <2>1, <2>2, MakeTempDirResolves, RequestResolves, FetchResolves, RefuseLayersResolves,
             SkipLayerResolves, ExtractLayerResolves, LayersDoneResolves, ReuseFileResolves,
             RefuseOverrideResolves, ExtractOverrideResolves, OverridesDoneResolves, SingleResolves,
             CommandResolves
          DEF ProgramNext
<1>2. CASE ChildNext \/ TokenRunsOut \/ Killed \/ UNCHANGED vars
  BY <1>2, ElseResolves
<1> QED BY <1>1, <1>2 DEF Next

(* The second invariant of flash_from_fastboot: what has been extracted,   *)
(* noted and answered so far is what the image and -t ask for.             *)
THEOREM ResolutionInvariant == Spec => []ResolutionInv
<1>1. Init => ResolutionInv
  BY InitResolves
<1>2. FlashInv /\ ResolutionInv /\ [Next]_vars => ResolutionInv'
  BY NextResolves
<1> QED BY <1>1, <1>2, FlashInvariant, PTL DEF Spec

(* Success means that the partitions flashed are exactly those asked for,  *)
(* each with the layer or the file meant for it unless a name is claimed   *)
(* twice, and that the device has been told to go on.                      *)
THEOREM MappedTheorem == Spec => []FlashedAsMapped
<1>1. FlashInv /\ ResolutionInv => FlashedAsMapped
  <2> SUFFICES ASSUME FlashInv, ResolutionInv, result = "ok"
               PROVE  /\ DOMAIN device = Wanted /\ booted
                      /\ Unambiguous => \A p \in Wanted : <<device[p].layer, device[p].entry>> = Source(p)
    BY DEF FlashedAsMapped
  <2>1. booted /\ Settled /\ queue = {}
    BY DEF FlashInv, DeviceInv, ResolutionInv, AnswerInv
  <2>2. DOMAIN device = DOMAIN partitionFiles /\ \A p \in DOMAIN partitionFiles : device[p] = Content(p)
    BY <2>1 DEF FlashInv, DeviceInv
  <2>3. /\ DOMAIN partitionFiles = Wanted
        /\ Unambiguous => \A p \in Wanted : AsMapped(p)
    BY DEF ResolutionInv, ChosenInv
  <2> QED BY <2>1, <2>2, <2>3 DEF AsMapped
<1> QED BY <1>1, FlashInvariant, ResolutionInvariant, PTL

(* An error has a cause: something failed that the program does not        *)
(* command, or what is asked for cannot be had; and what cannot be had is  *)
(* never flashed with success.                                             *)
THEOREM CauseTheorem == Spec => []ErrorsHaveACause
<1>1. FlashInv /\ ResolutionInv => ErrorsHaveACause
  <2> SUFFICES ASSUME FlashInv, ResolutionInv PROVE ErrorsHaveACause
    OBVIOUS
  <2>1. ASSUME result = "ok" PROVE Feasible
    BY <2>1, FeasibleMeans DEF ResolutionInv, ChosenInv, AnswerInv
  <2> QED BY <2>1 DEF ErrorsHaveACause, ResolutionInv, AnswerInv
<1> QED BY <1>1, FlashInvariant, ResolutionInvariant, PTL
=============================================================================
