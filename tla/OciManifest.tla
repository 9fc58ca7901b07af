----------------------------- MODULE OciManifest -----------------------------
(***************************************************************************)
(* What fls reads in the manifest of an OCI artifact: which document it    *)
(* takes for an image or an index, which platform and which layer it       *)
(* picks, what the annotations say of partitions (oci/manifest.rs,         *)
(* annotation_schema.rs, and the helpers of oci/from_oci.rs).              *)
(*                                                                         *)
(* A document is [kind |-> "image", layers, artifact, defaults, type],     *)
(* [kind |-> "index", manifests, type] or [kind |-> "other", type]; "type" *)
(* is what its Content-Type says.  Annotations are functions, whose domain *)
(* is the set of keys present.  A media type is its base and its suffix.   *)
(***************************************************************************)
EXTENDS Integers, Sequences, SequencesExt

CONSTANTS
  DiskTypes,   (* bases of FlashableArtifact: MEDIA_TYPE_PREFIXES and .raw,*)
               (* .qcow2, .simg                                            *)
  TarTypes,    (* bases that contain "tar"                                 *)
  TarTitles,   (* titles that end in .tar, .tar.gz, .tgz, .tar.xz, .tar.lz4*)
  GoodNames    (* partition names sanitize_partition_name lets through     *)

Unreadable == [kind |-> "unreadable"]

(* Manifest::parse: an index is one that lists something, or is announced  *)
(* as one and cannot be read as an image.                                  *)
Parse(document) ==
  IF \/ document.kind = "image"
     \/ document.kind = "index" /\ (document.manifests # <<>> \/ document.type = "index")
  THEN document
  ELSE Unreadable

(* find_linux_manifest: arm64 first, then amd64; 0 if there is neither.    *)
FindLinuxManifest(index) ==
  LET Find(platform) == SelectInSeq(index.manifests, LAMBDA m : m.platform = platform)
  IN  IF Find("linux/arm64") # 0 THEN Find("linux/arm64") ELSE Find("linux/amd64")

-----------------------------------------------------------------------------
(* Layers.                                                                 *)

Compressions == {"gzip", "zstd", "xz"}

Compression(layer) ==
  IF layer.media.suffix \in Compressions THEN layer.media.suffix ELSE "none"

(* ensure_supported_layer_compression.                                     *)
Supported(layer) == Compression(layer) # "zstd"

IsFlashable(layer) ==
  layer.media.base \in DiskTypes /\ layer.media.suffix \in Compressions \union {"none"}

(* get_single_layer: the only layer, else the first disk image of the      *)
(* artifactType, else the first disk image; 0 if there is none.            *)
GetSingleLayer(image) ==
  LET ofType == SelectInSeq(image.layers, LAMBDA l : IsFlashable(l) /\ l.media.base = image.artifact)
  IN  IF Len(image.layers) = 1 THEN 1
      ELSE IF ofType # 0 THEN ofType ELSE SelectInSeq(image.layers, IsFlashable)

HasTitle(layer, title) ==
  "title" \in DOMAIN layer.annotations /\ layer.annotations.title = title

Titles(layers) ==
  {layers[k].annotations.title : k \in {j \in DOMAIN layers : "title" \in DOMAIN layers[j].annotations}}

(* title_to_layer: of layers with the same title, the first is kept.       *)
TitleToLayer(layers, title) == SelectInSeq(layers, LAMBDA l : HasTitle(l, title))

LooksLikeTar(layer) ==
  \/ layer.media.base \in TarTypes
  \/ \E title \in TarTitles : HasTitle(layer, title)

-----------------------------------------------------------------------------
(* Annotation schemas, each known by its partition key.                    *)

SearchOrder == <<"generic", "automotive">>

(* resolve_annotation_schema: the first one that any layer uses.           *)
ResolveSchema(layers) ==
  LET used == SelectInSeq(SearchOrder, LAMBDA s : \E k \in DOMAIN layers : s \in DOMAIN layers[k].annotations)
  IN  IF used = 0 THEN "none" ELSE SearchOrder[used]

Partition(layer, schema) == layer.annotations[schema]

(* sanitize_partition_name: may the name become a file name?               *)
Sanitizes(name) == name \in GoodNames

(* Layers annotated with a partition.                                      *)
Annotated(layers) ==
  {k \in DOMAIN layers : ResolveSchema(layers) \in DOMAIN layers[k].annotations}

(* parse_default_partitions: the entries that are not empty; refused if    *)
(* there are none, or one is no partition name.                            *)
HasDefaults(image) == ResolveSchema(image.layers) \in DOMAIN image.defaults

DefaultPartitions(image) == ToSet(image.defaults[ResolveSchema(image.layers)]) \ {""}

DefaultsInvalid(image) ==
  HasDefaults(image) /\ (DefaultPartitions(image) = {} \/ \E name \in DefaultPartitions(image) : ~Sanitizes(name))
=============================================================================
