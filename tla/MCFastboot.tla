------------------------------ MODULE MCFastboot ------------------------------
(***************************************************************************)
(* Fastboot for TLC: artifacts with annotated layers, with titled layers   *)
(* and with files, in registries of every kind.  Names stand for           *)
(* themselves; "../x" is no partition name, "" an empty entry of a list.   *)
(***************************************************************************)
EXTENDS Fastboot

Disks    == {"disk.raw", "disk.simg"}
TarBases == {"layer.tar"}
TarNames == {"bundle.tar"}
ByName   == <<"../x", "boot", "ghost", "odd", "recovery", "system", "vendor">>
AllGood  == {"boot", "odd", "recovery", "system", "vendor", "ghost"}
NoBytes  == [layer |-> 0, entry |-> "torn", whole |-> FALSE]

Layered(annotations, base, suffix, entries) ==
  [annotations |-> annotations, media |-> [base |-> base, suffix |-> suffix], entries |-> entries]

Disk(annotations, suffix) == Layered(annotations, "disk.raw", suffix, <<>>)

Boot     == Disk([title |-> "a", generic |-> "boot"], "none")
BootB    == Disk([title |-> "b", generic |-> "boot"], "gzip")
System   == Disk([title |-> "b", generic |-> "system"], "xz")
Vendor   == Disk([generic |-> "vendor"], "none")
Titled_C == Disk([title |-> "c"], "none")
Zstd     == Disk([title |-> "d", generic |-> "odd"], "zstd")
Misnamed == Disk([title |-> "e", generic |-> "../x"], "none")
Mixed    == Disk([title |-> "c", generic |-> "recovery", automotive |-> "boot"], "none")
AutoBoot == Disk([title |-> "a", automotive |-> "boot"], "none")

NoNotes  == [key \in {} |-> ""]
Plain    == Layered(NoNotes, "octet-stream", "none", <<>>)
PlainTar == Layered(NoNotes, "octet-stream", "none", <<"a", "b">>)
ZstdRaw  == Disk(NoNotes, "zstd")
Bundle   == Layered([title |-> "bundle.tar"], "octet-stream", "none", <<"a", "b", "a">>)
BareTar  == Layered(NoNotes, "layer.tar", "gzip", <<"a", "c">>)
FakeTar  == Layered(NoNotes, "layer.tar", "none", <<>>)
SimgOnly == Layered(NoNotes, "disk.simg", "none", <<>>)

Digests(layers) == [k \in DOMAIN layers |-> [digest |-> k] @@ layers[k]]

NoDefaults == [key \in {} |-> <<>>]

ImageOf(layers, artifact, defaults) ==
  [kind |-> "image", type |-> "image", layers |-> Digests(layers), artifact |-> artifact,
   defaults |-> defaults]

AnImage(layers) == ImageOf(layers, "none", NoDefaults)

Anyone == [policy |-> "open", creds |-> FALSE]

World(root, overrides) ==
  [root |-> root, overrides |-> overrides, serial |-> TRUE, clients |-> {Anyone}]

Seqs(S, lengths) == UNION {[1 .. n -> S] : n \in lengths}

To(partition, title) == <<partition, title>>

(* Annotated and titled layers, and what may be said on top of them.       *)
AnnotatedWorlds ==
  {World(AnImage(layers), overrides) :
     layers \in Seqs({Boot, BootB, System, Vendor, Titled_C, Zstd, Misnamed, Mixed, AutoBoot}, {1, 2}),
     overrides \in {<<>>, <<To("recovery", "a")>>, <<To("odd", "c")>>, <<To("boot", "b"), To("vendor", "b")>>}}
  \union {World(AnImage(<<Boot, System, Titled_C>>), overrides) :
     overrides \in Seqs({To("boot", "b"), To("boot", "c"), To("vendor", "c"), To("../x", "a"), To("odd", "z")},
                        {1, 2})}

(* Lists of default partitions: a sound one, one with a partition that is  *)
(* not in the image, and two that are refused.                             *)
Lists == {<<"boot", "">>, <<"boot", "ghost">>, <<"ghost">>, <<"">>, <<"boot", "../x">>}

DefaultWorlds ==
  {World(ImageOf(layers, "none", [key \in {schema} |-> list]), overrides) :
     layers \in {<<Boot, System>>, <<Boot, System, Zstd>>},
     schema \in {"generic", "automotive"}, list \in Lists, overrides \in {<<>>, <<To("system", "b")>>}}

(* Images that say nothing of partitions.                                  *)
FileWorlds ==
  {World(AnImage(layers), overrides) :
     layers \in {<<>>, <<Plain>>, <<PlainTar>>, <<ZstdRaw>>, <<Bundle>>, <<BareTar>>, <<FakeTar>>,
                 <<Plain, BareTar>>, <<Plain, SimgOnly>>, <<Bundle, Bundle>>},
     overrides \in {<<>>, <<To("boot", "a")>>, <<To("boot", "a"), To("system", "b")>>,
                    <<To("system", "a"), To("boot", "a")>>, <<To("boot", "bundle.tar")>>}}
  \union {World(ImageOf(<<Plain, SimgOnly, Disk(NoNotes, "none")>>, artifact, NoDefaults),
                <<To("boot", "a")>>) : artifact \in {"disk.raw", "disk.simg", "octet-stream"}}

(* Documents: indexes with and without a platform of ours, nested, empty.  *)
For(platform, document) == [platform |-> platform, document |-> document]
IndexOf(manifests, type) == [kind |-> "index", type |-> type, manifests |-> manifests]

Good   == AnImage(<<Boot>>)
Roots  ==
  {Good, [kind |-> "other", type |-> "index"], IndexOf(<<>>, "index"), IndexOf(<<>>, "none"),
   IndexOf(<<For("linux/amd64", AnImage(<<Vendor>>)), For("linux/arm64", Good)>>, "none"),
   IndexOf(<<For("none", Good), For("linux/amd64", Good)>>, "none"),
   IndexOf(<<For("windows/amd64", Good)>>, "index"),
   IndexOf(<<For("linux/arm64", IndexOf(<<For("linux/arm64", Good)>>, "index"))>>, "index")}

RegistryWorlds ==
  {[World(root, overrides) EXCEPT !.serial = serial, !.clients = Registries] :
     root \in Roots, overrides \in {<<>>, <<To("recovery", "a")>>}, serial \in BOOLEAN}
  \union {[World(AnImage(<<BareTar>>), <<To("boot", "a")>>) EXCEPT !.clients = Registries]}

AllWorlds == AnnotatedWorlds \union DefaultWorlds \union FileWorlds \union RegistryWorlds

(* Two layers for one partition; the first is wanted on another one, too.  *)
AliasWorld == {World(AnImage(<<Boot, BootB>>), <<To("recovery", "a")>>)}
=============================================================================
