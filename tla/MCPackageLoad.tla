---------------------------- MODULE MCPackageLoad ----------------------------
(* Small packages that PackageLoad is checked with: an entrypoint of up to   *)
(* 5, a schema of up to 3, a descriptor of up to 3, an icon that may be      *)
(* empty, and a manifest of up to 2. Together they are up to 13, where the   *)
(* limit of a package is 10 or 11.                                           *)
EXTENDS PackageDocuments, Sequences

Entrypoint == <<"runner.wasm">>
SchemaFile == <<"config", "schema.json">>
UIFile == <<"ui.json">>
IconFile == <<"icon.svg">>
Other == <<"other">>
ManifestFile == <<"manifest.json">>
Outside == <<"C:", "other">>
OtherFiles == {Other, Outside}
DeclaredFiles == {Entrypoint, SchemaFile, UIFile, IconFile}
ValidPaths == {path \in DeclaredFiles \cup OtherFiles : PackagePathValid(path)}

Limits ==
    [file \in DeclaredFiles \cup {ManifestFile} |->
       CASE file = Entrypoint -> 5 [] file \in {SchemaFile, UIFile} -> 3
         [] file = IconFile -> 2 [] file = ManifestFile -> 2]

SomeSizes ==
    [file \in DeclaredFiles \cup {ManifestFile} |->
       CASE file = Entrypoint -> {1, 5} [] file = SchemaFile -> {1, 2, 4}
         [] file = UIFile -> {1, 2, 3} [] file = IconFile -> {0, 2}
         [] file = ManifestFile -> {0, 1, 2, 3}]

-----------------------------------------------------------------------------
(* Documents.                                                                *)

TextLength(text) == IF text = "long" THEN 2001 ELSE 1
IsBlank(text) == text \in {NoText, " "}

FullManifest ==
    [format |-> "v1", abi |-> ABIVersion, id |-> "org.runner", version |-> "1.0.0",
     implementation |-> "wasm", entrypoint |-> Entrypoint, schema |-> SchemaFile,
     icon |-> IconFile, ui |-> UIFile, readme |-> NoPath, behavior |-> "streaming",
     distribution |-> "batch-parallel", capabilities |-> <<>>,
     ports |-> <<[id |-> "in", direction |-> "input", required |-> TRUE],
                 [id |-> "out", direction |-> "output", required |-> TRUE]>>,
     limits |-> [memory |-> 128, wall_time |-> 1, output_bytes |-> 1, output_messages |-> 1],
     files |-> [file \in DeclaredFiles |-> [length |-> 64, digits |-> "lowercase hex"]]]

(* The second has a README without a checksum, the third is too large.       *)
SomeManifests == <<FullManifest, [FullManifest EXCEPT !.readme = Other], FullManifest>>

Property(enum) == [type |-> "string", enum |-> enum]
SomeSchemas == <<[mode |-> Property(<<"fast", "safe">>)],
                 [mode |-> Property(<<"fast", "safe">>), name |-> Property(<<>>)]>>

Field(key, kind, values) ==
    [key |-> key, kind |-> kind, label |-> "l", placeholder |-> NoText, help |-> <<>>,
     options |-> [i \in DOMAIN values |-> [value |-> values[i], label |-> "l"]],
     visible_when |-> <<>>, editor |-> Nil]

Described(fields) ==
    [format |-> "v1", name |-> "n", group |-> "g", glyph |-> "G", glyph_runes |-> 1, order |-> 0,
     fields |-> fields]

Mode == Field("mode", "select", <<"fast", "safe">>)
Name == [Field("name", "text", <<>>) EXCEPT
           !.visible_when = <<[key |-> "mode", values |-> <<"safe">>]>>,
           !.editor = [kind |-> "column-schema", types |-> <<"text">>, default |-> "text"]]

(* The first presents the first schema, the third the second; the second     *)
(* offers one value twice and the other not at all.                          *)
SomeDescriptors ==
    <<Described(<<Mode>>), Described(<<Field("mode", "select", <<"fast", "fast">>)>>),
      Described(<<Mode, Name>>)>>

Valid == {content \in DOMAIN SomeManifests : ManifestValid(SomeManifests[content])}

(* Nothing is wrong with the entrypoint and the icon.                        *)
SomeKinds ==
    [file \in DeclaredFiles |->
       CASE file = Entrypoint -> {1, 5} [] file = SchemaFile -> DOMAIN SomeSchemas
         [] file = UIFile -> DOMAIN SomeDescriptors [] file = IconFile -> {0, 2}]

SomeFit ==
    {contents \in [DeclaredFiles -> 0 .. 5] :
       /\ \A file \in DeclaredFiles : contents[file] \in SomeKinds[file]
       /\ DescriptorFits(SomeDescriptors[contents[UIFile]], SomeSchemas[contents[SchemaFile]])}

-----------------------------------------------------------------------------
Entry(name, declared, size) ==
    [name |-> name, declared |-> declared, size |-> size, regular |-> TRUE]

(* Archives with an undeclared entry, one outside of the package, one that   *)
(* comes twice, one whose header lies, one that claims more than the limit,  *)
(* a symbolic link, or none of these. The largest that are opened fill the   *)
(* limit of a package exactly.                                               *)
SomeArchives ==
    LET head == <<Entry(ManifestFile, 1, 1)>>
        schema == Entry(SchemaFile, 1, 1)
        icon == Entry(IconFile, 0, 0)
        link == [icon EXCEPT !.regular = FALSE]
        other == Entry(Other, 0, 0)
        outside == Entry(Outside, 0, 0)
    IN  {head \o <<Entry(Entrypoint, declared, size), schema, Entry(UIFile, 1, 1)>> \o rest :
           declared \in {1, 5, 11}, size \in {1, 5},
           rest \in {<<>>, <<icon>>, <<schema>>, <<icon, icon>>, <<link>>, <<other>>, <<outside>>,
                    <<icon, other>>}}

(* The loader refuses a directory nobody touches only if a file exceeds its  *)
(* limit or all together exceed the package's: 96 MiB of loaded content are  *)
(* allowed (docs/package-format.md:85-87). The code does not keep this:      *)
(* whether an empty file is refused depends on the order of a map.           *)
LegalIsAccepted ==
    /\ mode = "directory" /\ pc = "refused"
    /\ disk[Manifest] \in ValidManifests /\ disk[Manifest] <= Limit[Manifest]
    /\ \A file \in Files : digests[file] \in OfItsKind[file]
    /\ digests \in FitTogether
    => \/ \E file \in Files : digests[file] > Limit[file]
       \/ Bytes(Contents(disk[Manifest]), Files \cup {Manifest}) > MaxPackageBytes
=============================================================================
