----------------------------- MODULE PackageLoad -----------------------------
(***************************************************************************)
(* Loading and verifying a runner package (packagekit/loader.go): a        *)
(* directory whose files somebody may change meanwhile, or an archive      *)
(* (LoadArchive of archive.go), which is extracted into a directory of its *)
(* own first.                                                              *)
(*                                                                         *)
(* A file's content is abstracted to its size, and a digest to the size of *)
(* the content it is of. Which contents are a manifest, or a file of its   *)
(* kind, or fit together, is a constant.                                   *)
(***************************************************************************)
EXTENDS Integers, Sequences, FiniteSets

CONSTANTS
    Files,              (* the files the manifest declares                   *)
    Manifest,           (* ManifestFilename                                  *)
    Undeclared,         (* names that are neither                            *)
    PackagePaths,       (* names that ValidatePackagePath accepts            *)
    Limit,              (* limit on each file by its kind, the manifest's too*)
    MaxPackageBytes,    (* limit on all together                             *)
    ValidManifests,     (* contents that decode to a valid manifest          *)
    OfItsKind,          (* contents of each file that its kind allows: a     *)
                        (* WebAssembly module or a script, a JSON object,    *)
                        (* a descriptor, UTF-8 text, or anything             *)
    FitTogether,        (* contents of all files whose descriptor presents   *)
                        (* the fields of the configuration schema            *)
    MinEntries,         (* fewest entries of an archive                      *)
    MaxEntries,         (* most entries                                      *)
    Overhead,           (* what a ZIP adds to the size of each entry         *)
    Sizes,              (* sizes each file may have                          *)
    Archives,           (* sequences of [name, declared, size, regular]      *)
                        (* entries, regular if neither a directory nor a     *)
                        (* symbolic link                                     *)
    Modes               (* what is loaded: a "directory", an "archive", or a *)
                        (* "shared" directory, which somebody else changes   *)
                        (* meanwhile                                         *)

Names == Files \cup {Manifest} \cup Undeclared
Missing == -1
EntryType == [name : Names, declared : Nat, size : Nat, regular : BOOLEAN]

ASSUME NamesAssumption ==
    /\ Manifest \notin Files \cup Undeclared /\ Files \cap Undeclared = {}
    /\ IsFiniteSet(Files) /\ Files \subseteq PackagePaths
ASSUME LimitsAssumption ==
    /\ Limit \in [Files \cup {Manifest} -> Nat]
    /\ MaxPackageBytes \in Nat /\ Limit[Manifest] <= MaxPackageBytes
    /\ MinEntries \in Nat /\ MaxEntries \in Nat /\ Overhead \in Nat
ASSUME ContentsAssumption ==
    /\ ValidManifests \subseteq Nat
    /\ OfItsKind \in [Files -> SUBSET Nat] /\ FitTogether \subseteq [Files -> Nat]
ASSUME SizesAssumption == Sizes \in [Files \cup {Manifest} -> SUBSET Nat]
ASSUME ArchivesAssumption ==
    Archives \subseteq Seq(EntryType)
ASSUME ModesAssumption == Modes \subseteq {"directory", "shared", "archive"}

VARIABLES
    disk,       (* size of each file, or Missing                             *)
    digests,    (* the manifest's digests                                    *)
    mode,       (* what is loaded                                            *)
    entries,    (* entries of the archive                                    *)
    position,   (* index of the entry to extract                             *)
    seen,       (* names extracted                                           *)
    pc,         (* where the loader is                                       *)
    todo,       (* files it has not come to                                  *)
    current,    (* the file it is at                                         *)
    limit,      (* the most it reads of it                                   *)
    total,      (* totalBytes of LoadDirectory, or total of LoadArchive      *)
    loaded      (* size of the content read of each file, or Missing         *)

archive == <<mode, entries, position, seen>>
vars == <<disk, digests, archive, pc, todo, current, limit, total, loaded>>

Nowhere == [name \in Names |-> Missing]

Init ==
    /\ digests \in {d \in [Files -> UNION {Sizes[file] : file \in Files}] :
                     \A file \in Files : d[file] \in Sizes[file]}
    /\ \/ /\ mode = "archive" /\ pc = "open"
          /\ entries \in Archives /\ disk = Nowhere
       \/ /\ mode \in {"directory", "shared"} /\ pc = "manifest" /\ entries = <<>>
          /\ \E size \in Sizes[Manifest] :
               disk = [name \in Names |->
                         IF name = Manifest THEN size
                         ELSE IF name \in Files THEN digests[name] ELSE Missing]
    /\ mode \in Modes /\ position = 1
    /\ seen = {}
    /\ todo = Files /\ current = Manifest /\ limit = 0 /\ total = 0
    /\ loaded = [file \in Files |-> Missing]

Goto(location) == pc' = location

-----------------------------------------------------------------------------
(* LoadArchive.                                                              *)

(* Size of the archive as a file.                                            *)
ArchiveSize ==
    LET upTo[i \in 0 .. Len(entries)] ==
            IF i = 0 THEN 0 ELSE upTo[i - 1] + entries[i].size + Overhead
    IN upTo[Len(entries)]

OpenArchive ==
    /\ pc = "open"
    /\ IF /\ ArchiveSize <= MaxPackageBytes
          /\ Len(entries) \in MinEntries .. MaxEntries
       THEN Goto("extract") ELSE Goto("refused")
    /\ UNCHANGED <<disk, digests, archive, todo, current, limit, total, loaded>>

(* Mutant: an entry may come twice.                                          *)
AnyName(entry) == TRUE
NewName(entry) == entry.name \notin seen

(* Each entry is a regular file at a path of a package, new, within what is  *)
(* left of the limit by the size its header declares, and as long as that.   *)
OfAPackage(entry) == entry.name \in PackagePaths \cup {Manifest} /\ entry.regular

Extract ==
    /\ pc = "extract" /\ position <= Len(entries)
    /\ LET entry == entries[position] IN
       IF /\ OfAPackage(entry) /\ NewName(entry)
          /\ entry.declared <= MaxPackageBytes - total
       THEN /\ seen' = seen \cup {entry.name}
            /\ total' = total + entry.declared
            /\ IF entry.size = entry.declared
               THEN disk' = [disk EXCEPT ![entry.name] = entry.size] /\ UNCHANGED pc
               ELSE Goto("refused") /\ UNCHANGED disk
       ELSE Goto("refused") /\ UNCHANGED <<seen, total, disk>>
    /\ position' = position + 1
    /\ UNCHANGED <<digests, mode, entries, todo, current, limit, loaded>>

Extracted ==
    /\ pc = "extract" /\ position > Len(entries)
    /\ Goto("manifest")
    /\ total' = 0
    /\ UNCHANGED <<disk, digests, archive, todo, current, limit, loaded>>

-----------------------------------------------------------------------------
(* LoadDirectory.                                                            *)

IsManifest == disk[Manifest] \in ValidManifests

ReadManifest ==
    /\ pc = "manifest"
    /\ IF disk[Manifest] \in 0 .. Limit[Manifest] /\ IsManifest
       THEN total' = disk[Manifest] /\ Goto("next")
       ELSE Goto("refused") /\ UNCHANGED total
    /\ UNCHANGED <<disk, digests, archive, todo, current, limit, loaded>>

(* Mutants: what the others used up is not subtracted, or the last byte that *)
(* is left may not be used.                                                  *)
WholeLimit(file) == Limit[file]
NotTheLast(file) ==
    IF Limit[file] < MaxPackageBytes - total THEN Limit[file]
                                             ELSE MaxPackageBytes - total - 1
Remaining(file) ==
    IF Limit[file] <= MaxPackageBytes - total THEN Limit[file]
                                              ELSE MaxPackageBytes - total

(* range over a map: the files come in any order.                            *)
NextFile ==
    /\ pc = "next"
    /\ \E file \in todo :
          /\ todo' = todo \ {file}
          /\ current' = file
          /\ IF total >= MaxPackageBytes
             THEN Goto("refused") /\ UNCHANGED limit
             ELSE Goto("inspect") /\ limit' = Remaining(file)
    /\ UNCHANGED <<disk, digests, archive, total, loaded>>

Inspect ==
    /\ pc = "inspect"
    /\ IF disk[current] \in 0 .. limit THEN Goto("read") ELSE Goto("refused")
    /\ UNCHANGED <<disk, digests, archive, todo, current, limit, total, loaded>>

(* Mutant: the content is not compared with the manifest's digest.           *)
Anything(file) == TRUE
Verified(file) == disk[file] = digests[file]

(* Mutant: the content is not kept.                                          *)
Forget(file) == UNCHANGED loaded
Keep(file) == loaded' = [loaded EXCEPT ![file] = disk[file]]

(* The file may have changed since it was inspected: of one that outgrew the *)
(* limit a byte too many is read, and refused.                               *)
ReadFile ==
    /\ pc = "read"
    /\ IF disk[current] \in 0 .. limit
       THEN /\ total' = total + disk[current]
            /\ IF total' <= MaxPackageBytes /\ Verified(current)
               THEN Keep(current) /\ Goto("next")
               ELSE Goto("refused") /\ UNCHANGED loaded
       ELSE Goto("refused") /\ UNCHANGED <<total, loaded>>
    /\ UNCHANGED <<disk, digests, archive, todo, current, limit>>

(* The checks on what each file holds, and on the descriptor of the          *)
(* configuration against its schema, are made on the bytes that were read.   *)
WellFormed == \A file \in Files : loaded[file] \in OfItsKind[file]
PresentsSchema == loaded \in FitTogether

(* LoadArchive compares what it extracted with what the manifest declares.   *)
Declared == mode = "archive" => seen = Files \cup {Manifest}

Finish ==
    /\ pc = "next" /\ todo = {}
    /\ IF WellFormed /\ PresentsSchema /\ Declared
       THEN Goto("accepted") ELSE Goto("refused")
    /\ UNCHANGED <<disk, digests, archive, todo, current, limit, total, loaded>>

(* Somebody changes or removes a file of a shared directory; an archive's is *)
(* the loader's own.                                                         *)
Change ==
    /\ mode = "shared"
    /\ \E file \in Files : \E size \in Sizes[file] \cup {Missing} :
          disk' = [disk EXCEPT ![file] = size]
    /\ UNCHANGED <<digests, archive, pc, todo, current, limit, total, loaded>>

Next ==
    \/ OpenArchive \/ Extract \/ Extracted
    \/ ReadManifest \/ NextFile \/ Inspect \/ ReadFile \/ Finish
    \/ Change

Spec == Init /\ [][Next]_vars

-----------------------------------------------------------------------------
(* Properties.                                                               *)

AtHand == IF pc \in {"inspect", "read"} THEN {current} ELSE {}

(* Types; the files neither to come nor at hand are those loaded.            *)
TypeOK ==
    /\ disk \in [Names -> Nat \cup {Missing}]
    /\ digests \in [Files -> Nat]
    /\ entries \in Seq(EntryType)
    /\ position \in Nat \ {0} /\ seen \subseteq Names
    /\ mode \in {"directory", "shared", "archive"}
    /\ pc \in {"open", "extract", "manifest", "next", "inspect", "read",
               "accepted", "refused"}
    /\ todo \subseteq Files /\ current \in Files \cup {Manifest}
    /\ limit \in Nat /\ total \in Nat
    /\ loaded \in [Files -> Nat \cup {Missing}]
    /\ pc # "refused" =>
         {file \in Files : loaded[file] # Missing} = Files \ (todo \cup AtHand)

(* What is read, or extracted, never exceeds the limit of a package, however *)
(* the files grow between Lstat and ReadAll and whatever sizes an archive's  *)
(* headers declare (loader.go:82-114, archive.go:136-154).                   *)
WithinBudget == total <= MaxPackageBytes

(* A package that loads has the content the manifest gives the digests of,   *)
(* each file within its limit and of its kind, although the files may change *)
(* while they are read (loader.go:81-152).                                   *)
LoadedIsDeclared ==
    pc = "accepted" =>
        /\ \A file \in Files : loaded[file] = digests[file] /\ loaded[file] <= Limit[file]
        /\ WellFormed /\ PresentsSchema

(* An archive that loads contains each declared file and the manifest, once, *)
(* each as a regular file, and nothing else (archive.go:124-135, 167-177).   *)
ArchiveIsExact ==
    pc = "accepted" /\ mode = "archive" =>
        /\ {entries[i].name : i \in 1 .. Len(entries)} = Files \cup {Manifest}
        /\ \A i, j \in 1 .. Len(entries) : entries[i].name = entries[j].name => i = j
        /\ \A i \in 1 .. Len(entries) : entries[i].regular

(* The contents of a package with a given manifest, and the number of bytes  *)
(* some of its files hold together.                                          *)
Contents(manifest) ==
    [name \in Files \cup {Manifest} |->
       IF name = Manifest THEN manifest ELSE digests[name]]
Bytes(contents, names) ==
    Cardinality(UNION {{name} \X (1 .. contents[name]) : name \in names})

(* An archive with these contents, each once and as a regular file, under    *)
(* headers that tell their sizes.                                            *)
Holds(contents) ==
    /\ ArchiveSize <= MaxPackageBytes
    /\ Len(entries) \in MinEntries .. MaxEntries
    /\ {entries[i].name : i \in 1 .. Len(entries)} = DOMAIN contents
    /\ \A i, j \in 1 .. Len(entries) : entries[i].name = entries[j].name => i = j
    /\ \A i \in 1 .. Len(entries) :
          /\ entries[i].declared = contents[entries[i].name]
          /\ entries[i].size = contents[entries[i].name]
          /\ entries[i].regular

(* A package that is right in itself, within every limit, in a directory     *)
(* nobody touches or in an archive. One that fills the limit of a package    *)
(* has no empty file.                                                        *)
Legal(manifest) ==
    LET contents == Contents(manifest) IN
    /\ mode # "shared"
    /\ mode = "directory" => disk[Manifest] = manifest
    /\ mode = "archive" => Holds(contents)
    /\ \A name \in DOMAIN contents : contents[name] <= Limit[name]
    /\ \A file \in Files : digests[file] \in OfItsKind[file]
    /\ digests \in FitTogether
    /\ Bytes(contents, DOMAIN contents) <= MaxPackageBytes
    /\ Bytes(contents, DOMAIN contents) = MaxPackageBytes =>
         \A file \in Files : digests[file] > 0

(* The loader refuses no such package, in whatever order its map of files    *)
(* ranges: what the limits and the checks are for is all they keep out       *)
(* (loader.go:67-120, archive.go:102-177). The condition on empty files is   *)
(* the one the documents do not name.                                        *)
LegalLoads ==
    pc = "refused" => \A manifest \in ValidManifests : ~Legal(manifest)
=============================================================================
