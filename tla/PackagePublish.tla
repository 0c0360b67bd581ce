--------------------------- MODULE PackagePublish ---------------------------
(***************************************************************************)
(* Building, assembling and archiving runner packages (packagekit/         *)
(* builder.go, assemble.go, archive.go): any number of processes that run  *)
(* the three operations over one file system, while somebody edits the     *)
(* sources, a process may be killed between any two steps, and the power   *)
(* may fail.                                                               *)
(*                                                                         *)
(* A file's content is the number of its version, its digest is that       *)
(* number too; 0 stands for a file that is not there, Garbage for what is  *)
(* left of one, or of a manifest, after a power failure. All packages      *)
(* declare the same files.                                                 *)
(* A system call is one step. So is LoadDirectory: what it opens is being  *)
(* written by nobody or, for an archive, read again afterwards. The names  *)
(* of builds, assemblies and archives differ (their patterns do), so that  *)
(* a name comes again only within one kind of operation.                   *)
(***************************************************************************)
EXTENDS Naturals

CONSTANTS
    Processes,          (* processes that run one operation each             *)
    Assignments,        (* what they may be told to do together              *)
    Outputs,            (* output paths                                      *)
    Names,              (* names MkdirTemp and CreateTemp may draw           *)
    Assets,             (* declared files, the entrypoint included           *)
    MaxVersion,         (* bound on the versions of a source file            *)
    NamesRepeat,        (* a random name may be drawn again once it is free  *)
    MaxOutages,         (* bound on the power failures                       *)
    Heavy,              (* files whose archive exceeds MaxPackageBytes       *)
    EditsPublished,     (* somebody edits a published package in place       *)
    NoName              (* no temporary                                      *)

Paths == Outputs \cup Names

ASSUME PathsAssumption ==
    Outputs \cap Names = {} /\ NoName \notin Paths /\ NoName \notin Processes
(* A job is an operation, the output path it is given, and the package       *)
(* directory an archiving process reads.                                     *)
Operations == {"build", "assemble", "archive"}
Job == [operation : Operations, output : Outputs, directory : Outputs]
ASSUME AssignmentsAssumption == Assignments \subseteq [Processes -> Job]
ASSUME VersionAssumption == MaxVersion \in Nat \ {0} /\ Assets # {}
ASSUME HeavyAssumption == Heavy \subseteq [Assets -> 1 .. MaxVersion]
ASSUME SwitchesAssumption ==
    NamesRepeat \in BOOLEAN /\ MaxOutages \in Nat /\ EditsPublished \in BOOLEAN

VARIABLES
    job,        (* what each process was told to do                          *)
    disk,       (* what is at every path                                     *)
    source,     (* version of every source file                              *)
    pc,         (* where each process is                                     *)
    temporary,  (* the temporary each process is to remove, or NoName        *)
    todo,       (* files left to handle in the current loop                  *)
    memory,     (* contents or digests a process has read                    *)
    outcome,    (* what the operation returned or is about to                *)
    drawn,      (* temporary names drawn so far, and by which operation      *)
    undo,       (* what was at each output path when something was renamed   *)
                (* there: what a power failure may bring back                *)
    outages     (* how often the power failed                                *)

locals == <<temporary, todo, memory, outcome>>
vars == <<job, disk, source, pc, locals, drawn, undo, outages>>

Operation(p) == job[p].operation
Output(p) == job[p].output
Directory(p) == job[p].directory

-----------------------------------------------------------------------------
(* Entries of the file system. A zip is sealed once its central directory is *)
(* written; an entry is durable once its contents are synced, and edited once*)
(* somebody changed it, or the package it is made from, after publication.   *)

Garbage == MaxVersion + 1
Contents == [Assets -> 0 .. Garbage]
Nothing == [asset \in Assets |-> 0]

Entry(kind, process) ==
    [kind |-> kind, files |-> Nothing, manifest |-> Nothing, sealed |-> FALSE,
     durable |-> FALSE, edited |-> FALSE, by |-> process]
Absent == Entry("absent", NoName)

(* Every declared file is there and has the digest the manifest gives.       *)
Complete(entry) ==
    /\ \A asset \in Assets : entry.files[asset] \in 1 .. MaxVersion
    /\ entry.files = entry.manifest

(* LoadDirectory accepts the directory.                                      *)
Loads(entry) == entry.kind = "dir" /\ Complete(entry)

(* The headers of a ZIP make it larger than the files in it.                 *)
TooLarge(entry) == entry.files \in Heavy

(* LoadArchive accepts the archive.                                          *)
LoadsArchive(entry) ==
    entry.kind = "zip" /\ ~TooLarge(entry) /\ entry.sealed /\ Complete(entry)

IsAbsent(entry) == entry.kind = "absent"

Init ==
    /\ job \in Assignments
    /\ disk = [path \in Paths |-> Absent]
    /\ source = [asset \in Assets |-> 1]
    /\ pc = [p \in Processes |-> "check"]
    /\ temporary = [p \in Processes |-> NoName]
    /\ todo = [p \in Processes |-> {}]
    /\ memory = [p \in Processes |-> Nothing]
    /\ outcome = [p \in Processes |-> "none"]
    /\ drawn = {}
    /\ undo = [path \in Outputs |-> {}]
    /\ outages = 0

Goto(p, location) == pc' = [pc EXCEPT ![p] = location]

(* The operation returns; what it deferred runs first.                       *)
Return(p, result) ==
    /\ Goto(p, "cleanup")
    /\ outcome' = [outcome EXCEPT ![p] = result]

Start(p, loop, location) ==
    /\ todo' = [todo EXCEPT ![p] = loop]
    /\ Goto(p, location)

(* After one more file: the loop goes on, or the next one starts.            *)
Handled(p, asset, loop, location) ==
    LET left == todo[p] \ {asset} IN
    IF left = {} THEN Start(p, loop, location) ELSE Start(p, left, pc[p])

At(p) == disk[temporary[p]]

-----------------------------------------------------------------------------
(* All three: the output must not exist, and a temporary is made beside it.  *)

Working == {"make", "read", "write", "copy", "hash", "manifest", "verify",
            "zip_manifest", "zip_copy", "zip_close", "zip_sync", "publish",
            "confirm"}

Check(p) ==
    /\ pc[p] = "check"
    /\ IF /\ IsAbsent(disk[Output(p)])
          /\ Operation(p) = "archive" => Loads(disk[Directory(p)])
       THEN Goto(p, "make") /\ UNCHANGED outcome
       ELSE Return(p, "error")
    /\ UNCHANGED <<disk, source, temporary, todo, memory, drawn, undo, outages>>

FirstLoop == [build |-> "copy", assemble |-> "read", archive |-> "zip_manifest"]
Kind(p) == IF Operation(p) = "archive" THEN "zip" ELSE "dir"

(* Mutant: the package is put together at its output path.                   *)
InPlace(p, name) == Output(p)
Beside(p, name) == name

MakeTemporary(p) ==
    /\ pc[p] = "make"
    /\ \E name \in Names :
          /\ IsAbsent(disk[name])
          /\ \A operation \in Operations : <<name, operation>> \in drawn =>
                NamesRepeat /\ operation = Operation(p)
          /\ drawn' = drawn \cup {<<name, Operation(p)>>}
          /\ temporary' = [temporary EXCEPT ![p] = Beside(p, name)]
          /\ disk' = [disk EXCEPT ![Beside(p, name)] = Entry(Kind(p), p)]
    /\ Start(p, Assets, FirstLoop[Operation(p)])
    /\ UNCHANGED <<source, memory, outcome, undo, outages>>

-----------------------------------------------------------------------------
(* Assemble reads every file, then writes what it read, then the digests of  *)
(* what it read.                                                             *)

ReadAsset(p) ==
    /\ pc[p] = "read"
    /\ \E asset \in todo[p] :
          /\ memory' = [memory EXCEPT ![p][asset] = source[asset]]
          /\ Handled(p, asset, Assets, "write")
    /\ UNCHANGED <<disk, source, temporary, outcome, drawn, undo, outages>>

(* prepareOutputPath makes the parent directories again when they are gone.  *)
Holding(p, asset, version) ==
    LET found == IF IsAbsent(At(p)) THEN Entry("dir", p) ELSE At(p) IN
    disk' = [disk EXCEPT ![temporary[p]] = [found EXCEPT !.files[asset] = version]]

WriteAsset(p) ==
    /\ pc[p] = "write"
    /\ \E asset \in todo[p] :
          /\ Holding(p, asset, memory[p][asset])
          /\ Handled(p, asset, {}, "manifest")
    /\ UNCHANGED <<source, temporary, memory, outcome, drawn, undo, outages>>

(* BuildGo compiles or copies each file, then reads them back for the digests*)
CopyAsset(p) ==
    /\ pc[p] = "copy"
    /\ \E asset \in todo[p] :
          /\ Holding(p, asset, source[asset])
          /\ Handled(p, asset, Assets, "hash")
    /\ UNCHANGED <<source, temporary, memory, outcome, drawn, undo, outages>>

HashAsset(p) ==
    /\ pc[p] = "hash"
    /\ \E asset \in todo[p] :
          IF At(p).files[asset] # 0
          THEN /\ memory' = [memory EXCEPT ![p][asset] = At(p).files[asset]]
               /\ Handled(p, asset, {}, "manifest")
               /\ UNCHANGED outcome
          ELSE Return(p, "error") /\ UNCHANGED <<memory, todo>>
    /\ UNCHANGED <<disk, source, temporary, drawn, undo, outages>>

WriteManifest(p) ==
    /\ pc[p] = "manifest"
    /\ IF At(p).kind = "dir"
       THEN /\ disk' = [disk EXCEPT ![temporary[p]].manifest = memory[p]]
            /\ Goto(p, "verify")
            /\ UNCHANGED outcome
       ELSE Return(p, "error") /\ UNCHANGED disk
    /\ UNCHANGED <<source, temporary, todo, memory, drawn, undo, outages>>

Verify(p) ==
    /\ pc[p] = "verify"
    /\ IF Loads(At(p)) THEN Goto(p, "publish") /\ UNCHANGED outcome
                       ELSE Return(p, "error")
    /\ UNCHANGED <<disk, source, temporary, todo, memory, drawn, undo, outages>>

-----------------------------------------------------------------------------
(* ArchiveDirectory reads the verified directory again, one file at a time.  *)
(* Its writes go to the open file: to the entry it made, if that is there.   *)

Archived(p, entry) ==
    disk' = IF At(p).by = p THEN [disk EXCEPT ![temporary[p]] = entry] ELSE disk

ZipManifest(p) ==
    /\ pc[p] = "zip_manifest"
    /\ Archived(p, [At(p) EXCEPT !.manifest = disk[Directory(p)].manifest])
    /\ Start(p, Assets, "zip_copy")
    /\ UNCHANGED <<source, temporary, memory, outcome, drawn, undo, outages>>

ZipAsset(p) ==
    /\ pc[p] = "zip_copy"
    /\ \E asset \in todo[p] :
          LET package == disk[Directory(p)] IN
          /\ package.files[asset] # 0
          /\ Archived(p, [At(p) EXCEPT !.files[asset] = package.files[asset],
                                       !.edited = @ \/ package.edited])
          /\ Handled(p, asset, {}, "zip_close")
    /\ UNCHANGED <<source, temporary, memory, outcome, drawn, undo, outages>>

ZipClose(p) ==
    /\ pc[p] = "zip_close"
    /\ Archived(p, [At(p) EXCEPT !.sealed = TRUE])
    /\ Goto(p, "zip_sync")
    /\ UNCHANGED <<source, locals, drawn, undo, outages>>

(* Mutant: the archive is closed without a sync.                             *)
Unsynced(entry) == entry
Synced(entry) == [entry EXCEPT !.durable = TRUE]

ZipSync(p) ==
    /\ pc[p] = "zip_sync"
    /\ Archived(p, Synced(At(p)))
    /\ Goto(p, "publish")
    /\ UNCHANGED <<source, locals, drawn, undo, outages>>

-----------------------------------------------------------------------------
(* os.Rename: a file replaces a file; a directory replaces nothing, and      *)
(* nothing replaces a directory.                                             *)

MayReplace(new, old) == IsAbsent(old) \/ (new.kind = "zip" /\ old.kind = "zip")

(* Mutant: the output is removed before the rename.                          *)
Cleared(p) == Absent
(* What the rename meets.                                                    *)
Target(p) == disk[Output(p)]

(* Mutant: the temporary's name is kept, as Assemble does.                   *)
KeepTemporary(p) == UNCHANGED temporary

(* BuildGo forgets its temporary once it is published; the others remove     *)
(* whatever then has that name.                                              *)
ForgetTemporary(p) ==
    temporary' = IF Operation(p) = "build" THEN [temporary EXCEPT ![p] = NoName]
                                           ELSE temporary

Publish(p) ==
    /\ pc[p] = "publish"
    /\ ~IsAbsent(At(p)) /\ MayReplace(At(p), Target(p))
    /\ disk' = [disk EXCEPT ![Output(p)] = At(p), ![temporary[p]] = Absent]
    /\ undo' = [undo EXCEPT ![Output(p)] = @ \cup {Target(p)}]
    /\ ForgetTemporary(p)
    /\ IF Operation(p) = "archive" THEN Return(p, "ok")
                                   ELSE Goto(p, "confirm") /\ UNCHANGED outcome
    /\ UNCHANGED <<source, todo, memory, drawn, outages>>

PublishFails(p) ==
    /\ pc[p] = "publish"
    /\ IsAbsent(At(p)) \/ ~MayReplace(At(p), Target(p))
    /\ Return(p, "error")
    /\ UNCHANGED <<disk, source, temporary, todo, memory, drawn, undo, outages>>

(* The result is what loading the published directory returns.               *)
Confirm(p) ==
    /\ pc[p] = "confirm"
    /\ Return(p, IF Loads(disk[Output(p)]) THEN "ok" ELSE "error")
    /\ UNCHANGED <<disk, source, temporary, todo, memory, drawn, undo, outages>>

(* Mutant: the temporary is left behind.                                     *)
Leave(name) == UNCHANGED disk
Remove(name) ==
    disk' = IF name = NoName THEN disk ELSE [disk EXCEPT ![name] = Absent]

Cleanup(p) ==
    /\ pc[p] = "cleanup"
    /\ Remove(temporary[p])
    /\ temporary' = [temporary EXCEPT ![p] = NoName]
    /\ Goto(p, "done")
    /\ UNCHANGED <<source, todo, memory, outcome, drawn, undo, outages>>

(* The error of the removal is ignored: the operation returns all the same.  *)
CleanupFails(p) ==
    /\ pc[p] = "cleanup"
    /\ temporary[p] # NoName /\ ~IsAbsent(At(p))
    /\ Goto(p, "littered")
    /\ UNCHANGED <<disk, source, locals, drawn, undo, outages>>

(* A system call, the compiler or a validation fails, or the context is done *)
Fail(p) ==
    /\ pc[p] \in Working \cup {"check"}
    /\ Return(p, "error")
    /\ UNCHANGED <<disk, source, temporary, todo, memory, drawn, undo, outages>>

-----------------------------------------------------------------------------
(* The surroundings, external.                                               *)

Kill(p) ==
    /\ pc[p] \in Working \cup {"cleanup"}
    /\ Goto(p, "killed")
    /\ UNCHANGED <<disk, source, locals, drawn, undo, outages>>

EditSource(asset) ==
    /\ source[asset] < MaxVersion
    /\ source' = [source EXCEPT ![asset] = @ + 1]
    /\ UNCHANGED <<disk, pc, locals, drawn, undo, outages>>

EditPublished(path, asset) ==
    /\ EditsPublished
    /\ disk[path].kind = "dir" /\ disk[path].files[asset] \in 1 .. MaxVersion - 1
    /\ disk' = [disk EXCEPT ![path].files[asset] = @ + 1, ![path].edited = TRUE]
    /\ UNCHANGED <<source, pc, locals, drawn, undo, outages>>

(* Every process that had started is gone; an entry that is not durable may  *)
(* lose what its files contained, all of them here; and since nobody syncs   *)
(* the parent directory after a rename, what was at the output before it may *)
(* be there again. That the temporary name then comes back too is left out:  *)
(* nobody looks at it.                                                       *)
Garbled(files) == [asset \in Assets |-> IF files[asset] = 0 THEN 0 ELSE Garbage]
Torn(entry) ==
    [entry EXCEPT !.files = Garbled(@), !.manifest = Garbled(@), !.sealed = FALSE]

(* What may be at an output path.                                            *)
Restored(path) == undo[path] \cup {disk[path]}

PowerFailure ==
    /\ outages < MaxOutages /\ outages' = outages + 1
    /\ \E shown \in [Outputs -> UNION {Restored(path) : path \in Outputs}],
          lost \in SUBSET {path \in Paths : ~IsAbsent(disk[path]) /\ ~disk[path].durable} :
          /\ \A path \in Outputs : shown[path] \in Restored(path)
          /\ disk' = [path \in Paths |-> IF path \in lost THEN Torn(disk[path])
                                         ELSE IF path \in Outputs THEN shown[path]
                                         ELSE disk[path]]
    /\ undo' = [path \in Outputs |-> {}]
    /\ pc' = [p \in Processes |-> IF pc[p] = "check" THEN "check" ELSE "off"]
    /\ UNCHANGED <<source, locals, drawn>>

Run(p) ==
    \/ Check(p) \/ MakeTemporary(p) \/ ReadAsset(p) \/ WriteAsset(p)
    \/ CopyAsset(p) \/ HashAsset(p) \/ WriteManifest(p) \/ Verify(p)
    \/ ZipManifest(p) \/ ZipAsset(p) \/ ZipClose(p) \/ ZipSync(p)
    \/ Publish(p) \/ PublishFails(p) \/ Confirm(p) \/ Cleanup(p) \/ CleanupFails(p)

Next ==
    /\ \/ \E p \in Processes : Run(p) \/ Fail(p) \/ Kill(p)
       \/ \E asset \in Assets : EditSource(asset)
       \/ \E path \in Outputs, asset \in Assets : EditPublished(path, asset)
       \/ PowerFailure
    /\ UNCHANGED job

Spec == Init /\ [][Next]_vars

-----------------------------------------------------------------------------
(* Properties.                                                               *)

Entries == [kind : {"absent", "dir", "zip"}, files : Contents,
            manifest : Contents, sealed : BOOLEAN, durable : BOOLEAN,
            edited : BOOLEAN, by : Processes \cup {NoName}]

(* Types; a process owns a temporary name and never an output path.          *)
TypeOK ==
    /\ job \in Assignments
    /\ disk \in [Paths -> Entries]
    /\ source \in [Assets -> 1 .. MaxVersion]
    /\ pc \in [Processes -> Working \cup {"check", "cleanup", "done", "littered",
                                        "killed", "off"}]
    /\ temporary \in [Processes -> Names \cup {NoName}]
    /\ todo \in [Processes -> SUBSET Assets]
    /\ memory \in [Processes -> Contents]
    /\ outcome \in [Processes -> {"none", "ok", "error"}]
    /\ drawn \subseteq Names \X Operations
    /\ undo \in [Outputs -> SUBSET Entries]
    /\ outages \in 0 .. MaxOutages

Spoiled(entry) == \E asset \in Assets : entry.files[asset] = Garbage

(* An archive somebody may trust: of one verified package, and sealed.       *)
OfOnePackage(entry) == entry.kind = "zip" /\ entry.sealed /\ Complete(entry)

(* What an output path shows to whoever loads it. Edits by somebody else are *)
(* left aside: the manifest still tells the package that was published.      *)
Ruined == [asset \in Assets |-> Garbage]
Shown(entry) ==
    IF IsAbsent(entry) THEN Nothing
    ELSE IF Spoiled(entry) THEN Ruined
    ELSE IF Loads(entry) \/ OfOnePackage(entry) \/ entry.edited THEN entry.manifest
    ELSE entry

Shelf == INSTANCE PackageShelf WITH
    Places <- Outputs,
    Packages <- [Assets -> 1 .. MaxVersion],
    Empty <- Nothing,
    shelf <- [path \in Outputs |-> Shown(disk[path])]

(* A package appears at its output complete and verified, all at once, and is*)
(* not replaced, although two processes test for the path before either      *)
(* renames, the sources change meanwhile and any of them may be killed       *)
(* (docs/package-format.md:117-120). Only when the power fails may it be gone*)
(* again, or ruined: neither is ever synced.                                 *)
PublishedOnce == Shelf!Spec

(* Existing output is never overwritten (archive.go:25), a power failure     *)
(* aside. The rename of an archive does not keep this.                       *)
NeverOverwritten ==
    [][\A path \in Outputs :
         disk[path].kind = "zip" /\ outages' = outages
         => disk'[path].by = disk[path].by]_vars

(* A published package keeps its kind, its maker and its manifest, and its   *)
(* files unless somebody edits them; an archive may give way to another, but *)
(* that is whole too, and edited or of one package; and only when the power  *)
(* fails may a path show nothing again, or may what a directory contained be *)
(* lost (archive.go:34-96, builder.go:183).                                  *)
Keeps(old, new) ==
    /\ new.kind = old.kind /\ new.by = old.by /\ new.manifest = old.manifest
    /\ new.files = old.files \/ new.edited
GivesWay(old, new) ==
    /\ old.kind = "zip" /\ new.kind = "zip" /\ new.sealed /\ new.durable
    /\ OfOnePackage(new) \/ new.edited
Lost(old, new) ==
    IsAbsent(new) \/ (old.kind = "dir" /\ new.by = old.by /\ Spoiled(new))
PublishedStays ==
    [][\A path \in Outputs :
         ~IsAbsent(disk[path]) =>
            \/ Keeps(disk[path], disk'[path]) \/ GivesWay(disk[path], disk'[path])
            \/ outages' # outages /\ Lost(disk[path], disk'[path])]_vars

(* An operation that reported success has its package at the output path, as *)
(* long as the power does not fail: a rename is not synced.                  *)
SuccessStands ==
    \A p \in Processes : outcome[p] = "ok" /\ pc[p] # "off" => disk[Output(p)].by = p

(* An operation that returned, for whatever reason, left no temporary, unless*)
(* removing it failed.                                                       *)
NothingLeftBehind ==
    \A p \in Processes :
        pc[p] = "done" => \A name \in Names : disk[name].by # p

(* While a process works on its temporary nobody else removes it, even if the*)
(* name was another process's before.                                        *)
TemporaryIntact ==
    \A p \in Processes :
        pc[p] \in Working \ {"make", "confirm"} => At(p).by = p

(* An archive at an output path is whole, whenever the power failed, since it*)
(* was synced before it was renamed. It is one LoadArchive accepts, unless   *)
(* somebody edited the package it was made from, although its files are read *)
(* again, one by one, after they were verified (archive.go:30-92), or unless *)
(* it became too large for LoadArchive, which nobody tests (archive.go:105). *)
ArchiveWhole ==
    \A path \in Outputs :
        LET entry == disk[path] IN
        entry.kind = "zip" =>
            /\ entry.sealed /\ entry.durable
            /\ entry.edited \/ LoadsArchive(entry) \/ (TooLarge(entry) /\ Complete(entry))

(* An archive comes from a verified directory (archive.go:24-25). The code   *)
(* does not keep this for a package that is edited meanwhile.                *)
ArchiveVerified ==
    \A path \in Outputs : disk[path].kind = "zip" => OfOnePackage(disk[path])
=============================================================================
