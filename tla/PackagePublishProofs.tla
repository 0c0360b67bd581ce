------------------------ MODULE PackagePublishProofs ------------------------
(***************************************************************************)
(* Proofs about PackagePublish, for every number of processes, outputs,    *)
(* names and files, with kills, edits and power failures.                  *)
(***************************************************************************)
EXTENDS PackagePublish, TLAPS

(* Where a process has a temporary of its own.                               *)
Owning == Working \ {"make", "confirm"}
ZipSteps == {"zip_manifest", "zip_copy", "zip_close", "zip_sync"}
DirSteps == {"read", "write", "copy", "hash", "manifest", "verify", "confirm"}

LEMMA EntryTyped ==
    ASSUME NEW kind \in {"absent", "dir", "zip"}, NEW process \in Processes \cup {NoName}
    PROVE  /\ Entry(kind, process) \in Entries
           /\ Entry(kind, process).kind = kind /\ Entry(kind, process).by = process
           /\ Entry(kind, process).files = Nothing
  BY VersionAssumption DEF Entry, Entries, Nothing, Contents, Garbage

LEMMA EntryKept ==
    ASSUME NEW entry \in Entries
    PROVE  /\ entry.files \in Contents /\ entry.manifest \in Contents /\ entry.edited \in BOOLEAN
           /\ \A asset \in Assets, version \in 0 .. Garbage :
                 [entry EXCEPT !.files[asset] = version] \in Entries
           /\ \A manifest \in Contents : [entry EXCEPT !.manifest = manifest] \in Entries
           /\ [entry EXCEPT !.sealed = TRUE] \in Entries
           /\ [entry EXCEPT !.durable = TRUE] \in Entries
           /\ Torn(entry) \in Entries
  <1>1. entry.files \in Contents /\ entry.manifest \in Contents /\ entry.edited \in BOOLEAN
    BY DEF Entries
  <1>2. ASSUME NEW asset \in Assets, NEW version \in 0 .. Garbage
        PROVE  [entry EXCEPT !.files[asset] = version] \in Entries
    <2>1. [entry.files EXCEPT ![asset] = version] \in Contents
      BY <1>1 DEF Contents
    <2> QED
      BY <2>1 DEF Entries
  <1>3. Torn(entry) \in Entries
    <2>1. Garbled(entry.files) \in Contents /\ Garbled(entry.manifest) \in Contents
      BY VersionAssumption DEF Garbled, Contents, Garbage
    <2> QED
      BY <2>1 DEF Torn, Entries
  <1>4. ASSUME NEW manifest \in Contents PROVE [entry EXCEPT !.manifest = manifest] \in Entries
    BY <1>4 DEF Entries
  <1>5. [entry EXCEPT !.sealed = TRUE] \in Entries
    BY DEF Entries
  <1>6. [entry EXCEPT !.durable = TRUE] \in Entries
    BY DEF Entries
  <1> QED
    BY <1>1, <1>2, <1>3, <1>4, <1>5, <1>6

LEMMA EntryCopied ==
    ASSUME NEW entry \in Entries, NEW asset \in Assets, NEW version \in 0 .. Garbage,
           NEW edited \in BOOLEAN
    PROVE  [entry EXCEPT !.files[asset] = version, !.edited = @ \/ edited] \in Entries
  <1>1. [entry.files EXCEPT ![asset] = version] \in Contents
    BY DEF Contents, Entries
  <1> QED
    BY <1>1 DEF Entries

-----------------------------------------------------------------------------
(* Types, and who has a temporary where.                                     *)

PlaceInv ==
    \A p \in Processes :
        /\ pc[p] \in {"check", "make", "done"} => temporary[p] = NoName
        /\ pc[p] \in Owning => temporary[p] \in Names
        /\ pc[p] \in ZipSteps => Operation(p) = "archive"
        /\ pc[p] \in DirSteps => Operation(p) # "archive"

Typed == TypeOK /\ PlaceInv

LEMMA InitTyped == Init => Typed
  <1> SUFFICES ASSUME Init PROVE Typed
    OBVIOUS
  <1>1. Absent \in Entries
    BY EntryTyped DEF Absent
  <1>2. TypeOK
    BY <1>1, VersionAssumption, SwitchesAssumption DEF Init, TypeOK, Nothing, Contents, Garbage
  <1>3. PlaceInv
    BY DEF Init, PlaceInv, Owning, Working, ZipSteps, DirSteps
  <1> QED
    BY <1>2, <1>3 DEF Typed

LEMMA JobTyped ==
    ASSUME Typed, NEW p \in Processes
    PROVE  /\ Operation(p) \in Operations
           /\ Output(p) \in Outputs /\ Directory(p) \in Outputs
  BY AssignmentsAssumption DEF Typed, TypeOK, Operation, Output, Directory, Job

(* What a power failure leaves.                                              *)
LEMMA PowerLeaves ==
    ASSUME Typed, PowerFailure
    PROVE  /\ \A path \in Paths :
                 \/ disk'[path] = disk[path]
                 \/ path \in Outputs /\ disk'[path] \in undo[path]
                 \/ /\ ~IsAbsent(disk[path]) /\ ~disk[path].durable
                    /\ disk'[path] = Torn(disk[path])
           /\ disk' \in [Paths -> Entries]
           /\ \A p \in Processes : pc'[p] = IF pc[p] = "check" THEN "check" ELSE "off"
           /\ undo' = [path \in Outputs |-> {}] /\ outages' = outages + 1
           /\ UNCHANGED <<source, temporary, todo, memory, outcome, drawn>>
  <1>1. PICK shown \in [Outputs -> UNION {Restored(path) : path \in Outputs}],
             lost \in SUBSET {path \in Paths : ~IsAbsent(disk[path]) /\ ~disk[path].durable} :
          /\ \A path \in Outputs : shown[path] \in Restored(path)
          /\ disk' = [path \in Paths |-> IF path \in lost THEN Torn(disk[path])
                                         ELSE IF path \in Outputs THEN shown[path]
                                         ELSE disk[path]]
    BY DEF PowerFailure
  <1>2. \A path \in Paths :
           \/ disk'[path] = disk[path]
           \/ path \in Outputs /\ disk'[path] \in undo[path]
           \/ ~IsAbsent(disk[path]) /\ ~disk[path].durable /\ disk'[path] = Torn(disk[path])
    BY <1>1 DEF Restored
  <1>3. \A path \in Paths : disk[path] \in Entries /\ Torn(disk[path]) \in Entries
    BY EntryKept DEF Typed, TypeOK
  <1>4. \A path \in Outputs : undo[path] \subseteq Entries
    BY DEF Typed, TypeOK
  <1>5. \A path \in Paths : disk'[path] \in Entries
    BY <1>2, <1>3, <1>4
  <1>6. disk' \in [Paths -> Entries]
    BY <1>1, <1>5
  <1> QED
    BY <1>2, <1>6 DEF PowerFailure, locals

LEMMA NextTyped == Typed /\ [Next]_vars => Typed'
  <1> SUFFICES ASSUME Typed, [Next]_vars PROVE Typed'
    OBVIOUS
  <1> USE PathsAssumption, VersionAssumption, AssignmentsAssumption DEF Typed
  <1>1. ASSUME NEW p \in Processes, Check(p), UNCHANGED job PROVE Typed'
    <2>1. TypeOK'
      BY <1>1 DEF Check, Goto, Return, TypeOK, Working
    <2>2. PlaceInv'
      BY <1>1 DEF Check, Goto, Return, TypeOK, PlaceInv, Owning, Working, ZipSteps, DirSteps, Operation
    <2> QED
      BY <2>1, <2>2
  <1>2. ASSUME NEW p \in Processes, MakeTemporary(p), UNCHANGED job PROVE Typed'
    <2>1. PICK name \in Names :
            /\ drawn' = drawn \cup {<<name, Operation(p)>>}
            /\ temporary' = [temporary EXCEPT ![p] = name]
            /\ disk' = [disk EXCEPT ![name] = Entry(Kind(p), p)]
      BY <1>2 DEF MakeTemporary, Beside
    <2>2. Entry(Kind(p), p) \in Entries
      BY EntryTyped DEF Kind
    <2>3. pc' = [pc EXCEPT ![p] = FirstLoop[Operation(p)]]
          /\ todo' = [todo EXCEPT ![p] = Assets]
          /\ UNCHANGED <<source, memory, outcome, undo, outages>>
      BY <1>2 DEF MakeTemporary, Start, Goto
    <2>4. Operation(p) \in Operations
      BY JobTyped
    <2>5. /\ FirstLoop[Operation(p)] \in {"copy", "read", "zip_manifest"}
          /\ FirstLoop[Operation(p)] = "zip_manifest" <=> Operation(p) = "archive"
      BY <2>4 DEF FirstLoop, Operations
    <2> HIDE DEF Typed
    <2>6. TypeOK'
      BY <1>2, <2>1, <2>2, <2>3, <2>4, <2>5 DEF Typed, TypeOK, Paths, Working
    <2>7. PlaceInv'
      BY <1>2, <2>1, <2>3, <2>5 DEF Typed, TypeOK, PlaceInv, Owning, Working, ZipSteps, DirSteps, Operation
    <2> QED
      BY <2>6, <2>7 DEF Typed
  <1>3. ASSUME NEW p \in Processes, ReadAsset(p), UNCHANGED job PROVE Typed'
    <2>1. TypeOK'
      <3>1. PICK asset \in todo[p] : memory' = [memory EXCEPT ![p][asset] = source[asset]]
        BY <1>3 DEF ReadAsset
      <3>2. [memory[p] EXCEPT ![asset] = source[asset]] \in Contents
        BY <3>1 DEF TypeOK, Contents, Garbage
      <3>3. memory' \in [Processes -> Contents]
        BY <3>1, <3>2 DEF TypeOK
      <3> QED
        BY <1>3, <3>3 DEF ReadAsset, Handled, Start, Goto, TypeOK, Working
    <2>2. PlaceInv'
      BY <1>3 DEF ReadAsset, Handled, Start, Goto, TypeOK, PlaceInv, Owning, Working, ZipSteps, DirSteps, Operation
    <2> QED
      BY <2>1, <2>2
  <1>4. ASSUME NEW p \in Processes, WriteAsset(p), UNCHANGED job PROVE Typed'
    <2>1. At(p) \in Entries /\ temporary[p] \in Paths /\ temporary[p] \in Names
      BY <1>4 DEF WriteAsset, At, TypeOK, PlaceInv, Owning, Working, Paths
    <2>2. TypeOK'
      <3>1. PICK asset \in todo[p] : Holding(p, asset, memory[p][asset])
        BY <1>4 DEF WriteAsset
      <3>2. asset \in Assets /\ memory[p][asset] \in 0 .. Garbage
        BY <3>1 DEF TypeOK, Contents, Garbage
      <3>3. \E entry \in Entries : disk' = [disk EXCEPT ![temporary[p]] = entry]
        BY <2>1, <3>1, <3>2, EntryTyped, EntryKept DEF Holding
      <3> QED
        BY <1>4, <2>1, <3>3 DEF WriteAsset, Handled, Start, Goto, TypeOK, Working
    <2>3. PlaceInv'
      BY <1>4 DEF WriteAsset, Handled, Start, Goto, TypeOK, PlaceInv, Owning, Working, ZipSteps, DirSteps, Operation
    <2> QED
      BY <2>2, <2>3
  <1>5. ASSUME NEW p \in Processes, CopyAsset(p), UNCHANGED job PROVE Typed'
    <2>1. At(p) \in Entries /\ temporary[p] \in Paths /\ temporary[p] \in Names
      BY <1>5 DEF CopyAsset, At, TypeOK, PlaceInv, Owning, Working, Paths
    <2>2. TypeOK'
      <3>1. PICK asset \in todo[p] : Holding(p, asset, source[asset])
        BY <1>5 DEF CopyAsset
      <3>2. asset \in Assets /\ source[asset] \in 0 .. Garbage
        BY <3>1 DEF TypeOK, Contents, Garbage
      <3>3. \E entry \in Entries : disk' = [disk EXCEPT ![temporary[p]] = entry]
        BY <2>1, <3>1, <3>2, EntryTyped, EntryKept DEF Holding
      <3> QED
        BY <1>5, <2>1, <3>3 DEF CopyAsset, Handled, Start, Goto, TypeOK, Working
    <2>3. PlaceInv'
      BY <1>5 DEF CopyAsset, Handled, Start, Goto, TypeOK, PlaceInv, Owning, Working, ZipSteps, DirSteps, Operation
    <2> QED
      BY <2>2, <2>3
  <1>6. ASSUME NEW p \in Processes, HashAsset(p), UNCHANGED job PROVE Typed'
    <2>1. At(p) \in Entries /\ temporary[p] \in Paths /\ temporary[p] \in Names
      BY <1>6 DEF HashAsset, At, TypeOK, PlaceInv, Owning, Working, Paths
    <2>2. TypeOK'
      <3>1. \A asset \in Assets : At(p).files[asset] \in 0 .. Garbage
        BY <2>1, EntryKept DEF Contents
      <3>2. \A asset \in Assets : [memory[p] EXCEPT ![asset] = At(p).files[asset]] \in Contents
        BY <3>1 DEF TypeOK, Contents
      <3>3. \/ UNCHANGED memory
            \/ \E asset \in Assets : memory' = [memory EXCEPT ![p][asset] = At(p).files[asset]]
        BY <1>6 DEF HashAsset, TypeOK
      <3>4. memory' \in [Processes -> Contents]
        <4>1. memory \in [Processes -> Contents]
          BY DEF TypeOK
        <4>2. ASSUME NEW asset \in Assets,
                     memory' = [memory EXCEPT ![p][asset] = At(p).files[asset]]
              PROVE  memory' \in [Processes -> Contents]
          <5>1. [memory[p] EXCEPT ![asset] = At(p).files[asset]] \in Contents
            BY <3>2
          <5> QED
            BY <4>1, <4>2, <5>1
        <4> QED
          BY <3>3, <4>1, <4>2
      <3> QED
        BY <1>6, <3>4 DEF HashAsset, Handled, Return, Start, Goto, TypeOK, Working
    <2>3. PlaceInv'
      BY <1>6 DEF HashAsset, Handled, Return, Start, Goto, TypeOK, PlaceInv, Owning, Working, ZipSteps, DirSteps, Operation
    <2> QED
      BY <2>2, <2>3
  <1>7. ASSUME NEW p \in Processes, WriteManifest(p), UNCHANGED job PROVE Typed'
    <2>1. At(p) \in Entries /\ temporary[p] \in Paths /\ temporary[p] \in Names
      BY <1>7 DEF WriteManifest, At, TypeOK, PlaceInv, Owning, Working, Paths
    <2>2. TypeOK'
      <3>1. \A manifest \in Contents : [At(p) EXCEPT !.manifest = manifest] \in Entries
        BY <2>1, EntryKept
      <3>2. disk' = disk \/ disk' = [disk EXCEPT ![temporary[p]] = [At(p) EXCEPT !.manifest = memory[p]]]
        BY <1>7 DEF WriteManifest, At
      <3>3. memory[p] \in Contents
        BY DEF TypeOK
      <3>4. disk' \in [Paths -> Entries]
        BY <2>1, <3>1, <3>2, <3>3 DEF TypeOK
      <3> QED
        BY <1>7, <3>4 DEF WriteManifest, Return, Goto, TypeOK, Working
    <2>3. PlaceInv'
      BY <1>7 DEF WriteManifest, Return, Goto, TypeOK, PlaceInv, Owning, Working, ZipSteps, DirSteps, Operation
    <2> QED
      BY <2>2, <2>3
  <1>8. ASSUME NEW p \in Processes, Verify(p), UNCHANGED job PROVE Typed'
    <2>1. TypeOK'
      BY <1>8 DEF Verify, Return, Goto, TypeOK, Working
    <2>2. PlaceInv'
      BY <1>8 DEF Verify, Return, Goto, TypeOK, PlaceInv, Owning, Working, ZipSteps, DirSteps, Operation
    <2> QED
      BY <2>1, <2>2
  <1>9. ASSUME NEW p \in Processes, ZipManifest(p), UNCHANGED job PROVE Typed'
    <2>1. At(p) \in Entries /\ temporary[p] \in Paths /\ temporary[p] \in Names
      BY <1>9 DEF ZipManifest, At, TypeOK, PlaceInv, Owning, Working, Paths
    <2>2. TypeOK'
      <3>1. [At(p) EXCEPT !.manifest = disk[Directory(p)].manifest] \in Entries
        BY <2>1, JobTyped, EntryKept DEF TypeOK, Paths, Synced
      <3>2. disk' \in [Paths -> Entries]
        BY <1>9, <2>1, <3>1 DEF ZipManifest, Archived, TypeOK
      <3> QED
        BY <1>9, <3>2 DEF ZipManifest, Start, locals, Goto, TypeOK, Working
    <2>3. PlaceInv'
      BY <1>9 DEF ZipManifest, Start, Goto, TypeOK, PlaceInv, Owning, Working, ZipSteps, DirSteps, Operation
    <2> QED
      BY <2>2, <2>3
  <1>10. ASSUME NEW p \in Processes, ZipAsset(p), UNCHANGED job PROVE Typed'
    <2>1. At(p) \in Entries /\ temporary[p] \in Paths /\ temporary[p] \in Names
      BY <1>10 DEF ZipAsset, At, TypeOK, PlaceInv, Owning, Working, Paths
    <2>2. TypeOK'
      <3>1. PICK asset \in todo[p] :
              Archived(p, [At(p) EXCEPT !.files[asset] = disk[Directory(p)].files[asset],
                                        !.edited = @ \/ disk[Directory(p)].edited])
        BY <1>10 DEF ZipAsset
      <3>2. disk[Directory(p)] \in Entries /\ asset \in Assets
        BY <3>1, JobTyped DEF TypeOK, Paths
      <3>3. disk[Directory(p)].files[asset] \in 0 .. Garbage /\ disk[Directory(p)].edited \in BOOLEAN
        BY <3>2, EntryKept DEF Contents
      <3>4. [At(p) EXCEPT !.files[asset] = disk[Directory(p)].files[asset],
                          !.edited = @ \/ disk[Directory(p)].edited] \in Entries
        BY <2>1, <3>2, <3>3, EntryCopied
      <3>5. disk' \in [Paths -> Entries]
        BY <2>1, <3>1, <3>4 DEF Archived, TypeOK
      <3> QED
        BY <1>10, <3>5 DEF ZipAsset, Handled, Start, Goto, TypeOK, Working
    <2>3. PlaceInv'
      BY <1>10 DEF ZipAsset, Handled, Start, Goto, TypeOK, PlaceInv, Owning, Working, ZipSteps, DirSteps, Operation
    <2> QED
      BY <2>2, <2>3
  <1>11. ASSUME NEW p \in Processes, ZipClose(p), UNCHANGED job PROVE Typed'
    <2>1. At(p) \in Entries /\ temporary[p] \in Paths /\ temporary[p] \in Names
      BY <1>11 DEF ZipClose, At, TypeOK, PlaceInv, Owning, Working, Paths
    <2>2. TypeOK'
      <3>1. [At(p) EXCEPT !.sealed = TRUE] \in Entries
        BY <2>1, JobTyped, EntryKept DEF TypeOK, Paths, Synced
      <3>2. disk' \in [Paths -> Entries]
        BY <1>11, <2>1, <3>1 DEF ZipClose, Archived, TypeOK
      <3> QED
        BY <1>11, <3>2 DEF ZipClose, Start, locals, Goto, TypeOK, Working
    <2>3. PlaceInv'
      BY <1>11 DEF ZipClose, Goto, locals, TypeOK, PlaceInv, Owning, Working, ZipSteps, DirSteps, Operation
    <2> QED
      BY <2>2, <2>3
  <1>12. ASSUME NEW p \in Processes, ZipSync(p), UNCHANGED job PROVE Typed'
    <2>1. At(p) \in Entries /\ temporary[p] \in Paths /\ temporary[p] \in Names
      BY <1>12 DEF ZipSync, At, TypeOK, PlaceInv, Owning, Working, Paths
    <2>2. TypeOK'
      <3>1. Synced(At(p)) \in Entries
        BY <2>1, JobTyped, EntryKept DEF TypeOK, Paths, Synced
      <3>2. disk' \in [Paths -> Entries]
        BY <1>12, <2>1, <3>1 DEF ZipSync, Archived, TypeOK
      <3> QED
        BY <1>12, <3>2 DEF ZipSync, Start, locals, Goto, TypeOK, Working
    <2>3. PlaceInv'
      BY <1>12 DEF ZipSync, Goto, locals, TypeOK, PlaceInv, Owning, Working, ZipSteps, DirSteps, Operation
    <2> QED
      BY <2>2, <2>3
  <1>13. ASSUME NEW p \in Processes, Publish(p), UNCHANGED job PROVE Typed'
    <2>1. At(p) \in Entries /\ temporary[p] \in Names /\ Output(p) \in Outputs /\ Absent \in Entries
      BY <1>13, JobTyped, EntryTyped DEF Publish, At, TypeOK, PlaceInv, Owning, Working, Paths, Absent
    <2>4. undo' \in [Outputs -> SUBSET Entries]
      <3>1. undo \in [Outputs -> SUBSET Entries] /\ Target(p) \in Entries
        BY <2>1 DEF TypeOK, Target, Paths
      <3>2. undo' = [undo EXCEPT ![Output(p)] = undo[Output(p)] \cup {Target(p)}]
        BY <1>13 DEF Publish
      <3> QED
        BY <2>1, <3>1, <3>2
    <2>5. disk' \in [Paths -> Entries]
      BY <1>13, <2>1 DEF Publish, TypeOK
    <2>2. TypeOK'
      BY <1>13, <2>1, <2>4, <2>5 DEF Publish, ForgetTemporary, Return, Goto, TypeOK, Working
    <2>3. PlaceInv'
      BY <1>13 DEF Publish, ForgetTemporary, Return, Goto, TypeOK, PlaceInv, Owning, Working, ZipSteps, DirSteps, Operation
    <2> QED
      BY <2>2, <2>3
  <1>14. ASSUME NEW p \in Processes, PublishFails(p), UNCHANGED job PROVE Typed'
    <2>1. TypeOK'
      BY <1>14 DEF PublishFails, Return, Goto, TypeOK
    <2>2. PlaceInv'
      BY <1>14 DEF PublishFails, Return, Goto, TypeOK, PlaceInv, Owning, Working, ZipSteps, DirSteps, Operation
    <2> QED
      BY <2>1, <2>2
  <1>15. ASSUME NEW p \in Processes, Confirm(p), UNCHANGED job PROVE Typed'
    <2>1. TypeOK'
      BY <1>15 DEF Confirm, Return, Goto, TypeOK
    <2>2. PlaceInv'
      BY <1>15 DEF Confirm, Return, Goto, TypeOK, PlaceInv, Owning, Working, ZipSteps, DirSteps, Operation
    <2> QED
      BY <2>1, <2>2
  <1>16. ASSUME NEW p \in Processes, Cleanup(p), UNCHANGED job PROVE Typed'
    <2>1. TypeOK'
      BY <1>16, EntryTyped DEF Cleanup, Remove, Absent, Goto, TypeOK, Paths
    <2>2. PlaceInv'
      BY <1>16 DEF Cleanup, Goto, TypeOK, PlaceInv, Owning, Working, ZipSteps, DirSteps, Operation
    <2> QED
      BY <2>1, <2>2
  <1>17. ASSUME NEW p \in Processes, Fail(p), UNCHANGED job PROVE Typed'
    <2>1. TypeOK'
      BY <1>17 DEF Fail, Return, Goto, TypeOK
    <2>2. PlaceInv'
      BY <1>17 DEF Fail, Return, Goto, TypeOK, PlaceInv, Owning, Working, ZipSteps, DirSteps, Operation
    <2> QED
      BY <2>1, <2>2
  <1>18. ASSUME NEW p \in Processes, Kill(p), UNCHANGED job PROVE Typed'
    <2>1. TypeOK'
      BY <1>18 DEF Kill, locals, Goto, TypeOK
    <2>2. PlaceInv'
      BY <1>18 DEF Kill, locals, Goto, TypeOK, PlaceInv, Owning, Working, ZipSteps, DirSteps, Operation
    <2> QED
      BY <2>1, <2>2
  <1>19. ASSUME NEW asset \in Assets, EditSource(asset), UNCHANGED job PROVE Typed'
    <2>1. TypeOK'
      BY <1>19 DEF EditSource, locals, TypeOK
    <2>2. PlaceInv'
      BY <1>19 DEF EditSource, locals, PlaceInv, Operation
    <2> QED
      BY <2>1, <2>2
  <1>20. ASSUME NEW path \in Outputs, NEW asset \in Assets, EditPublished(path, asset), UNCHANGED job
         PROVE  Typed'
    <2>1. TypeOK'
      <3>1. disk[path] \in Entries
        BY DEF TypeOK, Paths
      <3>2. disk[path].files[asset] + 1 \in 0 .. Garbage
        BY <1>20 DEF EditPublished, Garbage
      <3>3. [disk[path] EXCEPT !.files[asset] = disk[path].files[asset] + 1, !.edited = TRUE]
              \in Entries
        <4>1. [disk[path].files EXCEPT ![asset] = disk[path].files[asset] + 1] \in Contents
          BY <3>1, <3>2, EntryKept DEF Contents
        <4> QED
          BY <3>1, <4>1 DEF Entries
      <3>4. disk' = [disk EXCEPT ![path] =
               [disk[path] EXCEPT !.files[asset] = disk[path].files[asset] + 1, !.edited = TRUE]]
        BY <1>20 DEF EditPublished, TypeOK, Paths
      <3>5. disk' \in [Paths -> Entries]
        BY <3>3, <3>4 DEF TypeOK
      <3> QED
        BY <1>20, <3>5 DEF EditPublished, locals, TypeOK
    <2>2. PlaceInv'
      BY <1>20 DEF EditPublished, locals, PlaceInv, Operation
    <2> QED
      BY <2>1, <2>2
  <1>21. ASSUME PowerFailure, UNCHANGED job PROVE Typed'
    <2>1. TypeOK'
      <3>1. \A p \in Processes : pc'[p] \in {"check", "off"}
        BY <1>21, PowerLeaves
      <3>2. pc' \in [Processes -> {"check", "off"}]
        BY <1>21, <3>1 DEF PowerFailure
      <3>3. outages' \in 0 .. MaxOutages
        BY <1>21, SwitchesAssumption DEF PowerFailure, TypeOK
      <3>4. undo' \in [Outputs -> SUBSET Entries]
        BY <1>21, PowerLeaves
      <3> QED
        BY <1>21, <3>2, <3>3, <3>4, PowerLeaves DEF TypeOK
    <2>2. PlaceInv'
      BY <1>21, PowerLeaves DEF PlaceInv, Owning, Working, ZipSteps, DirSteps, Operation
    <2> QED
      BY <2>1, <2>2
  <1>22. CASE UNCHANGED vars
    BY <1>22 DEF vars, locals, TypeOK, PlaceInv, Operation
  <1>23. ASSUME NEW p \in Processes, CleanupFails(p), UNCHANGED job PROVE Typed'
    <2>1. TypeOK'
      BY <1>23 DEF CleanupFails, locals, Goto, TypeOK
    <2>2. PlaceInv'
      BY <1>23 DEF CleanupFails, locals, Goto, TypeOK, PlaceInv, Owning, Working, ZipSteps, DirSteps, Operation
    <2> QED
      BY <2>1, <2>2
  <1> QED
    BY <1>1, <1>2, <1>3, <1>4, <1>5, <1>6, <1>7, <1>8, <1>9, <1>10, <1>11, <1>12, <1>13,
       <1>14, <1>15, <1>16, <1>17, <1>18, <1>19, <1>20, <1>21, <1>22, <1>23 DEF Next, Run

LEMMA TypedInvariant == Spec => []Typed
  BY InitTyped, NextTyped, PTL DEF Spec

(* Every variable of every process keeps its type, and a process never has   *)
(* an output path as its temporary, so that removing it cannot remove a      *)
(* published package.                                                        *)
THEOREM TypeCorrect == Spec => []TypeOK
  <1>1. Typed => TypeOK
    BY DEF Typed
  <1> QED
    BY <1>1, TypedInvariant, PTL

-----------------------------------------------------------------------------
(* Whose temporary a name is.                                                *)

(* Names may repeat only among builds: they alone forget the name of what    *)
(* they published, where the other operations remove whatever has that name. *)
NamesApart ==
    NamesRepeat =>
        \A assignment \in Assignments : \A p, q \in Processes :
            p # q /\ assignment[p].operation = assignment[q].operation
            => assignment[p].operation = "build"

(* What the process made under the name is still there.                      *)
Holds(p) == temporary[p] # NoName /\ (Operation(p) = "build" \/ pc[p] \in Owning)

OwnInv ==
    /\ \A path \in Paths : IsAbsent(disk[path]) => disk[path].by = NoName
    /\ \A p \in Processes : temporary[p] # NoName => <<temporary[p], Operation(p)>> \in drawn
    /\ \A p, q \in Processes : temporary[p] = temporary[q] /\ temporary[p] # NoName => p = q
    /\ \A p \in Processes : Holds(p) => At(p).by = p
    /\ \A p \in Processes, name \in Names : disk[name].by = p => temporary[p] = name
    /\ \A path \in Outputs : \A entry \in undo[path] : IsAbsent(entry) => entry.by = NoName

Owned == Typed /\ OwnInv

LEMMA InitOwned == Init => OwnInv
  BY EntryTyped, PathsAssumption
     DEF Init, OwnInv, Absent, IsAbsent, Holds, Paths

(* Nobody starts to own a temporary.                                         *)
NoneStarts == \A q \in Processes : pc'[q] \in Owning => pc[q] \in Owning

(* A step that touches nothing on the disk and keeps all temporaries.        *)
Quiet == NoneStarts /\ UNCHANGED <<job, disk, temporary, drawn, undo>>

(* A step that writes what the process has under its temporary name.         *)
Works(p) ==
    /\ NoneStarts /\ UNCHANGED <<job, temporary, drawn, undo>>
    /\ pc[p] \in Owning
    /\ \E entry \in Entries :
          /\ entry.by = p /\ entry.kind = At(p).kind
          /\ disk' = [disk EXCEPT ![temporary[p]] = entry]

LEMMA OwnedEntry ==
    ASSUME Owned, NEW p \in Processes, pc[p] \in Owning
    PROVE  /\ temporary[p] \in Names /\ temporary[p] \in Paths
           /\ At(p) \in Entries /\ At(p).by = p /\ ~IsAbsent(At(p))
  <1>1. temporary[p] \in Names /\ temporary[p] \in Paths /\ temporary[p] # NoName
    BY PathsAssumption DEF Owned, Typed, PlaceInv, Paths
  <1>2. At(p) \in Entries
    BY <1>1 DEF Owned, Typed, TypeOK, At
  <1>3. At(p).by = p
    BY <1>1 DEF Owned, OwnInv, Holds
  <1>4. p # NoName
    BY PathsAssumption
  <1>5. ~IsAbsent(At(p))
    BY <1>1, <1>3, <1>4 DEF Owned, OwnInv, At
  <1> QED
    BY <1>1, <1>2, <1>3, <1>5

(* Every other action of a process is quiet, or it works on its temporary.   *)
LEMMA QuietOrWorks ==
    ASSUME Owned, NEW p \in Processes, Run(p) \/ Fail(p) \/ Kill(p), UNCHANGED job,
           ~MakeTemporary(p), ~Publish(p), ~Cleanup(p)
    PROVE  Quiet \/ Works(p)
  <1>1. pc \in [Processes -> Working \cup {"check", "cleanup", "done", "littered",
                                          "killed", "off"}]
    BY DEF Owned, Typed, TypeOK
  <1>2. ASSUME Check(p) PROVE Quiet
    BY <1>1, <1>2 DEF Check, Goto, Return, Quiet, NoneStarts, Owning, Working
  <1>3. ASSUME ReadAsset(p) PROVE Quiet
    BY <1>1, <1>3 DEF ReadAsset, Handled, Start, Goto, Quiet, NoneStarts, Owning, Working
  <1>4. ASSUME WriteAsset(p) PROVE Works(p)
    <2>1. PICK asset \in todo[p] : Holding(p, asset, memory[p][asset])
      BY <1>4 DEF WriteAsset
    <2>2. pc[p] \in Owning /\ asset \in Assets /\ memory[p][asset] \in 0 .. Garbage
      BY <1>4, <2>1 DEF WriteAsset, Owning, Working, Owned, Typed, TypeOK, Contents
    <2>3. disk' = [disk EXCEPT ![temporary[p]] = [At(p) EXCEPT !.files[asset] = memory[p][asset]]]
      BY <2>1, <2>2, OwnedEntry DEF Holding
    <2>4. [At(p) EXCEPT !.files[asset] = memory[p][asset]] \in Entries
      BY <2>2, OwnedEntry, EntryKept
    <2>5. /\ [At(p) EXCEPT !.files[asset] = memory[p][asset]].by = p
          /\ [At(p) EXCEPT !.files[asset] = memory[p][asset]].kind = At(p).kind
      BY <2>2, OwnedEntry DEF Entries
    <2>6. NoneStarts /\ UNCHANGED <<temporary, drawn, undo>>
      BY <1>1, <1>4 DEF WriteAsset, Handled, Start, Goto, NoneStarts, Owning, Working
    <2> QED
      BY <2>2, <2>3, <2>4, <2>5, <2>6 DEF Works
  <1>5. ASSUME CopyAsset(p) PROVE Works(p)
    <2>1. PICK asset \in todo[p] : Holding(p, asset, source[asset])
      BY <1>5 DEF CopyAsset
    <2>2. pc[p] \in Owning /\ asset \in Assets /\ source[asset] \in 0 .. Garbage
      BY <1>5, <2>1, VersionAssumption
         DEF CopyAsset, Owning, Working, Owned, Typed, TypeOK, Garbage
    <2>3. disk' = [disk EXCEPT ![temporary[p]] = [At(p) EXCEPT !.files[asset] = source[asset]]]
      BY <2>1, <2>2, OwnedEntry DEF Holding
    <2>4. [At(p) EXCEPT !.files[asset] = source[asset]] \in Entries
      BY <2>2, OwnedEntry, EntryKept
    <2>5. /\ [At(p) EXCEPT !.files[asset] = source[asset]].by = p
          /\ [At(p) EXCEPT !.files[asset] = source[asset]].kind = At(p).kind
      BY <2>2, OwnedEntry DEF Entries
    <2>6. NoneStarts /\ UNCHANGED <<temporary, drawn, undo>>
      BY <1>1, <1>5 DEF CopyAsset, Handled, Start, Goto, NoneStarts, Owning, Working
    <2> QED
      BY <2>2, <2>3, <2>4, <2>5, <2>6 DEF Works
  <1>6. ASSUME HashAsset(p) PROVE Quiet
    BY <1>1, <1>6 DEF HashAsset, Handled, Return, Start, Goto, Quiet, NoneStarts, Owning, Working
  <1>7. ASSUME WriteManifest(p) PROVE Quiet \/ Works(p)
    <2>1. NoneStarts /\ UNCHANGED <<temporary, drawn, undo>> /\ pc[p] \in Owning
      BY <1>1, <1>7 DEF WriteManifest, Goto, Return, NoneStarts, Owning, Working
    <2>2. CASE At(p).kind = "dir"
      <3>1. disk' = [disk EXCEPT ![temporary[p]] = [At(p) EXCEPT !.manifest = memory[p]]]
        BY <1>7, <2>2 DEF WriteManifest, At
      <3>2. memory[p] \in Contents
        BY DEF Owned, Typed, TypeOK
      <3>3. [At(p) EXCEPT !.manifest = memory[p]] \in Entries
        BY <2>1, <3>2, OwnedEntry, EntryKept
      <3>4. /\ [At(p) EXCEPT !.manifest = memory[p]].by = p
            /\ [At(p) EXCEPT !.manifest = memory[p]].kind = At(p).kind
        BY <2>1, OwnedEntry DEF Entries
      <3> QED
        BY <2>1, <3>1, <3>3, <3>4 DEF Works
    <2>3. CASE At(p).kind # "dir"
      BY <1>7, <2>1, <2>3 DEF WriteManifest, Quiet
    <2> QED
      BY <2>2, <2>3
  <1>8. ASSUME Verify(p) PROVE Quiet
    BY <1>1, <1>8 DEF Verify, Goto, Return, Quiet, NoneStarts, Owning, Working
  <1>9. ASSUME ZipManifest(p) PROVE Works(p)
    <2> DEFINE entry == [At(p) EXCEPT !.manifest = disk[Directory(p)].manifest]
    <2>1. NoneStarts /\ UNCHANGED <<temporary, drawn, undo>> /\ pc[p] \in Owning
      BY <1>1, <1>9 DEF ZipManifest, Start, Goto, NoneStarts, Owning, Working
    <2>2. disk' = [disk EXCEPT ![temporary[p]] = entry]
      BY <1>9, <2>1, OwnedEntry DEF ZipManifest, Archived
    <2>3. disk[Directory(p)] \in Entries
      BY JobTyped DEF Owned, Typed, TypeOK, Paths
    <2>4. entry \in Entries
      BY <2>1, <2>3, OwnedEntry, EntryKept
    <2>5. entry.by = p /\ entry.kind = At(p).kind
      BY <2>1, OwnedEntry DEF Entries
    <2> QED
      BY <2>1, <2>2, <2>4, <2>5 DEF Works
  <1>10. ASSUME ZipAsset(p) PROVE Works(p)
    <2>1. PICK asset \in todo[p] :
            Archived(p, [At(p) EXCEPT !.files[asset] = disk[Directory(p)].files[asset],
                                      !.edited = @ \/ disk[Directory(p)].edited])
      BY <1>10 DEF ZipAsset
    <2> DEFINE entry == [At(p) EXCEPT !.files[asset] = disk[Directory(p)].files[asset],
                                      !.edited = @ \/ disk[Directory(p)].edited]
    <2>2. NoneStarts /\ UNCHANGED <<temporary, drawn, undo>> /\ pc[p] \in Owning
      BY <1>1, <1>10 DEF ZipAsset, Handled, Start, Goto, NoneStarts, Owning, Working
    <2>3. disk' = [disk EXCEPT ![temporary[p]] = entry]
      BY <2>1, <2>2, OwnedEntry DEF Archived
    <2>4. disk[Directory(p)] \in Entries /\ asset \in Assets
      BY <2>1, JobTyped DEF Owned, Typed, TypeOK, Paths
    <2>5. disk[Directory(p)].files[asset] \in 0 .. Garbage /\ disk[Directory(p)].edited \in BOOLEAN
      BY <2>4, EntryKept DEF Contents
    <2>6. entry \in Entries
      BY <2>2, <2>4, <2>5, OwnedEntry, EntryCopied
    <2>7. entry.by = p /\ entry.kind = At(p).kind
      BY <2>2, OwnedEntry DEF Entries
    <2> QED
      BY <2>2, <2>3, <2>6, <2>7 DEF Works
  <1>11. ASSUME ZipClose(p) PROVE Works(p)
    <2>1. NoneStarts /\ UNCHANGED <<temporary, drawn, undo>> /\ pc[p] \in Owning
      BY <1>1, <1>11 DEF ZipClose, locals, Goto, NoneStarts, Owning, Working
    <2>2. disk' = [disk EXCEPT ![temporary[p]] = [At(p) EXCEPT !.sealed = TRUE]]
      BY <1>11, <2>1, OwnedEntry DEF ZipClose, Archived
    <2>3. [At(p) EXCEPT !.sealed = TRUE] \in Entries
      BY <2>1, OwnedEntry, EntryKept
    <2>4. [At(p) EXCEPT !.sealed = TRUE].by = p /\ [At(p) EXCEPT !.sealed = TRUE].kind = At(p).kind
      BY <2>1, OwnedEntry DEF Entries
    <2> QED
      BY <2>1, <2>2, <2>3, <2>4 DEF Works
  <1>12. ASSUME ZipSync(p) PROVE Works(p)
    <2>1. NoneStarts /\ UNCHANGED <<temporary, drawn, undo>> /\ pc[p] \in Owning
      BY <1>1, <1>12 DEF ZipSync, locals, Goto, NoneStarts, Owning, Working
    <2>2. disk' = [disk EXCEPT ![temporary[p]] = [At(p) EXCEPT !.durable = TRUE]]
      BY <1>12, <2>1, OwnedEntry DEF ZipSync, Synced, Archived
    <2>3. [At(p) EXCEPT !.durable = TRUE] \in Entries
      BY <2>1, OwnedEntry, EntryKept
    <2>4. [At(p) EXCEPT !.durable = TRUE].by = p /\ [At(p) EXCEPT !.durable = TRUE].kind = At(p).kind
      BY <2>1, OwnedEntry DEF Entries
    <2> QED
      BY <2>1, <2>2, <2>3, <2>4 DEF Works
  <1>13. ASSUME PublishFails(p) PROVE Quiet
    BY <1>1, <1>13 DEF PublishFails, Goto, Return, Quiet, NoneStarts, Owning, Working
  <1>14. ASSUME Confirm(p) PROVE Quiet
    BY <1>1, <1>14 DEF Confirm, Goto, Return, Quiet, NoneStarts, Owning, Working
  <1>15. ASSUME Fail(p) PROVE Quiet
    BY <1>1, <1>15 DEF Fail, Goto, Return, Quiet, NoneStarts, Owning, Working
  <1>16. ASSUME Kill(p) PROVE Quiet
    BY <1>1, <1>16 DEF Kill, Goto, locals, Quiet, NoneStarts, Owning, Working
  <1>17. ASSUME CleanupFails(p) PROVE Quiet
    BY <1>1, <1>17 DEF CleanupFails, Goto, locals, Quiet, NoneStarts, Owning, Working
  <1> QED
    BY <1>2, <1>3, <1>4, <1>5, <1>6, <1>7, <1>8, <1>9, <1>10, <1>11, <1>12, <1>13, <1>14,
       <1>15, <1>16, <1>17 DEF Run

LEMMA TornKeeps ==
    ASSUME NEW entry \in Entries
    PROVE  /\ Torn(entry).by = entry.by /\ Torn(entry).kind = entry.kind
           /\ Torn(entry).edited = entry.edited /\ Torn(entry).files = Garbled(entry.files)
  BY DEF Torn, Entries

(* What somebody's edit does to an entry.                                    *)
LEMMA EditKeeps ==
    ASSUME Typed, NEW path \in Outputs, NEW asset \in Assets, EditPublished(path, asset)
    PROVE  /\ \A other \in Paths :
                 /\ disk'[other].by = disk[other].by /\ disk'[other].kind = disk[other].kind
                 /\ disk'[other].manifest = disk[other].manifest
                 /\ disk'[other].files = disk[other].files \/ disk'[other].edited
           /\ NoneStarts /\ UNCHANGED <<temporary, drawn, undo>>
  <1> USE DEF Typed, TypeOK
  <1> DEFINE new == [disk[path] EXCEPT !.files[asset] = disk[path].files[asset] + 1, !.edited = TRUE]
  <1>1. disk' = [disk EXCEPT ![path] = new] /\ path \in Paths /\ disk[path] \in Entries
    BY DEF EditPublished, Paths
  <1>2. /\ new.by = disk[path].by /\ new.kind = disk[path].kind
        /\ new.manifest = disk[path].manifest /\ new.edited
    BY <1>1 DEF Entries
  <1>3. NoneStarts /\ UNCHANGED <<temporary, drawn, undo>>
    BY DEF EditPublished, NoneStarts, locals
  <1> HIDE DEF new
  <1>4. \A other \in Paths : disk'[other] = IF other = path THEN new ELSE disk[other]
    BY <1>1
  <1> QED
    BY <1>2, <1>3, <1>4

(* What a power failure leaves of who made what, where nobody publishes.     *)
LEMMA PowerKeeps ==
    ASSUME Typed, PowerFailure
    PROVE  /\ \A name \in Names :
                 disk'[name].by = disk[name].by /\ disk'[name].kind = disk[name].kind
           /\ NoneStarts
  <1>1. ASSUME NEW name \in Names
        PROVE  disk'[name].by = disk[name].by /\ disk'[name].kind = disk[name].kind
    <2>1. name \in Paths /\ name \notin Outputs /\ disk[name] \in Entries
      BY PathsAssumption DEF Paths, Typed, TypeOK
    <2>2. disk'[name] = disk[name] \/ disk'[name] = Torn(disk[name])
      BY <2>1, PowerLeaves
    <2> QED
      BY <2>1, <2>2, TornKeeps
  <1>2. NoneStarts
    BY PowerLeaves DEF NoneStarts, Owning, Working
  <1> QED
    BY <1>1, <1>2

LEMMA OwnQuiet ==
    ASSUME Owned, Quiet
    PROVE  OwnInv'
  <1> USE DEF Owned, OwnInv, Quiet
  <1>1. \A p \in Processes : Holds(p)' => Holds(p)
    BY DEF Holds, Operation, NoneStarts
  <1> QED
    BY <1>1 DEF At, Operation

LEMMA OwnWorks ==
    ASSUME Owned, NEW p \in Processes, Works(p)
    PROVE  OwnInv'
  <1>1. PICK entry \in Entries :
          /\ entry.by = p /\ entry.kind = At(p).kind
          /\ disk' = [disk EXCEPT ![temporary[p]] = entry]
    BY DEF Works
  <1>2. /\ temporary[p] \in Names /\ temporary[p] \in Paths
        /\ At(p) \in Entries /\ At(p).by = p /\ ~IsAbsent(At(p)) /\ ~IsAbsent(entry)
    BY <1>1, OwnedEntry DEF Works, IsAbsent
  <1>3. UNCHANGED <<job, temporary, drawn, undo>> /\ NoneStarts
    BY DEF Works
  <1>4. \A path \in Paths : disk'[path] = IF path = temporary[p] THEN entry ELSE disk[path]
    BY <1>1, <1>2 DEF Owned, Typed, TypeOK
  <1> USE DEF Owned, OwnInv
  <1>5. (\A path \in Paths : IsAbsent(disk[path]) => disk[path].by = NoName)'
    BY <1>2, <1>4 DEF IsAbsent
  <1>6. (\A q \in Processes : temporary[q] # NoName => <<temporary[q], Operation(q)>> \in drawn)'
    BY <1>3 DEF Operation
  <1>7. (\A q, r \in Processes : temporary[q] = temporary[r] /\ temporary[q] # NoName => q = r)'
    BY <1>3
  <1>8. (\A q \in Processes : Holds(q) => At(q).by = q)'
    <2> SUFFICES ASSUME NEW q \in Processes, Holds(q)' PROVE At(q)'.by = q
      OBVIOUS
    <2>1. Holds(q) /\ At(q).by = q
      BY <1>3 DEF Holds, Operation, NoneStarts
    <2>2. temporary[q] \in Paths
      BY <2>1 DEF Holds, Typed, TypeOK, Paths
    <2> QED
      BY <1>1, <1>3, <1>4, <2>1, <2>2 DEF At, Holds
  <1>9. (\A q \in Processes, name \in Names : disk[name].by = q => temporary[q] = name)'
    BY <1>1, <1>3, <1>4 DEF Paths
  <1>10. (\A path \in Outputs : \A old \in undo[path] : IsAbsent(old) => old.by = NoName)'
    BY <1>3 DEF IsAbsent
  <1> QED
    BY <1>5, <1>6, <1>7, <1>8, <1>9, <1>10

LEMMA OwnMake ==
    ASSUME NamesApart, Owned, NEW p \in Processes, MakeTemporary(p), UNCHANGED job
    PROVE  OwnInv'
  <1>1. PICK name \in Names :
          /\ IsAbsent(disk[name])
          /\ \A operation \in Operations : <<name, operation>> \in drawn =>
                NamesRepeat /\ operation = Operation(p)
          /\ drawn' = drawn \cup {<<name, Operation(p)>>}
          /\ temporary' = [temporary EXCEPT ![p] = name]
          /\ disk' = [disk EXCEPT ![name] = Entry(Kind(p), p)]
    BY DEF MakeTemporary, Beside
  <1> DEFINE entry == Entry(Kind(p), p)
  <1>2. entry.by = p /\ ~IsAbsent(entry) /\ entry \in Entries
    BY EntryTyped DEF Kind, IsAbsent
  <1> HIDE DEF entry
  <1>3. name \in Paths /\ name # NoName /\ p # NoName /\ temporary[p] = NoName
    BY PathsAssumption DEF Paths, MakeTemporary, Owned, Typed, PlaceInv
  <1>4. \A path \in Paths : disk'[path] = IF path = name THEN entry ELSE disk[path]
    BY <1>1, <1>3 DEF Owned, Typed, TypeOK, entry
  <1>5. \A q \in Processes : temporary'[q] = IF q = p THEN name ELSE temporary[q]
    BY <1>1 DEF Owned, Typed, TypeOK
  <1>6. ASSUME NEW q \in Processes, q # p PROVE temporary[q] # name
    <2> SUFFICES ASSUME temporary[q] = name PROVE FALSE
      OBVIOUS
    <2>1. <<name, Operation(q)>> \in drawn
      BY <1>3 DEF Owned, OwnInv
    <2>2. NamesRepeat /\ Operation(q) = Operation(p)
      BY <1>1, <2>1, JobTyped DEF Owned
    <2>3. Operation(q) = "build"
      BY <1>6, <2>2 DEF NamesApart, Operation, Owned, Typed, TypeOK
    <2>4. disk[name].by = q
      BY <1>3, <2>3 DEF Owned, OwnInv, Holds, At
    <2>5. disk[name].by = NoName
      BY <1>1, <1>3 DEF Owned, OwnInv
    <2> QED
      BY <2>4, <2>5, PathsAssumption
  <1>7. \A q \in Processes : q # p => (pc'[q] \in Owning <=> pc[q] \in Owning)
    BY DEF MakeTemporary, Start, Goto, Owned, Typed, TypeOK
  <1> USE DEF Owned, OwnInv
  <1>8. (\A path \in Paths : IsAbsent(disk[path]) => disk[path].by = NoName)'
    BY <1>2, <1>4
  <1>9. (\A q \in Processes : temporary[q] # NoName => <<temporary[q], Operation(q)>> \in drawn)'
    BY <1>1, <1>5 DEF Operation
  <1>10. (\A q, r \in Processes : temporary[q] = temporary[r] /\ temporary[q] # NoName => q = r)'
    BY <1>5, <1>6
  <1>11. (\A q \in Processes : Holds(q) => At(q).by = q)'
    <2> SUFFICES ASSUME NEW q \in Processes, Holds(q)' PROVE At(q)'.by = q
      OBVIOUS
    <2>1. CASE q = p
      BY <1>2, <1>3, <1>4, <1>5, <2>1 DEF At
    <2>2. CASE q # p
      <3>1. temporary[q] # name /\ temporary'[q] = temporary[q] /\ Holds(q)
        BY <1>5, <1>6, <1>7, <2>2 DEF Holds, Operation
      <3>2. temporary[q] \in Paths
        BY <3>1 DEF Holds, Typed, TypeOK, Paths
      <3> QED
        BY <1>4, <3>1, <3>2 DEF At
    <2> QED
      BY <2>1, <2>2
  <1>12. (\A q \in Processes, other \in Names : disk[other].by = q => temporary[q] = other)'
    <2> SUFFICES ASSUME NEW q \in Processes, NEW other \in Names, disk'[other].by = q
                 PROVE  temporary'[q] = other
      OBVIOUS
    <2>1. CASE other = name
      BY <1>2, <1>3, <1>4, <1>5, <2>1
    <2>2. CASE other # name
      <3>1. disk[other].by = q /\ temporary[q] = other
        BY <1>4, <2>2 DEF Paths
      <3>2. q # p
        BY <1>3, <3>1, PathsAssumption DEF Paths
      <3> QED
        BY <1>5, <3>1, <3>2
    <2> QED
      BY <2>1, <2>2
  <1>13. (\A path \in Outputs : \A old \in undo[path] : IsAbsent(old) => old.by = NoName)'
    BY DEF MakeTemporary, IsAbsent
  <1> QED
    BY <1>8, <1>9, <1>10, <1>11, <1>12, <1>13

(* What a publication leaves.                                                *)
LEMMA PublishLeaves ==
    ASSUME Owned, NEW p \in Processes, Publish(p)
    PROVE  /\ Output(p) \in Outputs /\ Output(p) \in Paths /\ Output(p) \notin Names
           /\ \A path \in Paths :
                 disk'[path] = IF path = temporary[p] THEN Absent
                               ELSE IF path = Output(p) THEN At(p) ELSE disk[path]
           /\ \A q \in Processes :
                 /\ q # p => temporary'[q] = temporary[q]
                 /\ temporary'[q] # NoName => temporary'[q] = temporary[q]
                 /\ q # p => pc'[q] = pc[q]
           /\ ~Holds(p)' \/ job' # job
           /\ pc[p] \in Owning /\ pc'[p] \notin Owning /\ drawn' = drawn
           /\ \A path \in Outputs : undo'[path] \subseteq undo[path] \cup {disk[path]}
  <1>1. Output(p) \in Outputs /\ Output(p) \in Paths /\ Output(p) \notin Names
    BY JobTyped, PathsAssumption DEF Owned, Paths
  <1>2. pc[p] \in Owning
    BY DEF Publish, Owning, Working
  <1>3. disk' = [disk EXCEPT ![Output(p)] = At(p), ![temporary[p]] = Absent]
    BY DEF Publish
  <1>4. \A path \in Paths :
           disk'[path] = IF path = temporary[p] THEN Absent
                         ELSE IF path = Output(p) THEN At(p) ELSE disk[path]
    BY <1>1, <1>2, <1>3, OwnedEntry DEF Owned, Typed, TypeOK
  <1>5. temporary' = IF Operation(p) = "build" THEN [temporary EXCEPT ![p] = NoName] ELSE temporary
    BY DEF Publish, ForgetTemporary
  <1>6. pc'[p] \in {"cleanup", "confirm"} /\ \A q \in Processes : q # p => pc'[q] = pc[q]
    BY DEF Publish, Return, Goto, Owned, Typed, TypeOK
  <1>7. pc'[p] \notin Owning
    BY <1>6 DEF Owning, Working
  <1>8. \A q \in Processes :
          /\ q # p => temporary'[q] = temporary[q]
          /\ temporary'[q] # NoName => temporary'[q] = temporary[q]
    BY <1>5 DEF Owned, Typed, TypeOK
  <1>9. ~Holds(p)' \/ job' # job
    BY <1>5, <1>7 DEF Holds, Operation, Owned, Typed, TypeOK
  <1>10. drawn' = drawn
    BY DEF Publish
  <1>11. \A path \in Outputs : undo'[path] \subseteq undo[path] \cup {disk[path]}
    <2>1. undo' = [undo EXCEPT ![Output(p)] = undo[Output(p)] \cup {Target(p)}]
      BY DEF Publish
    <2> QED
      BY <1>1, <2>1 DEF Target, Owned, Typed, TypeOK
  <1> QED
    BY <1>1, <1>2, <1>4, <1>6, <1>7, <1>8, <1>9, <1>10, <1>11

LEMMA OwnPublish ==
    ASSUME Owned, NEW p \in Processes, Publish(p), UNCHANGED job
    PROVE  OwnInv'
  <1>1. /\ Output(p) \in Outputs /\ Output(p) \in Paths /\ Output(p) \notin Names
        /\ \A path \in Paths :
              disk'[path] = IF path = temporary[p] THEN Absent
                            ELSE IF path = Output(p) THEN At(p) ELSE disk[path]
    BY PublishLeaves
  <1>2. /\ \A q \in Processes :
              /\ q # p => temporary'[q] = temporary[q]
              /\ temporary'[q] # NoName => temporary'[q] = temporary[q]
              /\ q # p => pc'[q] = pc[q]
        /\ ~Holds(p)' /\ drawn' = drawn /\ pc[p] \in Owning
    BY PublishLeaves
  <1>3. Absent.by = NoName /\ IsAbsent(Absent) /\ p # NoName
    BY EntryTyped, PathsAssumption DEF Absent, IsAbsent
  <1>4. At(p).by = p /\ ~IsAbsent(At(p)) /\ temporary[p] \in Names
    BY <1>2, OwnedEntry
  <1> USE DEF Owned, OwnInv
  <1>5. (\A path \in Paths : IsAbsent(disk[path]) => disk[path].by = NoName)'
    BY <1>1, <1>3, <1>4
  <1>6. (\A q \in Processes : temporary[q] # NoName => <<temporary[q], Operation(q)>> \in drawn)'
    BY <1>2 DEF Operation
  <1>7. (\A q, r \in Processes : temporary[q] = temporary[r] /\ temporary[q] # NoName => q = r)'
    BY <1>2
  <1>8. (\A q \in Processes : Holds(q) => At(q).by = q)'
    <2> SUFFICES ASSUME NEW q \in Processes, Holds(q)' PROVE At(q)'.by = q
      OBVIOUS
    <2>1. q # p /\ temporary'[q] = temporary[q] /\ Holds(q) /\ At(q).by = q
      BY <1>2 DEF Holds, Operation
    <2>2. temporary[q] \in Names /\ temporary[q] # temporary[p]
      BY <2>1 DEF Holds, Typed, TypeOK
    <2> QED
      BY <1>1, <2>1, <2>2 DEF At, Paths
  <1>9. (\A q \in Processes, name \in Names : disk[name].by = q => temporary[q] = name)'
    <2> SUFFICES ASSUME NEW q \in Processes, NEW name \in Names, disk'[name].by = q
                 PROVE  temporary'[q] = name
      OBVIOUS
    <2>1. name # temporary[p] /\ disk[name].by = q
      BY <1>1, <1>3, PathsAssumption DEF Paths
    <2>2. temporary[q] = name
      BY <2>1
    <2> QED
      BY <1>2, <2>1, <2>2
  <1>10. (\A path \in Outputs : \A entry \in undo[path] : IsAbsent(entry) => entry.by = NoName)'
    BY PublishLeaves DEF IsAbsent, Paths
  <1> QED
    BY <1>5, <1>6, <1>7, <1>8, <1>9, <1>10

LEMMA OwnCleanup ==
    ASSUME Owned, NEW p \in Processes, Cleanup(p), UNCHANGED job
    PROVE  OwnInv'
  <1>1. \A path \in Paths : disk'[path] = IF path = temporary[p] THEN Absent ELSE disk[path]
    BY PathsAssumption DEF Cleanup, Remove, Owned, Typed, TypeOK
  <1>2. /\ \A q \in Processes : temporary'[q] = IF q = p THEN NoName ELSE temporary[q]
        /\ \A q \in Processes : q # p => pc'[q] = pc[q]
        /\ drawn' = drawn
    BY DEF Cleanup, Goto, Owned, Typed, TypeOK
  <1>3. Absent.by = NoName /\ IsAbsent(Absent)
    BY EntryTyped DEF Absent, IsAbsent
  <1> USE DEF Owned, OwnInv
  <1>4. (\A path \in Paths : IsAbsent(disk[path]) => disk[path].by = NoName)'
    BY <1>1, <1>3
  <1>5. (\A q \in Processes : temporary[q] # NoName => <<temporary[q], Operation(q)>> \in drawn)'
    BY <1>2 DEF Operation
  <1>6. (\A q, r \in Processes : temporary[q] = temporary[r] /\ temporary[q] # NoName => q = r)'
    BY <1>2
  <1>7. (\A q \in Processes : Holds(q) => At(q).by = q)'
    <2> SUFFICES ASSUME NEW q \in Processes, Holds(q)' PROVE At(q)'.by = q
      OBVIOUS
    <2>1. q # p /\ temporary'[q] = temporary[q] /\ Holds(q) /\ At(q).by = q
      BY <1>2 DEF Holds, Operation
    <2>2. temporary[q] \in Names /\ temporary[q] # temporary[p]
      BY <2>1 DEF Holds, Typed, TypeOK
    <2> QED
      BY <1>1, <2>1, <2>2 DEF At, Paths
  <1>8. (\A q \in Processes, name \in Names : disk[name].by = q => temporary[q] = name)'
    <2> SUFFICES ASSUME NEW q \in Processes, NEW name \in Names, disk'[name].by = q
                 PROVE  temporary'[q] = name
      OBVIOUS
    <2>1. name # temporary[p] /\ disk[name].by = q
      BY <1>1, <1>3, PathsAssumption DEF Paths
    <2>2. temporary[q] = name
      BY <2>1
    <2> QED
      BY <1>2, <2>1, <2>2
  <1>9. (\A path \in Outputs : \A entry \in undo[path] : IsAbsent(entry) => entry.by = NoName)'
    BY DEF Cleanup, IsAbsent
  <1> QED
    BY <1>4, <1>5, <1>6, <1>7, <1>8, <1>9

LEMMA OwnSurroundings ==
    ASSUME Owned, UNCHANGED job,
           PowerFailure \/ \E path \in Outputs, asset \in Assets : EditPublished(path, asset)
    PROVE  OwnInv'
  <1>1. /\ \A name \in Names : disk'[name].by = disk[name].by /\ disk'[name].kind = disk[name].kind
        /\ NoneStarts /\ UNCHANGED <<temporary, drawn>>
    BY EditKeeps, PowerKeeps, PowerLeaves DEF Owned, Paths
  <1> USE DEF Owned, OwnInv
  <1>2. (\A path \in Paths : IsAbsent(disk[path]) => disk[path].by = NoName)'
    <2>1. ASSUME PowerFailure, NEW path \in Paths, IsAbsent(disk'[path])
          PROVE  disk'[path].by = NoName
      <3>1. disk[path] \in Entries
        BY DEF Typed, TypeOK
      <3>2. disk'[path] = disk[path] \/ (path \in Outputs /\ disk'[path] \in undo[path])
            \/ (~IsAbsent(disk[path]) /\ disk'[path] = Torn(disk[path]))
        BY <2>1, PowerLeaves
      <3>3. Torn(disk[path]).kind = disk[path].kind
        BY <3>1, TornKeeps
      <3> QED
        BY <2>1, <3>2, <3>3 DEF IsAbsent
    <2>2. ASSUME NEW output \in Outputs, NEW asset \in Assets, EditPublished(output, asset),
                 NEW path \in Paths, IsAbsent(disk'[path])
          PROVE  disk'[path].by = NoName
      BY <2>2, EditKeeps DEF IsAbsent
    <2> QED
      BY <2>1, <2>2 DEF IsAbsent
  <1>3. (\A p \in Processes : temporary[p] # NoName => <<temporary[p], Operation(p)>> \in drawn)'
    BY <1>1 DEF Operation
  <1>4. (\A q, r \in Processes : temporary[q] = temporary[r] /\ temporary[q] # NoName => q = r)'
    BY <1>1
  <1>5. (\A q \in Processes : Holds(q) => At(q).by = q)'
    <2> SUFFICES ASSUME NEW q \in Processes, Holds(q)' PROVE At(q)'.by = q
      OBVIOUS
    <2>1. Holds(q) /\ At(q).by = q /\ temporary'[q] = temporary[q]
      BY <1>1 DEF Holds, Operation, NoneStarts
    <2>2. temporary[q] \in Names
      BY <2>1 DEF Holds, Typed, TypeOK
    <2> QED
      BY <1>1, <2>1, <2>2 DEF At
  <1>6. (\A q \in Processes, name \in Names : disk[name].by = q => temporary[q] = name)'
    BY <1>1
  <1>7. (\A path \in Outputs : \A entry \in undo[path] : IsAbsent(entry) => entry.by = NoName)'
    <2>1. CASE PowerFailure
      BY <2>1, PowerLeaves
    <2>2. CASE ~PowerFailure
      BY <2>2, EditKeeps DEF IsAbsent
    <2> QED
      BY <2>1, <2>2
  <1> QED
    BY <1>2, <1>3, <1>4, <1>5, <1>6, <1>7

LEMMA NextOwned == NamesApart /\ Owned /\ [Next]_vars => OwnInv'
  <1> SUFFICES ASSUME NamesApart, Owned, [Next]_vars PROVE OwnInv'
    OBVIOUS
  <1>1. ASSUME NEW p \in Processes, Run(p) \/ Fail(p) \/ Kill(p), UNCHANGED job PROVE OwnInv'
    BY <1>1, QuietOrWorks, OwnQuiet, OwnWorks, OwnMake, OwnPublish, OwnCleanup
  <1>2. ASSUME NEW asset \in Assets, EditSource(asset), UNCHANGED job PROVE OwnInv'
    <2>1. Quiet
      BY <1>2 DEF EditSource, Quiet, NoneStarts, locals
    <2> QED
      BY <2>1, OwnQuiet
  <1>3. ASSUME UNCHANGED vars PROVE OwnInv'
    <2>1. Quiet
      BY <1>3 DEF vars, Quiet, NoneStarts, locals
    <2> QED
      BY <2>1, OwnQuiet
  <1> QED
    BY <1>1, <1>2, <1>3, OwnSurroundings DEF Next

LEMMA OwnedInvariant == NamesApart => (Spec => []Owned)
  <1>1. Init => Owned
    BY InitTyped, InitOwned DEF Owned
  <1>2. NamesApart /\ Owned /\ [Next]_vars => Owned'
    BY NextTyped, NextOwned DEF Owned
  <1>3. NamesApart => []NamesApart
    <2>1. NamesApart => NamesApart'
      BY DEF NamesApart
    <2> QED
      BY <2>1, PTL
  <1> QED
    BY <1>1, <1>2, <1>3, PTL DEF Spec

(* While a process works under a temporary name, what is there is its own.   *)
THEOREM TemporariesKept == NamesApart => (Spec => []TemporaryIntact)
  <1>1. Owned => TemporaryIntact
    BY PathsAssumption DEF Owned, OwnInv, Typed, PlaceInv, TemporaryIntact, Holds, Owning, Paths
  <1> QED
    BY <1>1, OwnedInvariant, PTL

(* An operation that returned has nothing under any temporary name.          *)
THEOREM TemporariesGone == NamesApart => (Spec => []NothingLeftBehind)
  <1>1. Owned => NothingLeftBehind
    BY PathsAssumption DEF Owned, OwnInv, Typed, PlaceInv, NothingLeftBehind, Paths
  <1> QED
    BY <1>1, OwnedInvariant, PTL

-----------------------------------------------------------------------------
(* What a step of one process leaves alone.                                  *)

LEMMA OnlyOwn ==
    ASSUME Typed, NEW q \in Processes, Run(q) \/ Fail(q) \/ Kill(q)
    PROVE  \A p \in Processes \ {q} :
             /\ pc'[p] = pc[p] /\ temporary'[p] = temporary[p] /\ todo'[p] = todo[p]
             /\ memory'[p] = memory[p] /\ outcome'[p] = outcome[p]
  <1> SUFFICES ASSUME NEW p \in Processes \ {q}
               PROVE  /\ pc'[p] = pc[p] /\ temporary'[p] = temporary[p] /\ todo'[p] = todo[p]
                      /\ memory'[p] = memory[p] /\ outcome'[p] = outcome[p]
    OBVIOUS
  <1> USE DEF Typed, TypeOK, Goto, Return, Start, Handled, locals
  <1>1. CASE Check(q)
    BY <1>1 DEF Check
  <1>2. CASE MakeTemporary(q)
    BY <1>2 DEF MakeTemporary, Beside
  <1>3. CASE ReadAsset(q)
    BY <1>3 DEF ReadAsset
  <1>4. CASE WriteAsset(q) \/ CopyAsset(q)
    BY <1>4 DEF WriteAsset, CopyAsset
  <1>5. CASE HashAsset(q)
    BY <1>5 DEF HashAsset
  <1>6. CASE WriteManifest(q) \/ Verify(q)
    BY <1>6 DEF WriteManifest, Verify
  <1>7. CASE ZipManifest(q) \/ ZipAsset(q)
    BY <1>7 DEF ZipManifest, ZipAsset
  <1>8. CASE ZipClose(q) \/ ZipSync(q)
    BY <1>8 DEF ZipClose, ZipSync
  <1>9. CASE Publish(q) \/ PublishFails(q)
    BY <1>9 DEF Publish, PublishFails, ForgetTemporary
  <1>10. CASE Confirm(q) \/ Cleanup(q)
    BY <1>10 DEF Confirm, Cleanup
  <1>11. CASE Fail(q) \/ Kill(q) \/ CleanupFails(q)
    BY <1>11 DEF Fail, Kill, CleanupFails
  <1> QED
    BY <1>1, <1>2, <1>3, <1>4, <1>5, <1>6, <1>7, <1>8, <1>9, <1>10, <1>11 DEF Run

LEMMA Made ==
    ASSUME Owned, NEW p \in Processes, MakeTemporary(p), UNCHANGED job
    PROVE  \E name \in Names :
             /\ IsAbsent(disk[name]) /\ temporary'[p] = name
             /\ \A path \in Paths :
                   disk'[path] = IF path = name THEN Entry(Kind(p), p) ELSE disk[path]
  <1>1. PICK name \in Names :
          /\ IsAbsent(disk[name]) /\ temporary' = [temporary EXCEPT ![p] = name]
          /\ disk' = [disk EXCEPT ![name] = Entry(Kind(p), p)]
    BY DEF MakeTemporary, Beside
  <1>2. name \in Paths
    BY DEF Paths
  <1> QED
    BY <1>1, <1>2 DEF Owned, Typed, TypeOK

LEMMA Cleaned ==
    ASSUME Owned, NEW p \in Processes, Cleanup(p)
    PROVE  \A path \in Paths : disk'[path] = IF path = temporary[p] THEN Absent ELSE disk[path]
  BY PathsAssumption DEF Cleanup, Remove, Owned, Typed, TypeOK

LEMMA Worked ==
    ASSUME Owned, NEW p \in Processes, Works(p)
    PROVE  \A path \in Paths : path # temporary[p] => disk'[path] = disk[path]
  BY DEF Works, Owned, Typed, TypeOK

(* What another process works on.                                            *)
LEMMA OthersKept ==
    ASSUME Owned, NEW q \in Processes, Run(q) \/ Fail(q) \/ Kill(q), UNCHANGED job,
           NEW p \in Processes, p # q, pc[p] \in Owning
    PROVE  disk'[temporary[p]] = disk[temporary[p]]
  <1>1. temporary[p] \in Names /\ temporary[p] \in Paths /\ ~IsAbsent(disk[temporary[p]])
    BY OwnedEntry DEF At
  <1>2. temporary[p] # temporary[q]
    BY <1>1, PathsAssumption DEF Owned, OwnInv, Paths
  <1>3. CASE MakeTemporary(q)
    BY <1>1, <1>3, Made
  <1>4. CASE Publish(q)
    BY <1>1, <1>2, <1>4, PublishLeaves
  <1>5. CASE Cleanup(q)
    BY <1>1, <1>2, <1>5, Cleaned
  <1>6. CASE Quiet
    BY <1>6 DEF Quiet
  <1>7. CASE Works(q)
    BY <1>1, <1>2, <1>7, Worked
  <1> QED
    BY <1>3, <1>4, <1>5, <1>6, <1>7, QuietOrWorks

(* What is at the output paths.                                              *)
LEMMA OutputsKept ==
    ASSUME Owned, NEW q \in Processes, Run(q) \/ Fail(q) \/ Kill(q), UNCHANGED job,
           NEW path \in Outputs
    PROVE  \/ disk'[path] = disk[path]
           \/ /\ Publish(q) /\ path = Output(q) /\ disk'[path] = At(q)
              /\ IsAbsent(disk[path]) \/ (At(q).kind = "zip" /\ disk[path].kind = "zip")
  <1>1. path \in Paths /\ path \notin Names /\ path # NoName /\ temporary[q] # path
    BY PathsAssumption DEF Paths, Owned, Typed, TypeOK
  <1>2. CASE MakeTemporary(q)
    BY <1>1, <1>2, Made
  <1>3. CASE Publish(q)
    <2>1. IsAbsent(disk[Output(q)]) \/ (At(q).kind = "zip" /\ disk[Output(q)].kind = "zip")
      BY <1>3 DEF Publish, MayReplace, Target
    <2> QED
      BY <1>1, <1>3, <2>1, PublishLeaves
  <1>4. CASE Cleanup(q)
    BY <1>1, <1>4, Cleaned
  <1>5. CASE Quiet
    BY <1>5 DEF Quiet
  <1>6. CASE Works(q)
    BY <1>1, <1>6, Worked
  <1> QED
    BY <1>2, <1>3, <1>4, <1>5, <1>6, QuietOrWorks

-----------------------------------------------------------------------------
(* What is in the packages.                                                  *)

Part == [Assets -> 0 .. MaxVersion]
Whole == [Assets -> 1 .. MaxVersion]

(* A package somebody may archive.                                           *)
Source(entry) ==
    /\ entry.kind = "dir" /\ entry.files \in Whole /\ entry.manifest \in Whole
    /\ entry.edited \/ entry.files = entry.manifest

Copied(entry, asset) == entry.edited \/ entry.files[asset] = entry.manifest[asset]

(* What an archiving process has written.                                    *)
ZipInv(p) ==
    /\ pc[p] # "zip_manifest" => At(p).manifest = disk[Directory(p)].manifest
    /\ pc[p] = "zip_copy" => \A asset \in Assets \ todo[p] : Copied(At(p), asset)
    /\ pc[p] \in {"zip_close", "zip_sync", "publish"} => \A asset \in Assets : Copied(At(p), asset)
    /\ pc[p] \in {"zip_sync", "publish"} => At(p).sealed
    /\ pc[p] = "publish" => At(p).durable

DraftInv(p) ==
    /\ At(p).kind = Kind(p) /\ At(p).files \in Part
    /\ Operation(p) # "archive" /\ pc[p] = "publish" =>
          At(p).files \in Whole /\ At(p).files = At(p).manifest
    /\ Operation(p) = "archive" => ZipInv(p)

MemoryInv == \A p \in Processes : memory[p] \in Part
SourceInv ==
    \A p \in Processes :
        Operation(p) = "archive" /\ pc[p] \in Working => Source(disk[Directory(p)])
WorkInv == \A p \in Processes : pc[p] \in Owning => DraftInv(p)

(* What may be at an output, once it was published.                          *)
PublishedInv(entry) ==
    /\ entry.kind = "dir" => Spoiled(entry) \/ Source(entry)
    /\ entry.kind = "zip" =>
          /\ entry.manifest \in Whole /\ entry.sealed /\ entry.durable /\ ~Spoiled(entry)
          /\ entry.edited \/ entry.files = entry.manifest
ShelfInv == \A path \in Outputs : ~IsAbsent(disk[path]) => PublishedInv(disk[path])

(* A power failure brings back nothing but archives, in place of archives.   *)
UndoInv ==
    \A path \in Outputs : \A entry \in undo[path] :
        ~IsAbsent(entry) =>
            entry.kind = "zip" /\ PublishedInv(entry) /\ disk[path].kind = "zip"

ContentInv == MemoryInv /\ SourceInv /\ WorkInv /\ ShelfInv /\ UndoInv

LEMMA InitContent == Init => ContentInv
  <1> SUFFICES ASSUME Init PROVE ContentInv
    OBVIOUS
  <1>1. Nothing \in Part
    BY VersionAssumption DEF Nothing, Part
  <1>2. MemoryInv
    BY <1>1 DEF Init, MemoryInv
  <1>3. SourceInv /\ WorkInv
    BY DEF Init, SourceInv, WorkInv, Owning, Working
  <1>4. IsAbsent(Absent)
    BY EntryTyped DEF Absent, IsAbsent
  <1>5. ShelfInv
    BY <1>4 DEF Init, ShelfInv, Paths
  <1>6. UndoInv
    BY DEF Init, UndoInv
  <1> QED
    BY <1>2, <1>3, <1>5, <1>6 DEF ContentInv

(* The directory a process archives stays as it is while processes step.     *)
LEMMA SourceKept ==
    ASSUME Owned, ContentInv, NEW q \in Processes, Run(q) \/ Fail(q) \/ Kill(q), UNCHANGED job,
           NEW p \in Processes, Operation(p) = "archive", pc[p] \in Working
    PROVE  disk'[Directory(p)] = disk[Directory(p)] /\ Source(disk[Directory(p)])
  <1>1. Source(disk[Directory(p)]) /\ Directory(p) \in Outputs
    BY JobTyped DEF ContentInv, SourceInv, Owned
  <1>2. disk[Directory(p)].kind = "dir"
    BY <1>1 DEF Source
  <1> QED
    BY <1>1, <1>2, OutputsKept DEF IsAbsent

LEMMA NextSource ==
    ASSUME Owned, ContentInv, NEW q \in Processes, Run(q) \/ Fail(q) \/ Kill(q), UNCHANGED job
    PROVE  SourceInv'
  <1> SUFFICES ASSUME NEW p \in Processes, Operation(p) = "archive", pc'[p] \in Working
               PROVE  Source(disk'[Directory(p)])
    BY DEF SourceInv, Operation, Directory, Source
  <1>1. CASE pc[p] \in Working
    BY <1>1, SourceKept
  <1>2. CASE pc[p] \notin Working
    <2>1. p = q
      BY <1>2, OnlyOwn DEF Owned
    <2>2. Check(p)
      BY <1>2, <2>1 DEF Run, Check, MakeTemporary, ReadAsset, WriteAsset, CopyAsset, HashAsset,
                        WriteManifest, Verify, ZipManifest, ZipAsset, ZipClose, ZipSync, Publish,
                        PublishFails, Confirm, Cleanup, CleanupFails, Fail, Kill, Goto, Return, Working,
                        Owned, Typed, TypeOK
    <2>3. Loads(disk[Directory(p)])
      BY <2>2 DEF Check, Return, Goto, Working, Owned, Typed, TypeOK
    <2>4. Directory(p) \in Outputs /\ disk[Directory(p)].kind = "dir"
          /\ ~IsAbsent(disk[Directory(p)])
      BY <2>3, JobTyped DEF Owned, Loads, IsAbsent
    <2>5. Spoiled(disk[Directory(p)]) \/ Source(disk[Directory(p)])
      BY <2>4 DEF ContentInv, ShelfInv, PublishedInv
    <2>6. Source(disk[Directory(p)])
      BY <2>3, <2>5, VersionAssumption DEF Loads, Complete, Spoiled, Garbage
    <2>7. disk' = disk
      BY <2>2 DEF Check
    <2> QED
      BY <2>6, <2>7
  <1> QED
    BY <1>1, <1>2

LEMMA NextMemory ==
    ASSUME Owned, ContentInv, NEW q \in Processes, Run(q) \/ Fail(q) \/ Kill(q), UNCHANGED job
    PROVE  MemoryInv'
  <1>1. \A p \in Processes \ {q} : memory'[p] \in Part
    BY OnlyOwn DEF Owned, ContentInv, MemoryInv
  <1>2. memory[q] \in Part
    BY DEF ContentInv, MemoryInv
  <1>3. CASE ReadAsset(q)
    <2>1. PICK asset \in Assets : memory' = [memory EXCEPT ![q][asset] = source[asset]]
      BY <1>3 DEF ReadAsset, Owned, Typed, TypeOK
    <2>2. [memory[q] EXCEPT ![asset] = source[asset]] \in Part
      BY <1>2 DEF Part, Owned, Typed, TypeOK
    <2> QED
      BY <1>1, <2>1, <2>2 DEF MemoryInv, Owned, Typed, TypeOK
  <1>4. CASE HashAsset(q)
    <2>1. At(q).files \in Part
      BY <1>4 DEF HashAsset, ContentInv, WorkInv, DraftInv, Owning, Working
    <2>2. \/ memory' = memory
          \/ \E asset \in Assets : memory' = [memory EXCEPT ![q][asset] = At(q).files[asset]]
      BY <1>4 DEF HashAsset, Owned, Typed, TypeOK
    <2>3. \A asset \in Assets : [memory[q] EXCEPT ![asset] = At(q).files[asset]] \in Part
      BY <1>2, <2>1 DEF Part
    <2> QED
      BY <1>1, <1>2, <2>2, <2>3 DEF MemoryInv, Owned, Typed, TypeOK
  <1>5. CASE ~ReadAsset(q) /\ ~HashAsset(q)
    <2>1. memory' = memory
      BY <1>5 DEF Run, Check, MakeTemporary, WriteAsset, CopyAsset, WriteManifest, Verify,
                  ZipManifest, ZipAsset, ZipClose, ZipSync, Publish, PublishFails, Confirm,
                  Cleanup, CleanupFails, Fail, Kill, locals
    <2> QED
      BY <2>1 DEF ContentInv, MemoryInv
  <1> QED
    BY <1>3, <1>4, <1>5

(* The entry a process writes, given what the action writes.                 *)
LEMMA Wrote ==
    ASSUME Owned, NEW q \in Processes, pc[q] \in Owning, UNCHANGED <<job, temporary>>,
           NEW entry, disk' = [disk EXCEPT ![temporary[q]] = entry]
    PROVE  /\ At(q)' = entry
           /\ \A path \in Outputs : disk'[path] = disk[path]
  BY OwnedEntry, PathsAssumption DEF At, Owned, Typed, TypeOK, Paths

(* What the process that takes the step has written so far.                  *)
LEMMA OwnDraft ==
    ASSUME Owned, ContentInv, NEW q \in Processes, Run(q) \/ Fail(q) \/ Kill(q), UNCHANGED job,
           pc'[q] \in Owning
    PROVE  DraftInv(q)'
  <1>1. pc[q] \in Owning \/ MakeTemporary(q)
    <2>1. CASE Quiet \/ Works(q)
      BY <2>1 DEF Quiet, Works, NoneStarts
    <2>2. ~Publish(q) /\ ~Cleanup(q)
      BY PublishLeaves DEF Cleanup, Goto, Owning, Working, Owned, Typed, TypeOK
    <2> QED
      BY <2>1, <2>2, QuietOrWorks
  <1>2. UNCHANGED job /\ Operation(q)' = Operation(q) /\ Kind(q)' = Kind(q)
        /\ Directory(q)' = Directory(q)
    BY DEF Operation, Kind, Directory
  <1>3. pc[q] \in Owning => DraftInv(q)
    BY DEF ContentInv, WorkInv
  <1>4. pc[q] \in Owning => (At(q).files \in Part /\ At(q).kind = Kind(q) /\ At(q) \in Entries)
    BY <1>3, OwnedEntry DEF DraftInv
  <1>5. /\ pc[q] \in ZipSteps => Operation(q) = "archive"
        /\ pc[q] \in DirSteps => Operation(q) # "archive"
        /\ pc'[q] \in ZipSteps => Operation(q) = "archive"
        /\ pc'[q] \in DirSteps => Operation(q) # "archive"
    <2>1. Typed'
      BY NextTyped DEF Owned, Next
    <2> QED
      BY <1>2, <2>1 DEF Owned, Typed, PlaceInv
  <1>6. Operation(q) = "archive" /\ pc[q] \in Owning =>
          Source(disk[Directory(q)]) /\ disk'[Directory(q)] = disk[Directory(q)]
    BY SourceKept DEF Owning
  <1>7. /\ At(q)'.kind = At(q).kind /\ At(q)'.files \in Part /\ Operation(q) # "archive"
        /\ pc[q] \in Owning /\ pc'[q] # "publish"
        => DraftInv(q)'
    BY <1>2, <1>4 DEF DraftInv
  <1> USE DEF Owned, Typed, TypeOK
  <1>8. CASE MakeTemporary(q)
    <2>1. PICK name \in Names :
            /\ temporary'[q] = name
            /\ \A path \in Paths :
                  disk'[path] = IF path = name THEN Entry(Kind(q), q) ELSE disk[path]
      BY <1>8, Made
    <2>2. At(q)' = Entry(Kind(q), q)
      BY <2>1 DEF At, Paths
    <2>3. At(q)'.kind = Kind(q)' /\ At(q)'.files \in Part
      <3>1. Nothing \in Part
        BY VersionAssumption DEF Nothing, Part
      <3>2. Entry(Kind(q), q).kind = Kind(q) /\ Entry(Kind(q), q).files = Nothing
        BY EntryTyped DEF Kind
      <3> QED
        BY <1>2, <2>2, <3>1, <3>2
    <2>4. pc'[q] = FirstLoop[Operation(q)] /\ Operation(q) \in Operations
      BY <1>8, JobTyped DEF MakeTemporary, Start, Goto
    <2>5. /\ pc'[q] \in {"copy", "read", "zip_manifest"}
          /\ Operation(q) = "archive" => pc'[q] = "zip_manifest"
      BY <2>4 DEF FirstLoop, Operations
    <2> QED
      BY <1>2, <2>3, <2>5 DEF DraftInv, ZipInv
  <1>9. CASE ReadAsset(q)
    <2>1. At(q)' = At(q) /\ pc[q] = "read" /\ pc'[q] \in {"read", "write"}
      BY <1>9 DEF ReadAsset, Handled, Start, Goto, At
    <2> QED
      BY <1>4, <1>5, <1>7, <2>1 DEF DirSteps, Owning, Working
  <1>10. CASE WriteAsset(q) \/ CopyAsset(q)
    <2>1. PICK asset \in Assets, version \in 0 .. MaxVersion : Holding(q, asset, version)
      <3>1. memory[q] \in Part
        BY DEF ContentInv, MemoryInv
      <3> QED
        BY <1>10, <3>1 DEF WriteAsset, CopyAsset, Part
    <2>2. /\ pc[q] \in {"write", "copy"} /\ pc[q] \in Owning /\ pc[q] \in DirSteps
          /\ pc'[q] # "publish" /\ UNCHANGED temporary
      BY <1>10 DEF WriteAsset, CopyAsset, Handled, Start, Goto, Owning, Working, DirSteps
    <2>3. disk' = [disk EXCEPT ![temporary[q]] = [At(q) EXCEPT !.files[asset] = version]]
      BY <2>1, <2>2, OwnedEntry DEF Holding
    <2>4. At(q)' = [At(q) EXCEPT !.files[asset] = version]
      BY <2>2, <2>3, Wrote
    <2>5. At(q)'.kind = At(q).kind /\ At(q)'.files = [At(q).files EXCEPT ![asset] = version]
      BY <1>4, <2>2, <2>4 DEF Entries
    <2>6. At(q)'.files \in Part
      BY <1>4, <2>2, <2>5 DEF Part
    <2> QED
      BY <1>5, <1>7, <2>2, <2>5, <2>6
  <1>11. CASE HashAsset(q)
    <2>1. At(q)' = At(q) /\ pc[q] = "hash" /\ pc'[q] # "publish"
      BY <1>11 DEF HashAsset, Handled, Return, Start, Goto, At
    <2> QED
      BY <1>4, <1>5, <1>7, <2>1 DEF DirSteps, Owning, Working
  <1>12. CASE WriteManifest(q)
    <2>1. pc[q] = "manifest" /\ pc[q] \in Owning /\ pc[q] \in DirSteps /\ pc'[q] # "publish"
          /\ UNCHANGED temporary
      BY <1>12 DEF WriteManifest, Goto, Return, Owning, Working, DirSteps
    <2>2. At(q)'.kind = At(q).kind /\ At(q)'.files = At(q).files
      <3>1. CASE At(q).kind = "dir"
        <4>1. disk' = [disk EXCEPT ![temporary[q]] = [At(q) EXCEPT !.manifest = memory[q]]]
          BY <1>12, <3>1 DEF WriteManifest, At
        <4>2. At(q)' = [At(q) EXCEPT !.manifest = memory[q]]
          BY <2>1, <4>1, Wrote
        <4> QED
          BY <1>4, <2>1, <4>2 DEF Entries
      <3>2. CASE At(q).kind # "dir"
        BY <1>12, <3>2 DEF WriteManifest, At
      <3> QED
        BY <3>1, <3>2
    <2> QED
      BY <1>4, <1>5, <1>7, <2>1, <2>2
  <1>13. CASE Verify(q)
    <2>1. /\ At(q)' = At(q) /\ pc[q] = "verify" /\ pc[q] \in Owning /\ pc[q] \in DirSteps
          /\ pc'[q] \in {"publish", "cleanup"}
          /\ pc'[q] = "publish" => Loads(At(q))
      BY <1>13 DEF Verify, Goto, Return, At, Owning, Working, DirSteps
    <2>2. Loads(At(q)) => At(q).files \in Whole /\ At(q).files = At(q).manifest
      BY <1>4, <2>1 DEF Loads, Complete, Part, Whole
    <2> QED
      BY <1>2, <1>4, <1>5, <2>1, <2>2 DEF DraftInv
  <1>14. CASE ZipManifest(q)
    <2>1. /\ pc[q] = "zip_manifest" /\ pc[q] \in Owning /\ pc[q] \in ZipSteps
          /\ pc'[q] = "zip_copy" /\ todo'[q] = Assets /\ UNCHANGED temporary
      BY <1>14 DEF ZipManifest, Start, Goto, Owning, Working, ZipSteps
    <2>2. disk' = [disk EXCEPT ![temporary[q]] =
             [At(q) EXCEPT !.manifest = disk[Directory(q)].manifest]]
      BY <1>14, <2>1, OwnedEntry DEF ZipManifest, Archived
    <2>3. At(q)' = [At(q) EXCEPT !.manifest = disk[Directory(q)].manifest]
      BY <2>1, <2>2, Wrote
    <2>4. /\ At(q)'.kind = At(q).kind /\ At(q)'.files = At(q).files
          /\ At(q)'.manifest = disk[Directory(q)].manifest
      BY <1>4, <2>1, <2>3 DEF Entries
    <2>5. ZipInv(q)'
      BY <1>2, <1>5, <1>6, <2>1, <2>4 DEF ZipInv
    <2> QED
      BY <1>2, <1>4, <2>1, <2>4, <2>5 DEF DraftInv
  <1>15. CASE ZipAsset(q)
    <2> DEFINE package == disk[Directory(q)]
    <2>1. PICK asset \in todo[q] :
            /\ Archived(q, [At(q) EXCEPT !.files[asset] = package.files[asset],
                                         !.edited = @ \/ package.edited])
            /\ Handled(q, asset, {}, "zip_close")
      BY <1>15 DEF ZipAsset
    <2>2. /\ pc[q] = "zip_copy" /\ pc[q] \in Owning /\ pc[q] \in ZipSteps
          /\ asset \in Assets /\ UNCHANGED temporary
      BY <1>15, <2>1 DEF ZipAsset, Owning, Working, ZipSteps
    <2>3. \/ pc'[q] = "zip_copy" /\ todo'[q] = todo[q] \ {asset}
          \/ pc'[q] = "zip_close" /\ todo[q] \ {asset} = {}
      BY <2>1, <2>2 DEF Handled, Start, Goto
    <2>4. disk' = [disk EXCEPT ![temporary[q]] =
             [At(q) EXCEPT !.files[asset] = package.files[asset], !.edited = @ \/ package.edited]]
      BY <2>1, <2>2, OwnedEntry DEF Archived
    <2>5. At(q)' = [At(q) EXCEPT !.files[asset] = package.files[asset],
                                 !.edited = @ \/ package.edited]
      BY <2>2, <2>4, Wrote
    <2>6. /\ At(q)'.kind = At(q).kind /\ At(q)'.manifest = At(q).manifest
          /\ At(q)'.edited = (At(q).edited \/ package.edited)
          /\ At(q)'.files = [At(q).files EXCEPT ![asset] = package.files[asset]]
      BY <1>4, <2>2, <2>5 DEF Entries
    <2>7. Source(package) /\ disk'[Directory(q)] = package /\ At(q).manifest = package.manifest
      BY <1>3, <1>5, <1>6, <2>2 DEF DraftInv, ZipInv
    <2>8. At(q)'.files \in Part
      BY <1>4, <2>2, <2>6, <2>7 DEF Source, Part, Whole
    <2>9. \A other \in Assets : other = asset \/ Copied(At(q), other) => Copied(At(q)', other)
      <3> SUFFICES ASSUME NEW other \in Assets, other = asset \/ Copied(At(q), other)
                   PROVE  Copied(At(q)', other)
        OBVIOUS
      <3>1. At(q)'.files[other] = IF other = asset THEN package.files[other] ELSE At(q).files[other]
        BY <1>4, <2>2, <2>6 DEF Part
      <3> HIDE DEF package
      <3> QED
        BY <2>6, <2>7, <3>1 DEF Copied, Source
    <2>10. \A other \in Assets \ todo[q] : Copied(At(q), other)
      BY <1>3, <1>5, <2>2 DEF DraftInv, ZipInv
    <2>11. ZipInv(q)'
      <3>1. \A other \in Assets : Copied(At(q), other)' <=> Copied(At(q)', other)
        BY DEF Copied
      <3>2. pc'[q] = "zip_copy" => \A other \in Assets \ todo'[q] : Copied(At(q)', other)
        BY <2>3, <2>9, <2>10
      <3>3. pc'[q] = "zip_close" => \A other \in Assets : Copied(At(q)', other)
        BY <2>3, <2>9, <2>10
      <3>4. At(q)'.manifest = disk'[Directory(q)].manifest
        BY <2>6, <2>7
      <3> QED
        BY <1>2, <2>3, <3>1, <3>2, <3>3, <3>4 DEF ZipInv
    <2> QED
      BY <1>2, <1>4, <2>2, <2>3, <2>6, <2>8, <2>11 DEF DraftInv
  <1>16. CASE ZipClose(q)
    <2>1. /\ pc[q] = "zip_close" /\ pc[q] \in Owning /\ pc[q] \in ZipSteps
          /\ pc'[q] = "zip_sync" /\ UNCHANGED temporary
      BY <1>16 DEF ZipClose, Goto, locals, Owning, Working, ZipSteps
    <2>2. disk' = [disk EXCEPT ![temporary[q]] = [At(q) EXCEPT !.sealed = TRUE]]
      BY <1>16, <2>1, OwnedEntry DEF ZipClose, Archived
    <2>3. At(q)' = [At(q) EXCEPT !.sealed = TRUE]
      BY <2>1, <2>2, Wrote
    <2>4. /\ At(q)'.kind = At(q).kind /\ At(q)'.files = At(q).files /\ At(q)'.sealed
          /\ At(q)'.manifest = At(q).manifest /\ At(q)'.edited = At(q).edited
      BY <1>4, <2>1, <2>3 DEF Entries
    <2>5. ZipInv(q)
      BY <1>3, <1>5, <2>1 DEF DraftInv
    <2>6. ZipInv(q)'
      BY <1>2, <1>5, <1>6, <2>1, <2>4, <2>5 DEF ZipInv, Copied
    <2> QED
      BY <1>2, <1>4, <1>5, <2>1, <2>4, <2>6 DEF DraftInv
  <1>17. CASE ZipSync(q)
    <2>1. /\ pc[q] = "zip_sync" /\ pc[q] \in Owning /\ pc[q] \in ZipSteps
          /\ pc'[q] = "publish" /\ UNCHANGED temporary
      BY <1>17 DEF ZipSync, Goto, locals, Owning, Working, ZipSteps
    <2>2. disk' = [disk EXCEPT ![temporary[q]] = [At(q) EXCEPT !.durable = TRUE]]
      BY <1>17, <2>1, OwnedEntry DEF ZipSync, Synced, Archived
    <2>3. At(q)' = [At(q) EXCEPT !.durable = TRUE]
      BY <2>1, <2>2, Wrote
    <2>4. /\ At(q)'.kind = At(q).kind /\ At(q)'.files = At(q).files /\ At(q)'.durable
          /\ At(q)'.manifest = At(q).manifest /\ At(q)'.edited = At(q).edited
          /\ At(q)'.sealed = At(q).sealed
      BY <1>4, <2>1, <2>3 DEF Entries
    <2>5. ZipInv(q)
      BY <1>3, <1>5, <2>1 DEF DraftInv
    <2>6. ZipInv(q)'
      BY <1>2, <1>5, <1>6, <2>1, <2>4, <2>5 DEF ZipInv, Copied
    <2> QED
      BY <1>2, <1>4, <1>5, <2>1, <2>4, <2>6 DEF DraftInv
  <1>18. CASE Check(q) \/ Publish(q) \/ PublishFails(q) \/ Confirm(q) \/ Cleanup(q)
              \/ CleanupFails(q) \/ Fail(q) \/ Kill(q)
    <2>1. pc'[q] \notin Owning
      BY <1>18 DEF Check, Publish, PublishFails, Confirm, Cleanup, CleanupFails, Fail, Kill, Goto, Return,
                   Owning, Working
    <2> QED
      BY <2>1
  <1> QED
    BY <1>8, <1>9, <1>10, <1>11, <1>12, <1>13, <1>14, <1>15, <1>16, <1>17, <1>18 DEF Run

LEMMA NextWork ==
    ASSUME Owned, ContentInv, NEW q \in Processes, Run(q) \/ Fail(q) \/ Kill(q), UNCHANGED job
    PROVE  WorkInv'
  <1> SUFFICES ASSUME NEW p \in Processes, p # q, pc'[p] \in Owning PROVE DraftInv(p)'
    BY OwnDraft DEF WorkInv
  <1>1. /\ pc'[p] = pc[p] /\ temporary'[p] = temporary[p] /\ todo'[p] = todo[p]
        /\ pc[p] \in Owning
    BY OnlyOwn DEF Owned
  <1>2. At(p)' = At(p)
    BY <1>1, OthersKept DEF At
  <1>3. Operation(p)' = Operation(p) /\ Kind(p)' = Kind(p) /\ Directory(p)' = Directory(p)
    BY DEF Operation, Kind, Directory
  <1>4. Operation(p) = "archive" => disk'[Directory(p)] = disk[Directory(p)]
    BY <1>1, SourceKept DEF Owning
  <1>5. DraftInv(p)
    BY <1>1 DEF ContentInv, WorkInv
  <1>6. Operation(p) = "archive" => ZipInv(p)'
    BY <1>1, <1>2, <1>3, <1>4, <1>5 DEF DraftInv, ZipInv, Copied
  <1> QED
    BY <1>1, <1>2, <1>3, <1>5, <1>6 DEF DraftInv

(* What is about to be published.                                            *)
LEMMA ReadyToPublish ==
    ASSUME Owned, ContentInv, NEW q \in Processes, Publish(q)
    PROVE  /\ PublishedInv(At(q)) /\ ~IsAbsent(At(q)) /\ At(q).by = q
           /\ At(q).kind = Kind(q) /\ Kind(q) \in {"dir", "zip"}
           /\ At(q).manifest \in Whole /\ ~Spoiled(At(q))
           /\ At(q).edited \/ At(q).files = At(q).manifest
  <1>1. pc[q] = "publish" /\ pc[q] \in Owning /\ pc[q] \in Working
    BY DEF Publish, Owning, Working
  <1>2. DraftInv(q) /\ At(q).kind = Kind(q) /\ At(q) \in Entries /\ At(q).by = q /\ ~IsAbsent(At(q))
    BY <1>1, OwnedEntry DEF ContentInv, WorkInv, DraftInv
  <1>3. At(q).files \in Part /\ ~Spoiled(At(q))
    BY <1>2, VersionAssumption DEF DraftInv, Part, Spoiled, Garbage
  <1>4. CASE Operation(q) = "archive"
    <2>1. ZipInv(q) /\ Source(disk[Directory(q)])
      BY <1>1, <1>2, <1>4 DEF DraftInv, ContentInv, SourceInv
    <2>2. At(q).manifest \in Whole /\ At(q).sealed /\ At(q).durable
          /\ \A asset \in Assets : Copied(At(q), asset)
      BY <1>1, <2>1 DEF ZipInv, Source
    <2>3. At(q).edited \/ At(q).files = At(q).manifest
      BY <1>3, <2>2 DEF Copied, Part, Whole
    <2> QED
      BY <1>2, <1>3, <1>4, <2>2, <2>3 DEF PublishedInv, Kind
  <1>5. CASE Operation(q) # "archive"
    <2>1. At(q).files \in Whole /\ At(q).files = At(q).manifest /\ Kind(q) = "dir"
      BY <1>1, <1>2, <1>5 DEF DraftInv, Kind
    <2>2. PublishedInv(At(q))
      BY <1>2, <2>1 DEF PublishedInv, Source
    <2> QED
      BY <1>2, <1>3, <2>1, <2>2
  <1> QED
    BY <1>4, <1>5

LEMMA NextShelf ==
    ASSUME Owned, ContentInv, NEW q \in Processes, Run(q) \/ Fail(q) \/ Kill(q), UNCHANGED job
    PROVE  ShelfInv'
  <1> SUFFICES ASSUME NEW path \in Outputs, ~IsAbsent(disk'[path]) PROVE PublishedInv(disk'[path])
    BY DEF ShelfInv, PublishedInv, IsAbsent, Spoiled, Source
  <1>1. CASE disk'[path] = disk[path]
    BY <1>1 DEF ContentInv, ShelfInv
  <1>2. CASE Publish(q) /\ disk'[path] = At(q)
    BY <1>2, ReadyToPublish
  <1> QED
    BY <1>1, <1>2, OutputsKept

(* What a rename meets may come back.                                        *)
LEMMA UndoKept ==
    ASSUME Owned, NEW q \in Processes, Run(q) \/ Fail(q) \/ Kill(q), UNCHANGED job
    PROVE  undo' = undo \/ Publish(q)
  <1>1. CASE MakeTemporary(q) \/ Cleanup(q)
    BY <1>1 DEF MakeTemporary, Cleanup
  <1>2. CASE Quiet \/ Works(q)
    BY <1>2 DEF Quiet, Works
  <1> QED
    BY <1>1, <1>2, QuietOrWorks

LEMMA Displaced ==
    ASSUME Owned, ContentInv, NEW q \in Processes, Publish(q), NEW path \in Outputs,
           NEW entry \in undo'[path]
    PROVE  entry \in undo[path] \/ (path = Output(q) /\ entry = disk[path]
                                   /\ (~IsAbsent(entry) => entry.kind = "zip"))
  <1>1. undo' = [undo EXCEPT ![Output(q)] = undo[Output(q)] \cup {Target(q)}]
    BY DEF Publish
  <1>2. ~IsAbsent(Target(q)) => Target(q).kind = "zip"
    BY DEF Publish, MayReplace
  <1> QED
    BY <1>1, <1>2 DEF Target, Owned, Typed, TypeOK

LEMMA NextUndo ==
    ASSUME Owned, ContentInv, NEW q \in Processes, Run(q) \/ Fail(q) \/ Kill(q), UNCHANGED job
    PROVE  UndoInv'
  <1> SUFFICES ASSUME NEW path \in Outputs, NEW entry \in undo'[path], ~IsAbsent(entry)
               PROVE  entry.kind = "zip" /\ PublishedInv(entry) /\ disk'[path].kind = "zip"
    BY DEF UndoInv, PublishedInv, IsAbsent, Spoiled, Source
  <1>1. disk[path].kind = "zip" => disk'[path].kind = "zip"
    BY OutputsKept DEF IsAbsent
  <1>2. CASE entry \in undo[path]
    BY <1>1, <1>2 DEF ContentInv, UndoInv
  <1>3. CASE entry \notin undo[path]
    <2>1. Publish(q)
      BY <1>3, UndoKept
    <2>2. path = Output(q) /\ entry = disk[path] /\ entry.kind = "zip"
      BY <1>3, <2>1, Displaced
    <2> QED
      BY <1>1, <2>2 DEF ContentInv, ShelfInv
  <1> QED
    BY <1>2, <1>3

(* Edits and power failures.                                                 *)
LEMMA EditContent ==
    ASSUME Owned, ContentInv, NEW path \in Outputs, NEW asset \in Assets,
           EditPublished(path, asset), UNCHANGED job
    PROVE  ContentInv'
  <1> DEFINE old == disk[path]
             new == [old EXCEPT !.files[asset] = old.files[asset] + 1, !.edited = TRUE]
  <1>1. /\ path \in Paths /\ path \notin Names /\ old \in Entries /\ old.kind = "dir"
        /\ old.files[asset] \in 1 .. MaxVersion - 1
        /\ UNCHANGED <<job, pc, temporary, todo, memory>>
    BY PathsAssumption DEF EditPublished, Paths, Owned, Typed, TypeOK, locals
  <1>2. disk' = [disk EXCEPT ![path] = new]
    BY DEF EditPublished
  <1>3. /\ new.kind = "dir" /\ new.manifest = old.manifest /\ new.edited
        /\ new.files = [old.files EXCEPT ![asset] = old.files[asset] + 1]
    BY <1>1 DEF Entries
  <1> HIDE DEF old, new
  <1>4. \A other \in Paths : disk'[other] = IF other = path THEN new ELSE disk[other]
    BY <1>1, <1>2 DEF Owned, Typed, TypeOK
  <1>5. MemoryInv'
    BY <1>1 DEF ContentInv, MemoryInv
  <1>6. old.files \in Whole => new.files \in Whole
    BY <1>1, <1>3, VersionAssumption DEF Whole
  <1>7. SourceInv'
    <2> SUFFICES ASSUME NEW p \in Processes, Operation(p) = "archive", pc[p] \in Working
                 PROVE  Source(disk'[Directory(p)])
      BY <1>1 DEF SourceInv, Operation, Directory, Source
    <2>1. Source(disk[Directory(p)]) /\ Directory(p) \in Paths
      BY JobTyped DEF ContentInv, SourceInv, Owned, Paths
    <2> QED
      BY <1>3, <1>4, <1>6, <2>1 DEF Source, old
  <1>8. WorkInv'
    <2> SUFFICES ASSUME NEW p \in Processes, pc[p] \in Owning PROVE DraftInv(p)'
      BY <1>1 DEF WorkInv
    <2>1. At(p)' = At(p) /\ DraftInv(p)
      BY <1>1, <1>4, OwnedEntry DEF At, ContentInv, WorkInv
    <2>2. Operation(p)' = Operation(p) /\ Kind(p)' = Kind(p) /\ Directory(p)' = Directory(p)
      BY <1>1 DEF Operation, Kind, Directory
    <2>3. disk'[Directory(p)].manifest = disk[Directory(p)].manifest
      BY <1>3, <1>4, JobTyped DEF Owned, Paths, old
    <2>4. Operation(p) = "archive" => ZipInv(p)'
      BY <1>1, <2>1, <2>2, <2>3 DEF DraftInv, ZipInv, Copied
    <2> QED
      BY <1>1, <2>1, <2>2, <2>4 DEF DraftInv
  <1>9. ShelfInv'
    <2> SUFFICES ASSUME NEW other \in Outputs, ~IsAbsent(disk'[other])
                 PROVE  PublishedInv(disk'[other])
      BY DEF ShelfInv, PublishedInv, IsAbsent, Spoiled, Source
    <2>1. CASE other = path
      <3>1. Spoiled(old) \/ Source(old)
        BY <1>1 DEF ContentInv, ShelfInv, IsAbsent, PublishedInv, old
      <3>2. Source(old) => Source(new)
        BY <1>3, <1>6 DEF Source
      <3>3. ASSUME Spoiled(old) PROVE Spoiled(new)
        <4>1. PICK other_asset \in Assets : old.files[other_asset] = Garbage
          BY <3>3 DEF Spoiled
        <4>2. other_asset # asset /\ old.files \in Contents
          BY <1>1, <4>1, VersionAssumption DEF Garbage, Entries
        <4>3. new.files[other_asset] = Garbage
          BY <1>3, <4>1, <4>2 DEF Contents
        <4> QED
          BY <4>3 DEF Spoiled
      <3>4. PublishedInv(new)
        BY <1>3, <3>1, <3>2, <3>3 DEF PublishedInv
      <3> QED
        BY <1>1, <1>4, <2>1, <3>4
    <2>2. CASE other # path
      BY <1>4, <2>2 DEF ContentInv, ShelfInv, Paths
    <2> QED
      BY <2>1, <2>2
  <1>10. UndoInv'
    <2>1. undo' = undo
      BY DEF EditPublished
    <2>2. \A other \in Outputs : disk'[other].kind = disk[other].kind
      BY EditKeeps DEF Owned, Paths
    <2> SUFFICES ASSUME NEW other \in Outputs, NEW entry \in undo[other], ~IsAbsent(entry)
                 PROVE  entry.kind = "zip" /\ PublishedInv(entry) /\ disk'[other].kind = "zip"
      BY <2>1 DEF UndoInv, PublishedInv, IsAbsent, Spoiled, Source
    <2> QED
      BY <2>2 DEF ContentInv, UndoInv
  <1> QED
    BY <1>5, <1>7, <1>8, <1>9, <1>10 DEF ContentInv

(* Only directories lose their contents: they are never synced.              *)
LEMMA TornSpoils ==
    ASSUME NEW old \in Entries, PublishedInv(old), ~IsAbsent(old), ~old.durable
    PROVE  old.kind = "dir" /\ Spoiled(Torn(old)) /\ Torn(old).kind = "dir" /\ Torn(old).by = old.by
  <1>1. old.kind = "dir" /\ (Spoiled(old) \/ Source(old))
    BY DEF PublishedInv, Entries, IsAbsent
  <1>2. Torn(old).kind = old.kind /\ Torn(old).by = old.by /\ Torn(old).files = Garbled(old.files)
    BY TornKeeps
  <1>3. PICK asset \in Assets : old.files[asset] # 0
    <2>1. CASE Spoiled(old)
      BY <2>1, VersionAssumption DEF Spoiled, Garbage
    <2>2. CASE Source(old)
      BY <2>2, VersionAssumption DEF Source, Whole
    <2> QED
      BY <1>1, <2>1, <2>2
  <1>4. Spoiled(Torn(old))
    BY <1>2, <1>3 DEF Spoiled, Garbled
  <1> QED
    BY <1>1, <1>2, <1>4

LEMMA PowerContent ==
    ASSUME Owned, ContentInv, PowerFailure, UNCHANGED job
    PROVE  ContentInv'
  <1>1. \A p \in Processes : pc'[p] \notin Working
    BY PowerLeaves DEF Working, Owned
  <1>2. MemoryInv'
    BY DEF PowerFailure, locals, ContentInv, MemoryInv
  <1>3. SourceInv' /\ WorkInv'
    BY <1>1 DEF SourceInv, WorkInv, Owning
  <1>4. ShelfInv'
    <2> SUFFICES ASSUME NEW path \in Outputs, ~IsAbsent(disk'[path])
                 PROVE  PublishedInv(disk'[path])
      BY DEF ShelfInv, PublishedInv, IsAbsent, Spoiled, Source
    <2>1. path \in Paths /\ disk[path] \in Entries
      BY DEF Paths, Owned, Typed, TypeOK
    <2>2. CASE disk'[path] = disk[path]
      BY <2>1, <2>2 DEF ContentInv, ShelfInv
    <2>3. CASE disk'[path] \in undo[path]
      BY <2>3 DEF ContentInv, UndoInv
    <2>4. CASE ~IsAbsent(disk[path]) /\ ~disk[path].durable /\ disk'[path] = Torn(disk[path])
      <3>1. PublishedInv(disk[path])
        BY <2>4 DEF ContentInv, ShelfInv
      <3>2. Torn(disk[path]).kind = "dir" /\ Spoiled(Torn(disk[path]))
        BY <2>1, <2>4, <3>1, TornSpoils
      <3> QED
        BY <2>4, <3>2 DEF PublishedInv
    <2> QED
      BY <2>1, <2>2, <2>3, <2>4, PowerLeaves DEF Owned
  <1>5. UndoInv'
    BY PowerLeaves DEF UndoInv, Owned
  <1> QED
    BY <1>2, <1>3, <1>4, <1>5 DEF ContentInv

LEMMA NextContent == Owned /\ ContentInv /\ [Next]_vars => ContentInv'
  <1> SUFFICES ASSUME Owned, ContentInv, [Next]_vars PROVE ContentInv'
    OBVIOUS
  <1>1. ASSUME NEW p \in Processes, Run(p) \/ Fail(p) \/ Kill(p), UNCHANGED job PROVE ContentInv'
    BY <1>1, NextMemory, NextSource, NextWork, NextShelf, NextUndo DEF ContentInv
  <1>2. ASSUME UNCHANGED <<job, disk, pc, temporary, todo, memory, undo>> PROVE ContentInv'
    <2>1. MemoryInv' /\ ShelfInv' /\ UndoInv'
      BY <1>2 DEF ContentInv, MemoryInv, ShelfInv, UndoInv
    <2>2. SourceInv'
      BY <1>2 DEF ContentInv, SourceInv, Operation, Directory
    <2>3. WorkInv'
      BY <1>2 DEF ContentInv, WorkInv, DraftInv, ZipInv, At, Kind, Operation, Directory
    <2> QED
      BY <2>1, <2>2, <2>3 DEF ContentInv
  <1>3. ASSUME NEW asset \in Assets, EditSource(asset), UNCHANGED job PROVE ContentInv'
    BY <1>2, <1>3 DEF EditSource, locals
  <1>4. ASSUME UNCHANGED vars PROVE ContentInv'
    BY <1>2, <1>4 DEF vars, locals
  <1> QED
    BY <1>1, <1>3, <1>4, EditContent, PowerContent DEF Next

LEMMA ContentInvariant == NamesApart => (Spec => [](Owned /\ ContentInv))
  <1>1. Init => ContentInv
    BY InitContent
  <1>2. Owned /\ ContentInv /\ [Next]_vars => ContentInv'
    BY NextContent
  <1> QED
    BY <1>1, <1>2, OwnedInvariant, PTL DEF Spec

(* An archive that is published is sealed and synced, whenever the power     *)
(* failed, and it loads unless the package it was made from was edited or the*)
(* archive became too large for LoadArchive.                                 *)
THEOREM ArchivesWhole == NamesApart => (Spec => []ArchiveWhole)
  <1>1. Owned /\ ContentInv => ArchiveWhole
    <2> SUFFICES ASSUME Owned, ContentInv, NEW path \in Outputs, disk[path].kind = "zip"
                 PROVE  /\ disk[path].sealed /\ disk[path].durable
                        /\ \/ disk[path].edited \/ LoadsArchive(disk[path])
                           \/ TooLarge(disk[path]) /\ Complete(disk[path])
      BY DEF ArchiveWhole
    <2>1. PublishedInv(disk[path])
      BY DEF ContentInv, ShelfInv, IsAbsent
    <2>2. disk[path].files = disk[path].manifest => Complete(disk[path])
      BY <2>1 DEF PublishedInv, Complete, Whole
    <2> QED
      BY <2>1, <2>2 DEF PublishedInv, LoadsArchive
  <1> QED
    BY <1>1, ContentInvariant, PTL

-----------------------------------------------------------------------------
(* What is published stays.                                                  *)

(* No two processes archive to one path: the rename of an archive replaces   *)
(* the archive of another.                                                   *)
ArchivesApart ==
    \A assignment \in Assignments : \A p, q \in Processes :
        /\ assignment[p].operation = "archive" /\ assignment[q].operation = "archive"
        /\ assignment[p].output = assignment[q].output
        => p = q

Over == {"cleanup", "done", "littered", "killed", "off"}

StandInv ==
    /\ \A p \in Processes : pc[p] = "confirm" => disk[Output(p)].by = p
    /\ \A p \in Processes : outcome[p] = "ok" =>
          pc[p] \in Over /\ (pc[p] # "off" => disk[Output(p)].by = p)
    /\ \A path \in Outputs : disk[path].kind = "zip" =>
          \E p \in Processes : Operation(p) = "archive" /\ Output(p) = path /\ pc[p] \in Over
    /\ \A path \in Outputs : \A entry \in undo[path] : IsAbsent(entry)

Standing == Owned /\ ContentInv /\ StandInv

LEMMA InitStand == Init => StandInv
  <1> SUFFICES ASSUME Init PROVE StandInv
    OBVIOUS
  <1>1. \A path \in Outputs : disk[path].kind = "absent"
    BY EntryTyped DEF Init, Absent, Paths
  <1> QED
    BY <1>1 DEF Init, StandInv

(* A package is published where there was nothing.                           *)
LEMMA Untaken ==
    ASSUME ArchivesApart, Standing, NEW q \in Processes, Publish(q)
    PROVE  IsAbsent(disk[Output(q)])
  <1> SUFFICES ASSUME ~IsAbsent(disk[Output(q)]) PROVE FALSE
    OBVIOUS
  <1>1. At(q).kind = "zip" /\ disk[Output(q)].kind = "zip" /\ Output(q) \in Outputs
    BY JobTyped DEF Publish, MayReplace, Target, Standing, Owned
  <1>2. Operation(q) = "archive"
    BY <1>1, ReadyToPublish DEF Kind, Standing
  <1>3. PICK p \in Processes : Operation(p) = "archive" /\ Output(p) = Output(q) /\ pc[p] \in Over
    BY <1>1 DEF Standing, StandInv
  <1>4. p = q
    BY <1>2, <1>3 DEF ArchivesApart, Operation, Output, Standing, Owned, Typed, TypeOK
  <1> QED
    BY <1>3, <1>4 DEF Publish, Over

LEMMA StandProcess ==
    ASSUME ArchivesApart, Standing, NEW q \in Processes, Run(q) \/ Fail(q) \/ Kill(q), UNCHANGED job
    PROVE  StandInv'
  <1> USE DEF Standing
  <1>1. \A p \in Processes : Output(p)' = Output(p) /\ Operation(p)' = Operation(p)
                             /\ Output(p) \in Outputs /\ Output(p) \in Paths
    BY JobTyped DEF Output, Operation, Owned, Paths
  <1>2. \A p \in Processes : p # q => pc'[p] = pc[p] /\ outcome'[p] = outcome[p]
    BY OnlyOwn DEF Owned
  <1>3. \A path \in Outputs :
          \/ disk'[path] = disk[path]
          \/ Publish(q) /\ path = Output(q) /\ disk'[path] = At(q) /\ IsAbsent(disk[path])
    BY OutputsKept, Untaken
  <1>4. \A p \in Processes : disk[Output(p)].by = p => disk'[Output(p)].by = p
    <2> SUFFICES ASSUME NEW p \in Processes, disk[Output(p)].by = p PROVE disk'[Output(p)].by = p
      OBVIOUS
    <2>1. ~IsAbsent(disk[Output(p)])
      BY <1>1, PathsAssumption DEF Owned, OwnInv
    <2> QED
      BY <1>1, <1>3, <2>1
  <1>5. Publish(q) => disk'[Output(q)] = At(q) /\ At(q).by = q /\ At(q).kind = Kind(q)
    <2> SUFFICES ASSUME Publish(q)
                 PROVE  disk'[Output(q)] = At(q) /\ At(q).by = q /\ At(q).kind = Kind(q)
      OBVIOUS
    <2>1. At(q).by = q /\ At(q).kind = Kind(q) /\ temporary[q] \in Names
      BY ReadyToPublish, OwnedEntry DEF Publish, Owning, Working
    <2>2. disk'[Output(q)] = At(q)
      BY <2>1, PublishLeaves
    <2> QED
      BY <2>1, <2>2
  <1>6. /\ pc'[q] = "confirm" => Publish(q) \/ (pc[q] = "confirm" /\ pc' = pc)
        /\ outcome'[q] = "ok" =>
             \/ outcome[q] = "ok" /\ pc'[q] \in Over
             \/ Publish(q) /\ pc'[q] \in Over
             \/ Confirm(q) /\ pc'[q] \in Over
        /\ pc[q] \in Over => pc'[q] \in Over
        /\ pc[q] # "off"
    <2> USE DEF Owned, Typed, TypeOK, Goto, Return, Start, Handled, locals, Over, Working, StandInv
    <2>1. CASE Check(q)
      BY <2>1 DEF Check
    <2>2. CASE MakeTemporary(q)
      <3>1. Operation(q) \in Operations
        BY JobTyped
      <3>2. FirstLoop[Operation(q)] \in {"copy", "read", "zip_manifest"}
        BY <3>1 DEF FirstLoop, Operations
      <3> QED
        BY <2>2, <3>2 DEF MakeTemporary
    <2>3. CASE ReadAsset(q)
      BY <2>3 DEF ReadAsset
    <2>4. CASE WriteAsset(q) \/ CopyAsset(q)
      BY <2>4 DEF WriteAsset, CopyAsset
    <2>5. CASE HashAsset(q)
      BY <2>5 DEF HashAsset
    <2>6. CASE WriteManifest(q) \/ Verify(q)
      BY <2>6 DEF WriteManifest, Verify
    <2>7. CASE ZipManifest(q) \/ ZipAsset(q)
      BY <2>7 DEF ZipManifest, ZipAsset
    <2>8. CASE ZipClose(q) \/ ZipSync(q)
      BY <2>8 DEF ZipClose, ZipSync
    <2>9. CASE Publish(q)
      BY <2>9 DEF Publish
    <2>10. CASE PublishFails(q)
      BY <2>10 DEF PublishFails
    <2>11. CASE Confirm(q)
      BY <2>11 DEF Confirm
    <2>12. CASE Cleanup(q)
      BY <2>12 DEF Cleanup
    <2>13. CASE Fail(q) \/ Kill(q) \/ CleanupFails(q)
      BY <2>13 DEF Fail, Kill, CleanupFails
    <2> QED
      BY <2>1, <2>2, <2>3, <2>4, <2>5, <2>6, <2>7, <2>8, <2>9, <2>10, <2>11, <2>12, <2>13 DEF Run
  <1>7. (\A p \in Processes : pc[p] = "confirm" => disk[Output(p)].by = p)'
    <2> SUFFICES ASSUME NEW p \in Processes, pc'[p] = "confirm" PROVE disk'[Output(p)].by = p
      BY <1>1
    <2>1. CASE Publish(q) /\ p = q
      BY <1>5, <2>1
    <2>2. CASE pc[p] = "confirm"
      BY <1>4, <2>2 DEF StandInv
    <2> QED
      BY <1>2, <1>6, <2>1, <2>2
  <1>8. (\A p \in Processes : outcome[p] = "ok" =>
            pc[p] \in Over /\ (pc[p] # "off" => disk[Output(p)].by = p))'
    <2> SUFFICES ASSUME NEW p \in Processes, outcome'[p] = "ok"
                 PROVE  pc'[p] \in Over /\ (pc'[p] # "off" => disk'[Output(p)].by = p)
      BY <1>1
    <2>1. CASE outcome[p] = "ok"
      <3>1. pc[p] \in Over /\ (pc[p] # "off" => disk[Output(p)].by = p)
        BY <2>1 DEF StandInv
      <3>2. pc'[p] \in Over
        BY <1>2, <1>6, <3>1
      <3>3. pc'[p] # "off" => pc[p] # "off"
        BY <1>2, <1>6
      <3> QED
        BY <1>4, <3>1, <3>2, <3>3
    <2>2. CASE outcome[p] # "ok"
      <3>1. p = q /\ pc'[p] \in Over /\ (Publish(q) \/ Confirm(q))
        BY <1>2, <1>6, <2>2
      <3>2. CASE Publish(q)
        BY <1>5, <3>1, <3>2
      <3>3. CASE Confirm(q)
        <4>1. disk[Output(p)].by = p
          BY <3>1, <3>3 DEF Confirm, StandInv
        <4> QED
          BY <1>4, <3>1, <4>1
      <3> QED
        BY <3>1, <3>2, <3>3
    <2> QED
      BY <2>1, <2>2
  <1>9. (\A path \in Outputs : disk[path].kind = "zip" =>
           \E p \in Processes : Operation(p) = "archive" /\ Output(p) = path /\ pc[p] \in Over)'
    <2> SUFFICES ASSUME NEW path \in Outputs, disk'[path].kind = "zip"
                 PROVE  \E p \in Processes : Operation(p) = "archive" /\ Output(p) = path /\ pc'[p] \in Over
      BY <1>1
    <2>1. CASE disk'[path] = disk[path]
      <3>1. PICK p \in Processes : Operation(p) = "archive" /\ Output(p) = path /\ pc[p] \in Over
        BY <2>1 DEF StandInv
      <3>2. pc'[p] \in Over
        BY <1>2, <1>6, <3>1
      <3> QED
        BY <3>1, <3>2
    <2>2. CASE Publish(q) /\ path = Output(q) /\ disk'[path] = At(q)
      <3>1. Operation(q) = "archive"
        BY <1>5, <2>2 DEF Kind
      <3>2. pc'[q] = "cleanup"
        BY <2>2, <3>1 DEF Publish, Return, Goto, Owned, Typed, TypeOK
      <3> QED
        BY <2>2, <3>1, <3>2 DEF Over
    <2> QED
      BY <1>3, <2>1, <2>2
  <1>10. (\A path \in Outputs : \A entry \in undo[path] : IsAbsent(entry))'
    <2> SUFFICES ASSUME NEW path \in Outputs, NEW entry \in undo'[path] PROVE IsAbsent(entry)
      BY DEF IsAbsent
    <2>1. CASE entry \in undo[path]
      BY <2>1 DEF StandInv
    <2>2. CASE entry \notin undo[path]
      BY <2>2, UndoKept, Displaced, Untaken
    <2> QED
      BY <2>1, <2>2
  <1> QED
    BY <1>7, <1>8, <1>9, <1>10 DEF StandInv

LEMMA StandEdit ==
    ASSUME Standing, UNCHANGED job, NEW output \in Outputs, NEW asset \in Assets,
           EditPublished(output, asset)
    PROVE  StandInv'
  <1> USE DEF Standing
  <1>1. \A path \in Paths : disk'[path].by = disk[path].by /\ disk'[path].kind = disk[path].kind
    BY EditKeeps DEF Owned
  <1>2. UNCHANGED <<outcome, pc, undo>>
    BY DEF EditPublished, locals
  <1>3. \A p \in Processes : Output(p)' = Output(p) /\ Operation(p)' = Operation(p) /\ Output(p) \in Paths
    BY JobTyped DEF Output, Operation, Owned, Paths
  <1>4. (\A p \in Processes : pc[p] = "confirm" => disk[Output(p)].by = p)'
    BY <1>1, <1>2, <1>3 DEF StandInv
  <1>5. (\A p \in Processes : outcome[p] = "ok" =>
            pc[p] \in Over /\ (pc[p] # "off" => disk[Output(p)].by = p))'
    BY <1>1, <1>2, <1>3 DEF StandInv
  <1>6. (\A path \in Outputs : disk[path].kind = "zip" =>
           \E p \in Processes : Operation(p) = "archive" /\ Output(p) = path /\ pc[p] \in Over)'
    BY <1>1, <1>2, <1>3 DEF StandInv, Paths
  <1>7. (\A path \in Outputs : \A entry \in undo[path] : IsAbsent(entry))'
    BY <1>2 DEF StandInv, IsAbsent
  <1> QED
    BY <1>4, <1>5, <1>6, <1>7 DEF StandInv

LEMMA StandPower ==
    ASSUME Standing, UNCHANGED job, PowerFailure
    PROVE  StandInv'
  <1> USE DEF Standing
  <1>1. \A p \in Processes : pc'[p] = IF pc[p] = "check" THEN "check" ELSE "off"
    BY PowerLeaves DEF Owned
  <1>2. outcome' = outcome
    BY PowerLeaves DEF Owned
  <1>3. \A p \in Processes : Output(p)' = Output(p) /\ Operation(p)' = Operation(p)
    BY DEF Output, Operation
  <1>4. (\A p \in Processes : pc[p] = "confirm" => disk[Output(p)].by = p)'
    BY <1>1
  <1>5. (\A p \in Processes : outcome[p] = "ok" =>
            pc[p] \in Over /\ (pc[p] # "off" => disk[Output(p)].by = p))'
    <2> SUFFICES ASSUME NEW p \in Processes, outcome'[p] = "ok" PROVE pc'[p] = "off"
      BY DEF Over
    <2>1. pc[p] \in Over
      BY <1>2 DEF StandInv
    <2> QED
      BY <1>1, <2>1 DEF Over
  <1>6. (\A path \in Outputs : disk[path].kind = "zip" =>
           \E p \in Processes : Operation(p) = "archive" /\ Output(p) = path /\ pc[p] \in Over)'
    <2> SUFFICES ASSUME NEW path \in Outputs, disk'[path].kind = "zip"
                 PROVE  \E p \in Processes : Operation(p) = "archive" /\ Output(p) = path /\ pc'[p] \in Over
      BY <1>3
    <2>1. path \in Paths /\ disk[path] \in Entries
      BY DEF Owned, Typed, TypeOK, Paths
    <2>2. Torn(disk[path]).kind = disk[path].kind
      BY <2>1, TornKeeps
    <2>3. \A entry \in undo[path] : entry.kind = "absent"
      BY DEF StandInv, IsAbsent
    <2>4. disk[path].kind = "zip"
      BY <2>1, <2>2, <2>3, PowerLeaves DEF Owned
    <2>5. PICK p \in Processes : Operation(p) = "archive" /\ Output(p) = path /\ pc[p] \in Over
      BY <2>4 DEF StandInv
    <2>6. pc'[p] \in Over
      BY <1>1, <2>5 DEF Over
    <2> QED
      BY <2>5, <2>6
  <1>7. (\A path \in Outputs : \A entry \in undo[path] : IsAbsent(entry))'
    BY PowerLeaves DEF Owned
  <1> QED
    BY <1>4, <1>5, <1>6, <1>7 DEF StandInv

LEMMA NextStand == ArchivesApart /\ Standing /\ [Next]_vars => StandInv'
  <1> SUFFICES ASSUME ArchivesApart, Standing, [Next]_vars PROVE StandInv'
    OBVIOUS
  <1>1. ASSUME UNCHANGED <<job, disk, pc, outcome, undo>> PROVE StandInv'
    BY <1>1 DEF Standing, StandInv, Output, Operation, IsAbsent
  <1>2. ASSUME NEW asset \in Assets, EditSource(asset), UNCHANGED job PROVE StandInv'
    BY <1>1, <1>2 DEF EditSource, locals
  <1>3. ASSUME UNCHANGED vars PROVE StandInv'
    BY <1>1, <1>3 DEF vars, locals
  <1> QED
    BY <1>2, <1>3, StandProcess, StandEdit, StandPower DEF Next

LEMMA StandingInvariant == NamesApart /\ ArchivesApart => (Spec => []Standing)
  <1>1. ArchivesApart /\ Standing /\ [Next]_vars => StandInv'
    BY NextStand
  <1>2. ArchivesApart => []ArchivesApart
    <2>1. ArchivesApart => ArchivesApart'
      BY DEF ArchivesApart
    <2> QED
      BY <2>1, PTL
  <1>3. Standing <=> (Owned /\ ContentInv /\ StandInv)
    BY DEF Standing
  <1> QED
    BY <1>1, <1>2, <1>3, InitStand, ContentInvariant, PTL DEF Spec

(* Whoever was told that it succeeded finds its package at the output path,  *)
(* until the power fails.                                                    *)
THEOREM SuccessIsThere == NamesApart /\ ArchivesApart => (Spec => []SuccessStands)
  <1>1. Standing => SuccessStands
    BY DEF Standing, StandInv, SuccessStands
  <1> QED
    BY <1>1, StandingInvariant, PTL

-----------------------------------------------------------------------------
(* The refinement.                                                           *)

LEMMA ShownContent ==
    ASSUME NEW entry \in Entries
    PROVE  /\ IsAbsent(entry) => Shown(entry) = Nothing
           /\ ~IsAbsent(entry) /\ Spoiled(entry) => Shown(entry) = Ruined
           /\ ~IsAbsent(entry) /\ ~Spoiled(entry) /\ PublishedInv(entry) =>
                 Shown(entry) = entry.manifest /\ entry.manifest \in Whole
  <1>1. ASSUME ~IsAbsent(entry), ~Spoiled(entry), PublishedInv(entry)
        PROVE  Shown(entry) = entry.manifest /\ entry.manifest \in Whole
    <2>1. entry.kind \in {"dir", "zip"}
      BY <1>1 DEF Entries, IsAbsent
    <2>2. entry.manifest \in Whole /\ (entry.edited \/ entry.files = entry.manifest)
      BY <1>1, <2>1 DEF PublishedInv, Source
    <2>3. entry.files = entry.manifest => Complete(entry)
      BY <2>2 DEF Complete, Whole
    <2>4. Loads(entry) \/ OfOnePackage(entry) \/ entry.edited
      BY <1>1, <2>1, <2>2, <2>3 DEF PublishedInv, Loads, OfOnePackage
    <2> QED
      BY <1>1, <2>2, <2>4 DEF Shown
  <1> QED
    BY <1>1 DEF Shown

LEMMA ShownApart == Nothing \notin Whole /\ Nothing # Ruined
  <1>1. PICK asset : asset \in Assets
    BY VersionAssumption
  <1>2. Nothing[asset] = 0 /\ Ruined[asset] = Garbage /\ Garbage # 0
    BY <1>1, VersionAssumption DEF Nothing, Ruined, Garbage
  <1>3. \A package \in Whole : package[asset] # 0
    BY <1>1 DEF Whole
  <1> QED
    BY <1>2, <1>3

LEMMA ShelfInit == Init => Shelf!Init
  <1> SUFFICES ASSUME Init PROVE Shelf!Init
    OBVIOUS
  <1>1. Absent \in Entries /\ IsAbsent(Absent)
    BY EntryTyped DEF Absent, IsAbsent
  <1>2. \A path \in Outputs : Shown(disk[path]) = Nothing
    BY <1>1, ShownContent DEF Init, Paths
  <1> QED
    BY <1>2 DEF Shelf!Init, Init

(* An edit neither spoils a file nor makes a spoiled one whole.              *)
LEMMA EditSpares ==
    ASSUME Typed, NEW path \in Outputs, NEW asset \in Assets, EditPublished(path, asset),
           NEW other \in Outputs
    PROVE  Spoiled(disk'[other]) <=> Spoiled(disk[other])
  <1> DEFINE new == [disk[path] EXCEPT !.files[asset] = disk[path].files[asset] + 1, !.edited = TRUE]
  <1>1. /\ disk' = [disk EXCEPT ![path] = new] /\ path \in Paths /\ disk[path] \in Entries
        /\ disk[path].files[asset] \in 1 .. MaxVersion - 1
    BY DEF EditPublished, Paths, Typed, TypeOK
  <1>2. new.files = [disk[path].files EXCEPT ![asset] = disk[path].files[asset] + 1]
    BY <1>1 DEF Entries
  <1>3. disk[path].files \in Contents
    BY <1>1, EntryKept
  <1>4. \A file \in Assets : new.files[file] = Garbage <=> disk[path].files[file] = Garbage
    BY <1>1, <1>2, <1>3, VersionAssumption DEF Contents, Garbage
  <1> HIDE DEF new
  <1>5. disk'[other] = IF other = path THEN new ELSE disk[other]
    BY <1>1 DEF Paths, Typed, TypeOK
  <1> QED
    BY <1>4, <1>5 DEF Spoiled

(* Only a power failure is counted as one.                                   *)
LEMMA OutagesCounted ==
    ASSUME NEW q \in Processes, Run(q) \/ Fail(q) \/ Kill(q)
    PROVE  outages' = outages
  BY DEF Run, Check, MakeTemporary, ReadAsset, WriteAsset, CopyAsset, HashAsset, WriteManifest,
         Verify, ZipManifest, ZipAsset, ZipClose, ZipSync, Publish, PublishFails, Confirm,
         Cleanup, CleanupFails, Fail, Kill

LEMMA ShelfOutage ==
    ASSUME Standing, Standing', PowerFailure
    PROVE  Shelf!Outage
  <1> DEFINE before(path) == Shown(disk[path])
             after(path) == Shown(disk'[path])
  <1>1. ASSUME NEW path \in Outputs
        PROVE  /\ after(path) \in Whole \cup {Nothing, Ruined}
               /\ after(path) # before(path) =>
                     before(path) # Nothing /\ after(path) \in {Nothing, Ruined}
    <2>1. path \in Paths /\ disk[path] \in Entries /\ disk'[path] \in Entries
      BY DEF Standing, Owned, Typed, TypeOK, Paths
    <2>2. /\ ~IsAbsent(disk[path]) => PublishedInv(disk[path])
          /\ ~IsAbsent(disk'[path]) => PublishedInv(disk'[path])
      BY DEF Standing, ContentInv, ShelfInv, PublishedInv, IsAbsent, Spoiled, Source
    <2>3. after(path) \in Whole \cup {Nothing, Ruined}
      BY <2>1, <2>2, ShownContent
    <2>4. CASE disk'[path] = disk[path]
      BY <2>3, <2>4
    <2>5. CASE disk'[path] \in undo[path]
      <3>1. after(path) = Nothing
        BY <2>1, <2>5, ShownContent DEF Standing, StandInv
      <3> QED
        BY <2>3, <3>1
    <2>6. CASE ~IsAbsent(disk[path]) /\ ~disk[path].durable /\ disk'[path] = Torn(disk[path])
      <3>1. before(path) # Nothing
        BY <2>1, <2>2, <2>6, ShownContent, ShownApart
      <3>2. Spoiled(disk'[path]) /\ ~IsAbsent(disk'[path])
        BY <2>1, <2>2, <2>6, TornSpoils DEF IsAbsent
      <3>3. after(path) = Ruined
        BY <2>1, <3>2, ShownContent
      <3> QED
        BY <2>3, <3>1, <3>3
    <2> QED
      BY <2>1, <2>4, <2>5, <2>6, PowerLeaves DEF Standing, Owned
  <1>2. outages' = outages + 1
    BY DEF PowerFailure
  <1> QED
    BY <1>1, <1>2 DEF Shelf!Outage, Whole

LEMMA ShelfNext ==
    ASSUME ArchivesApart, Standing, Standing', [Next]_vars
    PROVE  [Shelf!Next]_<<[path \in Outputs |-> Shown(disk[path])], outages>>
  <1> DEFINE shelf == [path \in Outputs |-> Shown(disk[path])]
             shelfAfter == [path \in Outputs |-> Shown(disk'[path])]
  <1>1. \A path \in Outputs : disk[path] \in Entries /\ disk'[path] \in Entries
    BY DEF Standing, Owned, Typed, TypeOK, Paths
  <1>2. \A path \in Outputs : ~IsAbsent(disk[path]) => PublishedInv(disk[path])
    BY DEF Standing, ContentInv, ShelfInv
  <1>3. \A path \in Outputs : ~IsAbsent(disk'[path]) => PublishedInv(disk'[path])
    BY DEF Standing, ContentInv, ShelfInv, PublishedInv, IsAbsent, Spoiled, Source
  <1>4. ASSUME \A path \in Outputs : Shown(disk'[path]) = Shown(disk[path])
        PROVE  shelfAfter = shelf
    BY <1>4
  <1>5. ASSUME NEW q \in Processes, Run(q) \/ Fail(q) \/ Kill(q), UNCHANGED job
        PROVE  Shelf!Next \/ (shelfAfter = shelf /\ outages' = outages)
    <2>0. outages' = outages
      BY <1>5, OutagesCounted
    <2>1. CASE ~Publish(q)
      <3>1. \A path \in Outputs : disk'[path] = disk[path]
        BY <1>5, <2>1, OutputsKept DEF Standing
      <3> QED
        BY <1>4, <2>0, <3>1
    <2>2. CASE Publish(q)
      <3>1. IsAbsent(disk[Output(q)]) /\ Output(q) \in Outputs
        BY <2>2, Untaken, JobTyped DEF Standing, Owned
      <3>2. \A path \in Outputs : path # Output(q) => disk'[path] = disk[path]
        BY <1>5, OutputsKept DEF Standing
      <3>3. /\ disk'[Output(q)] = At(q) /\ At(q).manifest \in Whole
            /\ ~IsAbsent(At(q)) /\ ~Spoiled(At(q))
        <4>1. /\ At(q).manifest \in Whole /\ ~Spoiled(At(q)) /\ ~IsAbsent(At(q))
              /\ temporary[q] \in Names
          BY <2>2, ReadyToPublish, OwnedEntry DEF Standing, Publish, Owning, Working
        <4>2. disk'[Output(q)] = At(q)
          BY <2>2, <4>1, PublishLeaves DEF Standing
        <4> QED
          BY <4>1, <4>2
      <3>4. Shown(disk[Output(q)]) = Nothing
        BY <1>1, <3>1, ShownContent
      <3>5. Shown(disk'[Output(q)]) = At(q).manifest
        BY <1>1, <1>3, <3>1, <3>3, ShownContent
      <3>6. shelfAfter = [shelf EXCEPT ![Output(q)] = At(q).manifest]
        BY <3>1, <3>2, <3>5
      <3>7. shelf[Output(q)] = Nothing
        BY <3>1, <3>4
      <3> QED
        BY <2>0, <3>1, <3>3, <3>6, <3>7 DEF Shelf!Next, Shelf!Publish, Whole
    <2> QED
      BY <2>1, <2>2
  <1>6. ASSUME NEW output \in Outputs, NEW asset \in Assets, EditPublished(output, asset)
        PROVE  shelfAfter = shelf /\ outages' = outages
    <2>1. ASSUME NEW path \in Outputs PROVE Shown(disk'[path]) = Shown(disk[path])
      <3>1. /\ disk'[path].kind = disk[path].kind /\ disk'[path].manifest = disk[path].manifest
            /\ Spoiled(disk'[path]) <=> Spoiled(disk[path])
        BY <1>6, EditKeeps, EditSpares DEF Standing, Owned, Paths
      <3> QED
        BY <1>1, <1>2, <1>3, <3>1, ShownContent DEF IsAbsent
    <2> QED
      BY <1>4, <1>6, <2>1 DEF EditPublished
  <1>7. ASSUME PowerFailure PROVE Shelf!Next
    BY <1>7, ShelfOutage DEF Shelf!Next
  <1>8. ASSUME UNCHANGED <<disk, outages>> PROVE shelfAfter = shelf /\ outages' = outages
    BY <1>8
  <1> HIDE DEF shelf, shelfAfter
  <1>9. Shelf!Next \/ (shelfAfter = shelf /\ outages' = outages)
    BY <1>5, <1>6, <1>7, <1>8 DEF Next, EditSource, vars
  <1> QED
    BY <1>9 DEF shelf, shelfAfter

(* Publication implements the shelf: a path shows nothing until one complete,*)
(* verified package is there all at once, and that package stays until the   *)
(* power fails, however many processes publish, whatever is edited or killed *)
(* meanwhile.                                                                *)
THEOREM ShelfKept == NamesApart /\ ArchivesApart => (Spec => PublishedOnce)
  <1>1. ArchivesApart /\ Standing /\ Standing' /\ [Next]_vars
          => [Shelf!Next]_<<[path \in Outputs |-> Shown(disk[path])], outages>>
    BY ShelfNext
  <1>2. ArchivesApart => []ArchivesApart
    <2>1. ArchivesApart => ArchivesApart'
      BY DEF ArchivesApart
    <2> QED
      BY <2>1, PTL
  <1> QED
    BY <1>1, <1>2, ShelfInit, StandingInvariant, PTL DEF Spec, PublishedOnce, Shelf!Spec

-----------------------------------------------------------------------------
(* What holds where archives replace each other, and where nobody edits.     *)

(* What a publication puts at its output is a whole archive, if it replaces  *)
(* one; what a power failure brings back is one too.                         *)
LEMMA OutputStays ==
    ASSUME Owned, ContentInv, [Next]_vars, NEW path \in Outputs, ~IsAbsent(disk[path])
    PROVE  \/ Keeps(disk[path], disk'[path])
           \/ /\ GivesWay(disk[path], disk'[path])
              /\ outages' # outages \/ \E q \in Processes : Publish(q) /\ path = Output(q)
           \/ outages' # outages /\ Lost(disk[path], disk'[path])
  <1>0. path \in Paths /\ disk[path] \in Entries /\ PublishedInv(disk[path])
    BY DEF Owned, Typed, TypeOK, Paths, ContentInv, ShelfInv
  <1>1. ASSUME disk'[path] = disk[path] PROVE Keeps(disk[path], disk'[path])
    BY <1>1 DEF Keeps
  <1>2. ASSUME NEW q \in Processes, Run(q) \/ Fail(q) \/ Kill(q), UNCHANGED job,
               disk'[path] # disk[path]
        PROVE  GivesWay(disk[path], disk'[path]) /\ Publish(q) /\ path = Output(q)
    <2>1. /\ Publish(q) /\ path = Output(q) /\ disk'[path] = At(q)
          /\ At(q).kind = "zip" /\ disk[path].kind = "zip"
      BY <1>2, OutputsKept
    <2>2. PublishedInv(At(q))
      BY <2>1, ReadyToPublish
    <2>3. At(q).sealed /\ At(q).durable /\ (OfOnePackage(At(q)) \/ At(q).edited)
      BY <2>1, <2>2 DEF PublishedInv, OfOnePackage, Complete, Whole
    <2> QED
      BY <2>1, <2>3 DEF GivesWay
  <1>3. ASSUME NEW other \in Outputs, NEW asset \in Assets, EditPublished(other, asset)
        PROVE  Keeps(disk[path], disk'[path])
    BY <1>0, <1>3, EditKeeps DEF Owned, Keeps
  <1>4. ASSUME PowerFailure, disk'[path] # disk[path]
        PROVE  /\ outages' # outages
               /\ GivesWay(disk[path], disk'[path]) \/ Lost(disk[path], disk'[path])
    <2>1. outages' # outages
      BY <1>4 DEF PowerFailure, Owned, Typed, TypeOK
    <2>2. CASE disk'[path] \in undo[path] /\ IsAbsent(disk'[path])
      BY <2>1, <2>2 DEF Lost
    <2>3. CASE disk'[path] \in undo[path] /\ ~IsAbsent(disk'[path])
      <3>1. disk'[path].kind = "zip" /\ PublishedInv(disk'[path])
        BY <2>3 DEF ContentInv, UndoInv
      <3>2. OfOnePackage(disk'[path]) \/ disk'[path].edited
        BY <3>1 DEF PublishedInv, OfOnePackage, Complete, Whole
      <3>3. disk[path].kind = "zip"
        BY <2>3 DEF ContentInv, UndoInv
      <3> QED
        BY <2>1, <3>1, <3>2, <3>3 DEF PublishedInv, GivesWay
    <2>4. CASE ~disk[path].durable /\ disk'[path] = Torn(disk[path])
      BY <1>0, <2>1, <2>4, TornSpoils DEF Lost
    <2> QED
      BY <1>0, <1>4, <2>2, <2>3, <2>4, PowerLeaves DEF Owned
  <1>5. ASSUME UNCHANGED disk PROVE Keeps(disk[path], disk'[path])
    BY <1>5 DEF Keeps
  <1> QED
    BY <1>1, <1>2, <1>3, <1>4, <1>5 DEF Next, EditSource, vars

(* Whatever is published keeps kind, maker, manifest and, where nobody edits,*)
(* files; an archive gives way only to a whole one; and only a power failure *)
(* takes anything away, or the contents of a directory (builder.go:183,      *)
(* assemble.go:104, archive.go:93).                                          *)
THEOREM ReplacedWhole == NamesApart => (Spec => PublishedStays)
  <1>1. Owned /\ ContentInv /\ [Next]_vars
          => [\A path \in Outputs :
                ~IsAbsent(disk[path]) =>
                   \/ Keeps(disk[path], disk'[path]) \/ GivesWay(disk[path], disk'[path])
                   \/ outages' # outages /\ Lost(disk[path], disk'[path])]_vars
    BY OutputStays
  <1> QED
    BY <1>1, ContentInvariant, PTL DEF Spec, PublishedStays

(* Existing output is never overwritten (archive.go:25), where no two        *)
(* processes archive to one path and the power does not fail: the finding    *)
(* ArchiveOverwrites is the only other way it happens.                       *)
THEOREM NothingOverwritten == NamesApart /\ ArchivesApart => (Spec => NeverOverwritten)
  <1>1. ASSUME ArchivesApart, Standing, [Next]_vars, NEW path \in Outputs,
               disk[path].kind = "zip", outages' = outages
        PROVE  disk'[path].by = disk[path].by
    <2>1. ~IsAbsent(disk[path])
      BY <1>1 DEF IsAbsent
    <2>2. \A q \in Processes : Publish(q) => IsAbsent(disk[Output(q)])
      BY <1>1, Untaken
    <2>3. Keeps(disk[path], disk'[path])
      BY <1>1, <2>1, <2>2, OutputStays DEF Standing
    <2> QED
      BY <2>3 DEF Keeps
  <1>2. ArchivesApart /\ Standing /\ [Next]_vars
          => [\A path \in Outputs :
                disk[path].kind = "zip" /\ outages' = outages
                => disk'[path].by = disk[path].by]_vars
    BY <1>1
  <1>3. ArchivesApart => []ArchivesApart
    <2>1. ArchivesApart => ArchivesApart'
      BY DEF ArchivesApart
    <2> QED
      BY <2>1, PTL
  <1> QED
    BY <1>2, <1>3, StandingInvariant, PTL DEF Spec, NeverOverwritten

(* Nobody edits a package in place.                                          *)
UneditedDisk == \A path \in Paths : ~disk[path].edited
Unedited ==
    UneditedDisk /\ \A path \in Outputs : \A entry \in undo[path] : ~entry.edited

LEMMA InitUnedited == Init => Unedited
  BY DEF Init, Unedited, UneditedDisk, Absent, Entry, Paths

(* What a process writes is edited only if what it copies is.                *)
LEMMA WorkUnedited ==
    ASSUME Owned, UneditedDisk, NEW p \in Processes, Run(p) \/ Fail(p) \/ Kill(p), UNCHANGED job
    PROVE  UneditedDisk'
  <1> USE DEF Owned, Typed, TypeOK
  <1>0. \A path \in Paths : disk[path] \in Entries /\ ~disk[path].edited
    BY DEF UneditedDisk
  <1>1. ASSUME NEW path, NEW entry, ~entry.edited, disk' = [disk EXCEPT ![path] = entry]
        PROVE  UneditedDisk'
    BY <1>0, <1>1 DEF UneditedDisk
  <1>2. CASE MakeTemporary(p)
    <2>1. PICK name \in Names :
             \A path \in Paths :
                disk'[path] = IF path = name THEN Entry(Kind(p), p) ELSE disk[path]
      BY <1>2, Made
    <2>2. ~Entry(Kind(p), p).edited
      BY DEF Entry
    <2> QED
      BY <1>0, <2>1, <2>2 DEF UneditedDisk
  <1>3. CASE Publish(p)
    <2>1. temporary[p] \in Paths
      BY <1>3, OwnedEntry DEF Publish, Owning, Working
    <2> QED
      BY <1>0, <1>3, <2>1, PublishLeaves DEF UneditedDisk, At, Absent, Entry
  <1>4. CASE Cleanup(p)
    BY <1>0, <1>4, Cleaned DEF UneditedDisk, Absent, Entry
  <1>5. CASE Quiet
    BY <1>0, <1>5 DEF Quiet, UneditedDisk
  <1>6. ASSUME pc[p] \in Owning
        PROVE  /\ At(p) \in Entries /\ At(p).by = p /\ ~IsAbsent(At(p)) /\ ~At(p).edited
    BY <1>0, <1>6, OwnedEntry DEF At
  <1>7. CASE WriteAsset(p)
    <2>1. PICK asset \in todo[p] : Holding(p, asset, memory[p][asset])
      BY <1>7 DEF WriteAsset
    <2>2. pc[p] \in Owning
      BY <1>7 DEF WriteAsset, Owning, Working
    <2>3. disk' = [disk EXCEPT ![temporary[p]] = [At(p) EXCEPT !.files[asset] = memory[p][asset]]]
      BY <1>6, <2>1, <2>2 DEF Holding
    <2>4. ~[At(p) EXCEPT !.files[asset] = memory[p][asset]].edited
      BY <1>6, <2>2 DEF Entries
    <2> QED
      BY <1>1, <2>3, <2>4
  <1>8. CASE CopyAsset(p)
    <2>1. PICK asset \in todo[p] : Holding(p, asset, source[asset])
      BY <1>8 DEF CopyAsset
    <2>2. pc[p] \in Owning
      BY <1>8 DEF CopyAsset, Owning, Working
    <2>3. disk' = [disk EXCEPT ![temporary[p]] = [At(p) EXCEPT !.files[asset] = source[asset]]]
      BY <1>6, <2>1, <2>2 DEF Holding
    <2>4. ~[At(p) EXCEPT !.files[asset] = source[asset]].edited
      BY <1>6, <2>2 DEF Entries
    <2> QED
      BY <1>1, <2>3, <2>4
  <1>9. CASE WriteManifest(p)
    <2>1. pc[p] \in Owning
      BY <1>9 DEF WriteManifest, Owning, Working
    <2>2. CASE At(p).kind = "dir"
      <3>1. disk' = [disk EXCEPT ![temporary[p]] = [At(p) EXCEPT !.manifest = memory[p]]]
        BY <1>9, <2>2 DEF WriteManifest, At
      <3>2. ~[At(p) EXCEPT !.manifest = memory[p]].edited
        BY <1>6, <2>1 DEF Entries
      <3> QED
        BY <1>1, <3>1, <3>2
    <2>3. CASE At(p).kind # "dir"
      BY <1>0, <1>9, <2>3 DEF WriteManifest, UneditedDisk
    <2> QED
      BY <2>2, <2>3
  <1>10. CASE ZipManifest(p)
    <2>1. pc[p] \in Owning
      BY <1>10 DEF ZipManifest, Owning, Working
    <2>2. disk' = [disk EXCEPT ![temporary[p]] =
                     [At(p) EXCEPT !.manifest = disk[Directory(p)].manifest]]
      BY <1>6, <1>10, <2>1 DEF ZipManifest, Archived
    <2>3. ~[At(p) EXCEPT !.manifest = disk[Directory(p)].manifest].edited
      BY <1>6, <2>1 DEF Entries
    <2> QED
      BY <1>1, <2>2, <2>3
  <1>11. CASE ZipAsset(p)
    <2>1. pc[p] \in Owning
      BY <1>11 DEF ZipAsset, Owning, Working
    <2>2. PICK asset \in todo[p] :
            Archived(p, [At(p) EXCEPT !.files[asset] = disk[Directory(p)].files[asset],
                                      !.edited = @ \/ disk[Directory(p)].edited])
      BY <1>11 DEF ZipAsset
    <2> DEFINE entry == [At(p) EXCEPT !.files[asset] = disk[Directory(p)].files[asset],
                                      !.edited = @ \/ disk[Directory(p)].edited]
    <2>3. disk' = [disk EXCEPT ![temporary[p]] = entry]
      BY <1>6, <2>1, <2>2 DEF Archived
    <2>4. ~disk[Directory(p)].edited
      BY <1>0, JobTyped DEF Paths
    <2>5. entry.edited = (At(p).edited \/ disk[Directory(p)].edited)
      BY <1>6, <2>1 DEF Entries
    <2>6. ~entry.edited
      BY <1>6, <2>1, <2>4, <2>5
    <2> QED
      BY <1>1, <2>3, <2>6
  <1>12. CASE ZipClose(p)
    <2>1. pc[p] \in Owning
      BY <1>12 DEF ZipClose, Owning, Working
    <2>2. disk' = [disk EXCEPT ![temporary[p]] = [At(p) EXCEPT !.sealed = TRUE]]
      BY <1>6, <1>12, <2>1 DEF ZipClose, Archived
    <2>3. ~[At(p) EXCEPT !.sealed = TRUE].edited
      BY <1>6, <2>1 DEF Entries
    <2> QED
      BY <1>1, <2>2, <2>3
  <1>13. CASE ZipSync(p)
    <2>1. pc[p] \in Owning
      BY <1>13 DEF ZipSync, Owning, Working
    <2>2. disk' = [disk EXCEPT ![temporary[p]] = [At(p) EXCEPT !.durable = TRUE]]
      BY <1>6, <1>13, <2>1 DEF ZipSync, Synced, Archived
    <2>3. ~[At(p) EXCEPT !.durable = TRUE].edited
      BY <1>6, <2>1 DEF Entries
    <2> QED
      BY <1>1, <2>2, <2>3
  <1>14. CASE UNCHANGED disk
    BY <1>0, <1>14 DEF UneditedDisk
  <1> QED
    BY <1>2, <1>3, <1>4, <1>7, <1>8, <1>9, <1>10, <1>11, <1>12, <1>13, <1>14
       DEF Run, Check, ReadAsset, HashAsset, Verify, PublishFails, Confirm, CleanupFails, Fail, Kill

LEMMA NextUnedited == ~EditsPublished /\ Owned /\ Unedited /\ [Next]_vars => Unedited'
  <1> SUFFICES ASSUME ~EditsPublished, Owned, Unedited, [Next]_vars PROVE Unedited'
    OBVIOUS
  <1>1. \A path \in Paths : disk[path] \in Entries /\ ~disk[path].edited
    BY DEF Unedited, UneditedDisk, Owned, Typed, TypeOK
  <1>2. \A path \in Outputs : path \in Paths /\ \A entry \in undo[path] : ~entry.edited
    BY DEF Unedited, Paths
  <1>3. CASE PowerFailure
    <2>1. UneditedDisk'
      <3> SUFFICES ASSUME NEW path \in Paths PROVE ~disk'[path].edited
        BY DEF UneditedDisk
      <3>1. Torn(disk[path]).edited = disk[path].edited
        BY <1>1, TornKeeps
      <3> QED
        BY <1>1, <1>2, <1>3, <3>1, PowerLeaves DEF Owned
    <2>2. \A path \in Outputs : undo'[path] = {}
      BY <1>3, PowerLeaves DEF Owned
    <2> QED
      BY <2>1, <2>2 DEF Unedited
  <1>4. CASE UNCHANGED <<disk, undo>>
    BY <1>4 DEF Unedited, UneditedDisk
  <1>5. ASSUME NEW p \in Processes, Run(p) \/ Fail(p) \/ Kill(p), UNCHANGED job PROVE Unedited'
    <2>1. UneditedDisk'
      BY <1>5, WorkUnedited DEF Unedited
    <2>2. \A path \in Outputs : undo'[path] \subseteq undo[path] \cup {disk[path]}
      <3>1. CASE undo' = undo
        BY <3>1
      <3>2. CASE Publish(p)
        BY <3>2, PublishLeaves
      <3> QED
        BY <1>5, <3>1, <3>2, UndoKept
    <2> QED
      BY <1>1, <1>2, <2>1, <2>2 DEF Unedited
  <1> QED
    BY <1>3, <1>4, <1>5 DEF Next, EditPublished, EditSource, vars

(* An archive comes from a verified directory (archive.go:24-25) where nobody*)
(* edits a package that is published: the finding ArchiveStale is the only   *)
(* way it does not.                                                          *)
THEOREM ArchivesVerified == NamesApart /\ ~EditsPublished => (Spec => []ArchiveVerified)
  <1>1. ~EditsPublished => []~EditsPublished
    <2>1. ~EditsPublished => (~EditsPublished)'
      OBVIOUS
    <2> QED
      BY <2>1, PTL
  <1>2. Owned /\ ContentInv /\ Unedited => ArchiveVerified
    <2> SUFFICES ASSUME Owned, ContentInv, Unedited, NEW path \in Outputs, disk[path].kind = "zip"
                 PROVE  OfOnePackage(disk[path])
      BY DEF ArchiveVerified
    <2>1. PublishedInv(disk[path])
      BY DEF ContentInv, ShelfInv, IsAbsent
    <2>2. ~disk[path].edited
      BY DEF Unedited, UneditedDisk, Paths
    <2> QED
      BY <2>1, <2>2 DEF PublishedInv, OfOnePackage, Complete, Whole
  <1> QED
    BY <1>1, <1>2, InitUnedited, NextUnedited, ContentInvariant, PTL DEF Spec
=============================================================================
