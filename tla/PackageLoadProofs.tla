-------------------------- MODULE PackageLoadProofs --------------------------
(***************************************************************************)
(* Proofs about PackageLoad, for every package, archive and limit.         *)
(***************************************************************************)
EXTENDS PackageLoad, SequenceTheorems, FiniteSetTheorems, TLAPS

(* What the next file may take is within its own limit and what is left.     *)
RoomInv ==
    pc \in {"inspect", "read"} =>
        /\ total + limit <= MaxPackageBytes
        /\ current \in Files \ todo
        /\ limit <= Limit[current]

(* What was loaded was verified and within its limit.                        *)
VerifiedInv ==
    \A file \in Files :
        loaded[file] # Missing =>
            loaded[file] = digests[file] /\ loaded[file] <= Limit[file]

(* The entries in front of the position are those seen, each once.           *)
EntryInv ==
    pc # "refused" =>
        /\ position <= Len(entries) + 1
        /\ seen = {entries[i].name : i \in 1 .. position - 1}
        /\ \A i, j \in 1 .. position - 1 :
             entries[i].name = entries[j].name => i = j
        /\ \A i \in 1 .. position - 1 : entries[i].regular

(* Loading begins once the archive is extracted.                             *)
OrderInv ==
    /\ pc \in {"manifest", "next", "inspect", "read", "accepted"} /\ mode = "archive"
       => position = Len(entries) + 1
    /\ pc = "accepted" => todo = {}
    /\ pc = "accepted" => Declared /\ WellFormed /\ PresentsSchema

LoadInv ==
    TypeOK /\ WithinBudget /\ RoomInv /\ VerifiedInv /\ EntryInv /\ OrderInv

-----------------------------------------------------------------------------
LEMMA InitLoad == Init => LoadInv
  <1> SUFFICES ASSUME Init PROVE LoadInv
    OBVIOUS
  <1> USE NamesAssumption, LimitsAssumption, SizesAssumption, ArchivesAssumption,
          ModesAssumption
  <1>1. digests \in [Files -> Nat]
    BY DEF Init
  <1>2. disk \in [Names -> Nat \cup {Missing}]
    BY <1>1 DEF Init, Nowhere, Names, Missing
  <1>3. entries \in Seq(EntryType)
    <2>1. <<>> \in Seq(EntryType)
      BY EmptySeq
    <2> QED
      BY <2>1 DEF Init
  <1>4. {file \in Files : loaded[file] # Missing} = Files \ (todo \cup AtHand)
    BY DEF Init, AtHand
  <1>5. TypeOK
    BY <1>1, <1>2, <1>3, <1>4 DEF Init, TypeOK, Missing
  <1>6. WithinBudget /\ RoomInv /\ VerifiedInv /\ OrderInv
    BY DEF Init, WithinBudget, RoomInv, VerifiedInv, OrderInv, Missing
  <1>7. EntryInv
    BY <1>3 DEF Init, EntryInv
  <1> QED
    BY <1>5, <1>6, <1>7 DEF LoadInv

LEMMA NextLoad == LoadInv /\ [Next]_vars => LoadInv'
  <1> SUFFICES ASSUME LoadInv, [Next]_vars PROVE LoadInv'
    OBVIOUS
  <1> USE NamesAssumption, LimitsAssumption
  <1> USE DEF LoadInv, Missing, Goto, archive
  <1>1. CASE OpenArchive
    <2>1. TypeOK'
      BY <1>1 DEF OpenArchive, TypeOK, AtHand
    <2>2. WithinBudget' /\ RoomInv'
      BY <1>1 DEF OpenArchive, TypeOK, WithinBudget, RoomInv
    <2>3. VerifiedInv'
      BY <1>1 DEF OpenArchive, VerifiedInv
    <2>4. EntryInv'
      BY <1>1 DEF OpenArchive, TypeOK, EntryInv
    <2>5. OrderInv'
      BY <1>1 DEF OpenArchive, TypeOK, EntryInv, OrderInv, Declared, WellFormed, PresentsSchema
    <2> QED
      BY <2>1, <2>2, <2>3, <2>4, <2>5
  <1>2. CASE Extract
    <2> DEFINE entry == entries[position]
    <2>00. entries \in Seq(EntryType) /\ Len(entries) \in Nat /\ position \in Nat \ {0}
      BY LenProperties DEF TypeOK
    <2>0. pc = "extract" /\ position \in 1 .. Len(entries)
      BY <1>2, <2>00 DEF Extract
    <2>01. entry \in EntryType
      BY <2>0, <2>00, ElementOfSeq
    <2>1. entry.name \in Names /\ entry.declared \in Nat /\ entry.size \in Nat
      BY <2>01 DEF EntryType
    <2> HIDE DEF entry
    <2>2. \/ /\ entry.name \notin seen /\ entry.regular /\ entry.declared <= MaxPackageBytes - total
             /\ seen' = seen \cup {entry.name}
             /\ total' = total + entry.declared
             /\ \/ disk' = [disk EXCEPT ![entry.name] = entry.size] /\ pc' = pc
                \/ disk' = disk /\ pc' = "refused"
          \/ pc' = "refused" /\ seen' = seen /\ total' = total /\ disk' = disk
      BY <1>2 DEF Extract, OfAPackage, NewName, entry
    <2>3. /\ position' = position + 1
          /\ UNCHANGED <<digests, mode, entries, todo, current, limit, loaded>>
      BY <1>2 DEF Extract
    <2>4. TypeOK'
      <3>1. disk' \in [Names -> Nat \cup {Missing}] /\ seen' \subseteq Names /\ total' \in Nat
        <4>1. disk' \in [Names -> Nat \cup {Missing}]
          BY <2>1, <2>2 DEF TypeOK
        <4>2. seen' \subseteq Names
          BY <2>1, <2>2 DEF TypeOK
        <4>3. total' \in Nat
          BY <2>1, <2>2 DEF TypeOK
        <4> QED
          BY <4>1, <4>2, <4>3
      <3>2. (pc # "refused" =>
               {file \in Files : loaded[file] # Missing} = Files \ (todo \cup AtHand))'
        BY <2>0, <2>2, <2>3 DEF TypeOK, AtHand
      <3> QED
        BY <2>0, <2>2, <2>3, <3>1, <3>2 DEF TypeOK
    <2>5. WithinBudget'
      BY <2>1, <2>2 DEF TypeOK, WithinBudget
    <2>6. RoomInv' /\ VerifiedInv' /\ OrderInv'
      BY <2>0, <2>2, <2>3 DEF RoomInv, VerifiedInv, OrderInv
    <2>7. EntryInv'
      <3> SUFFICES ASSUME pc' # "refused" PROVE EntryInv'
        BY DEF EntryInv
      <3>1. entry.name \notin seen /\ seen' = seen \cup {entry.name}
        BY <2>2
      <3>2. 1 .. position' - 1 = (1 .. position - 1) \cup {position}
        BY <2>0, <2>3 DEF TypeOK
      <3>3. /\ seen = {entries[i].name : i \in 1 .. position - 1}
            /\ \A i, j \in 1 .. position - 1 : entries[i].name = entries[j].name => i = j
            /\ \A i \in 1 .. position - 1 : entries[i].regular
        BY <2>0 DEF EntryInv
      <3>4. seen' = {entries[i].name : i \in 1 .. position' - 1}
        BY <3>1, <3>2, <3>3 DEF entry
      <3>5. \A i, j \in 1 .. position' - 1 : entries[i].name = entries[j].name => i = j
        BY <3>1, <3>2, <3>3 DEF entry
      <3>6. position' <= Len(entries) + 1
        BY <2>0, <2>3 DEF TypeOK
      <3>7. \A i \in 1 .. position' - 1 : entries[i].regular
        BY <2>2, <3>2, <3>3 DEF entry
      <3> QED
        BY <2>3, <3>4, <3>5, <3>6, <3>7 DEF EntryInv
    <2> QED
      BY <2>4, <2>5, <2>6, <2>7
  <1>3. CASE Extracted
    <2>1. TypeOK'
      BY <1>3 DEF Extracted, TypeOK, AtHand
    <2>2. WithinBudget' /\ RoomInv'
      BY <1>3 DEF Extracted, TypeOK, WithinBudget, RoomInv
    <2>3. VerifiedInv'
      BY <1>3 DEF Extracted, VerifiedInv
    <2>4. EntryInv'
      BY <1>3 DEF Extracted, TypeOK, EntryInv
    <2>5. OrderInv'
      BY <1>3 DEF Extracted, TypeOK, EntryInv, OrderInv, Declared, WellFormed, PresentsSchema
    <2> QED
      BY <2>1, <2>2, <2>3, <2>4, <2>5
  <1>4. CASE ReadManifest
    <2>1. TypeOK'
      BY <1>4 DEF ReadManifest, TypeOK, AtHand
    <2>2. WithinBudget' /\ RoomInv'
      BY <1>4 DEF ReadManifest, TypeOK, WithinBudget, RoomInv
    <2>3. VerifiedInv'
      BY <1>4 DEF ReadManifest, VerifiedInv
    <2>4. EntryInv'
      BY <1>4 DEF ReadManifest, TypeOK, EntryInv
    <2>5. OrderInv'
      BY <1>4 DEF ReadManifest, TypeOK, EntryInv, OrderInv, Declared, WellFormed, PresentsSchema
    <2> QED
      BY <2>1, <2>2, <2>3, <2>4, <2>5
  <1>5. CASE NextFile
    <2> PICK file \in todo :
          /\ todo' = todo \ {file} /\ current' = file
          /\ IF total >= MaxPackageBytes
             THEN pc' = "refused" /\ UNCHANGED limit
             ELSE pc' = "inspect" /\ limit' = Remaining(file)
      BY <1>5 DEF NextFile
    <2>1. pc = "next" /\ UNCHANGED <<disk, digests, archive, total, loaded>>
      BY <1>5 DEF NextFile
    <2>2. file \in Files /\ Limit[file] \in Nat
      BY DEF TypeOK
    <2>3. Remaining(file) \in Nat => limit' \in Nat
      BY DEF TypeOK
    <2>4. total < MaxPackageBytes =>
            /\ Remaining(file) \in Nat /\ Remaining(file) <= Limit[file]
            /\ total + Remaining(file) <= MaxPackageBytes
      BY <2>2 DEF Remaining, TypeOK
    <2>5. TypeOK'
      <3>1. (pc # "refused" =>
               {f \in Files : loaded[f] # Missing} = Files \ (todo \cup AtHand))'
        BY <2>1, <2>2 DEF TypeOK, AtHand
      <3>2. limit' \in Nat
        BY <2>4 DEF TypeOK
      <3> QED
        BY <2>1, <2>2, <3>1, <3>2 DEF TypeOK
    <2>60. pc' \in {"inspect", "refused"}
      OBVIOUS
    <2>6. WithinBudget' /\ VerifiedInv' /\ EntryInv' /\ OrderInv'
      <3>1. WithinBudget' /\ VerifiedInv'
        BY <2>1 DEF WithinBudget, VerifiedInv
      <3>2. EntryInv'
        BY <2>1, <2>60 DEF EntryInv
      <3>3. OrderInv'
        BY <2>1, <2>60 DEF OrderInv
      <3> QED
        BY <3>1, <3>2, <3>3
    <2>7. RoomInv'
      BY <2>1, <2>2, <2>4 DEF RoomInv, TypeOK
    <2> QED
      BY <2>5, <2>6, <2>7
  <1>6. CASE Inspect
    <2>1. TypeOK'
      BY <1>6 DEF Inspect, TypeOK, AtHand
    <2>2. WithinBudget' /\ RoomInv'
      BY <1>6 DEF Inspect, TypeOK, WithinBudget, RoomInv
    <2>3. VerifiedInv'
      BY <1>6 DEF Inspect, VerifiedInv
    <2>4. EntryInv'
      BY <1>6 DEF Inspect, TypeOK, EntryInv
    <2>5. OrderInv'
      BY <1>6 DEF Inspect, TypeOK, EntryInv, OrderInv, Declared, WellFormed, PresentsSchema
    <2> QED
      BY <2>1, <2>2, <2>3, <2>4, <2>5
  <1>7. CASE ReadFile
    <2>1. /\ pc = "read" /\ current \in Files \ todo /\ limit <= Limit[current]
          /\ total + limit <= MaxPackageBytes /\ limit \in Nat /\ total \in Nat
          /\ UNCHANGED <<disk, digests, archive, todo, current, limit>>
      BY <1>7 DEF ReadFile, RoomInv, TypeOK
    <2>2. \/ /\ disk[current] \in 0 .. limit /\ disk[current] = digests[current]
             /\ total' = total + disk[current] /\ pc' = "next"
             /\ loaded' = [loaded EXCEPT ![current] = disk[current]]
          \/ /\ disk[current] \in 0 .. limit /\ total' = total + disk[current]
             /\ pc' = "refused" /\ loaded' = loaded
          \/ pc' = "refused" /\ total' = total /\ loaded' = loaded
      BY <1>7 DEF ReadFile, Verified, Keep
    <2>3. TypeOK'
      <3>0. loaded \in [Files -> Nat \cup {Missing}] /\ total \in Nat
        BY DEF TypeOK
      <3>1. loaded' \in [Files -> Nat \cup {Missing}] /\ total' \in Nat
        <4>1. disk[current] \in 0 .. limit => disk[current] \in Nat
          BY <2>1
        <4>2. total' \in Nat
          BY <2>2, <3>0, <4>1
        <4>3. loaded' \in [Files -> Nat \cup {Missing}]
          BY <2>2, <3>0, <4>1
        <4> QED
          BY <4>2, <4>3
      <3>2. (pc # "refused" =>
               {f \in Files : loaded[f] # Missing} = Files \ (todo \cup AtHand))'
        BY <2>1, <2>2 DEF TypeOK, AtHand
      <3> QED
        BY <2>1, <2>2, <3>1, <3>2 DEF TypeOK
    <2>4. WithinBudget'
      BY <2>1, <2>2 DEF WithinBudget
    <2>5. VerifiedInv'
      BY <2>1, <2>2 DEF VerifiedInv, TypeOK
    <2>60. pc' \in {"next", "refused"}
      BY <2>2
    <2>6. RoomInv' /\ EntryInv' /\ OrderInv'
      <3>1. RoomInv'
        BY <2>60 DEF RoomInv
      <3>2. EntryInv'
        BY <2>1, <2>60 DEF EntryInv
      <3>3. OrderInv'
        BY <2>1, <2>60 DEF OrderInv
      <3> QED
        BY <3>1, <3>2, <3>3
    <2> QED
      BY <2>3, <2>4, <2>5, <2>6
  <1>8. CASE Finish
    <2>1. TypeOK'
      BY <1>8 DEF Finish, TypeOK, AtHand
    <2>2. WithinBudget' /\ RoomInv'
      BY <1>8 DEF Finish, TypeOK, WithinBudget, RoomInv
    <2>3. VerifiedInv'
      BY <1>8 DEF Finish, VerifiedInv
    <2>4. EntryInv'
      BY <1>8 DEF Finish, TypeOK, EntryInv
    <2>5. OrderInv'
      BY <1>8 DEF Finish, TypeOK, EntryInv, OrderInv, Declared, WellFormed, PresentsSchema
    <2> QED
      BY <2>1, <2>2, <2>3, <2>4, <2>5
  <1>9. CASE Change
    <2>1. disk' \in [Names -> Nat \cup {Missing}]
      BY <1>9, SizesAssumption DEF Change, TypeOK, Names
    <2>2. mode # "archive" /\ UNCHANGED <<digests, archive, pc, todo, current, limit, total, loaded>>
      BY <1>9 DEF Change
    <2>3. TypeOK' /\ WithinBudget'
      BY <2>1, <2>2 DEF TypeOK, WithinBudget, AtHand
    <2>4. RoomInv' /\ VerifiedInv'
      BY <2>2 DEF RoomInv, VerifiedInv
    <2>5. EntryInv' /\ OrderInv'
      BY <2>2 DEF EntryInv, OrderInv, Declared, WellFormed, PresentsSchema
    <2> QED
      BY <2>3, <2>4, <2>5
  <1>10. CASE UNCHANGED vars
    <2>1. TypeOK' /\ WithinBudget'
      BY <1>10 DEF vars, TypeOK, WithinBudget, AtHand
    <2>2. RoomInv' /\ VerifiedInv'
      BY <1>10 DEF vars, RoomInv, VerifiedInv
    <2>3. EntryInv' /\ OrderInv'
      BY <1>10 DEF vars, archive, EntryInv, OrderInv, Declared, WellFormed, PresentsSchema
    <2> QED
      BY <2>1, <2>2, <2>3
  <1> QED
    BY <1>1, <1>2, <1>3, <1>4, <1>5, <1>6, <1>7, <1>8, <1>9, <1>10 DEF Next

(* The inductive invariant holds in every reachable state.                   *)
LEMMA LoadInvariant == Spec => []LoadInv
  BY InitLoad, NextLoad, PTL DEF Spec

-----------------------------------------------------------------------------
(* The loader's variables keep their types, and it has loaded what it is past*)
(* (the loop of LoadDirectory).                                              *)
THEOREM TypeCorrect == Spec => []TypeOK
  <1>1. LoadInv => TypeOK
    BY DEF LoadInv
  <1> QED
    BY <1>1, LoadInvariant, PTL

(* Loading never reads or extracts more than the limit of a package, for all *)
(* sizes and limits (loader.go:82-114, archive.go:136-154).                  *)
THEOREM BudgetKept == Spec => []WithinBudget
  <1>1. LoadInv => WithinBudget
    BY DEF LoadInv
  <1> QED
    BY <1>1, LoadInvariant, PTL

(* What loads is what the manifest declares (loader.go:81-120).              *)
THEOREM LoadsDeclared == Spec => []LoadedIsDeclared
  <1>1. LoadInv => LoadedIsDeclared
    BY DEF LoadInv, LoadedIsDeclared, TypeOK, OrderInv, VerifiedInv, AtHand, Missing
  <1> QED
    BY <1>1, LoadInvariant, PTL

(* An archive that loads has the declared files, once, and nothing else      *)
(* (archive.go:132-135, 167-177).                                            *)
THEOREM ArchiveExact == Spec => []ArchiveIsExact
  <1>1. LoadInv => ArchiveIsExact
    <2> SUFFICES ASSUME LoadInv, pc = "accepted", mode = "archive"
                 PROVE  /\ {entries[i].name : i \in 1 .. Len(entries)} = Files \cup {Manifest}
                        /\ \A i, j \in 1 .. Len(entries) :
                             entries[i].name = entries[j].name => i = j
                        /\ \A i \in 1 .. Len(entries) : entries[i].regular
      BY DEF ArchiveIsExact
    <2>1. position = Len(entries) + 1 /\ seen = Files \cup {Manifest}
      BY DEF LoadInv, OrderInv, Declared
    <2>2. position - 1 = Len(entries)
      BY <2>1 DEF LoadInv, TypeOK
    <2> QED
      BY <2>1, <2>2 DEF LoadInv, EntryInv
  <1> QED
    BY <1>1, LoadInvariant, PTL

-----------------------------------------------------------------------------
(* What files hold together.                                                 *)

BytesOf(contents, name) == {name} \X (1 .. contents[name])

LEMMA BytesOfFile ==
  ASSUME NEW contents, NEW name, contents[name] \in Nat
  PROVE  /\ IsFiniteSet(BytesOf(contents, name))
         /\ Cardinality(BytesOf(contents, name)) = contents[name]
  <1>1. IsFiniteSet({name}) /\ Cardinality({name}) = 1
    BY FS_Singleton
  <1>2. /\ IsFiniteSet(1 .. contents[name])
        /\ Cardinality(1 .. contents[name]) = contents[name]
    BY FS_Interval
  <1>3. /\ IsFiniteSet({name} \X (1 .. contents[name]))
        /\ Cardinality({name} \X (1 .. contents[name])) = 1 * contents[name]
    BY <1>1, <1>2, FS_Product
  <1> QED
    BY <1>3 DEF BytesOf

LEMMA BytesFinite ==
  ASSUME NEW contents, NEW names, IsFiniteSet(names),
         \A name \in names : contents[name] \in Nat
  PROVE  /\ IsFiniteSet(UNION {BytesOf(contents, name) : name \in names})
         /\ Bytes(contents, names) \in Nat
         /\ Bytes(contents, names) = Cardinality(UNION {BytesOf(contents, name) : name \in names})
  <1> DEFINE S == {BytesOf(contents, name) : name \in names}
  <1>1. IsFiniteSet(S)
    <2> DEFINE f == [name \in names |-> BytesOf(contents, name)]
    <2>1. f \in Surjection(names, S)
      BY DEF Surjection
    <2> QED
      BY <2>1, FS_Surjection
  <1>2. \A T \in S : IsFiniteSet(T)
    BY BytesOfFile
  <1>3. IsFiniteSet(UNION S)
    BY <1>1, <1>2, FS_UNION
  <1>4. Cardinality(UNION S) \in Nat
    BY <1>3, FS_CardinalityType
  <1> QED
    BY <1>3, <1>4 DEF Bytes, BytesOf

LEMMA BytesOfNone ==
  ASSUME NEW contents PROVE Bytes(contents, {}) = 0
  <1>1. UNION {{name} \X (1 .. contents[name]) : name \in {}} = {}
    OBVIOUS
  <1> QED
    BY <1>1, FS_EmptySet DEF Bytes

(* One more file adds what it holds.                                         *)
LEMMA BytesAdded ==
  ASSUME NEW contents, NEW names, IsFiniteSet(names), NEW file, file \notin names,
         \A name \in names \cup {file} : contents[name] \in Nat
  PROVE  /\ IsFiniteSet(names \cup {file})
         /\ Bytes(contents, names) \in Nat
         /\ Bytes(contents, names \cup {file}) = Bytes(contents, names) + contents[file]
  <1> DEFINE S == UNION {BytesOf(contents, name) : name \in names}
  <1> DEFINE T == BytesOf(contents, file)
  <1>1. IsFiniteSet(names \cup {file})
    BY FS_AddElement
  <1>2. /\ IsFiniteSet(S) /\ Bytes(contents, names) \in Nat
        /\ Bytes(contents, names) = Cardinality(S)
    BY BytesFinite
  <1>3. IsFiniteSet(T) /\ Cardinality(T) = contents[file]
    BY BytesOfFile
  <1>4. S \cap T = {}
    BY DEF BytesOf
  <1>5. UNION {BytesOf(contents, name) : name \in names \cup {file}} = S \cup T
    OBVIOUS
  <1>6. Bytes(contents, names \cup {file})
          = Cardinality(UNION {BytesOf(contents, name) : name \in names \cup {file}})
    BY <1>1, BytesFinite
  <1>7. Cardinality(S \cup T) = Cardinality(S) + Cardinality(T) - Cardinality(S \cap T)
    BY <1>2, <1>3, FS_Union
  <1>8. Cardinality(S \cap T) = 0
    BY <1>4, FS_EmptySet
  <1>9. Bytes(contents, names \cup {file}) = Cardinality(S \cup T)
    BY <1>5, <1>6
  <1>10. Bytes(contents, names \cup {file}) = Bytes(contents, names) + contents[file] - 0
    <2> HIDE DEF S, T
    <2> QED
      BY <1>2, <1>3, <1>7, <1>8, <1>9
  <1> QED
    BY <1>1, <1>2, <1>10

(* Fewer files hold no more.                                                 *)
LEMMA BytesBounded ==
  ASSUME NEW contents, NEW names, IsFiniteSet(names), NEW some \in SUBSET names,
         \A name \in names : contents[name] \in Nat
  PROVE  Bytes(contents, some) <= Bytes(contents, names)
  <1>1. IsFiniteSet(some)
    BY FS_Subset
  <1> DEFINE S == UNION {BytesOf(contents, name) : name \in names}
  <1> DEFINE T == UNION {BytesOf(contents, name) : name \in some}
  <1>2. IsFiniteSet(S) /\ Bytes(contents, names) = Cardinality(S)
    BY BytesFinite
  <1>3. Bytes(contents, some) = Cardinality(T)
    BY <1>1, BytesFinite
  <1>4. T \subseteq S
    OBVIOUS
  <1> HIDE DEF S, T
  <1>5. Cardinality(T) <= Cardinality(S)
    BY <1>2, <1>4, FS_Subset
  <1> QED
    BY <1>2, <1>3, <1>5

-----------------------------------------------------------------------------
(* Legal packages.                                                           *)

Paths == Files \cup {Manifest}

(* What makes a package with these contents legal.                           *)
Allowed(contents) ==
    /\ contents \in [Paths -> Nat]
    /\ contents[Manifest] \in ValidManifests
    /\ \A name \in Paths : contents[name] <= Limit[name]
    /\ \A file \in Files :
          contents[file] = digests[file] /\ digests[file] \in OfItsKind[file]
    /\ digests \in FitTogether
    /\ mode # "shared"
    /\ mode = "archive" => Holds(contents)
    /\ Bytes(contents, Paths) <= MaxPackageBytes
    /\ Bytes(contents, Paths) = MaxPackageBytes => \A file \in Files : contents[file] > 0

(* How far the loader has got with them.                                     *)
OnItsWay(contents) ==
    /\ pc # "refused"
    /\ \A name \in Paths :
          mode = "directory" \/ name \in seen => disk[name] = contents[name]
    /\ pc = "open" => seen = {} /\ total = 0
    /\ pc = "extract" => total = Bytes(contents, seen)
    /\ pc \in {"open", "extract", "manifest"} => todo = Files
    /\ pc \in {"next", "inspect", "read"} =>
         total = Bytes(contents, {Manifest} \cup (Files \ (todo \cup AtHand)))
    /\ pc \in {"inspect", "read"} => limit = Remaining(current)

LegalInv ==
    /\ pc \in {"open", "extract"} => mode = "archive"
    /\ \A manifest \in ValidManifests : Legal(manifest) => OnItsWay(Contents(manifest))

LEMMA LegalIsAllowed ==
  ASSUME TypeOK, NEW manifest \in ValidManifests, Legal(manifest)
  PROVE  Allowed(Contents(manifest)) /\ Contents(manifest)[Manifest] = manifest
  <1>1. manifest \in Nat /\ digests \in [Files -> Nat] /\ Manifest \notin Files
    BY ContentsAssumption, NamesAssumption DEF TypeOK
  <1>2. Contents(manifest) \in [Paths -> Nat] /\ DOMAIN Contents(manifest) = Paths
    BY <1>1 DEF Contents, Paths
  <1>3. /\ Contents(manifest)[Manifest] = manifest
        /\ \A file \in Files : Contents(manifest)[file] = digests[file]
    BY <1>1 DEF Contents
  <1> QED
    BY <1>2, <1>3 DEF Legal, Allowed

(* There is room for every file, whatever others were read before it.        *)
LEMMA RoomForAll ==
  ASSUME NEW contents, Allowed(contents), NEW names \in SUBSET Paths,
         NEW file \in Paths \ names
  PROVE  /\ Bytes(contents, names) \in Nat
         /\ Bytes(contents, names \cup {file}) = Bytes(contents, names) + contents[file]
         /\ Bytes(contents, names) + contents[file] <= MaxPackageBytes
         /\ file \in Files => Bytes(contents, names) < MaxPackageBytes
  <1>1. IsFiniteSet(Paths)
    BY NamesAssumption, FS_AddElement DEF Paths
  <1>2. IsFiniteSet(names) /\ \A name \in Paths : contents[name] \in Nat
    BY <1>1, FS_Subset DEF Allowed
  <1>3. /\ Bytes(contents, names) \in Nat
        /\ Bytes(contents, names \cup {file}) = Bytes(contents, names) + contents[file]
    BY <1>2, BytesAdded
  <1>4. /\ Bytes(contents, names \cup {file}) <= Bytes(contents, Paths)
        /\ Bytes(contents, names) <= Bytes(contents, Paths)
    BY <1>1, <1>2, BytesBounded
  <1>5. Bytes(contents, Paths) \in Nat /\ contents[file] \in Nat /\ MaxPackageBytes \in Nat
    BY <1>1, <1>2, BytesFinite, LimitsAssumption
  <1>6. Bytes(contents, Paths) <= MaxPackageBytes
    BY DEF Allowed
  <1>7. CASE Bytes(contents, Paths) < MaxPackageBytes
    BY <1>3, <1>4, <1>5, <1>7
  <1>8. CASE Bytes(contents, Paths) = MaxPackageBytes
    <2>1. file \in Files => contents[file] > 0
      BY <1>8 DEF Allowed
    <2> QED
      BY <1>3, <1>4, <1>5, <1>8, <2>1
  <1> QED
    BY <1>5, <1>6, <1>7, <1>8

(* A legal archive is extracted: every entry is new and within the limit.    *)
LEMMA LegalExtract ==
  ASSUME LoadInv, NEW contents, Allowed(contents), OnItsWay(contents), mode = "archive",
         Extract
  PROVE  OnItsWay(contents)'
  <1> DEFINE entry == entries[position]
  <1>1. /\ pc = "extract" /\ position \in 1 .. Len(entries) /\ position \in Nat
        /\ position' = position + 1
        /\ UNCHANGED <<digests, mode, entries, todo, current, limit, loaded>>
    BY LenProperties DEF Extract, LoadInv, TypeOK
  <1>2. /\ entry.name \in Paths /\ entry.regular
        /\ entry.declared = contents[entry.name] /\ entry.size = contents[entry.name]
    BY <1>1 DEF Allowed, Holds
  <1>3. /\ seen = {entries[i].name : i \in 1 .. position - 1}
        /\ \A i, j \in 1 .. Len(entries) : entries[i].name = entries[j].name => i = j
    BY <1>1 DEF LoadInv, EntryInv, Allowed, Holds
  <1>4. entry.name \notin seen
    BY <1>1, <1>3
  <1>5. seen \subseteq Paths
    BY <1>1, <1>3 DEF Allowed, Holds
  <1>6. contents[entry.name] \in Nat /\ total = Bytes(contents, seen)
    BY <1>1, <1>2 DEF Allowed, OnItsWay
  <1> HIDE DEF entry
  <1>7. /\ total \in Nat /\ total + contents[entry.name] <= MaxPackageBytes
        /\ Bytes(contents, seen \cup {entry.name}) = total + contents[entry.name]
    BY <1>2, <1>4, <1>5, <1>6, RoomForAll
  <1>8. entry.declared <= MaxPackageBytes - total
    BY <1>2, <1>6, <1>7, LimitsAssumption
  <1>9. /\ seen' = seen \cup {entry.name} /\ total' = total + contents[entry.name]
        /\ disk' = [disk EXCEPT ![entry.name] = contents[entry.name]] /\ pc' = pc
    BY <1>2, <1>4, <1>8, NamesAssumption DEF Paths, Extract, OfAPackage, NewName, entry
  <1>10. disk \in [Names -> Nat \cup {Missing}] /\ Paths \subseteq Names
    BY DEF LoadInv, TypeOK, Paths, Names
  <1>11. \A name \in Paths : name \in seen' => disk'[name] = contents[name]
    BY <1>2, <1>9, <1>10 DEF OnItsWay
  <1> QED
    BY <1>1, <1>7, <1>9, <1>11 DEF OnItsWay

(* ... and when it is, all of it is there.                                   *)
LEMMA LegalExtracted ==
  ASSUME LoadInv, NEW contents, Allowed(contents), mode = "archive",
         pc # "refused", position = Len(entries) + 1
  PROVE  seen = Paths
  <1>1. position - 1 = Len(entries)
    BY LenProperties DEF LoadInv, TypeOK
  <1>2. seen = {entries[i].name : i \in 1 .. Len(entries)}
    BY <1>1 DEF LoadInv, EntryInv
  <1> QED
    BY <1>2 DEF Allowed, Holds

(* Once the loader reads files, they hold their contents.                    *)
LEMMA LegalFiles ==
  ASSUME LoadInv, NEW contents, Allowed(contents), OnItsWay(contents),
         pc \in {"manifest", "next", "inspect", "read"}, NEW name \in Paths
  PROVE  disk[name] = contents[name] /\ contents[name] \in Nat
  <1>1. mode = "archive" => seen = Paths
    BY LegalExtracted DEF LoadInv, OrderInv
  <1>2. mode \in {"directory", "archive"}
    BY DEF LoadInv, TypeOK, Allowed
  <1> QED
    BY <1>1, <1>2 DEF OnItsWay, Allowed

LEMMA LegalOpen ==
  ASSUME LoadInv, NEW contents, Allowed(contents), OnItsWay(contents), mode = "archive",
         OpenArchive \/ Extracted
  PROVE  OnItsWay(contents)'
  <1>1. CASE OpenArchive
    <2>1. /\ pc = "open" /\ pc' = "extract"
          /\ UNCHANGED <<disk, digests, archive, todo, current, limit, total, loaded>>
      BY <1>1 DEF OpenArchive, Goto, Allowed, Holds
    <2> QED
      BY <2>1, BytesOfNone DEF OnItsWay, archive
  <1>2. CASE Extracted
    <2>1. /\ pc = "extract" /\ pc' = "manifest"
          /\ UNCHANGED <<disk, digests, archive, todo, current, limit, loaded>>
      BY <1>2 DEF Extracted, Goto
    <2>2. todo = Files
      BY <2>1 DEF OnItsWay
    <2> QED
      BY <2>1, <2>2 DEF OnItsWay, archive
  <1> QED
    BY <1>1, <1>2

LEMMA LegalManifest ==
  ASSUME LoadInv, NEW contents, Allowed(contents), OnItsWay(contents), ReadManifest
  PROVE  OnItsWay(contents)'
  <1>1. /\ pc = "manifest" /\ todo = Files
        /\ UNCHANGED <<disk, digests, archive, todo, current, limit, loaded>>
    BY DEF ReadManifest, OnItsWay
  <1>2. Manifest \in Paths /\ Manifest \notin Files
    BY NamesAssumption DEF Paths
  <1>3. disk[Manifest] = contents[Manifest] /\ contents[Manifest] \in Nat
    BY <1>1, <1>2, LegalFiles
  <1>4. disk[Manifest] \in 0 .. Limit[Manifest] /\ IsManifest
    BY <1>2, <1>3, LimitsAssumption DEF Allowed, IsManifest
  <1>5. pc' = "next" /\ total' = contents[Manifest]
    BY <1>3, <1>4 DEF ReadManifest, Goto
  <1>6. Bytes(contents, {Manifest}) = contents[Manifest]
    <2>1. Bytes(contents, {} \cup {Manifest}) = Bytes(contents, {}) + contents[Manifest]
      BY <1>3, BytesAdded, FS_EmptySet
    <2> QED
      BY <1>3, <2>1, BytesOfNone
  <1>7. {Manifest} \cup (Files \ (todo' \cup AtHand')) = {Manifest}
    BY <1>1
  <1> QED
    BY <1>1, <1>5, <1>6, <1>7 DEF OnItsWay, archive

(* There is room for the next file.                                          *)
LEMMA LegalNextFile ==
  ASSUME LoadInv, NEW contents, Allowed(contents), OnItsWay(contents), NextFile
  PROVE  OnItsWay(contents)'
  <1>1. PICK file \in todo :
          /\ todo' = todo \ {file} /\ current' = file
          /\ IF total >= MaxPackageBytes
             THEN pc' = "refused" /\ UNCHANGED limit
             ELSE pc' = "inspect" /\ limit' = Remaining(file)
    BY DEF NextFile, Goto
  <1>2. /\ pc = "next" /\ UNCHANGED <<disk, digests, archive, total, loaded>>
        /\ file \in Files /\ todo \subseteq Files /\ total \in Nat
    BY DEF NextFile, LoadInv, TypeOK
  <1> DEFINE done == {Manifest} \cup (Files \ todo)
  <1>3. total = Bytes(contents, done)
    BY <1>2 DEF OnItsWay, AtHand
  <1>4. done \subseteq Paths /\ file \in Paths \ done
    BY <1>2, NamesAssumption DEF Paths
  <1>5. {Manifest} \cup (Files \ (todo' \cup {file})) = done
    BY <1>1, <1>2
  <1> HIDE DEF done
  <1>6. total < MaxPackageBytes
    BY <1>2, <1>3, <1>4, RoomForAll
  <1>7. pc' = "inspect" /\ limit' = Remaining(file)
    BY <1>1, <1>2, <1>6, LimitsAssumption
  <1>8. AtHand' = {file} /\ limit' = Remaining(current)'
    BY <1>1, <1>2, <1>7 DEF AtHand, Remaining
  <1> QED
    BY <1>1, <1>2, <1>3, <1>5, <1>7, <1>8 DEF OnItsWay, archive

(* The file at hand is within what it may take, and adds what it holds.      *)
LEMMA LegalRoom ==
  ASSUME LoadInv, NEW contents, Allowed(contents), OnItsWay(contents),
         pc \in {"inspect", "read"}
  PROVE  /\ disk[current] \in 0 .. limit /\ disk[current] = digests[current]
         /\ total + disk[current] <= MaxPackageBytes
         /\ total + disk[current] = Bytes(contents, {Manifest} \cup (Files \ todo))
  <1>1. current \in Files /\ current \notin todo /\ todo \subseteq Files /\ total \in Nat
    BY DEF LoadInv, RoomInv, TypeOK
  <1> DEFINE done == {Manifest} \cup (Files \ (todo \cup {current}))
  <1>2. total = Bytes(contents, done) /\ limit = Remaining(current)
    BY DEF OnItsWay, AtHand
  <1>3. done \subseteq Paths /\ current \in Paths \ done
        /\ done \cup {current} = {Manifest} \cup (Files \ todo)
    BY <1>1, NamesAssumption DEF Paths
  <1> HIDE DEF done
  <1>4. disk[current] = contents[current] /\ contents[current] \in Nat
    BY <1>3, LegalFiles
  <1>5. /\ Bytes(contents, done \cup {current}) = total + contents[current]
        /\ total + contents[current] <= MaxPackageBytes
    BY <1>2, <1>3, RoomForAll
  <1>6. contents[current] <= Limit[current] /\ contents[current] = digests[current]
    BY <1>1, <1>3 DEF Allowed
  <1>7. contents[current] <= limit
    BY <1>1, <1>2, <1>4, <1>5, <1>6, LimitsAssumption DEF Remaining
  <1>8. limit \in Nat
    BY DEF LoadInv, TypeOK
  <1> QED
    BY <1>3, <1>4, <1>5, <1>6, <1>7, <1>8

LEMMA LegalRead ==
  ASSUME LoadInv, NEW contents, Allowed(contents), OnItsWay(contents), Inspect \/ ReadFile
  PROVE  OnItsWay(contents)'
  <1>1. pc \in {"inspect", "read"}
        /\ UNCHANGED <<disk, digests, archive, todo, current, limit>>
    BY DEF Inspect, ReadFile
  <1>2. /\ disk[current] \in 0 .. limit /\ disk[current] = digests[current]
        /\ total + disk[current] <= MaxPackageBytes
        /\ total + disk[current] = Bytes(contents, {Manifest} \cup (Files \ todo))
    BY <1>1, LegalRoom
  <1>3. CASE Inspect
    <2>1. pc = "inspect" /\ pc' = "read" /\ total' = total
      BY <1>2, <1>3 DEF Inspect, Goto
    <2>2. AtHand' = AtHand /\ Remaining(current)' = Remaining(current)
      BY <1>1, <2>1 DEF AtHand, Remaining
    <2> QED
      BY <1>1, <2>1, <2>2 DEF OnItsWay, archive
  <1>4. CASE ReadFile
    <2>1. pc' = "next" /\ total' = total + disk[current]
      BY <1>2, <1>4 DEF ReadFile, Verified, Goto
    <2>2. {Manifest} \cup (Files \ (todo' \cup AtHand')) = {Manifest} \cup (Files \ todo)
      BY <1>1, <2>1 DEF AtHand
    <2> QED
      BY <1>1, <1>2, <2>1, <2>2 DEF OnItsWay, archive
  <1> QED
    BY <1>3, <1>4

(* What was read passes the checks on all files.                             *)
LEMMA LegalFinish ==
  ASSUME LoadInv, NEW contents, Allowed(contents), OnItsWay(contents), Finish
  PROVE  OnItsWay(contents)'
  <1>1. /\ pc = "next" /\ todo = {} /\ loaded \in [Files -> Nat \cup {Missing}]
        /\ UNCHANGED <<disk, digests, archive, todo, current, limit, total, loaded>>
    BY DEF Finish, LoadInv, TypeOK
  <1>2. \A file \in Files : loaded[file] = digests[file]
    BY <1>1 DEF LoadInv, TypeOK, AtHand, VerifiedInv
  <1>3. loaded = digests
    BY <1>1, <1>2 DEF LoadInv, TypeOK
  <1>4. WellFormed /\ PresentsSchema
    BY <1>2, <1>3 DEF Allowed, WellFormed, PresentsSchema
  <1>5. Declared
    BY <1>1, LegalExtracted DEF LoadInv, OrderInv, Declared, Paths
  <1>6. pc' = "accepted"
    BY <1>4, <1>5 DEF Finish, Goto
  <1> QED
    BY <1>1, <1>6 DEF OnItsWay, archive

(* What makes a package legal does not change while it is loaded.            *)
LEMMA LegalStays ==
  ASSUME LoadInv, LegalInv, [Next]_vars, NEW manifest \in ValidManifests, Legal(manifest)'
  PROVE  Legal(manifest) /\ UNCHANGED <<digests, mode, entries>>
  <1>1. UNCHANGED <<digests, mode, entries>>
    BY DEF Next, OpenArchive, Extract, Extracted, ReadManifest, NextFile, Inspect, ReadFile,
           Finish, Change, archive, vars
  <1>2. mode = "directory" => disk'[Manifest] = disk[Manifest]
    <2>1. CASE Extract
      BY <2>1 DEF Extract, LegalInv
    <2>2. CASE Change
      BY <2>2, NamesAssumption DEF Change, LoadInv, TypeOK
    <2>3. CASE ~Extract /\ ~Change
      BY <2>3 DEF Next, OpenArchive, Extracted, ReadManifest, NextFile, Inspect, ReadFile,
                  Finish, vars
    <2> QED
      BY <2>1, <2>2, <2>3
  <1>3. Contents(manifest)' = Contents(manifest) /\ ArchiveSize' = ArchiveSize
    BY <1>1 DEF Contents, ArchiveSize
  <1> QED
    BY <1>1, <1>2, <1>3 DEF Legal, Holds

LEMMA LegalStep ==
  ASSUME LoadInv, LegalInv, [Next]_vars, NEW contents, Allowed(contents), OnItsWay(contents)
  PROVE  OnItsWay(contents)'
  <1>1. CASE OpenArchive \/ Extracted
    BY <1>1, LegalOpen DEF OpenArchive, Extracted, LegalInv
  <1>2. CASE Extract
    BY <1>2, LegalExtract DEF Extract, LegalInv
  <1>3. CASE ReadManifest
    BY <1>3, LegalManifest
  <1>4. CASE NextFile
    BY <1>4, LegalNextFile
  <1>5. CASE Inspect \/ ReadFile
    BY <1>5, LegalRead
  <1>6. CASE Finish
    BY <1>6, LegalFinish
  <1>7. CASE Change
    BY <1>7 DEF Change, Allowed
  <1>8. CASE UNCHANGED vars
    BY <1>8 DEF vars, archive, OnItsWay, AtHand, Remaining
  <1> QED
    BY <1>1, <1>2, <1>3, <1>4, <1>5, <1>6, <1>7, <1>8 DEF Next

LEMMA InitLegal == Init => LegalInv
  <1> SUFFICES ASSUME Init, NEW manifest \in ValidManifests, Legal(manifest)
               PROVE  OnItsWay(Contents(manifest))
    BY DEF Init, LegalInv
  <1>1. LoadInv
    BY InitLoad
  <1>2. Allowed(Contents(manifest)) /\ Contents(manifest)[Manifest] = manifest
    BY <1>1, LegalIsAllowed DEF LoadInv
  <1>3. pc \in {"open", "manifest"} /\ todo = Files /\ seen = {} /\ total = 0
    BY DEF Init
  <1>4. ASSUME mode = "directory", NEW name \in Paths
        PROVE  disk[name] = Contents(manifest)[name]
    <2>1. disk[Manifest] = manifest
      BY <1>4 DEF Legal
    <2>2. name \in Files => disk[name] = digests[name]
      BY <1>4, NamesAssumption DEF Init, Names
    <2> QED
      BY <1>2, <2>1, <2>2 DEF Paths, Allowed
  <1> QED
    BY <1>3, <1>4 DEF OnItsWay

LEMMA NextLegal == LoadInv /\ LegalInv /\ [Next]_vars => LegalInv'
  <1> SUFFICES ASSUME LoadInv, LegalInv, [Next]_vars PROVE LegalInv'
    OBVIOUS
  <1>1. (pc \in {"open", "extract"} => mode = "archive")'
    BY DEF LegalInv, Next, OpenArchive, Extract, Extracted, ReadManifest, NextFile, Inspect,
           ReadFile, Finish, Change, Goto, archive, vars
  <1>2. ASSUME NEW manifest \in ValidManifests, Legal(manifest)'
        PROVE  OnItsWay(Contents(manifest))'
    <2>1. Legal(manifest) /\ UNCHANGED digests
      BY <1>2, LegalStays
    <2>2. PICK contents : contents = Contents(manifest)
      OBVIOUS
    <2>3. Contents(manifest)' = contents
      BY <2>1, <2>2 DEF Contents
    <2>4. Allowed(contents) /\ OnItsWay(contents)
      BY <2>1, <2>2, LegalIsAllowed DEF LoadInv, LegalInv
    <2>5. OnItsWay(contents)'
      BY <2>4, LegalStep
    <2> QED
      BY <2>3, <2>5 DEF OnItsWay
  <1> QED
    BY <1>1, <1>2 DEF LegalInv

(* Every legal package loads, whatever the order the files come in, the      *)
(* sizes and the limits, unless it fills the limit and a file of it is empty *)
(* (loader.go:67-152, archive.go:102-177).                                   *)
THEOREM LegalIsLoaded == Spec => []LegalLoads
  <1>1. LegalInv => LegalLoads
    BY DEF LegalInv, LegalLoads, OnItsWay
  <1> QED
    BY <1>1, InitLegal, NextLegal, LoadInvariant, PTL DEF Spec
=============================================================================
