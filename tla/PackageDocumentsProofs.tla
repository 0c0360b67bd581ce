----------------------- MODULE PackageDocumentsProofs -----------------------
(***************************************************************************)
(* Proofs about PackageDocuments, for every package and whatever its       *)
(* manifest, schema and descriptor are.                                    *)
(***************************************************************************)
EXTENDS PackageDocuments, PackageLoadProofs, FiniteSetTheorems

-----------------------------------------------------------------------------
(* What the loader counts.                                                   *)

(* A list without repetitions of as many elements of a set as it has is all  *)
(* of the set.                                                               *)
LEMMA CountedIsAll ==
    ASSUME NEW S, IsFiniteSet(S), NEW n \in Nat, NEW f \in [1 .. n -> S],
           \A i, j \in 1 .. n : f[i] = f[j] => i = j, Cardinality(S) = n
    PROVE  \A s \in S : \E i \in 1 .. n : f[i] = s
  <1>1. IsFiniteSet(1 .. n) /\ Cardinality(1 .. n) = n
    BY FS_Interval
  <1>2. f \in Injection(1 .. n, S)
    BY DEF Injection, IsInjective
  <1>3. f \in Surjection(1 .. n, S)
    BY <1>1, <1>2, FS_Injection
  <1> QED
    BY <1>3 DEF Surjection

(* A list that has the elements of one as long without repetitions repeats   *)
(* none either.                                                              *)
LEMMA NoneRepeated ==
    ASSUME NEW G, NEW n \in Nat,
           NEW g \in [1 .. n -> G], \A s \in G : \E j \in 1 .. n : g[j] = s,
           NEW f \in [1 .. n -> G], \A i, j \in 1 .. n : f[i] = f[j] => i = j
    PROVE  IsFiniteSet(G) /\ Cardinality(G) = n
  <1>1. IsFiniteSet(1 .. n) /\ Cardinality(1 .. n) = n
    BY FS_Interval
  <1>2. g \in Surjection(1 .. n, G)
    BY DEF Surjection
  <1>3. IsFiniteSet(G) /\ Cardinality(G) <= n
    BY <1>1, <1>2, FS_Surjection
  <1>4. f \in Injection(1 .. n, G)
    BY DEF Injection, IsInjective
  <1>5. n <= Cardinality(G) /\ Cardinality(G) \in Nat
    BY <1>1, <1>3, <1>4, FS_Injection, FS_CardinalityType
  <1>6. Cardinality(G) = n
    BY <1>3, <1>5
  <1> QED
    BY <1>3, <1>6

(* A descriptor that the loader takes presents the schema: it counts, and the*)
(* descriptor repeats nothing.                                               *)
LEMMA FitsPresents ==
    ASSUME NEW ui, NEW schema, UITyped(ui), SchemaTyped(schema),
           DescriptorFits(ui, schema)
    PROVE  Presents(ui, schema)
  <1> DEFINE n == Len(ui.fields)
             keys == [i \in 1 .. n |-> ui.fields[i].key]
  <1>1. n \in Nat /\ DOMAIN ui.fields = 1 .. n
    BY DEF UITyped
  <1>2. Distinct(keys) /\ \A i \in 1 .. n : OptionsValid(ui.fields[i])
    <2>1. UIValid(ui)
      BY DEF DescriptorFits
    <2>2. Distinct(Keys(ui)) /\ \A i \in DOMAIN ui.fields : FieldValid(ui.fields[i])
      BY <2>1 DEF UIValid
    <2>3. Keys(ui) = keys
      BY <1>1 DEF Keys
    <2>4. \A i \in DOMAIN ui.fields : OptionsValid(ui.fields[i])
      BY <2>2 DEF FieldValid
    <2> QED
      BY <1>1, <2>2, <2>3, <2>4
  <1>3. keys \in [1 .. n -> DOMAIN schema] /\ Cardinality(DOMAIN schema) = n
    BY <1>1 DEF DescriptorFits, FieldFits
  <1>4. {ui.fields[i].key : i \in DOMAIN ui.fields} = DOMAIN schema
    <2>1. IsFiniteSet(DOMAIN schema)
      BY DEF SchemaTyped
    <2>2. \A i, j \in 1 .. n : keys[i] = keys[j] => i = j
      BY <1>2 DEF Distinct
    <2> HIDE DEF n, keys
    <2>3. \A s \in DOMAIN schema : \E i \in 1 .. n : keys[i] = s
      BY <1>1, <1>3, <2>1, <2>2, CountedIsAll
    <2>4. \A i \in 1 .. n : keys[i] = ui.fields[i].key /\ keys[i] \in DOMAIN schema
      BY <1>3 DEF keys
    <2>5. \A i \in DOMAIN ui.fields : ui.fields[i].key \in DOMAIN schema
      BY <1>1, <2>4
    <2>6. \A s \in DOMAIN schema : \E i \in DOMAIN ui.fields : ui.fields[i].key = s
      BY <1>1, <2>3, <2>4
    <2> QED
      BY <2>5, <2>6
  <1>5. ASSUME NEW i \in DOMAIN ui.fields, ui.fields[i].kind = "select"
        PROVE  LET field == ui.fields[i] IN
               /\ {field.options[j].value : j \in DOMAIN field.options} = Enum(schema, field.key)
               /\ Len(field.options) = Cardinality(Enum(schema, field.key))
    <2> DEFINE field == ui.fields[i]
               m == Len(field.options)
               values == [j \in 1 .. m |-> field.options[j].value]
               enum == [j \in 1 .. m |-> schema[field.key].enum[j]]
    <2>1. FieldFits(schema, field) /\ OptionsValid(field)
      BY <1>1, <1>2, <1>5 DEF DescriptorFits
    <2>2. m \in Nat /\ DOMAIN field.options = 1 .. m
      BY <1>5 DEF UITyped
    <2>3. DOMAIN schema[field.key].enum = 1 .. m
      BY <2>1, <1>5 DEF FieldFits, SchemaTyped
    <2>4. \A j, k \in 1 .. m : values[j] = values[k] => j = k
      BY <2>1, <2>2 DEF OptionsValid, OptionValues, Distinct
    <2>5. /\ enum \in [1 .. m -> Enum(schema, field.key)]
          /\ \A s \in Enum(schema, field.key) : \E k \in 1 .. m : enum[k] = s
      BY <2>3 DEF Enum
    <2>6. values \in [1 .. m -> Enum(schema, field.key)]
      BY <2>1, <2>2 DEF FieldFits
    <2> HIDE DEF values, enum, m
    <2>7. IsFiniteSet(Enum(schema, field.key)) /\ Cardinality(Enum(schema, field.key)) = m
      BY <2>2, <2>4, <2>5, <2>6, NoneRepeated
    <2>8. \A s \in Enum(schema, field.key) : \E j \in 1 .. m : values[j] = s
      BY <2>2, <2>4, <2>6, <2>7, CountedIsAll
    <2>9. \A j \in 1 .. m :
            values[j] = field.options[j].value /\ values[j] \in Enum(schema, field.key)
      BY <2>6 DEF values
    <2>10. \A j \in DOMAIN field.options : field.options[j].value \in Enum(schema, field.key)
      BY <2>2, <2>9
    <2>11. \A s \in Enum(schema, field.key) :
             \E j \in DOMAIN field.options : field.options[j].value = s
      BY <2>2, <2>8, <2>9
    <2>12. {field.options[j].value : j \in DOMAIN field.options} = Enum(schema, field.key)
      BY <2>10, <2>11
    <2>13. Len(field.options) = Cardinality(Enum(schema, field.key))
      BY <2>7 DEF m
    <2> QED
      BY <2>12, <2>13
  <1> QED
    BY <1>4, <1>5 DEF Presents
-----------------------------------------------------------------------------
(* The theorems.                                                             *)

(* Once it was read, the manifest of a package is one that validates: nobody *)
(* changes the loader's copy of it.                                          *)
ManifestInv ==
    pc \in {"next", "inspect", "read", "accepted"} => disk[Manifest] \in ValidManifests

LEMMA ManifestRead == Spec => []ManifestInv
  <1>1. Init => ManifestInv
    BY DEF Init, ManifestInv
  <1>2. LoadInv /\ ManifestInv /\ [Next]_vars => ManifestInv'
    <2> SUFFICES ASSUME LoadInv, ManifestInv, [Next]_vars PROVE ManifestInv'
      OBVIOUS
    <2>1. CASE OpenArchive
      BY <2>1 DEF OpenArchive, Goto, ManifestInv
    <2>2. CASE Extract
      BY <2>2 DEF Extract, Goto, ManifestInv
    <2>3. CASE Extracted
      BY <2>3 DEF Extracted, Goto, ManifestInv
    <2>4. CASE ReadManifest
      BY <2>4 DEF ReadManifest, IsManifest, Goto, ManifestInv
    <2>5. CASE NextFile
      BY <2>5 DEF NextFile, Goto, ManifestInv
    <2>6. CASE Inspect
      BY <2>6 DEF Inspect, Goto, ManifestInv
    <2>7. CASE ReadFile
      BY <2>7 DEF ReadFile, Keep, Goto, ManifestInv
    <2>8. CASE Finish
      BY <2>8 DEF Finish, Goto, ManifestInv
    <2>9. CASE Change
      <3>1. disk'[Manifest] = disk[Manifest] /\ pc' = pc
        BY <2>9, NamesAssumption DEF Change, LoadInv, TypeOK, Names
      <3> QED
        BY <3>1 DEF ManifestInv
    <2>10. CASE UNCHANGED vars
      BY <2>10 DEF vars, archive, ManifestInv
    <2> QED
      BY <2>1, <2>2, <2>3, <2>4, <2>5, <2>6, <2>7, <2>8, <2>9, <2>10 DEF Next
  <1> QED
    BY <1>1, <1>2, LoadInvariant, PTL DEF Spec

(* Every file with a role in the manifest of a package that loads was loaded.*)
THEOREM RolesAreLoaded == Spec => []RolesLoaded
  <1>1. LoadInv /\ ManifestInv => RolesLoaded
    <2> SUFFICES ASSUME LoadInv, ManifestInv, pc = "accepted"
                 PROVE  /\ disk[Manifest] \in DOMAIN Manifests
                        /\ \A path \in Roles(Manifests[disk[Manifest]]) :
                              path \in Files /\ loaded[path] # Missing
      BY DEF RolesLoaded
    <2>1. disk[Manifest] \in DOMAIN Manifests /\ ManifestValid(Manifests[disk[Manifest]])
      BY DocumentsAssumption DEF ManifestInv
    <2>2. Roles(Manifests[disk[Manifest]]) \subseteq Files
      BY <2>1, FilesAssumption DEF ManifestValid, Checksummed
    <2>3. \A file \in Files : loaded[file] # Missing
      BY DEF LoadInv, TypeOK, OrderInv, AtHand
    <2> QED
      BY <2>1, <2>2, <2>3
  <1> QED
    BY <1>1, ManifestRead, LoadInvariant, PTL

(* The descriptor of a package that loads presents its configuration, whole. *)
THEOREM ConfigurationPresented == Spec => []PresentsConfiguration
  <1>1. LoadInv => PresentsConfiguration
    <2> SUFFICES ASSUME LoadInv, pc = "accepted"
                 PROVE  Presents(Descriptors[loaded[UI]], Schemas[loaded[Schema]])
      BY DEF PresentsConfiguration
    <2>1. loaded \in FitTogether
      BY DEF LoadInv, OrderInv, PresentsSchema
    <2>2. /\ loaded[UI] \in DOMAIN Descriptors /\ loaded[Schema] \in DOMAIN Schemas
          /\ DescriptorFits(Descriptors[loaded[UI]], Schemas[loaded[Schema]])
      BY <2>1, DocumentsAssumption
    <2>3. UITyped(Descriptors[loaded[UI]]) /\ SchemaTyped(Schemas[loaded[Schema]])
      BY <2>2, DecodedAssumption
    <2> QED
      BY <2>2, <2>3, FitsPresents
  <1> QED
    BY <1>1, LoadInvariant, PTL
=============================================================================
