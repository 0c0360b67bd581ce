-------------------------- MODULE PackageDocuments --------------------------
(***************************************************************************)
(* PackageLoad with documents for contents: the manifest, the schema and   *)
(* the descriptor that each content is, and the rules that decide which    *)
(* of them the loader takes.                                               *)
(***************************************************************************)
EXTENDS PackageLoad, ManifestRules, UIRules

CONSTANTS
    Manifests,          (* the manifest that each content is, if it is one   *)
    Schemas,            (* the schema, if it is a JSON object                *)
    Descriptors,        (* the descriptor, if it is one                      *)
    Schema, UI          (* the files that hold the schema and the descriptor *)

ASSUME RolesAssumption == Schema \in Files /\ UI \in Files
ASSUME DecodedAssumption ==
    /\ \A content \in DOMAIN Schemas : SchemaTyped(Schemas[content])
    /\ \A content \in DOMAIN Descriptors : UITyped(Descriptors[content])

(* What decodeManifest and Validate, and decodeUIManifest, make of contents. *)
ASSUME DocumentsAssumption ==
    /\ ValidManifests = {content \in DOMAIN Manifests : ManifestValid(Manifests[content])}
    /\ OfItsKind[Schema] = DOMAIN Schemas
    /\ \A contents \in FitTogether :
          /\ contents[UI] \in DOMAIN Descriptors /\ contents[Schema] \in DOMAIN Schemas
          /\ DescriptorFits(Descriptors[contents[UI]], Schemas[contents[Schema]])

(* The manifests declare the same files.                                     *)
ASSUME FilesAssumption ==
    /\ Manifest = ManifestPath
    /\ \A content \in DOMAIN Manifests : DOMAIN Manifests[content].files = Files

(* Every file the manifest gives a role was loaded: the loader takes each out*)
(* of the map it made without a look whether it is there (loader.go:122,     *)
(* 137, 143, 149).                                                           *)
RolesLoaded ==
    pc = "accepted" =>
        /\ disk[Manifest] \in DOMAIN Manifests
        /\ \A path \in Roles(Manifests[disk[Manifest]]) :
              path \in Files /\ loaded[path] # Missing

(* The descriptor of a package that loads presents its configuration, whole: *)
(* every field once, and in a select field every value once. The loader only *)
(* counts (loader.go:205, 228), so that this rests on the uniqueness Validate*)
(* demands (ui.go:79, 108), and on reading what was verified.                *)
PresentsConfiguration ==
    pc = "accepted" => Presents(Descriptors[loaded[UI]], Schemas[loaded[Schema]])
=============================================================================
