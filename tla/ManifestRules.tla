---------------------------- MODULE ManifestRules ----------------------------
(***************************************************************************)
(* What the manifest of a package must satisfy (runner/v1/manifest.go). A  *)
(* path is the sequence of its segments: an absolute one begins with an    *)
(* empty segment, and the empty path stands for a file that is not named.  *)
(***************************************************************************)
EXTENDS RunnerABI, FiniteSets

CONSTANTS
    PackageIDs,         (* texts that packageIDPattern matches               *)
    Versions,           (* texts that semanticVersionPattern matches         *)
    PortIDs,            (* texts that portIDPattern matches                  *)
    Foreign,            (* segments with a backslash or a colon              *)
    ManifestPath,       (* manifest.json                                     *)
    PackageFormat

NoPath == <<>>

(* path.Clean leaves it alone and it does not begin with "../"; a path that  *)
(* is ".." alone passes.                                                     *)
PackagePathValid(path) ==
    /\ path # NoPath
    /\ path = <<"..">> \/ \A i \in DOMAIN path : path[i] \notin {NoText, ".", ".."} \cup Foreign

IntegrityValid(integrity) == integrity.length = 64 /\ integrity.digits = "lowercase hex"

(* Memory is in KiB.                                                         *)
LimitsValid(limits) ==
    /\ limits.memory > 0 /\ limits.memory % 64 = 0
    /\ 0 \notin {limits.wall_time, limits.output_bytes, limits.output_messages}

PackageCapabilities == {"http", "file-read", "file-write", "scratch", "secret"}

CapabilitiesValid(manifest) ==
    /\ \A i \in DOMAIN manifest.capabilities : manifest.capabilities[i] \in PackageCapabilities
    /\ Distinct(manifest.capabilities)

-----------------------------------------------------------------------------
(* Ports, and what they may be for a script and for parallel batches.        *)

PortsValid(manifest) ==
    /\ manifest.ports # <<>>
    /\ Distinct([i \in DOMAIN manifest.ports |-> manifest.ports[i].id])
    /\ \A i \in DOMAIN manifest.ports :
          manifest.ports[i].id \in PortIDs /\ manifest.ports[i].direction \in {"input", "output"}

ScriptPorts ==
    {[id |-> direction, direction |-> direction, required |-> TRUE] :
       direction \in {"input", "output"}}

ScriptValid(manifest) ==
    /\ manifest.behavior = "streaming"
    /\ manifest.capabilities = <<>>
    /\ manifest.distribution \in {Nil, "singleton"}
    /\ Len(manifest.ports) = 2
    /\ {manifest.ports[i] : i \in DOMAIN manifest.ports} = ScriptPorts

InputPorts(manifest) == {i \in DOMAIN manifest.ports : manifest.ports[i].direction = "input"}

BatchParallelValid(manifest) ==
    /\ manifest.behavior = "streaming"
    /\ manifest.capabilities = <<>>
    /\ Cardinality(InputPorts(manifest)) = 1
    /\ \A i \in InputPorts(manifest) : manifest.ports[i].required

-----------------------------------------------------------------------------
(* Files. The others of the roles need not be named, and only the entrypoint *)
(* and the schema must differ.                                               *)

Required(manifest) == {manifest.entrypoint, manifest.schema}
Roles(manifest) ==
    Required(manifest) \cup ({manifest.icon, manifest.ui, manifest.readme} \ {NoPath})

(* Mutant: only the entrypoint and the schema need a checksum.               *)
RequiredChecksummed(manifest) == Required(manifest) \subseteq DOMAIN manifest.files
Checksummed(manifest) == Roles(manifest) \subseteq DOMAIN manifest.files

FilesValid(manifest) ==
    /\ Cardinality(DOMAIN manifest.files) \in 2 .. 32
    /\ ManifestPath \notin DOMAIN manifest.files
    /\ \A path \in DOMAIN manifest.files :
          PackagePathValid(path) /\ IntegrityValid(manifest.files[path])

ManifestValid(manifest) ==
    /\ manifest.format = PackageFormat /\ manifest.abi = ABIVersion
    /\ manifest.id \in PackageIDs /\ manifest.version \in Versions
    /\ manifest.implementation \in {"wasm", "javascript"}
    /\ \A path \in Roles(manifest) : PackagePathValid(path)
    /\ manifest.entrypoint # manifest.schema
    /\ manifest.behavior \in {"streaming", "blocking", "spilling"}
    /\ manifest.implementation = "javascript" => ScriptValid(manifest)
    /\ manifest.distribution \in {Nil, "singleton", "batch-parallel"}
    /\ manifest.distribution = "batch-parallel" => BatchParallelValid(manifest)
    /\ PortsValid(manifest)
    /\ CapabilitiesValid(manifest)
    /\ LimitsValid(manifest.limits)
    /\ FilesValid(manifest)
    /\ Checksummed(manifest)
=============================================================================
