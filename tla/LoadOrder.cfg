\* Directories nobody touches.
SPECIFICATION Spec
CONSTANTS
    Files <- DeclaredFiles
    Manifest <- ManifestFile
    Undeclared <- OtherFiles
    PackagePaths <- ValidPaths
    Limit <- Limits
    MaxPackageBytes = 11
    ValidManifests <- Valid
    OfItsKind <- SomeKinds
    FitTogether <- SomeFit
    MinEntries = 4
    MaxEntries = 6
    Overhead = 1
    Sizes <- SomeSizes
    Archives <- SomeArchives
    Modes = {"directory"}
    NoText = NoText
    Nil = Nil
    ABIVersion = "v1"
    PackageIDs = {"org.runner"}
    Versions = {"1.0.0"}
    PortIDs = {"in", "out"}
    Foreign = {"C:"}
    ManifestPath <- ManifestFile
    PackageFormat = "v1"
    Length <- TextLength
    Blank <- IsBlank
    FieldKeys = {"mode", "name"}
    UIFormat = "v1"
    Manifests <- SomeManifests
    Schemas <- SomeSchemas
    Descriptors <- SomeDescriptors
    Schema <- SchemaFile
    UI <- UIFile
INVARIANTS
    LegalIsAccepted
CHECK_DEADLOCK FALSE
