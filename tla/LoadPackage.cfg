\* Directories whose files change, and archives.
SPECIFICATION Spec
CONSTANTS
    Files <- DeclaredFiles
    Manifest <- ManifestFile
    Undeclared <- OtherFiles
    PackagePaths <- ValidPaths
    Limit <- Limits
    MaxPackageBytes = 10
    ValidManifests <- Valid
    OfItsKind <- SomeKinds
    FitTogether <- SomeFit
    MinEntries = 4
    MaxEntries = 6
    Overhead = 1
    Sizes <- SomeSizes
    Archives <- SomeArchives
    Modes = {"directory", "shared", "archive"}
    NoText = NoText
    Nil = Nil
    ABIVersion = "v1"
    PackageIDs = {"org.runner"}
    Versions = {"1.0.0"}
    PortIDs = {"in", "out"}
    Foreign = {"C:"}
    ManifestPath <- ManifestFile
    PackageFormat = "v1"
    Length <- TextLength
    Blank <- IsBlank
    FieldKeys = {"mode", "name"}
    UIFormat = "v1"
    Manifests <- SomeManifests
    Schemas <- SomeSchemas
    Descriptors <- SomeDescriptors
    Schema <- SchemaFile
    UI <- UIFile
INVARIANTS
    TypeOK
    WithinBudget
    LegalLoads
    LoadedIsDeclared
    ArchiveIsExact
    RolesLoaded
    PresentsConfiguration
CHECK_DEADLOCK FALSE
