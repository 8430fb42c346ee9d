SPECIFICATION CommandSpec
CHECK_DEADLOCK FALSE
CONSTANTS
    Unused = Unused
    Artifacts <- MCArtifacts
    Versions = {v1, v2}
    NoFile = NoFile
    Reserved = Reserved
    MaxFileFaults = 2
    MaxGenerations = 2
    Contents = {"x", "y"}
    Native = {"x", "y"}
    SamePaths = {"x"}
    Archives <- MCArchives
    Ledgers <- MCLedgers
    Absent = Absent
    MaxImportEdits = 1
    MaxImports = 2
    WorkflowFiles = {"w1", "w2"}
    References <- MCReferences
    Descriptor <- MCDescriptor
    Documents <- MCDocuments
    MaximumDepth = 3
    MaximumDescriptors = 5
    Catalog <- MCCatalog
    Fixtures <- MCFixtures
    RootPackages <- MCRootPackages
    GoSource = {"x.go"}
    Paths <- MCPaths
    Requirements <- MCRequirements
    Packages <- MCPackages
    Target = "t"
    FuzzModule <- MCFuzzModule
    CgoPackages = {"q"}
    OwnersOf <- MCOwners
    InputsOf <- MCInputs
    ModuleFiles <- MCModuleFiles
    Imports <- MCImports
    TestImports <- MCTestImports
    SpecModules <- MCSpecModules
    DirectoryOf <- MCDirectoryOf
    Trees <- MCTrees
    TestNames = {"TestA", "TestGone"}
    FuzzNames = {"FuzzA"}
    Addresses = {a1, a2, p1}
    PublicAddresses = {a1, a2}
    Statuses = {200, 299, 300, 403}
    Bodies = {"body", "other"}
    MaximumAuthorities = 3
    MaximumRequests = 2
INVARIANTS
    AggregateLosesNothing
    AggregateIsAtomic
    ImportVouchesForApproved
    ImportExitAccounts
    WorkflowsAreInspected
    ChangeReachesExactly
    SpecificationIsReviewed
