SPECIFICATION ProjectsSpec
CONSTANTS
    Manifests <- AllManifests
    Operations <- HostOperations
    Selections <- SomeSelections
    Catalogs <- SomeCatalogs
    Mutations <- SomeMutations
    Clients = {c1, c2}
    MaxRevision = 2
    MaxLate = 1
    MaxRestarts = 1
    Absent = Absent
    NoProject = NoProject
    NoFile = NoFile
    NoJob = NoJob
    Hosts = {"A", "B"}
    Roots = {"a1", "b1", "b2"}
    HostOf <- RootHosts
    RemoteOf <- RootRemotes
    LegacyArchives <- OldArchives
    Installed = {"B"}
    Files = {"f1", "f2"}
    InitialAnchors <- SomeAnchors
    EditFeatures = {"workflow override"}
    Colliding = {"workflow override"}
    FirstRoot = "a1"
    MaxEdits = 1
    MaxRevisions = 2
    Checkouts = {"c1", "c2", "c3"}
    CheckoutRemote <- CloneRemotes
    MaxProjects = 2
    MaxChanges = 1
    MaxUserEdits = 1
SYMMETRY ProjectSymmetry
INVARIANTS
    PacksHold
    PortabilityHolds
    IdentityHolds
    ClientsHold
PROPERTIES
    ConfigurationRevisioned
    
CHECK_DEADLOCK FALSE
