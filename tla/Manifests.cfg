SPECIFICATION PartsSpec
CONSTANTS
    None = None
    HandWritten = HandWritten
    Labels = {"app"}
    Groups = {"g1", "g2"}
    Manifests <- ManifestsValue
    Clusters <- ClustersValue
    Edits <- EditsValue
    MaxEdits = 2
    t1 = t1
    t2 = t2
    Tabs = {t1, t2}
    Operations <- OperationsValue
    Layouts <- LayoutsValue
    AtStart <- AtStartValue
    MaxRequests = 2
    MaxMerges = 1
    MaxRefused = 1
    Valid = {"a", "net", "br-ex", "n1", "n2", "10/8", "1.1"}
    Forms <- FormsValue
    HandEdits <- HandEditsValue
    Nodes = {{"worker"}, {"worker", "rack"}, {"rack"}, {}}
    MaxUplinks = 2
    Bad = Bad
    Http = Http
    Docs <- DocsValue
    Workloads <- WorkloadsValue
    Flows <- FlowsValue
    Addresses = {1, 2, 3, 4}
    PortNumbers = {80, 81}
    SystemNamespaces = {}
    MaxObjects = 3
    AppOrder <- AppOrderValue
    AppStates <- AppStatesValue
    Repo = "r"
    Platform = "plat"
    VMs = {"vm", "live"}
    Declared = {"vm"}
    Running = {"vm", "live"}
    Readers = {r1, r2}
    MaxEvents = 1
    Tenants = {"p"}
    Namespaces = {1, 2}
    Keys = {"team", "cost"}
    Hosts = {"h1", "h2"}
    Home = "h1"
    Elsewhere = "far"
    ByHand <- ByHandValue
    AtFirst <- AtFirstValue
    MaxHand = 1
    Files = {f1, f2}
    Contents = {c1, c2}
    c1 = c1
    c2 = c2
    f1 = f1
    f2 = f2
    Roots <- RootsValue
    Misreads <- MisreadsValue
    Limit = 2
    Scan = 3
    MaxCommits = 4
    MaxPushes = 1
CHECK_DEADLOCK FALSE
INVARIANTS VmAdoptionCloses DraftIsTheDelta FormsReadBack UplinkActsOnOne VerdictIsCertain NothingHidden CatalogAgrees MapsCurrent ManagedShown
           KeepsForeign SyncApplies HistoryChains
PROPERTIES OneSizing PreviewCovers SparesNeighbours DeclaredOnce NoOrphans NothingDropped ReviewShowsTheMerge UnwarnedUndoesOnlyIt
