------------------------------ MODULE MCManifests ------------------------------
(* Small instances of GitParts: the values of a part's constants are those *)
(* of its MC module, seen through an instance in which the constants they  *)
(* are given to are empty, for the values need none of them.               *)
EXTENDS GitParts

CONSTANTS t1, t2, f1, f2, c1, c2

VmGiven    == INSTANCE MCVmEdit WITH Manifests <- {}, Clusters <- {}, Edits <- {}
StageGiven == INSTANCE MCStaging
    WITH Tabs <- {}, Operations <- {}, Layouts <- {}, Clusters <- {}, MaxMoves <- 0, MaxFaults <- 0,
         base <- trunk, live <- ran, draft <- filled, moves <- merges, faults <- refused
NetGiven   == INSTANCE MCNetForms WITH Forms <- {}, HandEdits <- LAMBDA d : {}
TraceGiven == INSTANCE MCNetwork WITH Docs <- {}, Workloads <- {}, Flows <- {}
DriftGiven == INSTANCE MCDriftView WITH AppOrder <- <<>>, AppStates <- {}
TenGiven   == INSTANCE MCTenancy WITH AtFirst <- {}, ByHand <- {}
HistGiven  == INSTANCE MCHistory WITH Roots <- {}, Misreads <- {}

ManifestsValue    == VmGiven!SomeManifests
ClustersValue     == VmGiven!SomeClusters
EditsValue        == VmGiven!SomeEdits
OperationsValue   == StageGiven!AllOperations
LayoutsValue      == StageGiven!TwoLayouts
AtStartValue      == StageGiven!AllRuns
FormsValue        == NetGiven!SomeForms
HandEditsValue(d) == NetGiven!SomeHandEdits(d)
DocsValue         == TraceGiven!Objects
WorkloadsValue    == TraceGiven!Vms
FlowsValue        == TraceGiven!SomeFlows
AppOrderValue     == DriftGiven!TwoApps
AppStatesValue    == DriftGiven!SomeApps
AtFirstValue      == TenGiven!SomeAtFirst
ByHandValue       == TenGiven!SomeByHand
RootsValue        == HistGiven!OneFile
MisreadsValue     == HistGiven!AllButOne
================================================================================
