-------------------------------- MODULE GitParts --------------------------------
(* What dotvirt reads and writes in git, each in a part that runs by       *)
(* itself: the edits of a VM's manifest, what the operations of several    *)
(* tabs stage in one draft up to its landing on a base branch that others  *)
(* moved, the network forms, the trace over the network objects, the       *)
(* frames made of Argo CD's Applications, the tenancy of namespaces, and   *)
(* the history of a branch with its reverts.  The parts share no state.    *)
CONSTANTS None,
          HandWritten, Labels, Groups, Manifests, Clusters, Edits, MaxEdits,
          Tabs, Operations, Layouts, AtStart, MaxRequests, MaxMerges, MaxRefused,
          Valid, Forms, HandEdits(_), Nodes, MaxUplinks,
          Docs, Workloads, Flows, Addresses, PortNumbers, Bad, Http, SystemNamespaces, MaxObjects,
          AppOrder, AppStates, Repo, Platform, VMs, Declared, Running, Readers, MaxEvents,
          Tenants, Namespaces, Keys, Hosts, Home, Elsewhere, AtFirst, ByHand, MaxHand,
          Files, Contents, Roots, Misreads, Limit, Scan, MaxCommits, MaxPushes

VARIABLES part,
          vm, live, told, left,
          trunk, past, ran, filled, todo, asked, requests, merges, refused,
          docs, open,
          objects,
          apps, queue, store, watch, synced, dirty, maps, gen, owner, reader, frame, always, events,
          cluster, host, repos, git, draft, grants, outcome, foreign, seenDraft, seenGit, raced, hand,
          base, joined, seen, pushed, mirrored, prs, pushes

Vm    == INSTANCE VmEdit
Stage == INSTANCE Staging
    WITH Clusters <- AtStart, MaxMoves <- MaxMerges, MaxFaults <- MaxRefused,
         base <- trunk, live <- ran, draft <- filled, moves <- merges, faults <- refused
Net   == INSTANCE NetForms
Trace == INSTANCE NetTrace
Drift == INSTANCE DriftView
Ten   == INSTANCE Tenancy
Hist  == INSTANCE History

ASSUME PartsAssumption ==
    /\ Vm!EditAssumption /\ Vm!OwnAssumption /\ Vm!BackedAssumption
    /\ Stage!StagingAssumption /\ Net!FormsAssumption
    /\ Trace!TraceAssumption
    /\ Drift!DriftAssumption /\ Ten!TenancyAssumption /\ Hist!HistoryAssumption

vmVars    == <<vm, live, told, left>>
stageVars == <<trunk, past, ran, filled, todo, asked, requests, merges, refused>>
formVars  == <<docs, open>>
driftVars == <<apps, queue, store, watch, synced, dirty, maps, gen, owner, reader, frame, always, events>>
tenVars   == <<cluster, host, repos, git, draft, grants, outcome, foreign, seenDraft, seenGit, raced, hand>>
histVars  == <<base, joined, seen, pushed, mirrored, prs, pushes>>

\* The variables of a part that does not run stay None.
PartsInit ==
    /\ part \in {"vm", "staging", "forms", "trace", "drift", "tenancy", "history"}
    /\ IF part = "vm" THEN Vm!Init ELSE vm = None /\ live = None /\ told = None /\ left = None
    /\ IF part = "staging" THEN Stage!Init
       ELSE /\ trunk = None /\ past = None /\ ran = None /\ filled = None /\ todo = None
            /\ asked = None /\ requests = None /\ merges = None /\ refused = None
    /\ IF part = "forms" THEN Net!Init ELSE docs = None /\ open = None
    /\ IF part = "trace" THEN Trace!Init ELSE objects = None
    /\ IF part = "drift" THEN Drift!Init
       ELSE /\ apps = None /\ queue = None /\ store = None /\ watch = None /\ synced = None
            /\ dirty = None /\ maps = None /\ gen = None /\ owner = None /\ reader = None
            /\ frame = None /\ always = None /\ events = None
    /\ IF part = "tenancy" THEN Ten!Init
       ELSE /\ cluster = None /\ host = None /\ repos = None /\ git = None /\ draft = None
            /\ grants = None /\ outcome = None /\ foreign = None /\ seenDraft = None /\ seenGit = None
            /\ raced = None /\ hand = None
    /\ IF part = "history" THEN Hist!Init
       ELSE /\ base = None /\ joined = None /\ seen = None /\ pushed = None /\ mirrored = None /\ prs = None
            /\ pushes = None

PartsNext ==
    /\ UNCHANGED part
    /\ part # "vm"      => UNCHANGED vmVars
    /\ part # "staging" => UNCHANGED stageVars
    /\ part # "forms"   => UNCHANGED formVars
    /\ part # "trace"   => UNCHANGED objects
    /\ part # "drift"   => UNCHANGED driftVars
    /\ part # "tenancy" => UNCHANGED tenVars
    /\ part # "history" => UNCHANGED histVars
    /\ \/ part = "vm" /\ Vm!Next
       \/ part = "staging" /\ Stage!Next
       \/ part = "forms" /\ Net!Next
       \/ part = "trace" /\ Trace!Next
       \/ part = "drift" /\ Drift!Next
       \/ part = "tenancy" /\ Ten!Next
       \/ part = "history" /\ Hist!Next

partsVars == <<part, vmVars, stageVars, formVars, objects, driftVars, tenVars, histVars>>

PartsSpec == PartsInit /\ [][PartsNext]_partsVars

(* What each part promises, as its own module states it.                   *)
VmAdoptionCloses     == part = "vm" => Vm!AdoptionCloses
OneSizing            == Vm!OneSizing
PreviewCovers        == Vm!PreviewCovers
NoOrphans            == Vm!NoOrphans
DraftIsTheDelta      == part = "staging" => Stage!DraftIsTheDelta
SparesNeighbours     == Stage!SparesNeighbours
DeclaredOnce         == Stage!DeclaredOnce
FormsReadBack        == part = "forms" => Net!FormsReadBack
UplinkActsOnOne      == part = "forms" => Net!UplinkActsOnOne
NothingDropped       == Net!NothingDropped
VerdictIsCertain     == part = "trace" => Trace!VerdictIsCertain
NothingHidden        == part = "trace" => Trace!NothingHidden
CatalogAgrees        == part = "trace" => Trace!CatalogAgrees
MapsCurrent          == part = "drift" => Drift!MapsCurrent
ManagedShown         == part = "drift" => Drift!ManagedShown
KeepsForeign         == part = "tenancy" => Ten!KeepsForeign
SyncApplies          == part = "tenancy" => Ten!SyncApplies
HistoryChains        == part = "history" => Hist!HistoryChains
ReviewShowsTheMerge  == Hist!ReviewShowsTheMerge
UnwarnedUndoesOnlyIt == Hist!UnwarnedUndoesOnlyIt
================================================================================
