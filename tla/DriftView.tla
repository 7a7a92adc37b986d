------------------------------ MODULE DriftView ------------------------------
(***************************************************************************)
(* internal/argo, and the rows that internal/inventory makes of it: the    *)
(* Applications of Argo CD as the watch stores them, the drift maps that   *)
(* readers rebuild from the store when it has moved, and the frames that   *)
(* are built of the maps, one read after the other.                        *)
(*                                                                         *)
(* An Application is a record of its repositories, the rows it reports by  *)
(* object, the objects that its last operation could not apply, and its    *)
(* own sync, health, operation phase and error condition.  What Argo CD    *)
(* writes there is external: any of AppStates.                             *)
(***************************************************************************)
EXTENDS Naturals, Sequences, FiniteSets, FiniteSetsExt

CONSTANTS None,
          AppOrder,    \* the names that Applications may have, in order
          AppStates,   \* what an Application may be
          Repo,        \* the repository of the project
          Platform,    \* the platform repository
          VMs,         \* the objects that are VMs
          Declared,    \* the VMs that git declares
          Running,     \* the VMs of the cluster
          Readers,     \* the frame builders
          MaxEvents    \* bound: changes of an Application

\* What the values of the constants satisfy; the instances assume it.  The
\* status of a row is one that syncStatus leaves, never one of dotvirt's own,
\* and an object is no repository.
DriftAssumption ==
    /\ MaxEvents \in Nat /\ Declared \union Running \subseteq VMs
    /\ AppOrder \in Seq(Range(AppOrder))
    /\ None \notin Readers \union AppStates /\ None \notin {"NotTracked", "Pending", "missing"}
    /\ \A s \in AppStates :
          /\ \A o \in DOMAIN s.rows : s.rows[o].sync \notin {"NotTracked", "Pending"}
          /\ Platform \notin DOMAIN s.rows
          /\ s.repos # <<>> => Head(s.repos) \notin VMs

VARIABLES apps,     \* the Applications in the cluster
          queue,    \* the events that the watch has still to deliver
          store,    \* the Applications in the indexer
          watch,    \* the reflector: what it does next
          synced,   \* the initial list has landed
          dirty,    \* the store has moved since the maps were built
          maps,     \* the memoized maps
          gen,      \* generation of what is not a VM's
          owner,    \* who holds driftMu
          reader,   \* per reader: the read it is in, the frame so far
          frame,    \* per reader: the last frame
          always,   \* history: the objects and repositories that had an Application all along
          events

vars == <<apps, queue, store, watch, synced, dirty, maps, gen, owner, reader, frame, always, events>>

Absent == [a \in {} |-> None]

Put(m, a, app) == [x \in DOMAIN m \union {a} |-> IF x = a THEN app ELSE m[x]]
Without(m, a)  == [x \in DOMAIN m \ {a} |-> m[x]]

--------------------------------------------------------------------------------
(* Drift of one object.                                                    *)

(* A scan is the Applications of the store by their places in the order.   *)

(* The rows of an Application replace those of the ones before it.  An     *)
(* object that only the operation names gets no row, and the error of an   *)
(* operation is none once the object synced.                               *)
Reported(scan, o) ==
    LET last == Max({i \in DOMAIN scan : o \in DOMAIN scan[i].rows})
        row  == scan[last].rows[o]
    IN  [sync |-> row.sync, health |-> row.health,
         message |-> row.sync # "Synced" /\ \E i \in DOMAIN scan : i >= last /\ o \in scan[i].refused]

ResourceDrift(scan) ==
    [o \in UNION {DOMAIN scan[i].rows : i \in DOMAIN scan} |-> Reported(scan, o)]

VmView(rows) == [o \in DOMAIN rows \intersect VMs |-> rows[o]]
NonVM(rows)  == [o \in DOMAIN rows \ VMs |-> rows[o]]

--------------------------------------------------------------------------------
(* The rollup of a repository.                                             *)

SyncSeverity(s) ==
    CASE s = "OutOfSync" -> 3
      [] s = "Synced"    -> 1
      [] OTHER           -> 2

HealthSeverity(h) ==
    CASE h \in {"Degraded", "Missing"}    -> 3
      [] h \in {"Unknown", "Progressing"} -> 2
      [] h \in {"Healthy", "Suspended"}   -> 1
      [] OTHER                            -> 0

OpSeverity(phase) ==
    CASE phase \in {"Failed", "Error"}        -> 3
      [] phase \in {"Running", "Terminating"} -> 2
      [] phase = "Succeeded"                  -> 1
      [] OTHER                                -> 0

RollupSeverity(ps) ==
    LET s == {SyncSeverity(ps.sync), HealthSeverity(ps.health), OpSeverity(ps.op)}
    IN  CHOOSE n \in s : \A m \in s : m <= n

OpFailed(app) == app.op \in {"Failed", "Error"}

(* Degraded objects, and those refused by an operation that still stands.  *)
UnhealthyResources(app) ==
    {o \in DOMAIN app.rows : app.rows[o].health \notin {None, "Healthy", "Progressing", "Suspended"}}
    \union {o \in app.refused : OpFailed(app) /\ ~(o \in DOMAIN app.rows /\ app.rows[o].sync = "Synced")}

ProjectSync(app) ==
    [sync |-> app.sync, health |-> app.health, op |-> app.op,
     error |-> IF OpFailed(app) /\ app.sync # "Synced" THEN "operation" ELSE IF app.cond THEN "condition" ELSE None,
     unhealthy |-> UnhealthyResources(app)]

(* Of the Applications of one repository the most severe one speaks, the   *)
(* last of those.                                                          *)
Outranks(scan, i, j) ==
    LET new == RollupSeverity(ProjectSync(scan[i]))
        old == RollupSeverity(ProjectSync(scan[j]))
    IN  new > old \/ (new = old /\ i >= j)

Sourcing(scan) == {i \in DOMAIN scan : scan[i].repos # <<>>}

Speaker(scan, repo) ==
    LET these == {i \in Sourcing(scan) : Head(scan[i].repos) = repo}
    IN  CHOOSE i \in these : \A j \in these : Outranks(scan, i, j)

AppSync(scan) ==
    [repo \in {Head(scan[i].repos) : i \in Sourcing(scan)} |-> ProjectSync(scan[Speaker(scan, repo)])]

(* Nothing sources the platform repository: a standing error of its own.   *)
PlatformRollup(rollups) ==
    IF Platform \in DOMAIN rollups THEN rollups[Platform]
    ELSE [sync |-> None, health |-> "Missing", op |-> "Error", error |-> "missing", unhealthy |-> {}]

--------------------------------------------------------------------------------
(* The memo.                                                               *)

(* The store lists in hash order; what counts is the order of the keys.    *)
Places(names) == {i \in DOMAIN AppOrder : AppOrder[i] \in names}
Sorted(list)  == Places(Range(list))

BuildMaps(places) ==
    LET scan == [i \in places |-> store[AppOrder[i]]]
    IN  [rows |-> ResourceDrift(scan), rollups |-> AppSync(scan)]

Rows(m) == IF m = None THEN Absent ELSE m.rows

NonVMEqual(a, b) ==
    /\ Cardinality(DOMAIN NonVM(a)) = Cardinality(DOMAIN NonVM(b))
    /\ \A o \in DOMAIN NonVM(a) : o \in DOMAIN NonVM(b) /\ a[o] = b[o]

--------------------------------------------------------------------------------
Managed(m) ==
    (UNION {DOMAIN m[a].rows : a \in DOMAIN m})
        \union {Head(m[a].repos) : a \in {x \in DOMAIN m : m[x].repos # <<>>}}

AppSets == UNION {[A -> AppStates] : A \in SUBSET Range(AppOrder)}

Resting == [read |-> "none", step |-> "enter", drift |-> None, rollup |-> None, platform |-> None, gen |-> 0]

Init ==
    /\ apps \in AppSets
    /\ queue = <<>> /\ store = Absent
    /\ watch = "list"
    /\ synced = FALSE /\ dirty = FALSE
    /\ maps = None /\ gen = 0
    /\ owner = None
    /\ reader = [r \in Readers |-> Resting]
    /\ frame = [r \in Readers |-> None]
    /\ always = Managed(apps)
    /\ events = 0

readVars == <<maps, gen, owner, reader, frame>>

(* Argo CD writes, creates or removes an Application.                      *)
ArgoMoves(a) ==
    /\ events < MaxEvents
    /\ events' = events + 1
    /\ \/ \E s \in AppStates : apps' = Put(apps, a, s)
       \/ apps' = Without(apps, a)
    /\ apps' # apps
    /\ always' = always \intersect Managed(apps')
    /\ queue' = IF watch = "list" THEN queue
                ELSE Append(queue, [name |-> a, app |-> IF a \in DOMAIN apps' THEN apps'[a] ELSE None])
    /\ UNCHANGED <<store, watch, synced, dirty, readVars>>

\* Mutation: the latch is marked before the list is stored.
MarkedFirst ==
    /\ watch = "list"
    /\ synced' = TRUE
    /\ store' = IF synced THEN apps ELSE store
    /\ watch' = IF synced THEN "signal" ELSE "list"
    /\ UNCHANGED <<apps, queue, dirty, readVars, always, events>>

(* The list replaces what the indexer held; the latch is marked after it.  *)
Listed ==
    /\ watch = "list"
    /\ store' = apps
    /\ watch' = IF synced THEN "signal" ELSE "mark"
    /\ UNCHANGED <<apps, queue, synced, dirty, readVars, always, events>>

Marked ==
    /\ watch = "mark"
    /\ synced' = TRUE
    /\ watch' = "signal"
    /\ UNCHANGED <<apps, queue, store, dirty, readVars, always, events>>

(* Events are stored in their order.                                       *)
Delivered ==
    /\ watch = "deliver" /\ queue # <<>>
    /\ LET e == Head(queue)
       IN  store' = IF e.app = None THEN Without(store, e.name) ELSE Put(store, e.name, e.app)
    /\ queue' = Tail(queue)
    /\ watch' = "signal"
    /\ UNCHANGED <<apps, synced, dirty, readVars, always, events>>

(* A watch that cannot go on lists again.                                  *)
Dropped ==
    /\ watch = "deliver" /\ queue # <<>>
    /\ queue' = <<>>
    /\ watch' = "list"
    /\ UNCHANGED <<apps, store, synced, dirty, readVars, always, events>>

\* Mutation: the bus is told, the maps are not.
OnlyPublished ==
    /\ watch = "signal"
    /\ watch' = "deliver"
    /\ UNCHANGED <<apps, queue, store, synced, dirty, readVars, always, events>>

(* onChange: the maps are marked, the bus is told.                         *)
Signalled ==
    /\ watch = "signal"
    /\ dirty' = TRUE
    /\ watch' = "deliver"
    /\ UNCHANGED <<apps, queue, store, synced, readVars, always, events>>

--------------------------------------------------------------------------------
(* A frame: Drift, then ProjectDrift when there was drift, then the        *)
(* generation, each a call of its own under driftMu.                       *)

watchVars == <<apps, queue, store, watch, always, events>>

NextRead(read) ==
    CASE read = "drift"  -> "rollup"
      [] read = "rollup" -> "gen"
      [] read = "gen"    -> "done"

Step(r, f) == [f EXCEPT !.read = NextRead(reader[r].read), !.step = "enter"]

(* What the call returns of the maps m at generation g.                    *)
Returned(r, m, g) ==
    LET f == reader[r]
    IN  CASE f.read = "drift"  -> Step(r, [f EXCEPT !.drift = VmView(m.rows)])
          [] f.read = "rollup" -> Step(r, [f EXCEPT !.rollup = IF Repo \in DOMAIN m.rollups THEN m.rollups[Repo] ELSE None,
                                                    !.platform = PlatformRollup(m.rollups)])
          [] f.read = "gen"    -> Step(r, [f EXCEPT !.gen = g])

BeginFrame(r) ==
    /\ reader[r].read = "none"
    /\ reader' = [reader EXCEPT ![r] = [Resting EXCEPT !.read = "drift"]]
    /\ frame' = [frame EXCEPT ![r] = None]
    /\ UNCHANGED <<watchVars, synced, dirty, maps, gen, owner>>

(* Before the initial list drift is nil, no rollup is asked for, and the   *)
(* generation is 0.                                                        *)
NotSynced(r) ==
    /\ reader[r].read \in {"drift", "rollup", "gen"} /\ reader[r].step = "enter"
    /\ ~synced
    /\ reader' = [reader EXCEPT ![r].read = IF @ = "drift" THEN "gen" ELSE NextRead(@)]
    /\ UNCHANGED <<watchVars, synced, dirty, maps, gen, owner, frame>>

(* Done is checked before the lock is taken.                               *)
Enter(r) ==
    /\ reader[r].read \in {"drift", "rollup", "gen"} /\ reader[r].step = "enter"
    /\ synced
    /\ reader' = [reader EXCEPT ![r].step = "lock"]
    /\ UNCHANGED <<watchVars, synced, dirty, maps, gen, owner, frame>>

(* The maps are read, unless there are none or the store has moved.        *)
ReadMaps(r) ==
    /\ reader[r].step = "lock" /\ owner = None
    /\ maps # None /\ ~dirty
    /\ reader' = [reader EXCEPT ![r] = Returned(r, maps, gen)]
    /\ UNCHANGED <<watchVars, synced, dirty, maps, gen, owner, frame>>

(* The mark is cleared before the store is scanned; the first build leaves *)
(* it as it is.                                                            *)
Rebuild(r) ==
    /\ reader[r].step = "lock" /\ owner = None
    /\ maps = None \/ dirty
    /\ owner' = r
    /\ dirty' = (dirty /\ maps = None)
    /\ reader' = [reader EXCEPT ![r].step = "scan"]
    /\ UNCHANGED <<watchVars, synced, maps, gen, frame>>

ScanStore(r) ==
    /\ reader[r].step = "scan" /\ owner = r
    /\ \E list \in Bijection(1..Cardinality(DOMAIN store), DOMAIN store) : maps' = BuildMaps(Sorted(list))
    /\ gen' = IF NonVMEqual(Rows(maps), maps'.rows) THEN gen ELSE gen + 1
    /\ owner' = None
    /\ reader' = [reader EXCEPT ![r] = Returned(r, maps', gen')]
    /\ UNCHANGED <<watchVars, synced, dirty, frame>>

(* A VM of git without a row is one that Argo CD has yet to take up.       *)
Enrich(v, drift) ==
    IF drift = None THEN None
    ELSE IF v \in DOMAIN drift THEN drift[v].sync
    ELSE "Pending"

(* VMs that only the cluster has are untracked, and so is every VM that    *)
(* runs when the repository cannot be read.                                *)
VmRows(f, readable) ==
    LET inGit == IF readable THEN Declared ELSE {}
    IN  [v \in inGit \union Running |-> IF v \in inGit THEN Enrich(v, f.drift) ELSE "NotTracked"]

BuildInventory(r) ==
    /\ reader[r].read = "done"
    /\ \E readable \in BOOLEAN :
          frame' = [frame EXCEPT ![r] =
              [vms |-> VmRows(reader[r], readable), error |-> ~readable, rollup |-> reader[r].rollup,
               platform |-> IF reader[r].drift = None THEN None ELSE reader[r].platform, gen |-> reader[r].gen]]
    /\ reader' = [reader EXCEPT ![r] = Resting]
    /\ UNCHANGED <<watchVars, synced, dirty, maps, gen, owner>>

Next ==
    \/ \E a \in Range(AppOrder) : ArgoMoves(a)
    \/ Delivered \/ Listed \/ Marked \/ Dropped \/ Signalled
    \/ \E r \in Readers :
          \/ BeginFrame(r) \/ NotSynced(r) \/ Enter(r) \/ ReadMaps(r)
          \/ Rebuild(r) \/ ScanStore(r) \/ BuildInventory(r)

Spec == Init /\ [][Next]_vars

--------------------------------------------------------------------------------
(* Properties.                                                             *)

\* No change of the store is on its way to the maps.
Settled == owner = None /\ maps # None /\ ~dirty /\ watch \in {"deliver", "list"}

(* snapshot.go:37-40, 222-225: the memo is rebuilt only when the store has *)
(* moved, and every rebuild over the same Applications gives the same maps *)
(* in whatever order the store lists them: maps that no mark says to       *)
(* rebuild are those of the store, however events and readers interleaved. *)
MapsCurrent == Settled => maps = BuildMaps(Places(DOMAIN store))

(* handlers_inventory.go:46-49: "rather than flashing every VM to          *)
(* NotTracked": a VM of git that Argo CD has managed all along is shown as *)
(* such, or with no status, in any frame that could read the repository;   *)
(* and a platform Application that was there all along is never missing.   *)
ManagedShown ==
    \A r \in Readers : frame[r] # None =>
        /\ ~frame[r].error => \A v \in Declared \intersect always : frame[r].vms[v] \notin {"NotTracked", "Pending"}
        /\ Platform \in always => frame[r].platform = None \/ frame[r].platform.error # "missing"

================================================================================
