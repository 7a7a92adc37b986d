# A TLA+ model of dotvirt

dotvirt is a web console for KubeVirt virtual machines that owns nothing: what a
user changes is staged in a draft, proposed as one branch and one pull request in
the project's git repository, reviewed on the forge, and applied by Argo CD. What a
user sees is built from in-memory snapshots of the cluster and of those
repositories, and pushed over a WebSocket.

This directory models the parts of dotvirt whose correctness depends on an order of
events: concurrent requests, background loops, failing calls, restarts. Every
definition names, in `PROJECT.json` under `map`, the source lines it stands for.

## 1. The system: components, state, operations

Paths are relative to `src/`.

| component | state it keeps | operations | what makes it hard |
|---|---|---|---|
| **draft store** `internal/draft` | one draft per (user, project): a map in memory, a JSON file on disk | Stage, Unstage, Clear, List; lazy load with quarantine of corrupt files | memory changes before the disk write that may fail; restarts |
| **changeset coordinator** `internal/changeset` | none of its own; drafts, the repositories' branches, pull requests on the forge | stage (edits, creates, deletes, templates, DRS, tenancy, adopt, drift), view, propose, propose-revert, open proposals, history | propose is seven calls to three systems, any of which fails or interleaves |
| **git write path** `internal/git/write.go`, `editcommit.go` | one mutex per repository; a fresh clone per commit | CommitChangeset, PublishFiles, force-push of a working branch | two users commit at once; a push that reports failure may have landed |
| **git read mirror** `internal/git/git.go`, `memo.go`, `repset.go` | one bare mirror per repository, branch hashes, per-hash memos, a poll goroutine each; open/failed/opening tables | Get, Created, Poke, poll, evict; reads at a head | single-flight open, back-off, eviction against use, reads during a fetch |
| **event bus** `internal/eventbus` | a version per kind and per key, a one-slot wake per subscriber | Publish, PublishKey, Version, KeyVersion, Subscribe | three non-atomic steps per publish; lost wake-ups |
| **frame hub** `internal/stream` | connections, one frame and level per identity, a one-slot mailbox per connection | add, remove, Run/reconcile/build, deliver, write pump | a level read before the build, dependencies known only after it |
| **proposals lane** `internal/api/proposals.go` | watch targets, dirty repositories, versions seen, a TTL cache of lanes | trackProposals, nudge, refresh loop | a nudge consumed by a pass that watches nothing; expiry |
| **cluster snapshots** `internal/clusterstate`, `internal/argo`, `internal/drs`, `internal/netstate`, over `internal/reflect` | informer indexers, a Ready latch, coalesced signals | watch deltas, relist, read | reads before the first list; signal only on material change |
| **drift view** `internal/argo`, rows in `internal/inventory` | the maps of Applications to objects, built once per move of the store | mark, rebuild, read; frames of several reads | the mark and the store move apart; a list under way |
| **tenancy** `internal/changeset/tenancy.go`, `internal/netgen/namespace.go` | labels and annotations of namespaces; their files in the platform repository | create, adopt, extend, re-home, release | the cluster is asked when staging, and changes before the sync |
| **history and reverts** `internal/git/history.go`, `internal/changeset/history.go`, `revert.go` | none: walks over the mirror | rows of a file, reviews, revert as a pull request | others push while a revert is open |
| **scope caches** `internal/api/scope.go`, `internal/ttlcache` | visible namespaces and access checks per token, stamped with an RBAC version | visibleFor, ssarChecked | a version read before or after the slow call it stamps |
| **recent tasks** `internal/tasks` | a bounded ring of operations, merged pull requests by key | Record, RecordMerge, Recent | cap, retention, duplicate webhook and poll records |
| **auth** `internal/auth`, `internal/restfactory` | sealed cookie, OAuth state, TokenReview cache, clients per token | login, callback, middleware | replayed or expired state, a cached verdict that outlives the token |
| **HTTP API** `internal/api` | none beyond the above | handlers, authorisation, webhook, security headers | mostly one request at a time over the components above |
| **cluster operations** `internal/cluster` | none | live reads, VM lifecycle, snapshots, clone, upload under the user's token | the cluster is the only state |
| **inventory** `internal/inventory`, `internal/project`, `internal/model`, `internal/validate`, `internal/config` | none | assemble the tenant tree, group namespaces, DTOs | pure |
| **generators** `internal/vmgen`, `internal/netgen`, `internal/vmtemplate`, `internal/manifest`, `internal/drs/manifests.go` | none | render, parse, edit manifests | pure, parsing-heavy |
| **network trace** `internal/netstate/trace*.go`, `effective.go` | none | which policy decides a packet | tiers, priorities and isolation; a pure algorithm |
| **metrics** `internal/metrics` | none | range queries to Prometheus, charts | pure over an external service |
| **forge client** `pkg/forge` | token cache | open, find, reopen, list pull requests; webhooks | the remote's answers |
| **operator** `operator/` | the Dotvirt resource, its status, owned objects | Reconcile: platform, prerequisites, workload, forge bootstrap, Argo wiring, prune, cleanup | every step may fail and be retried; adoption and pruning |
| **web SPA** `web/` | the browser's resources and drafts | `resource()`, `action()`, live socket | answers arriving out of order |
| **entry point** `cmd/dotvirt` | none | flags, wiring | starts the loops above |

### Interactions

```
 browser --HTTP--> api --> changeset --> draft store (files)
    ^                          |------> git write path --push--> remote --webhook--> api
    |                          '------> forge client  --PR-----> forge
    |                                                              |
    '--WebSocket-- frame hub <--wake-- event bus <--publish-- repository poll, informers,
                      |  builds                                   proposals lane, tasks
                      '--> inventory --> mirrors, snapshots, scope caches, proposals lane
```

Writers never touch the cluster's desired state: the only path is draft, commit,
pull request, merge. Readers never wait on the network: the poll of each repository
and the informers own freshness, publish on the bus *after* their store has moved,
and the hub and the lane rebuild when a level they depend on differs from the level
they built at.

### What makes each component correct

* Draft store: an acknowledged change survives a restart; one pair's failure never
  touches another's; memory and file agree except after a reported failure.
* Propose: a staged change leaves the draft only when a reviewer can see it, when
  base already holds it, or when its user withdraws it; one pull request per draft;
  two users never share a branch; every propose returns.
* Mirror and repository set: at most one open at a time and one poll per entry;
  a dead repository is not hammered; a push is eventually seen.
* Event bus and hub: when the hub is at rest every connection has the newest frame;
  a connection never goes back in time and never sees another identity's frame.
* Proposals lane: a connected viewer's project stays watched; a change is published.
* Caches: an entry computed before an invalidation never answers after it.
* Operator: reconcile converges from any partial state, never deletes what it does not
  own, and leaves nothing behind beyond its namespace.
* Staging: an entry is worked out from the branch read now and lands on the branch of
  later; it takes nothing along that its author did not name.
* Manifests and forms: what was written is read back, what cannot be read back is
  refused, and a preview names all that its edit does.
* Trace and catalog: an answer without a condition is what the cluster does.
* Drift: a frame never shows a managed object as unmanaged; maps follow their store.
* Tenancy: what others wrote on a namespace survives dotvirt; a sync is never asked for
  what the cluster refuses.
* History and reverts: rows explain the branch without gaps; a revert that undoes later
  work says so; a review shows what merging does.

## 2. The modules

| module | models | state | uses |
|---|---|---|---|
| `DurableDraft` | what the draft store promises: each pair's draft is a function of keys that survives restarts | `draft` | |
| `DraftStore` | `internal/draft/draft.go` | `mem`, `disk`, `ahead` (pairs whose memory is ahead of their file), `faults` | implements `DurableDraft` |
| `Propose` | `changeset/propose.go`, the commit of `git/editcommit.go` and `write.go`, the pull-request calls of `pkg/forge/pr.go` | each request's `pc`, `items`, `view`, `snap`; `wmu`; the remote's `base`, `branch`; the forge's `pr`; history `owed`, `raced` | extends `DraftStore` |
| `Staging` | `changeset/staging.go`, `objects.go`, `drift.go`, `template.go`, `drs.go`: what each operation writes into a draft, write by write | `base` and its `past`, what runs (`live`), `draft`, each tab's `todo` | |
| `EventBus` | `internal/eventbus/bus.go` | `versions`, `broad`, `keyed`, `pending`, `pub` | |
| `LiveView` | what the live channel promises a viewer | `world`, `shown` | |
| `FrameHub` | `internal/stream/hub.go`, `levels.go`, the writer of `ws.go` | the hub's `pc`, `target`, `idents`, `work`; the connections' `last`, `out`, `shown` | extends `EventBus`, implements `LiveView` |
| `RepoSet` | `internal/git/repset.go` over `Repo.refresh` | the table (`cached`, `opening`, `failed`), each mirror and poll goroutine, the callers of Get | |
| `ProposalsLane` | `internal/api/proposals.go` and its callers | the watched sets, `propDirty`, `propSeen`, `proposals`, the pass under way, the viewers' frames | |
| `ScopeCache` | `internal/api/scope.go` over `clusterstate`, `reflect` and `ttlcache` | the snapshot, two watches, one cached answer, the requests asking | |
| `DriftView` | `internal/argo/snapshot.go`, `argo.go` over `reflect`, the rows of `internal/inventory` | Argo CD's `apps`, the watch, `store`, `dirty`, `maps`, the readers and their frames | |
| `NetTrace` | `internal/netstate`: decoding, matching, tiers, chains, primary networks, catalog; and what a cluster does with a flow, as the reference | `objects` of the stores | |
| `NetForms` | `internal/netgen`: each form, its validation, its manifest, its decoding; the catalog's rows | the branch's `docs`, the `open` form | |
| `VmEdit` | `internal/manifest`: reading, editing, previewing and adopting a VM's manifest | the manifest `vm`, what runs (`live`), what the preview `told` | |
| `Tenancy` | `changeset/tenancy.go`, `netgen/namespace.go` and their handlers | the `cluster`'s namespaces, the forge's `repos` and `host`, `git`, `draft`, `grants`; history `foreign`, `seenDraft`, `seenGit` | |
| `History` | `git/history.go`, `changeset/history.go`, `revert.go` | `base` and what each of its commits `joined`, how much the mirror has `seen`, branches `pushed` and `mirrored`, `prs` | |
| `Install` | `operator/internal/controller`: passes by phase, prune, finalizer, Argo CD wiring | the resources (`order`, `leaving`, `guarded`, `spec`), who owns each object, tokens, the `pass`, the last `pruned` set | |
| `GitParts` | the seven modules about git, each as a part | `part`, the variables of each | instances of `VmEdit`, `Staging`, `NetForms`, `NetTrace`, `DriftView`, `Tenancy`, `History` |
| `MC*` | small instances for TLC | | |
| `*Proofs` | the theorems | | |

Two modules put several small systems into one run, each a *part* that runs by itself:
`MCStores` (drafts, visibility) and `GitParts` (VM edits, staging, forms, trace, drift,
tenancy, history). The constant `part` of a behaviour says which one moves; the variables
of the others keep their first value, or `None`. The properties of a part are stated in
its own module and only named again there. `MCManifests` gives `GitParts` its values,
through second instances (`NetGiven`, ...) in which the constants that they are given to
are empty: the values need none of them, and a value defined through the instance it is
given to would be defined by itself.

How the actions follow the code:

* **Locks.** What the code does under one lock is one action; where it unlocks to call
  something slow (`RepoSet.Get` around the clone, `visibleFor` around the access
  reviews, the refresher around the forge) the action ends and what the code read
  before is a local variable of the request. `driftMu` is held over a whole rebuild,
  while the store moves on: the rebuild is a mark, a scan and a return in `DriftView`.
* **Calls to other systems.** One action each, and one for each failure that the code
  can tell apart. A push that reports failure may have landed (`Push`), a second pull
  request of one branch is refused (`CreatePR`).
* **Publish.** The store moves, then the kind's version, the key's version and the
  wakes follow, as separate actions: another goroutine runs between any two.
* **Another tab.** `Overlap` is the set of points of a propose at which its user may act
  from another tab. With none a user runs one propose at a time; `propose_users` has the
  one between the two readings of the draft, `propose_tabs` all of them.
* **The mirror.** Readers of history and of reviews see a prefix of the base branch and the
  branches as the last fetch left them. What they compute they compute from that: a review
  is a diff from the merge base of two mirrored branches, which is the branch itself once
  its commit is joined, and what the warning of a revert says is worked out from files any of
  which may fail to be read.
* **Requests of several writes.** A staging request works out its entries from what it
  reads (`Begin`) and stages them one by one (`Write`, `WriteFails`), another tab's
  request in between. A tenancy request is one action: its calls run under no lock, but
  what can change between them (the cluster) it reads once.
* **Passes.** An operator pass stops, by a failure or a crash, before any phase
  (`Halt`, `Crash`); what it rendered so far is `pass.done`, and only `Prune` removes.
* **Time.** A time-out is an action enabled when it may expire; where the code's
  constants exclude an order (a watch lasts five minutes, a pass seconds), the guard says so.
* **Restarts.** `Restart` drops everything that is not on disk, on the remote or on
  the forge, at any point of a propose; `Crash` ends a pass and forgets the last prune.
* **Pure code** is operators: `VmEdit`, `NetForms` and `NetTrace` have as their actions
  only what changes what the code reads. A manifest is a record of the fields that the
  code reads or writes, and a field that is absent (`None`) and one that is empty (`""`) are
  two things, which the parser reads as one; a selector is the labels it asks for, a CIDR its addresses.
* **Data.** A file is a key, its content a model value or a set of documents; a draft
  entry is a put, a patch or a delete of one file; a lane of pull requests is a number;
  what a frame shows of a source is the number of times the source had moved when it
  was read.

History variables, which no guard reads: `owed` and `raced` in `Propose`, `asked` in
`Staging` and `ProposalsLane`, what an entry's author had `seen` and `known` in the drafts of
`Staging`, `failed` in `FrameHub`, `since` and `announced` in `RepoSet`, `moved` in
`Install`, `always` in `DriftView`, `foreign`, `seenDraft`, `seenGit` and `raced` in
`Tenancy`, `own`, `at` and `whole` in the bodies of `History` (where `joined` stands for
the second parents of the commits, which `MergeBase` reads).

The plan, in the order in which it is worth doing.

1. Done: the draft's life (`DraftStore`, `Staging`, `Propose`), the live channel
   (`EventBus`, `FrameHub`), the mirrors (`RepoSet`), the proposals lane, the visibility
   cache, the operator (`Install`), tenancy, drift, the manifests, forms and the trace,
   history and reverts.
2. Done: the theorems of section 5, which take in every safety property that a passing
   run checks; liveness is left to TLC.
3. Modules still worth writing: `Memoized` against a moving head, and the review cache of
   `OpenProposals`, on top of `RepoSet`'s mirrors; the recent-tasks feed with
   `refreshMerged`; the web client's `resource()` against answers out of order; the token
   cache of `auth`.

## 3. What TLC checks

| run | bounds | states | shows |
|---|---|---|---|
| `stores` | drafts: 2 pairs, 2 keys, every starting file, 2 disk failures. visibility: 2 namespaces, 2 requests, 3 changes, 1 failed review | 0.6M | a restart loses nothing, the store implements `DurableDraft`; no revoked namespace is served, none is missing |
| `propose_users` | 2 users of one repository, 1 file, put and delete, each with a second tab between the two readings, restarts | 3.0M | each offer is its caller's, a new description is true but for what the tab did |
| `propose_draft` | 1 user, 2 files, put and patch, 2 failures, 1 push to base | 1.2M | nothing staged is lost, partly satisfied drafts included |
| `propose_tabs` | 2 files, a second tab | violation | finding 1 |
| `frame_hub` | 1 viewer, 2 repositories, 2 moves, 1 failed build | 0.4M | a frame held for current is current; convergence |
| `hub_viewers` | 2 connections (two tabs of one user, or two tenants), 2 workers, 1 move | 0.9M | `LiveView`, and late tabs are served |
| `repo_set` | 2 callers, 2 mirrors, 2 pushes, 1 failure, 1 time-out | 0.3M | single flight and one poll per mirror, announcements, every Get returns, pushes are seen |
| `lane_due` | 1 viewer, 2 moves, 1 failure, 1 lapsed watch, 1 expired lane | 2.0M | no cached lane is stale and not due; frames show their lanes until one expires; convergence by the tick alone |
| `install` | 2 resources, 2 Argo CD namespaces, 2 edits or losses, 1 failed call or crash | 0.2M | nothing beyond its namespace outlives an install, prune spares what the spec asks for, the oldest install ends as its spec says |
| `manifests` | staging: 2 tabs, 2 requests of any of 16 operations, 2 layouts of the branch, 1 merge or change of the cluster, 1 failed write. VM edits: 2. forms: 2 uplink policies. trace: 3 of 24 objects, 8 flows, every world. drift: 2 Applications, 2 readers, 1 event. tenancy: 2 namespaces, 1 project, 1 change by hand. history: 4 commits, 2 files, 1 branch pushed | 1.1M | the properties of the parts, below |
| `staging_adopt` | 3 layouts, 1 request | violation | finding 2 |
| `revert_body` | 2 pushed branches | violation | finding 3 |

What the parts of `manifests` show. *Staging*: the draft of a DRS request is the whole
difference to the configuration last asked for, whatever the other tab, a failure or a
landing did in between; what an edit, a removal or a restore takes off the branch it named,
or the index, which shows of each object one file, did not show it there when it was staged
(entries written at their paths whatever is there are excused: those of DRS, creates,
adoptions of projects);
a create does not declare an object twice. *VM edits*: one size representation, a preview
that names all its edit does, no orphaned disk template, an adoption that closes the
difference it was shown for; each but for cases with an empty value, which section 4 lists. *Forms*: what a form rendered opens again, unless it
names the empty namespace, and shows in the catalog as asked, saving an opened form drops nothing, an uplink acts on one policy.
*Trace*: an unconditional verdict is what the cluster does in every world, no policy that
matters is hidden, trace and catalog agree on the network of a namespace that has one.
*Drift*: maps that no mark says to rebuild are those of the store; a managed VM is never
shown as untracked.
*Tenancy*: what others gave a namespace stays through whatever is staged, merged, released
and synced; a sync alone may take a key, and only one that was given after the file that
it applies was rendered. No sync is wedged but by a namespace
created in between. *History*: rows chain; an unwarned revert undoes only its commit, and
of later work only what was committed between what the mirror had and the clone; a review
shows what merging does, however far behind the base branch the mirror is.

Why the bounds are enough for the cases that matter. Races between two actors need two
of them: two proposes queue on one write lock, two requests of a token overwrite one
cache entry, two callers wait for one clone, two readers share one memo, two installs
share a cluster. A stale reading needs one move after it and
its masking by a second move needs two (`frame_hub`, `lane_due`, `repo_set`). Two
mirrors let an evicted entry be re-opened while the old poll still runs; two Argo CD
namespaces let an install move between them. Two edits reach a list that was
emptied and filled again, one manifest having a single disk. `propose_users` has no failing
call: a restart ends a propose at any step as a failed call does, and `OffersAreOwn` and
`DescriptionsAreTrue` (section 5) are proved with failures. One read error of one file is all
that a revert can meet before it returns. Three objects are one policy above another with the network that
decides reachability, and four commits a change, a later one, a revert and another's push.
One failure separates any call from its retry; `stores` and `propose_draft` have two
because a failed write, push or removal can combine with the next.

The bounds are constants named for what they cap: `MaxMoves`, `MaxFaults`,
`MaxCallFaults`, `MaxHead`, `MaxLapses`, `MaxExpiries`, `MaxConns` in the modules of the
first half; `MaxRequests` (renamed `MaxMerges` and `MaxRefused` for `Staging`'s moves and
faults in `GitParts`), `MaxEdits`, `MaxUplinks`, `MaxObjects`, `MaxEvents`, `MaxHand`,
`MaxCommits`, `MaxPushes`. Each guards what the environment does (changes, failures,
requests, expiries, new connections); none guards a step that the program owes, but for
`MaxUplinks`, `MaxObjects` and `MaxCommits`, which bound a size.

`CHECK_DEADLOCK FALSE` stands where the system may rest: the hub with every viewer gone
and no source moving, the operator with no resource, and the parts of `manifests`,
`staging_adopt` and `revert_body`, whose users may have no request left.

Fairness is stated where it is used. `FrameHub`: weak fairness of the hub goroutine, of
a publisher that has started, of each writer and of a handler that has registered and is
about to kick: all of them are goroutines that block only on channels. Nothing is assumed
of the sources or of builds failing. `RepoSet`: weak fairness of a Get's own steps (the
clone has a deadline) and of each poll goroutine (a ticker); pokes and callers are not
fair. `ProposalsLane`: weak fairness of the tick, of the pass it starts (the forge calls
time out), of the hub's wake and builds; webhooks, fetches and nudges are not fair, so
that convergence must come from the tick. `Install`: weak fairness of a pass's phases and
of its end; strong fairness of beginning a pass and of finalizing, for each resource,
since the work queue serves all of them in turn; strong fairness of the prune, since the
timer that re-queues a resource has twice the prune's period, so that a pass which is due
to prune comes round. Nothing is assumed of edits, losses, halts and crashes, which
`MaxEdits` and `MaxFaults` make finite: convergence is from any partial state.

Every property of a passing run has a mutant in `PROJECT.json`: a definition of the
model replaced by what a plausible bug would make of it (marked `Mutation:` in the
modules), under which TLC finds that property violated in that run.

## 4. Findings

1. `propose_tabs`. A propose lists the draft, commits and pushes what it listed, opens its
   pull request, and then clears the whole draft (`propose.go:88`): an entry staged in
   between, from another tab, is removed though it was never proposed. The clear that
   follows "no changes" (`propose.go:71`) does the same.
2. `staging_adopt`. Adopting a project, or re-homing it, stages `namespaces/<ns>.yaml`
   with the Namespace alone (`tenancy.go:287`). When that file also declares the
   namespace's VM Network, which is where dotvirt itself puts it, the network leaves the
   branch with the merge. `ReleaseDeclared` refuses the same file.
3. `revert_body`. A revert that is proposed again moves its branch and hands over a new
   body, but an open pull request is reused, and a closed one reopened, with the body it
   has: the reviewer sees an older diff and no warning.

### Seen while modelling

What follows is in the models as the code has it, outside what the properties claim; most
are guards or conditions of a property that would otherwise fail.

* *Mirrors.* `Created` forgets a recorded open failure, but an open that was under way
  when the repository was created records its "not found" after it: Gets are refused for
  the back-off though the repository is there. A frame built during a back-off shows the
  repository as unavailable, and nothing rebuilds it when the back-off ends.
* *Lanes.* A watch lasts five minutes and is renewed by a frame build; a quiet system
  builds none, so the watch of a connected viewer lapses and an event about its project
  reaches a refresher that watches nobody. A lane that expires during a forge outage
  comes back empty and wakes nobody.
* *Propose.* The description of a reused pull request stays that of the first propose. That
  of a new one is rendered from a second reading of the draft (`propose.go:38-45`): a tab
  that stages, withdraws or discards between the two makes it say what the branch does not
  carry, or leave out what it does.
* *Operator.* A completed prune in a new Argo CD namespace forgets the old one: copies
  that a former namespace holds stay when no argoproj object there tells of them
  (`prune.go:138`). The forge's organisation is created once and never retried
  (`forge.go:280-352`).
* *Staging.* Two overlapping requests to enable DRS may leave a sibling of the first
  beside the second's files, which the next request repairs. A create staged while the
  object was undeclared replaces, without notice, the file others merged since.
  Restoring a version restores its whole file, neighbours included. A create is written at
  the path of its object, over whatever else is declared there.
* *Trace.* A VM on a dual-stack network with one known address is judged by that one
  (`trace.go:39`). The project tier takes a match of a policy that only may select the VM
  as a decision. `Uplinks` and `PhysicalAdapters` of the catalog are in the store's order.
* *VM edits.* A disk added to a manifest without templates gets a template list of its
  own, but none when the manifest has an emptied disk list; there `AddDisk` leaves a
  template that nothing uses. Removing the last interface leaves the implicit pod network,
  which no preview names (unless the template declines it, `autoattachPodInterface`). An
  empty instance type is a reference to `applyRef` and none to `setsIT` (`edit.go:124`): given
  without a mode to a VM with a size of its own it is written beside the size, which
  `edit.go:95` rules out; it stays until the next edit, whose preview, in turn, reads the
  empty name as no instance type (`semantic.go:167`). Two differences that are reported no
  adoption closes: a live label without a value that git lacks (`semantic.go:384`), and the
  pod network, when git does not decline it and the VM runs without an interface.
  Adopting a VM's pod interface that git lacks writes a multus
  network called `pod`. Adding a device under an existing name is not refused.
* *Forms.* A form saved over a manifest that changed since it was opened overwrites it.
  A network, an egress address or a route for the empty namespace is accepted and rendered
  (`udn.go`, `egress.go`), and what reads it leaves the empty name out (`doc.go:50-53`):
  opening it is refused.
* *Drift.* `managingApp` scans in the store's order, and messages of a sync are merged
  into the rows whether or not the operation is still running (`argo.go:229-234`).
* *History.* A read error while the warning of a revert is worked out ends in no warning
  (`changeset/history.go:147`), and a file that cannot be read counts as absent in the
  body (`:174`). The warning knows what the mirror has; a commit pushed and not fetched
  is undone without one.
* *Tenancy.* A key that others give a namespace after its file was rendered, and before
  Argo CD applies it, may be taken by that sync, which makes of the labels what the file
  says (`namespace.go:37`); a release renders the namespace from its old file, not from the
  cluster. A bad subnet or owner is refused after the repository was created
  (`tenancy.go:92`); adopting creates the repository before it looks the namespace up.
  `ReleaseDeclared` leaves the namespaces staged so far when one fails. Conflicting
  repository references resolve to none, and a namespace whose repository is on another
  host is pointed at a fresh, empty one (`tenancy.go:156-157`). Creating a project over
  another project's namespace moves it. A VM Network staged for a namespace that is merged
  but not synced wedges the sync. A release does not remove the owners' role bindings.

## 5. What is proved

For every value of the constants that satisfies the modules' assumptions: any number of
users, files, requests, mirrors, namespaces, failures and moves.

* `ProposeProofs`, of the store: `StoreCorrect` and the refinement `StoreIsDurable`. The invariant
  adds `MemClean` (memory holds no stale create) to the two invariants that are checked:
  a load drops stale creates, so the refinement mapping, which reads memory when it is
  loaded and the parsed file otherwise, does not change at a load.
* `ProposeProofs`, of a propose: `TypeCorrect`; `NothingStagedIsLost` and `OffersAreOwn`
  when a user runs one propose at a time (`Overlap = {}`; with a second
  tab the first is false, finding 1); `DescriptionsAreTrue` with other tabs at any point;
  `LockReleased`: whatever fails, a write lock that is
  held is held by a request inside the commit. `StagedUntilProposed` is not
  inductive: that the final clear drops nothing owed depends on the whole request.
  `DraftInv` follows it: what is owed is in memory and on disk (`OwedIsKept`), at most
  one request per user is under way (`OneUnderWay`), it holds what the draft shows
  (`ListedIsDraft`), its branch carries the same (`PushedIsListed`), and at the clear
  nothing is owed (`ClearOwesNothing`). `SatisfiedIsBase` does the same for the clear
  that follows "no changes". For the descriptions `RacesNoted` says of every request that,
  but for the files in `raced`, the view it read is what it listed, and what it pushed is
  what the branch still carries. The proof also covers installations without a forge, which
  no run instantiates.
* `RepoSetProofs`: `RepoSetTypes`, `SingleFlight`, `PollPerMirror` and both together
  (`OpenAndPollExclude`, the property of the run), `ContentAnnounced`,
  from an invariant that ties the opener to the table (`OpenerKnown`) and a living poll's
  last signature to its mirror and to the last announcement (`SignatureKnown`).
* `ScopeProofs`: `ScopeTypes`, `RevokedIsNotServed`, `GrantedIsServed`. The invariant
  `AnswersGranted` says of every answer, cached or being assembled, that unless its stamp
  is already out of date or a publish is due, each namespace in it is bound now or the
  event of its loss is still on its way: the stamp is taken before the cluster is asked.
  For the opposite direction `FullInv` adds that the snapshot and the queued events lead to
  what the cluster has (`Follows`), and that an answer under a current stamp lacks only
  namespaces whose event or publish is in flight (`AnswersComplete`), as long as no review
  has failed.
* `LaneProofs`: `LaneTypes`, `NoLaneStale`, `FramesShowLanes`. An event about a project is
  accounted for at every moment: it has been put to the forge, or the project's stamp
  differs from the one last seen, or it is marked for the next pass or for the one under
  way (`EventsKnown`, `PassOK`). A frame follows its lanes, or a wake or a build is due, or
  the pass under way has noted the change (`FramesFollow`). An expired lane is dropped
  without a wake, so the second part, like the property, speaks of behaviours in which no
  lane has expired.
* `InstallProofs`: `InstallTypes`, `FinalizerGuards`, `PruneSparesRendered`. `OwnedInReach`:
  whatever an install owns is in its own namespace, or its resource has the finalizer, or
  it lies where an earlier spec had put Argo CD. `PassKept`: once a pass is past a stage,
  the stage's objects are in `pass.done`, so that prune, which runs last, has the whole
  rendering before it.
* `HubProofs`: `HubTypes`, `CurrentIsCurrent`, and the refinement `HubShowsHistory`. A
  sum of counters is modelled as the number of their ticks, so that levels add up without
  recursion. A source is at its level but for a publish still to come (`Published`); as
  long as the total that a build began with stands, nothing it has read was told of since
  (`FrameOK`, `StampOK`), so that a stamp is never ahead of the frame it goes with
  (`EntryOK`); and what waits in a connection's mailbox is not older than what it was
  shown (`ConnOK`). Each step then maps to a step of `LiveView` or to a stutter.
* `ManifestsProofs` and `StagingTraceProofs` prove each property twice: of the component by itself, under its own
  assumptions, and of `GitParts`, whose behaviours the run checks.
  * Tenancy, `ForeignKeysStay` and `SyncNeverStops`: `DocOK` says of each namespace
    file, on the branch or staged, that it carries what its namespace carried when it was
    rendered, and, unless the namespace was created meanwhile, asks for the primary network
    that the cluster has.
  * History, `RowsChain` and `QuietRevertsAreExact`: `Chained` (a file no commit in a range
    touched is the same at both ends, and one that was touched has a last commit that
    touched it), and `RevertOK` (the branch of an open revert without a warning undoes its
    commit and nothing else, on the base it was forked from, but for files that were
    committed to after what the mirror had). `ReviewsTellTheMerge` rests on `Branching`: the
    mirror has the commit where each of its branches was forked, no two branches have the
    same commit, and the commit of a pull request that may still land is in no merge of the
    base branch. So the merge base that the mirror finds for an open branch is where the forge
    merges from, though the mirror lacks what came later, and though an earlier push of the
    same branch was merged.
  * Drift, `MemoIsCurrent` and `ManagedIsShown`: the queued events lead from the store to
    the cluster (`WatchInv`), and after every prefix of them the store still has what the
    cluster had all along (`Covered`); on that rest the maps (`MapsOK`), what a reader holds
    (`ReaderOK`) and the frames (`FrameOK`).
  * VM edits, `SizedInOneWay`: of the appliers of a form only `Sized` touches the fields of
    both sizings. It leaves one of them whatever it was given, and every later applier keeps
    the instance type, the topology and the guest memory as it found them, so the edited
    manifest is sized in one way whatever the VM in git looked like.
  * VM edits, `AdoptionClosesDifferences`: that git and the cluster hold what the API server
    admits (`VmInv`) is kept by every edit, since an adoption asks for what a request may
    hold (`AdoptingRequested`). For each field of a comparison a lemma says what becomes of it
    (`AdoptedPower`, `AdoptedSize`, `AdoptedDisks`, ...).
  * VM edits, `PreviewsCover`: for each field of a comparison a lemma says that where the
    edited manifest reads otherwise, the preview has it (`ToldPower` ... `ToldNets`, put
    together in `EditTold`). Two of them are not obvious. A placement is written anew and
    must be read back as it was (`PlacementStays`): that takes `NoneIsApart`. And a disk
    that only moves to another class keeps its size (`SizeTold`), although its
    volume and its template are renamed one by one: no two disks may have the same DataVolume,
    nor a replacement take a name in use. `Owned` says so, and every edit keeps it
    (`EditedOwned`).
  * VM edits, `NoTemplateOrphaned`: on the way an edit's lists may hold a volume twice, so the
    invariant counts (`CountedIn`): of each name there are at least as many volumes as disks,
    and no more templates than volumes on the DataVolume of that name. A removal takes one
    of each at most (`OneGoes`), an addition brings one of each, and a migration renames the
    templates and the volumes alike (`CountedMoved`), two DataVolumes at most becoming one
    (`NewDvFrom`). Where the volumes are distinct, as the property supposes, the counts say
    what it says.
  * Forms, `UplinksActOnOne`: by induction over the rows that are merged, there is one row for
    each physical network, it has the nodes of every policy merged so far, and it has a policy of its
    own only as long as one policy alone maps the network.
  * Forms, `FormsComeBack` and `SavingDropsNothing`: every object on the branch is at its own
    identity, and one that dotvirt rendered has the manifest of a form that its validation
    accepted, which opens again as the form that the operator saw. For each kind of form a
    lemma shows that the decoder does not refuse what the renderer wrote, and a form saved
    as it was opened therefore writes back every field. `WellFormed` says of the forms
    given what their JSON decoding guarantees (the fields of their kind, numbers in range).
  * Staging, `DraftIsDelta`: `Left` says of a DRS request that runs alone what it still has
    to write (cancels, then one delta for each file that is wanted, no delta while an entry
    of its file is staged), and that every wanted file that has no delta left lands as
    wanted; `AskedOK` says the same of a request that is done. The requests of other tabs
    leave both as they are, because an entry that is not of DRS writes no file of DRS
    (`PlansPlain`, one case for each operation; `DraftOK`), and a landing because it gives
    each file of DRS what its own entry says.
  * Staging, `LandingsSpare` and `LandingsDeclareOnce`: `Sound` says of each entry what it was
    staged from: an edit, a removal or a restore speaks for all that the index showed
    of its file, and a create brings what no file declared to the path of its object (`DraftOK`,
    and `Plain` for the plans not yet written). A landing takes an object off the branch where an
    entry writes the file that held it (`Leaves`), and brings one to a second file where an
    entry's documents have it (`Arrives`, `Comes`); from either the entry is found that the
    property names.
  * Trace, `CertainVerdict`: `Told` says of a three-valued answer that its yes and its no
    are certain in every world that agrees with the flow. It climbs from ports, selectors
    and addresses to peers, rules and the lines of a tier (`PortTold` ... `SaysRule`). Of a
    tier, `TierTold` shows that what the first rule to hold does is what the tier says or
    among the actions it left open, and `TiersTold` that a side is therefore certain when
    nothing left open differs. The invariant is only that a store holds one object of a
    name (`Held`), so that the order of a tier's policies is strict. Matching and walking are
    written over sets of lines with that order, not over lists, for the sake of these proofs.
  * Chains and the catalog, `NoneHidden` and `OneTopology`: a policy that selects a VM in some
    world may match its namespace (`ChainTold`), so the chain keeps every object that a side
    is made of (`SideOf`); the catalog's VM Networks of a namespace are its primary networks
    (`CatalogTold`), of which the trace takes one (`DomainTold`).

Only checked by TLC: liveness and `ENABLED`, which the prover does not treat (`Converges`,
`GetReturns`, `PushSeen`, `LaneConverges`).

No module declares a recursive operator. Where the code loops over data, the model says
what the loop yields (the last Application to speak for an object, in `DriftView`) or is
a fold over a list: the uplink rows of `NetForms` (a row merged with the mappings
of one policy, `MergeRow`, for each of them, `MappingsOf`), the lists of disks and
interfaces of `VmEdit`, with `FlattenSeq`. The prover has no induction over data, so `ManifestsProofs` does
it by hand, on numbers: `UpTo` (what holds of 0 and passes from a number to the next
holds up to any), from which `Recursion` follows for a recursive function
and `Flatten` for a list of lists. All proofs about loops rest on these.

Assumptions on constants are stated in the module that declares them: as
`ASSUME` where a run or a proof extends the module, and as a definition
(`StagingAssumption`, `FormsAssumption`, ...) where it is only instantiated; `GitParts`
assumes those of its parts. They ask for no more than the code has: installs and Argo CD
namespaces are finite sets; an Application's sync state is never one of the words that
dotvirt makes up for its own rows; the names of repositories are not the names of VMs;
the three files of DRS, whose paths dotvirt makes up, hold no object but those of DRS;
network objects are what their schemas let through (`DocOK`), such as a primary network
that is not a localnet, and two policies of one kind and namespace with different names
have different places in the order of names. Of a VM's manifest (`Admitted`) they ask for
what the API server and KubeVirt let through: a VM says in one way that it runs, the CPU's axes are
numbers, references have a name, lists are lists; of an edit (`Requested`) for finitely
many disks and networks, and counts that are numbers. `OwnAssumption` says of the manifests
git holds at first that a DataVolume belongs to the one disk that it is named for, as in everything
that dotvirt generates: KubeVirt refuses two disks on one DataVolume, and a replacement
adds its own suffix, `-mig-N`, to that name. `BackedAssumption` says that, as KubeVirt has it,
the disks have different names and each its volume, and as dotvirt generates it, each
template has one name and a volume. `NoneIsApart`, a hypothesis of
`PreviewsCover` and `NoTemplateOrphaned` alone, says that the sign for an absent field is not itself a
pair, a list, a group or an affinity.

## 6. Not modelled

`PROJECT.json` lists every component with the reason. In short: rendering of text, YAML
and DTOs (no state; the *shape* of a manifest is modelled), single calls to Kubernetes,
Prometheus and OAuth, client-go's reflectors and go-git (external), the handshake and
pings of the WebSocket, the web client's components. Of the modelled components, left out
are the cluster-wide answer of an admin and changes of ClusterRoles in the visibility
cache (the TTL covers them), the merged lane and the review state of a proposal row, the
status conditions of the operator's resource and what its objects say, what `Resync`
writes to Argo CD, the rights and quotas of tenancy requests, cloud-init and templates'
parameters.

To run: `tlc -config X.cfg M` with the module and configuration of a run in
`PROJECT.json`, `tlapm M.tla` for a module of proofs.
