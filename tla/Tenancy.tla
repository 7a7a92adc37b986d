-------------------------------- MODULE Tenancy --------------------------------
(***************************************************************************)
(* Tenancy (internal/changeset/tenancy.go): a project is the namespaces    *)
(* that carry its label, backed by the one repository they annotate.  A    *)
(* platform administrator creates, adopts, extends and releases projects:  *)
(* the repository at once, on the forge, the namespaces as entries of the  *)
(* draft of the platform repository, which land when it is merged and      *)
(* apply when Argo CD syncs.  Others label namespaces by hand, the forge   *)
(* loses a repository or moves to another host.                            *)
(*                                                                         *)
(* A repository reference is a host, "" when it is relative, and a path,   *)
(* here the name of a project.  Namespaces are numbered in name order.     *)
(***************************************************************************)
EXTENDS Naturals, FiniteSets, FiniteSetsExt

CONSTANTS Tenants,     \* names a project may have
          Namespaces,
          Keys,        \* metadata of a namespace that is not dotvirt's
          Hosts,       \* where the forge may be
          Home,        \* where it is at first
          Elsewhere,   \* a forge that dotvirt has no part in
          AtFirst,     \* what may exist at first
          ByHand,      \* the namespaces that others write, None to delete one
          None,
          MaxHand      \* bound: what others do

References == [host : Hosts \union {"", Elsewhere}, path : Tenants]

\* A namespace as it is on the cluster, and as a file declares it.
Metadata ==
    [project : Tenants \union {None}, repo : References \union {None}, own : SUBSET Keys,
     primary : BOOLEAN]
Documents ==
    [project : Tenants \union {None}, repo : References \union {None}, own : SUBSET Keys,
     primary : BOOLEAN, net : BOOLEAN]

\* What the values of the constants satisfy; the instances assume it.
TenancyAssumption ==
    /\ Namespaces \subseteq Nat /\ IsFiniteSet(Namespaces)
    /\ Home \in Hosts /\ Elsewhere \notin Hosts
    /\ AtFirst \subseteq [Namespaces -> Metadata \union {None}]
    /\ ByHand \subseteq Metadata \union {None}
    /\ None \notin Metadata \union Documents
    /\ MaxHand \in Nat

VARIABLES cluster, \* the namespaces that exist: project, repository, other metadata, OVN's label
          host,    \* of the forge, an installation setting
          repos,   \* its tenant repositories: "kept" holds what runs, "fresh" is new
          git,     \* the namespace files of the platform repository, the primary network in some
          draft,   \* those the administrator has staged
          grants,  \* the namespaces whose owners' role binding is staged
          outcome, \* of the last request
          foreign, \* history: the metadata others gave a namespace, but for what a sync may take
          seenDraft, seenGit, \* history: what a namespace carried when the file there was rendered
          raced,   \* history: namespaces created while a change of them was staged, or unsynced
          hand

vars == <<cluster, host, repos, git, draft, grants, outcome, foreign, seenDraft, seenGit, raced, hand>>

Exists(n) == cluster[n] # None
OwnOf(n)  == IF Exists(n) THEN cluster[n].own ELSE {}

--------------------------------------------------------------------------------
(* Resolution.                                                             *)

SameForge(ref)  == ref.host \in {"", host}
ResolveRef(ref) == IF ref.host = "" THEN [ref EXCEPT !.host = host] ELSE ref
PathRef(ref)    == [ref EXCEPT !.host = ""]

Members(p) == {n \in Namespaces : Exists(n) /\ cluster[n].project = p}

(* Resolve: the repository that the namespaces of a project agree on.      *)
RepoOf(p) ==
    LET refs == {ResolveRef(cluster[n].repo) : n \in {m \in Members(p) : cluster[m].repo # None}}
    IN  IF Cardinality(refs) = 1 THEN CHOOSE r \in refs : TRUE ELSE None

\* Mutation: rendered from the request alone.
ManifestOfSpec(n, p, ref, net) == [project |-> p, repo |-> ref, own |-> {}, primary |-> net, net |-> net]

(* NamespaceManifest: what the namespace carries on the cluster, and the   *)
(* project's keys over it.                                                 *)
NamespaceManifest(n, p, ref, net) ==
    [project |-> p, repo |-> ref, net |-> net,
     own     |-> OwnOf(n),
     primary |-> net \/ (Exists(n) /\ cluster[n].primary)]

\* Mutation: the project's keys and everything beside them.
ReleasedBare(doc) == [doc EXCEPT !.project = None, !.repo = None, !.own = {}]

Released(doc) == [doc EXCEPT !.project = None, !.repo = None]

\* Mutation: a network is staged for a namespace that exists.
NetworkAnyway(n, net) == TRUE

(* primaryNetworkOnExisting: OVN takes the label at creation only.         *)
MayTakeNetwork(n, net) == net = None \/ ~Exists(n)

(* EnsureRepo: a repository that exists is kept as it is.                  *)
EnsureRepo(p) == [repos EXCEPT ![p] = IF @ = None THEN "fresh" ELSE @]

(* ensureTenantRepo, unless the request was refused before it.             *)
Ensured(p, refused) == IF refused THEN repos ELSE EnsureRepo(p)

(* RoleBindingManifest, staged beside the namespace: none without owners.  *)
RoleBindings(nss, owners) == IF owners = "some" THEN nss ELSE {}

(* stageProjectAdoption, namespace by namespace: an owner without a name   *)
(* is met after the first namespace was staged.                            *)
Stage(nss, doc, owners) ==
    LET done == IF owners = "bad" THEN {Min(nss)} ELSE nss
    IN  /\ draft' = [n \in Namespaces |-> IF n \in done THEN doc[n] ELSE draft[n]]
        /\ seenDraft' = [n \in Namespaces |-> IF n \in done THEN OwnOf(n) ELSE seenDraft[n]]
        /\ grants' = grants \union RoleBindings(nss, owners)
        /\ outcome' = IF owners = "bad" THEN "invalid" ELSE "staged"

Refuse(kind) == outcome' = kind /\ UNCHANGED <<draft, seenDraft, grants>>

--------------------------------------------------------------------------------
(* Requests of the administrator.  None leaves the cluster's state as it   *)
(* read it, but for a release.                                             *)

(* handleCreateProject, StageCreateProject: the project must be new.  The  *)
(* manifests are rendered after the repository was created.                *)
CreateProject(p, n, net, owners) ==
    LET refused == Members(p) # {} \/ ~MayTakeNetwork(n, net)
    IN  /\ repos' = Ensured(p, refused)
        /\ IF refused THEN Refuse("conflict")
           ELSE IF net = "bad" THEN Refuse("invalid")
           ELSE Stage({n}, [m \in {n} |-> NamespaceManifest(m, p, [host |-> "", path |-> p], net # None)], owners)
        /\ UNCHANGED <<cluster, host, git, foreign, seenGit, raced, hand>>

(* Wires a repository to a project that has none, or lost it; re-homes one *)
(* whose repository is on the forge under another host.                    *)
AdoptProject(p, owners) ==
    LET repo    == RepoOf(p)
        there   == repo # None /\ repos[repo.path] # None
        rehome  == repo # None /\ ~SameForge(repo) /\ there
        refused == repo # None /\ SameForge(repo) = there
        ref     == IF rehome THEN PathRef(repo) ELSE [host |-> "", path |-> p]
        docs    == [n \in Members(p) |-> NamespaceManifest(n, p, ref, FALSE)]
    IN  /\ Members(p) # {}
        /\ IF refused THEN Refuse("conflict") ELSE Stage(Members(p), docs, owners)
        /\ repos' = IF rehome THEN repos ELSE Ensured(p, refused)
        /\ UNCHANGED <<cluster, host, git, foreign, seenGit, raced, hand>>

(* StageCreateNamespace: a namespace joins a project that has a repository,*)
(* whose host stays in the reference when it is not this forge's.          *)
CreateNamespace(n, p, net) ==
    LET repo == RepoOf(p)
        ref  == IF SameForge(repo) THEN PathRef(repo) ELSE repo
    IN  /\ Members(p) # {}
        /\ IF ~MayTakeNetwork(n, net) \/ (git[n] # None /\ git[n].net # (net # None)) THEN Refuse("conflict")
           ELSE IF repo = None \/ net = "bad" THEN Refuse("invalid")
           ELSE Stage({n}, [m \in {n} |-> NamespaceManifest(m, p, ref, net # None)], None)
        /\ UNCHANGED <<cluster, host, repos, git, foreign, seenGit, raced, hand>>

(* ReleaseDeclared and handleReleaseProject, of a project without a        *)
(* repository: the declared namespaces are staged without its keys, up to  *)
(* one whose file holds a network; the others are unlabelled on the        *)
(* cluster, up to one where that fails.                                    *)
ReleaseProject(p) ==
    LET declared == {n \in Members(p) : git[n] # None}
        wired    == {n \in declared : git[n].net}
        staged   == {n \in declared : \A m \in wired : n < m}
        residue  == Members(p) \ declared
    IN  /\ Members(p) # {} /\ RepoOf(p) = None
        /\ draft' = [n \in Namespaces |-> IF n \in staged THEN Released(git[n]) ELSE draft[n]]
        /\ seenDraft' = [n \in Namespaces |-> IF n \in staged THEN seenGit[n] ELSE seenDraft[n]]
        /\ \E done \in {d \in SUBSET residue : wired = {} \/ d = {}} :
              /\ \A n \in done, m \in residue : m < n => m \in done
              /\ cluster' = [n \in Namespaces |-> IF n \in done
                               THEN [cluster[n] EXCEPT !.project = None, !.repo = None] ELSE cluster[n]]
              /\ outcome' = IF wired # {} THEN "conflict" ELSE IF done = residue THEN "staged" ELSE "failed"
        /\ UNCHANGED <<host, repos, git, grants, foreign, seenGit, raced, hand>>

--------------------------------------------------------------------------------
(* What the draft goes through, and what others do.                        *)

Emptied ==
    /\ draft' = [n \in Namespaces |-> None]
    /\ seenDraft' = [n \in Namespaces |-> {}]
    /\ grants' = {}
    /\ outcome' = None

Merge ==
    /\ \E n \in Namespaces : draft[n] # None
    /\ git'     = [n \in Namespaces |-> IF draft[n] # None THEN draft[n] ELSE git[n]]
    /\ seenGit' = [n \in Namespaces |-> IF draft[n] # None THEN seenDraft[n] ELSE seenGit[n]]
    /\ Emptied
    /\ UNCHANGED <<cluster, host, repos, foreign, raced, hand>>

Discard ==
    /\ Emptied
    /\ UNCHANGED <<cluster, host, repos, git, foreign, seenGit, raced, hand>>

Applied(doc, kept) ==
    [project |-> doc.project, repo |-> doc.repo, own |-> doc.own \union kept, primary |-> doc.primary]

(* Argo CD makes a namespace what git says.  It may take a key that git    *)
(* leaves out ("Argo applies an omitted label as its removal",             *)
(* namespace.go:37), or keep it; so a key that others gave since the file  *)
(* was rendered has no claim to stay.  OVN takes its label at creation,    *)
(* and refuses the sync that changes it.                                   *)
Sync(n) ==
    /\ git[n] # None
    /\ Exists(n) => cluster[n].primary = git[n].primary
    /\ \E kept \in SUBSET (OwnOf(n) \ git[n].own) :
          /\ cluster' = [cluster EXCEPT ![n] = Applied(git[n], kept)]
          /\ foreign' = [foreign EXCEPT ![n] = @ \intersect (seenGit[n] \union kept)]
    /\ raced' = IF draft[n] # None /\ ~Exists(n) THEN raced \union {n} ELSE raced
    /\ outcome' = None
    /\ UNCHANGED <<host, repos, git, draft, grants, seenDraft, seenGit, hand>>

(* Others write a namespace, create it or delete it, whatever is staged,   *)
(* merged or synced of it.                                                 *)
HandWrites(n, meta) ==
    /\ hand < MaxHand /\ hand' = hand + 1
    /\ cluster[n] # meta
    /\ Exists(n) /\ meta # None => meta.primary = cluster[n].primary
    /\ cluster' = [cluster EXCEPT ![n] = meta]
    /\ foreign' = [foreign EXCEPT ![n] = IF meta = None THEN {} ELSE meta.own]
    /\ raced' = IF (draft[n] # None \/ git[n] # None) /\ ~Exists(n) THEN raced \union {n} ELSE raced
    /\ outcome' = None
    /\ UNCHANGED <<host, repos, git, draft, grants, seenDraft, seenGit>>

(* Others drop the annotation from the platform repository.                *)
HandDrops(n) ==
    /\ hand < MaxHand /\ hand' = hand + 1
    /\ git[n] # None /\ git[n].repo # None
    /\ git' = [git EXCEPT ![n].repo = None]
    /\ outcome' = None
    /\ UNCHANGED <<cluster, host, repos, draft, grants, foreign, seenDraft, seenGit, raced>>

RepoLost(p) ==
    /\ hand < MaxHand /\ hand' = hand + 1
    /\ repos[p] # None
    /\ repos' = [repos EXCEPT ![p] = None]
    /\ outcome' = None
    /\ UNCHANGED <<cluster, host, git, draft, grants, foreign, seenDraft, seenGit, raced>>

ForgeMoves(h) ==
    /\ hand < MaxHand /\ hand' = hand + 1
    /\ h # host /\ host' = h
    /\ outcome' = None
    /\ UNCHANGED <<cluster, repos, git, draft, grants, foreign, seenDraft, seenGit, raced>>

Init ==
    /\ cluster \in AtFirst
    /\ host = Home
    /\ repos \in [Tenants -> {None, "kept"}]
    /\ git   = [n \in Namespaces |-> None]
    /\ draft = [n \in Namespaces |-> None]
    /\ grants = {}
    /\ outcome = None
    /\ foreign = [n \in Namespaces |-> OwnOf(n)]
    /\ seenDraft = [n \in Namespaces |-> {}] /\ seenGit = seenDraft
    /\ raced = {}
    /\ hand = 0

Request ==
    \E p \in Tenants :
        \/ \E n \in Namespaces, net \in {None, "net", "bad"}, o \in {None, "some", "bad"} : CreateProject(p, n, net, o)
        \/ \E o \in {None, "some", "bad"} : AdoptProject(p, o)
        \/ \E n \in Namespaces, net \in {None, "net", "bad"} : CreateNamespace(n, p, net)
        \/ ReleaseProject(p)

Next ==
    \/ Request \/ Merge \/ Discard
    \/ \E n \in Namespaces : Sync(n) \/ HandDrops(n) \/ \E meta \in ByHand : HandWrites(n, meta)
    \/ \E p \in Tenants : RepoLost(p)
    \/ \E h \in Hosts : ForgeMoves(h)

Spec == Init /\ [][Next]_vars

--------------------------------------------------------------------------------
(* What others gave a namespace is still on it, whatever was staged,       *)
(* landed, synced, staged again and released since, and whenever they gave *)
(* it (LiveNamespace, namespace.go:36-39: "kept verbatim beneath the       *)
(* tenancy keys"); until a sync takes what was not there yet when the file *)
(* that it applies was rendered.                                           *)
KeepsForeign == \A n \in Namespaces : Exists(n) => foreign[n] \subseteq cluster[n].own

(* No merge asks of a namespace what OVN will not do to one that exists    *)
(* (tenancy.go:29-31), so the platform's sync never stops on it; but for a *)
(* namespace created between the staging, which looks at the cluster, and  *)
(* the sync.                                                               *)
SyncApplies ==
    \A n \in Namespaces \ raced :
        git[n] # None /\ Exists(n) => cluster[n].primary = git[n].primary

================================================================================
