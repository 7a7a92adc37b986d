-------------------------------- MODULE Staging --------------------------------
(***************************************************************************)
(* Staging (internal/changeset): what each operation writes into one       *)
(* user's draft of one repository, from the base branch it reads, one      *)
(* store write at a time; and the draft landing on a base branch that      *)
(* others moved in the meantime.                                           *)
(*                                                                         *)
(* A file of the branch is the set of documents it holds, a document an    *)
(* object with one of two contents; "opaque" is a document the declared    *)
(* index cannot name.  Several objects may share a file.  "op", "cr" and   *)
(* "psi" are the three files of DRS, one atomic resource.                  *)
(***************************************************************************)
EXTENDS Naturals, Sequences, FiniteSets, FiniteSetsExt

CONSTANTS Tabs,        \* requests of the user that may overlap
          Operations,  \* the operations the user calls
          Layouts,     \* what a base branch may hold
          Clusters,    \* what may run at first
          None,
          MaxRequests, \* bound: requests
          MaxMoves,    \* bound: others' merges, changes of the cluster
          MaxFaults    \* bound: store writes that fail

Objects == {"vm", "seg", "ns", "net", "rb", "tpl"}
Drs     == {"op", "cr", "psi"}
EntryKeys == Objects \union Drs
Vals    == {1, 2}

\* Where an object is rendered, by form, wizard or export; a namespace's
\* primary network rides in the namespace's file.
PathOf == [k \in EntryKeys |-> k]
Paths  == EntryKeys \union {"mixed"}

Documents == (EntryKeys \union {"opaque"}) \X Vals

Conflict == "conflict"

Entries ==
    [op   : {"create", "edit", "patch", "delete", "restore", "path"}, file : Paths,
     docs : SUBSET Documents, seen : SUBSET EntryKeys, known : SUBSET EntryKeys]

\* What the values of the constants satisfy; the instances assume it.  The
\* files of DRS, which dotvirt names, hold no other object.
StagingAssumption ==
    /\ Layouts \subseteq [Paths -> SUBSET Documents]
    /\ \A b \in Layouts : \A k \in Drs : b[k] \subseteq (Drs \union {"opaque"}) \X Vals
    /\ Clusters \subseteq [{"vm", "seg", "ns"} -> Vals \union {None}]
    /\ None \notin Paths \union {Conflict} \union Entries
    /\ {MaxRequests, MaxMoves, MaxFaults} \subseteq Nat

VARIABLES base,   \* the base branch
          past,   \* the contents it had
          live,   \* the objects as they run
          draft,  \* the user's draft
          todo,   \* the store writes each request has still to do
          asked,  \* history: what the last DRS request that ran alone asked for
          requests, moves, faults

vars == <<base, past, live, draft, todo, asked, requests, moves, faults>>

Resting == [plan |-> <<>>, want |-> None, alone |-> TRUE]

Named(docs) == {d[1] : d \in docs} \ {"opaque"}

(* The declared index names one file for an object, the last that a walk   *)
(* meets; the VMs of the branch are found at the first.  Templates are no  *)
(* declared objects.                                                       *)
Walk == <<"cr", "mixed", "net", "ns", "op", "psi", "rb", "seg", "vm">>

Holders(b, o)    == {i \in DOMAIN Walk : o \in Named(b[Walk[i]])}
DeclaredIn(b, o) == Holders(b, o) # {}
Index(b, o)      == IF DeclaredIn(b, o) THEN Walk[Max(Holders(b, o))] ELSE None
Found(b, o)      == Walk[Min(Holders(b, o))]

\* Mutation: the file may hold other objects.
SharedDeclarer(b, refs) ==
    LET at == {Index(b, o) : o \in refs} \ {None}
    IN  IF at = {} THEN None ELSE IF Cardinality(at) > 1 THEN Conflict ELSE CHOOSE f \in at : TRUE

\* What the index shows of a file.
Shown(b, f) == {o \in Named(b[f]) : Index(b, o) = f}

(* soleDeclarer: the file that holds these objects and nothing else, for   *)
(* all that the index tells.                                               *)
SoleDeclarer(b, refs) ==
    LET at == {Index(b, o) : o \in refs} \ {None}
    IN  IF at = {} THEN None
        ELSE IF \E f \in at : Shown(b, f) = refs /\ \A d \in b[f] : d[1] # "opaque"
        THEN CHOOSE f \in at : TRUE
        ELSE Conflict

(* A draft entry, with what its author could see: what the index showed of *)
(* the file it replaces, and what was declared.                            *)
Entry(op, file, docs) ==
    [op |-> op, file |-> file, docs |-> docs, seen |-> Shown(base, file),
     known |-> {o \in EntryKeys : DeclaredIn(base, o)}]

Stage(k, e)    == [do |-> "stage", key |-> k, entry |-> e]
Unstage(k)     == [do |-> "unstage", key |-> k]
Delta(k, docs) == [do |-> "delta", key |-> k, docs |-> docs] \* unless base has it

--------------------------------------------------------------------------------
(* What each operation will write, from the base branch as it stands.  An  *)
(* operation that is refused has no plan.                                  *)

(* stageRendered: a create where git declares none of the objects, a       *)
(* rewrite of the sole declarer otherwise.                                 *)
Rendered(k, docs) ==
    LET at == SoleDeclarer(base, Named(docs))
    IN  CASE at = None     -> {<<Stage(k, Entry("create", PathOf[k], docs))>>}
          [] at = Conflict -> {}
          [] OTHER         -> {<<Stage(k, Entry("edit", at, docs))>>}

\* Mutation: only the file it would be rendered to is looked at.
CreateAtPath ==
    IF "vm" \in Named(base[PathOf["vm"]]) THEN {}
    ELSE {<<Stage("vm", Entry("create", PathOf["vm"], {<<"vm", v>>}))>> : v \in Vals}

(* StageCreateVM, StageDeployFromTemplate: requireUndeclaredVM.            *)
CreateVM ==
    IF DeclaredIn(base, "vm") THEN {}
    ELSE {<<Stage("vm", Entry("create", PathOf["vm"], {<<"vm", v>>}))>> : v \in Vals}

StageEdit ==
    IF ~DeclaredIn(base, "vm") THEN {}
    ELSE {<<Stage("vm", Entry("patch", Found(base, "vm"), {<<"vm", v>>}))>> : v \in Vals}

StageCreate == UNION {Rendered("seg", {<<"seg", v>>}) : v \in Vals}

(* A VM Network only on a namespace that does not exist yet.               *)
CreateNamespace ==
    Rendered("ns", {<<"ns", 1>>})
        \union IF live["ns"] # None THEN {} ELSE Rendered("ns", {<<"ns", 1>>, <<"net", 1>>})

(* locate: the file of a declared object that holds nothing else.          *)
Located(o) == {SoleDeclarer(base, {o})} \ {None, Conflict}

StageDelete ==
    UNION {{<<Stage(o, Entry("delete", f, {}))>> : f \in Located(o)} : o \in {"vm", "seg", "ns"}}

StageUpdateManifest ==
    UNION {{<<Stage("seg", Entry("edit", f, {<<"seg", v>>}))>> :
                v \in {x \in Vals : <<"seg", x>> \notin base[f]}} : f \in Located("seg")}

(* The file as a former commit had it, whatever it held then.              *)
RestoreVersion ==
    UNION {{<<Stage("vm", Entry("restore", f, p[f]))>> :
                p \in {x \in past : x[f] \notin {{}, base[f]}}} : f \in Located("vm")}

(* AdoptObject: git says what runs.                                        *)
AdoptObject ==
    IF live["seg"] = None \/ (\E f \in Located("seg") : base[f] = {<<"seg", live["seg"]>>}) THEN {}
    ELSE Rendered("seg", {<<"seg", live["seg"]>>})

(* Adopt: an edit of a declared VM towards the running one, or a create.   *)
AdoptVM ==
    IF live["vm"] = None THEN {}
    ELSE IF ~DeclaredIn(base, "vm")
    THEN {<<Stage("vm", Entry("create", PathOf["vm"], {<<"vm", live["vm"]>>}))>>}
    ELSE IF <<"vm", live["vm"]>> \in base[Found(base, "vm")] THEN {}
    ELSE {<<Stage("vm", Entry("patch", Found(base, "vm"), {<<"vm", live["vm"]>>}))>>}

(* AdoptObjects: everything that runs and git does not declare, in the      *)
(* order it was captured in.                                               *)
AdoptObjects ==
    LET new == {o \in DOMAIN live : live[o] # None /\ ~DeclaredIn(base, o)}
        Adopted(o) == Stage(o, Entry("create", PathOf[o], {<<o, live[o]>>}))
    IN  IF new = {} THEN {}
        ELSE {[i \in DOMAIN s |-> Adopted(s[i])] : s \in Bijection(1..Cardinality(new), new)}

(* stageProjectAdoption: the namespace's file is written by its path, then *)
(* the owners' binding.                                                    *)
AdoptProject ==
    {<<Stage("ns", Entry("path", PathOf["ns"], {<<"ns", 1>>})),
       Stage("rb", Entry("path", PathOf["rb"], {<<"rb", 1>>}))>>}

(* ReleaseDeclared: refused when the file holds more than the namespace.   *)
ReleaseDeclared ==
    IF Named(base["ns"]) # {"ns"} THEN {}
    ELSE {<<Stage("ns", Entry("path", PathOf["ns"], {<<"ns", 2>>}))>>}

SaveTemplate ==
    IF ~DeclaredIn(base, "vm") \/ base["tpl"] # {} THEN {}
    ELSE {<<Stage("tpl", Entry("create", PathOf["tpl"], {<<"tpl", 1>>}))>>}

UpdateTemplate ==
    IF base["tpl"] = {} THEN {}
    ELSE {<<Stage("tpl", Entry("edit", PathOf["tpl"], {<<"tpl", v>>}))>> : v \in Vals}

(* The DRS files of a configuration; the PSI opt-in is one more file.      *)
DrsFiles(conf) ==
    <<<<"op", 1>>, <<"cr", conf.val>>>> \o IF conf.psi THEN <<<<"psi", 1>>>> ELSE <<>>

Configs == [val : Vals, psi : BOOLEAN]

StagedDrs == {k \in Drs : draft[k] # None}

\* Mutation: what is staged and stays wanted by name is left to be replaced.
KeepDrs == <<>>

UnstageStaged(k) == IF draft[k] = None THEN <<>> ELSE <<Unstage(k)>>

UnstageDrs == UnstageStaged("cr") \o UnstageStaged("op") \o UnstageStaged("psi")

EnableDRS(conf) ==
    UnstageDrs \o [i \in 1..Len(DrsFiles(conf)) |->
        Delta(DrsFiles(conf)[i][1], {DrsFiles(conf)[i]})]

(* Disabling retires the committed CR, or cancels what is staged.          *)
DisableDRS ==
    IF base["cr"] = {} /\ StagedDrs = {} THEN {} ELSE {UnstageDrs \o <<Delta("cr", {})>>}

(* Unstage: an atomic resource goes as a whole.                            *)
UnstageObject == {<<Unstage(k)>> : k \in {x \in Objects : draft[x] # None}}
UnstageAtomic == IF StagedDrs = {} THEN {} ELSE {UnstageDrs}

Plans(op) ==
    CASE op = "CreateVM"        -> CreateVM
      [] op = "StageEdit"       -> StageEdit
      [] op = "StageCreate"     -> StageCreate
      [] op = "CreateNamespace" -> CreateNamespace
      [] op = "StageDelete"     -> StageDelete
      [] op = "UpdateManifest"  -> StageUpdateManifest
      [] op = "RestoreVersion"  -> RestoreVersion
      [] op = "AdoptObject"     -> AdoptObject
      [] op = "AdoptVM"         -> AdoptVM
      [] op = "AdoptObjects"    -> AdoptObjects
      [] op = "AdoptProject"    -> AdoptProject
      [] op = "ReleaseDeclared" -> ReleaseDeclared
      [] op = "SaveTemplate"    -> SaveTemplate
      [] op = "UpdateTemplate"  -> UpdateTemplate
      [] op = "Unstage"         -> UnstageObject
      [] OTHER                  -> {}

(* The operations on DRS, with what a full success leaves to land: nothing *)
(* for an unstage.                                                         *)
DrsPlans ==
    {<<EnableDRS(c), [k \in Named(Range(DrsFiles(c))) |-> {d \in Range(DrsFiles(c)) : d[1] = k}]>> :
        c \in Configs}
      \union {<<p, [k \in {"cr"} |-> {}]>> : p \in DisableDRS}
      \union {<<p, None>> : p \in UnstageAtomic}

--------------------------------------------------------------------------------
Init ==
    /\ base \in Layouts
    /\ past = {base}
    /\ live \in Clusters
    /\ draft = [k \in EntryKeys |-> None]
    /\ todo = [t \in Tabs |-> Resting]
    /\ asked = None
    /\ requests = MaxRequests
    /\ moves = MaxMoves
    /\ faults = MaxFaults

Idle(t) == todo[t].plan = <<>>

Alone(others) == [t \in Tabs |-> [todo[t] EXCEPT !.alone = @ /\ t \notin others]]

DrsTabs == {t \in Tabs : ~Idle(t) /\ todo[t].plan[1].key \in Drs}

Begin(t) ==
    /\ Idle(t)
    /\ requests > 0
    /\ requests' = requests - 1
    /\ \E op \in Operations : \E p \in Plans(op) :
          todo' = [todo EXCEPT ![t] = [plan |-> p, want |-> None, alone |-> TRUE]]
    /\ UNCHANGED <<base, past, live, draft, asked, moves, faults>>

BeginDRS(t) ==
    /\ Idle(t)
    /\ "DRS" \in Operations
    /\ requests > 0
    /\ requests' = requests - 1
    /\ \E p \in DrsPlans :
          todo' = [Alone(DrsTabs) EXCEPT
                      ![t] = [plan |-> p[1], want |-> p[2], alone |-> DrsTabs = {}]]
    /\ asked' = None
    /\ UNCHANGED <<base, past, live, draft, moves, faults>>

(* One store write.                                                        *)
Write(t) ==
    LET s    == Head(todo[t].plan)
        rest == Tail(todo[t].plan)
        e    == CASE s.do = "stage"   -> s.entry
                  [] s.do = "unstage" -> None
                  [] OTHER -> IF base[s.key] = s.docs THEN draft[s.key]
                              ELSE Entry(IF s.docs = {} THEN "delete" ELSE "create", s.key, s.docs)
    IN  /\ ~Idle(t)
        /\ draft' = [draft EXCEPT ![s.key] = e]
        /\ IF rest = <<>>
           THEN /\ todo' = [todo EXCEPT ![t] = Resting]
                /\ asked' = IF todo[t].alone /\ todo[t].want # None THEN todo[t].want ELSE asked
           ELSE /\ todo' = [todo EXCEPT ![t].plan = rest]
                /\ UNCHANGED asked
        /\ UNCHANGED <<base, past, live, requests, moves, faults>>

(* The store or the repository fails: what was written stays.              *)
WriteFails(t) ==
    /\ ~Idle(t)
    /\ faults > 0
    /\ faults' = faults - 1
    /\ todo' = [todo EXCEPT ![t] = Resting]
    /\ UNCHANGED <<base, past, live, draft, asked, requests, moves>>

--------------------------------------------------------------------------------
(* A draft is proposed and merged: each entry writes its file, in the      *)
(* order of the keys.  A VM's is its namespace's name, before the others'  *)
(* ("drs:", "namespace:", ...) or after them.                              *)
Staged == {k \in EntryKeys : draft[k] # None}

Rank == [k \in EntryKeys \ {"vm"} |->
            CASE k \in Drs -> 1 [] k = "ns" -> 2 [] k = "seg" -> 3 [] k = "rb" -> 4 [] OTHER -> 5]

(* The others that write file f, and what they leave there.                *)
Writers(f) == {k \in Staged \ {"vm"} : draft[k].file = f}

Rewritten(b, f) ==
    IF Writers(f) = {} THEN b[f]
    ELSE draft[CHOOSE k \in Writers(f) : \A j \in Writers(f) : Rank[j] <= Rank[k]].docs

(* What the VM's entry finds in its file.                                  *)
Current(b, vmFirst) == IF vmFirst THEN b[draft["vm"].file] ELSE Rewritten(b, draft["vm"].file)

Patched(docs) ==
    IF draft["vm"].op = "patch" THEN {d \in docs : d[1] # "vm"} \union draft["vm"].docs
    ELSE draft["vm"].docs

Landed(vmFirst) ==
    [f \in Paths |->
        IF draft["vm"] # None /\ draft["vm"].file = f /\ (Writers(f) = {} \/ ~vmFirst)
        THEN Patched(Current(base, vmFirst))
        ELSE Rewritten(base, f)]

(* An edit of a VM that is not in its file fails the propose.              *)
Applies(vmFirst) ==
    draft["vm"] # None /\ draft["vm"].op = "patch" => "vm" \in Named(Current(base, vmFirst))

Land ==
    /\ Staged # {}
    /\ \E vmFirst \in BOOLEAN :
          /\ Applies(vmFirst)
          /\ Landed(vmFirst) # base
          /\ base' = Landed(vmFirst)
    /\ past' = past \union {base'}
    /\ draft' = [k \in EntryKeys |-> None]
    /\ UNCHANGED <<live, todo, asked, requests, moves, faults>>

(* Others merge; objects change on the cluster.                            *)
OthersMerge ==
    /\ moves > 0
    /\ moves' = moves - 1
    /\ base' \in Layouts \ {base}
    /\ past' = past \union {base'}
    /\ IF \E k \in Drs : base'[k] # base[k]
       THEN asked' = None /\ todo' = Alone(Tabs)
       ELSE UNCHANGED <<asked, todo>>
    /\ UNCHANGED <<live, draft, requests, faults>>

ClusterMoves ==
    /\ moves > 0
    /\ moves' = moves - 1
    /\ \E o \in DOMAIN live : \E v \in (Vals \union {None}) \ {live[o]} :
          live' = [live EXCEPT ![o] = v]
    /\ UNCHANGED <<base, past, draft, todo, asked, requests, faults>>

Next ==
    \/ \E t \in Tabs : Begin(t) \/ BeginDRS(t) \/ Write(t) \/ WriteFails(t)
    \/ Land \/ OthersMerge \/ ClusterMoves

Spec == Init /\ [][Next]_vars

--------------------------------------------------------------------------------
Speaks(k) == {k} \union Named(draft[k].docs)

Landing == draft' # draft /\ base' # base

(* The entries that are written at their paths whatever is there: those of *)
(* DRS, every create, the adoption of a project.                           *)
AtPath == {k \in Staged : k \in Drs \/ draft[k].op \in {"create", "path"}}

(* What leaves the branch is named by the draft; or each file that held it  *)
(* is written by an entry that was staged when the index did not show it   *)
(* there, or by one that is excused.                                       *)
TakesButNamed(excused) ==
    \A o \in EntryKeys : DeclaredIn(base, o) /\ ~DeclaredIn(base', o) =>
        \/ \E k \in Staged : o \in Speaks(k)
        \/ \A i \in Holders(base, o) :
              \E k \in Staged : draft[k].file = Walk[i] /\ (k \in excused \/ o \notin draft[k].seen)

(* staging.go:158: "A rewrite or removal acts on the whole file, so it is   *)
(* offered only when the file is nothing but the objects asked for".  An    *)
(* edit, a removal or a restore that lands takes no object off the branch   *)
(* that it did not name, unless the index did not show it there: it joined *)
(* the file since, or the index knew it in another file.                   *)
SparesNeighbours == [][Landing => TakesButNamed(AtPath)]_vars

(* The same of every entry, those that are written at their paths included. *)
WritesSpareNeighbours == [][Landing => TakesButNamed({})]_vars

(* staging.go:102: a create of what the branch already declares, wherever it *)
(* does, is refused, and an edit goes to the file that declares the object: *)
(* no object ends in two files by an entry whose author knew where it was,  *)
(* unless an entry that writes a whole file brought it along.  Of DRS the   *)
(* index is not asked: its files are written at their paths.               *)
DeclaredOnce ==
    [][Landing => \A o \in Objects :
          \/ Cardinality(Holders(base', o)) <= 1
          \/ Cardinality(Holders(base, o)) > 1
          \/ \E k \in Staged :
                /\ o \in Named(draft[k].docs)
                /\ \/ draft[k].op \in {"path", "restore"}
                   \/ (o \in draft[k].known) # DeclaredIn(base, o)
                   \/ Index(base, o) # draft[k].file /\ draft[k].op \in {"edit", "patch"}]_vars

(* drs.go:22: "represent exactly the base->spec delta" of the configuration *)
(* last asked for.  When a DRS request ran to its end and none since, the  *)
(* branch has the configuration once the draft lands, and the draft has no *)
(* other DRS file: through the other tab's entries, landings and failures. *)
DraftIsTheDelta ==
    asked # None /\ DrsTabs = {} =>
        /\ \A k \in DOMAIN asked :
              (IF draft[k] = None THEN base[k] ELSE draft[k].docs) = asked[k]
        /\ StagedDrs \subseteq DOMAIN asked
================================================================================
