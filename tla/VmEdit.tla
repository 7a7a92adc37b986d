-------------------------------- MODULE VmEdit --------------------------------
(***************************************************************************)
(* internal/manifest: how a VirtualMachine manifest is edited, read back,  *)
(* previewed and matched to the VM that runs.                              *)
(*                                                                         *)
(* A manifest is the record of the fields the package reads or writes; the *)
(* line editor that splices them into the text, and leaves every other     *)
(* line alone, is abstracted to the update of those fields.  Every edit is *)
(* queued against the tree as it was read: what one applier removes is     *)
(* still there for the next.                                               *)
(***************************************************************************)
EXTENDS Integers, SequencesExt

CONSTANTS None,         \* an absent field
          HandWritten,  \* an affinity that dotvirt did not write
          Labels, Groups,
          Manifests,    \* the manifests git may hold at first
          Clusters,     \* what may run, as the manifests exported from it
          Edits,        \* the edits that a client may stage
          MaxEdits      \* bound: edits that land in git


VARIABLES vm,    \* the manifest on the base branch
          live,  \* the VM that runs, exported
          told,  \* the fields that the preview of the last edit named
          left   \* edits still to come

vars == <<vm, live, told, left>>

Pod == [ns |-> "", nad |-> "pod"]

(* The fields of a manifest, and what the values of the constants satisfy. *)
Fields ==
    {"running", "strategy", "instancetype", "preference", "cpu", "guest", "requests", "labels",
     "excluded", "eviction", "selector", "affinity", "groups", "disks", "volumes", "templates",
     "nics", "nets", "autoattach", "updates"}

(* A pin of the old revision never survives a new name.                    *)
Ref(name) == [name |-> name, pinned |-> FALSE]

IsList(s) == Len(s) \in Nat /\ s = [i \in 1..Len(s) |-> s[i]]

(* What the API server admits: one way to say that a VM runs, CPU axes     *)
(* that are counts, references that name something, lists that are lists.  *)
Admitted(m) ==
    /\ DOMAIN m = Fields
    /\ m.running \in BOOLEAN \union {None} /\ (m.running = None \/ m.strategy = None)
    /\ m.autoattach \in BOOLEAN
    /\ m.cpu \in [cores : Nat, sockets : Nat, threads : Nat]
    /\ \A ref \in {m.instancetype, m.preference} : ref # None => None \notin {ref.name, Ref(ref.name)}
    /\ m.labels = [l \in Labels |-> m.labels[l]] /\ DOMAIN m.groups = Groups
    /\ IsList(m.disks) /\ IsList(m.volumes) /\ IsList(m.nics) /\ IsList(m.nets)
    /\ m.templates # None => IsList(m.templates)

(* What a request can hold.                                                *)
Requested(e) ==
    /\ e.power \in {None, "On", "Off"} /\ \A g \in DOMAIN e.groups : e.groups[g] # None
    /\ e.cpu \in Nat \union {None} /\ IsFiniteSet(e.addDisks) /\ IsFiniteSet(e.addNets)
    /\ \A name \in {e.instancetype, e.preference} \ {None} : Ref(name) # None

EditAssumption ==
    /\ MaxEdits \in Nat
    /\ None \notin Nat /\ None \notin BOOLEAN
    /\ None \notin {"", "On", "Off", "Always", "RerunOnFailure", "Halted", "Manual", "Once", "custom", "instancetype"}
    /\ \A m \in Manifests \union Clusters : Admitted(m)
    /\ \A e \in Edits : Requested(e)

(* A DataVolume belongs to the one disk that it is named for: <<d, 0>> is   *)
(* the first of disk d, <<d, n>> its n-th replacement.                     *)
Owned(m) ==
    /\ \A i \in DOMAIN m.volumes :
           /\ DOMAIN m.volumes[i] = {"name", "dv"}
           /\ m.volumes[i].dv # None => m.volumes[i].dv[1] = m.volumes[i].name
    /\ m.templates # None =>
           \A i \in DOMAIN m.templates : DOMAIN m.templates[i] = {"name", "size", "class", "blank"}

OwnAssumption == \A m \in Manifests : Owned(m)

(* No value of a field is the sign that it is absent.                      *)
NoneIsApart ==
    /\ \A x, y : <<x, y>> # None
    /\ \A x, y : [mode |-> x, strict |-> y] # None
    /\ \A x, y : [pin |-> x, terms |-> y] \notin {None, HandWritten}
    /\ \A s : IsList(s) => s # None

--------------------------------------------------------------------------------
(* Reading a manifest.                                                     *)

NamesOf(s) == {s[i].name : i \in DOMAIN s}

(* The item that a name stands for is the first one, when edited.          *)
Named(s, name) == s[CHOOSE i \in DOMAIN s : s[i].name = name /\ \A j \in 1..(i - 1) : s[j].name # name]

(* vCPUs are the product of the axes that are set.                         *)
Vcpus(c) ==
    LET axis(n) == IF n = 0 THEN 1 ELSE n
    IN  IF c.cores + c.sockets + c.threads = 0 THEN 0
        ELSE axis(c.cores) * axis(c.sockets) * axis(c.threads)

PowerOf(m) ==
    IF m.strategy \in {"Always", "RerunOnFailure"} THEN "On"
    ELSE IF m.strategy = "Halted" THEN "Off"
    ELSE IF m.strategy \in {"Manual", "Once"} \/ m.running = None THEN "Unknown"
    ELSE IF m.running THEN "On" ELSE "Off"

(* What is absent reads as no text.                                        *)
Text(s) == IF s = None THEN "" ELSE s

NameOf(ref) == IF ref = None THEN "" ELSE ref.name

MemoryOf(m) == IF Text(m.guest) # "" THEN m.guest ELSE Text(m.requests)

(* The pin of the node selector, unless the affinity has its own; a group  *)
(* is a label of the template, and its term says how strict it is.         *)
PinInSelector(m) == m.selector # None /\ (m.affinity \in {None, HandWritten} \/ m.affinity.pin = {})

Scheduling(m) ==
    LET written == m.affinity \notin {None, HandWritten}
        selected == IF m.selector = None THEN {} ELSE {m.selector}
        term(g) == IF written THEN m.affinity.terms[g] ELSE None
    IN  [custom |-> m.affinity = HandWritten \/ (written /\ m.selector # None /\ m.affinity.pin # {}),
         pin |-> IF written /\ m.affinity.pin # {} THEN m.affinity.pin ELSE selected,
         groups |-> [g \in Groups |->
             IF term(g) # None THEN term(g)
             ELSE IF m.groups[g] # None THEN [mode |-> m.groups[g], strict |-> FALSE]
             ELSE None]]

(* A disk's size and class are those of the template that provisions it.   *)
DiskOf(m, name) ==
    LET bare == [name |-> name, size |-> None, class |-> None]
        dv   == IF name \in NamesOf(m.volumes) THEN Named(m.volumes, name).dv ELSE None
    IN  IF dv = None \/ m.templates = None THEN bare
        ELSE IF dv \notin NamesOf(m.templates) THEN bare
        ELSE [name |-> name, size |-> Named(m.templates, dv).size, class |-> Named(m.templates, dv).class]

(* A template without an interface gets the pod network from KubeVirt,     *)
(* unless it declines that.                                                *)
NicsOf(m) ==
    LET net(name) == IF name \in NamesOf(m.nets) THEN Named(m.nets, name).net ELSE None
        named   == {[name |-> n, net |-> net(n)] : n \in NamesOf(m.nics)}
        default == [name |-> "default", net |-> Pod]
    IN  IF m.nics = <<>> /\ m.autoattach THEN {default} ELSE named

Parsed(m) ==
    [power |-> PowerOf(m), cpu |-> Vcpus(m.cpu),
     memory |-> MemoryOf(m),
     instancetype |-> NameOf(m.instancetype), preference |-> NameOf(m.preference),
     labels |-> m.labels, excluded |-> m.excluded, eviction |-> m.eviction,
     scheduling |-> Scheduling(m),
     disks |-> {DiskOf(m, n) : n \in NamesOf(m.disks)}, nics |-> NicsOf(m)]

--------------------------------------------------------------------------------
(* Comparing two VMs: the fields that differ.                              *)

Differing(a, b, fields) == {<<f>> : f \in {g \in fields : a[g] # b[g]}}

Scalars == {"power", "cpu", "memory", "instancetype", "preference", "excluded", "eviction"}

DiskLabels(a, n) == {d.size : d \in {x \in a.disks : x.name = n}}
DiskNames(a) == {d.name : d \in a.disks}
NicNames(a) == {n.name : n \in a.nics}

DiffVMs(a, b) ==
    Differing(a, b, Scalars)
    \union {<<"label", k>> : k \in {l \in Labels : a.labels[l] # b.labels[l]}}
    \union (IF a.scheduling.pin # b.scheduling.pin THEN {<<"pin">>} ELSE {})
    \union {<<"group", g>> : g \in {h \in Groups : a.scheduling.groups[h] # b.scheduling.groups[h]}}
    \union {<<"disk", n>> : n \in {d \in DiskNames(a) \union DiskNames(b) : DiskLabels(a, d) # DiskLabels(b, d)}}
    \union {<<"network", n>> : n \in (NicNames(a) \ NicNames(b)) \union (NicNames(b) \ NicNames(a))}

--------------------------------------------------------------------------------
(* An edit, and the edit that makes one VM of another.                     *)

NoEdit ==
    [power |-> None, cpu |-> None, memory |-> None, instancetype |-> None, preference |-> None,
     sizing |-> None, labels |-> [k \in {} |-> None], dropLabels |-> {}, excluded |-> None,
     eviction |-> None, addDisks |-> {}, dropDisks |-> {}, addNets |-> {}, dropNets |-> {},
     migrate |-> {}, pin |-> None, groups |-> [g \in {} |-> None], dropGroups |-> {}]

Unset ==
    [power |-> "Unknown", cpu |-> 0, memory |-> "", instancetype |-> "", preference |-> "",
     excluded |-> None, eviction |-> None]

\* Mutation: a label that only git has stays.
LabelsKept(from, to) == {}

DroppedLabels(from, to) == {l \in Labels : from.labels[l] # None /\ to.labels[l] = None}

(* What a stopped VM does not report is not adopted, nor the placement,    *)
(* nor an empty label: it reads like the one that git lacks.               *)
EditToMatch(from, to) ==
    LET moved(f) == IF from[f] # to[f] /\ to[f] # Unset[f] THEN to[f] ELSE None
        newDisks == {d \in to.disks : d.name \notin DiskNames(from)}
    IN  [NoEdit EXCEPT
            !.power = moved("power"), !.cpu = moved("cpu"), !.memory = moved("memory"),
            !.instancetype = moved("instancetype"), !.preference = moved("preference"),
            !.excluded = moved("excluded"), !.eviction = moved("eviction"),
            !.labels = [k \in {l \in Labels : to.labels[l] \notin {None, Text(from.labels[l])}} |-> to.labels[k]],
            !.dropLabels = DroppedLabels(from, to),
            !.addDisks = {[d EXCEPT !.class = None] : d \in newDisks},
            !.dropDisks = DiskNames(from) \ DiskNames(to),
            !.addNets = {n.net : n \in {x \in to.nics : x.name \notin NicNames(from)}},
            !.dropNets = NicNames(from) \ NicNames(to)]

--------------------------------------------------------------------------------
(* ApplyEdit, one applier at a time.                                       *)

Powered(m, e) ==
    IF e.power = None THEN m
    ELSE IF m.running # None THEN [m EXCEPT !.running = e.power = "On"]
    ELSE [m EXCEPT !.strategy = IF e.power = "On" THEN "Always" ELSE "Halted"]

(* A block of cores alone keeps them, any other topology becomes sockets.  *)
WithCpu(m, n) ==
    IF n = None THEN m
    ELSE [m EXCEPT !.cpu = IF @.cores # 0 /\ @.sockets = 0 /\ @.threads = 0
                           THEN [@ EXCEPT !.cores = n]
                           ELSE [cores |-> 0, sockets |-> n, threads |-> 0]]

WithMemory(m, size) ==
    IF size = None THEN m
    ELSE IF m.guest = None /\ m.requests # None THEN [m EXCEPT !.requests = size]
    ELSE [m EXCEPT !.guest = size]

Inline(m, e) == WithMemory(WithCpu(m, e.cpu), e.memory)

StripInline(m) ==
    [m EXCEPT !.cpu = [cores |-> 0, sockets |-> 0, threads |-> 0], !.guest = None, !.requests = None]

WithInstancetype(m, e) ==
    IF e.instancetype = None THEN m ELSE [m EXCEPT !.instancetype = Ref(e.instancetype)]

\* Mutation: an edit that does not name the sizing leaves both in place.
SizedAsAsked(m, e) ==
    CASE e.sizing = "custom"       -> Inline([m EXCEPT !.instancetype = None], e)
      [] e.sizing = "instancetype" -> StripInline(WithInstancetype(m, e))
      [] OTHER                     -> Inline(WithInstancetype(m, e), e)

(* One representation of the size: the instance type wins, unless dropped. *)
(* An empty one that the edit gives is written, and does not win.          *)
Sized(m, e) ==
    LET chosen == WithInstancetype(m, e)
        wins   == m.instancetype # None \/ e.instancetype \notin {None, ""}
    IN  IF e.sizing = "custom" THEN Inline([m EXCEPT !.instancetype = None], e)
        ELSE IF e.sizing = "instancetype" \/ wins THEN StripInline(chosen)
        ELSE Inline(chosen, e)

Preferred(m, e) == IF e.preference = None THEN m ELSE [m EXCEPT !.preference = Ref(e.preference)]

(* Keys set, then keys removed of those that were there.                   *)
MapEdited(old, set, remove) ==
    [k \in DOMAIN old |->
        IF k \in remove /\ (old[k] # None \/ k \notin DOMAIN set) THEN None
        ELSE IF k \in DOMAIN set THEN set[k]
        ELSE old[k]]

Labelled(m, e) == [m EXCEPT !.labels = MapEdited(@, e.labels, e.dropLabels)]

PlacementEdit(e) == e.pin # None \/ DOMAIN e.groups # {} \/ e.dropGroups # {}

(* A pin that the node selector holds, and that is not edited, stays there. *)
PinKept(m) == IF PinInSelector(m) THEN {} ELSE Scheduling(m).pin

(* The affinity is written anew.                                           *)
Placed(m, e) ==
    LET now    == Scheduling(m)
        groups == [g \in Groups |-> IF g \in e.dropGroups THEN None
                                    ELSE IF g \in DOMAIN e.groups THEN e.groups[g]
                                    ELSE now.groups[g]]
        pin    == IF e.pin # None THEN e.pin ELSE PinKept(m)
    IN  IF ~PlacementEdit(e) THEN m
        ELSE [m EXCEPT !.selector = IF e.pin # None THEN None ELSE @,
                       !.affinity = IF pin = {} /\ \A g \in Groups : groups[g] = None THEN None
                                    ELSE [pin |-> pin, terms |-> groups],
                       !.groups = MapEdited(@, [g \in DOMAIN e.groups |-> e.groups[g].mode], e.dropGroups)]

(* "" removes the eviction strategy, a toggle the annotation.              *)
Marked(m, e) ==
    [m EXCEPT !.excluded = IF e.excluded = None THEN @ ELSE e.excluded,
              !.eviction = IF e.eviction = None THEN @ ELSE e.eviction]

(* The first item of each name goes.                                       *)
Without(s, names) ==
    LET gone(i) == s[i].name \in names /\ \A j \in 1..(i - 1) : s[j].name # s[i].name
    IN  FlattenSeq([i \in DOMAIN s |-> IF gone(i) THEN <<>> ELSE <<s[i]>>])

(* An item is added after the last one of a list, and to no empty list.    *)
Changed(s, names, added) == Without(s, names) \o (IF s = <<>> THEN <<>> ELSE added)

Blank(d) ==
    [name |-> <<d.name, 0>>, size |-> IF d.size = None THEN "10Gi" ELSE d.size,
     class |-> d.class, blank |-> TRUE]

VolumeOf(d) == [name |-> d.name, dv |-> <<d.name, 0>>]

\* Mutation: the template of a removed disk stays.
DvsForgotten(m, names) == {}

(* The DataVolumes of some disks.                                          *)
DvsOf(m, names) == {Named(m.volumes, n).dv : n \in names \intersect NamesOf(m.volumes)} \ {None}

(* The disk, its volume and the template that provisions it; the section   *)
(* of the templates is created when the manifest has none.                 *)
WithDisks(m, e) ==
    LET added == SetToSeq(e.addDisks)
        new   == [i \in DOMAIN added |-> Blank(added[i])]
    IN  [m EXCEPT !.disks = Changed(@, e.dropDisks, [i \in DOMAIN added |-> [name |-> added[i].name]]),
                  !.volumes = Changed(@, e.dropDisks, [i \in DOMAIN added |-> VolumeOf(added[i])]),
                  !.templates = IF @ # None THEN Changed(@, DvsOf(m, e.dropDisks), new)
                                ELSE IF new = <<>> THEN None
                                ELSE new]

(* An interface takes the name of the network's attachment definition.     *)
InterfaceName(network) == network.nad

WithNets(m, e) ==
    LET added == SetToSeq(e.addNets)
        name(i) == InterfaceName(added[i])
    IN  [m EXCEPT !.nics = Changed(@, e.dropNets, [i \in DOMAIN added |-> [name |-> name(i)]]),
                  !.nets = Changed(@, e.dropNets, [i \in DOMAIN added |-> [name |-> name(i), net |-> added[i]]])]

(* The disks whose DataVolume has a template, and the first free name.     *)
Movable(m, d) ==
    /\ m.templates # None /\ d \in NamesOf(m.volumes)
    /\ Named(m.volumes, d).dv \in NamesOf(m.templates) \ {None}

NextDv(m, dv) ==
    <<dv[1], CHOOSE n \in 1..(Len(m.templates) + 1) :
                /\ <<dv[1], n>> \notin NamesOf(m.templates)
                /\ \A k \in 1..(n - 1) : <<dv[1], k>> \in NamesOf(m.templates)>>

(* m was read, w is what the other appliers made of it.                    *)
Migrated(m, w, e) ==
    LET moves == {v \in e.migrate : Movable(m, v.name)}
        dvOf(v) == Named(m.volumes, v.name).dv
        moved(dv) == {v \in moves : dvOf(v) = dv}
        class(dv) == (CHOOSE v \in moved(dv) : TRUE).class
        template(x) == IF moved(x.name) = {} THEN x
                       ELSE [x EXCEPT !.name = NextDv(m, x.name), !.class = class(x.name), !.blank = TRUE]
        volume(x) == IF moved(x.dv) = {} THEN x ELSE [x EXCEPT !.dv = NextDv(m, x.dv)]
    IN  IF moves = {} THEN w
        ELSE [w EXCEPT !.templates = [i \in DOMAIN w.templates |-> template(w.templates[i])],
                       !.volumes = [i \in DOMAIN w.volumes |-> volume(w.volumes[i])],
                       !.updates = "Migration"]

Appliers(m, e) ==
    WithNets(WithDisks(Marked(Placed(Labelled(Preferred(Sized(Powered(m, e), e), e), e), e), e), e), e)

(* An affinity written by hand refuses an edit of the placement.           *)
Accepted(m, e) == PlacementEdit(e) => ~Scheduling(m).custom

ApplyEdit(m, e) == Migrated(m, Appliers(m, e), e)
--------------------------------------------------------------------------------
(* The preview: what the changes to stage are said to be.                  *)

\* Mutation: the size that an instance type replaces is not shown.
SizingAsked(cur, e) ==
    {<<f>> : f \in {g \in {"cpu", "memory", "instancetype"} : e[g] \notin {None, cur[g]}}}

SizingChanges(cur, e) ==
    LET asked(f)   == e[f] \notin {None, cur[f]}
        byInstance == CASE e.sizing = "custom"       -> FALSE
                        [] e.sizing = "instancetype" -> TRUE
                        [] OTHER -> cur.instancetype # "" \/ e.instancetype \notin {None, ""}
        shown(f)   == CASE f = "instancetype" -> IF byInstance THEN asked(f) ELSE cur[f] # ""
                        [] f = "cpu"          -> IF byInstance THEN cur[f] # 0 ELSE asked(f)
                        [] OTHER              -> IF byInstance THEN cur[f] # "" ELSE asked(f)
    IN  {<<f>> : f \in {g \in {"cpu", "memory", "instancetype"} : shown(g)}}

SchedulingChanges(cur, e) ==
    LET groups == cur.scheduling.groups
    IN  {<<"group", g>> : g \in {h \in DOMAIN e.groups : e.groups[h] # groups[h]}}
        \union {<<"group", g>> : g \in {h \in e.dropGroups : groups[h] # None}}
        \union (IF e.pin \in {None, cur.scheduling.pin} THEN {} ELSE {<<"pin">>})

ChangesForEdit(cur, e) ==
    {<<f>> : f \in {g \in {"power", "preference", "excluded", "eviction"} : e[g] \notin {None, cur[g]}}}
    \union SizingChanges(cur, e)
    \union {<<"label", k>> : k \in {l \in DOMAIN e.labels : e.labels[l] # cur.labels[l]}}
    \union {<<"label", k>> : k \in {l \in e.dropLabels : cur.labels[l] # None}}
    \union SchedulingChanges(cur, e)
    \union {<<"disk", d.name>> : d \in e.addDisks} \union {<<"disk", n>> : n \in e.dropDisks}
    \union {<<"network", n.nad>> : n \in e.addNets} \union {<<"network", n>> : n \in e.dropNets}
    \union {<<"storage", v.name>> : v \in e.migrate}

--------------------------------------------------------------------------------
(* The wizard's manifest (internal/vmgen): a root disk from an image, the  *)
(* disks and networks asked for, and the pod network unless declined.      *)
Wizard(s) ==
    LET extra  == SetToSeq(s.disks)
        nets   == SetToSeq(s.nets)
        root   == [name |-> "rootdisk", dv |-> <<"rootdisk", 0>>]
        seed   == IF s.cloudInit THEN <<[name |-> "cloudinitdisk", dv |-> None]>> ELSE <<>>
        vols   == <<root>> \o [i \in DOMAIN extra |-> VolumeOf(extra[i])] \o seed
        links  == (IF s.primary THEN <<[name |-> "default", net |-> Pod]>> ELSE <<>>)
                  \o [i \in DOMAIN nets |-> [name |-> InterfaceName(nets[i]), net |-> nets[i]]]
    IN  [running |-> None, strategy |-> IF s.running THEN "Always" ELSE "Halted",
         instancetype |-> Ref(s.instancetype), preference |-> Ref(s.preference),
         cpu |-> [cores |-> 0, sockets |-> 0, threads |-> 0], guest |-> None, requests |-> None,
         labels |-> s.labels, excluded |-> FALSE, eviction |-> "",
         selector |-> None, affinity |-> None, groups |-> [g \in Groups |-> None],
         disks |-> [i \in DOMAIN vols |-> [name |-> vols[i].name]], volumes |-> vols,
         templates |-> <<[name |-> root.dv, size |-> s.size, class |-> s.class, blank |-> FALSE]>>
                       \o [i \in DOMAIN extra |-> Blank(extra[i])],
         nics |-> [i \in DOMAIN links |-> [name |-> links[i].name]], nets |-> links,
         autoattach |-> TRUE, updates |-> None]

--------------------------------------------------------------------------------
(* What the server does with them.  An edit is staged with its preview,    *)
(* proposed and merged in one step: Staging and Propose have the steps.    *)

Init ==
    /\ vm \in Manifests
    /\ live \in Clusters
    /\ told = {}
    /\ left = MaxEdits

Land(e) ==
    /\ left > 0
    /\ e # NoEdit
    /\ Accepted(vm, e)
    /\ vm' = ApplyEdit(vm, e)
    /\ told' = ChangesForEdit(Parsed(vm), e)
    /\ left' = left - 1
    /\ UNCHANGED live

StageEdit == \E e \in Edits : Land(e)

(* Adopt: the edit that makes git match what runs.                         *)
Adopt == Land(EditToMatch(Parsed(vm), Parsed(live)))

Next == StageEdit \/ Adopt

Spec == Init /\ [][Next]_vars

--------------------------------------------------------------------------------
(* Properties.                                                             *)

Inlined(m) == Vcpus(m.cpu) # 0 \/ m.guest # None \/ m.requests # None

Volumes(m) == {m.volumes[i].dv : i \in DOMAIN m.volumes} \ {None}

Templates(m) == IF m.templates = None THEN {} ELSE NamesOf(m.templates)

Distinct(s) == Cardinality(NamesOf(s)) = Len(s)

(* KubeVirt admits disks that have a volume, and templates that have one.  *)
Backed(m) ==
    /\ Distinct(m.disks) /\ NamesOf(m.disks) \subseteq NamesOf(m.volumes)
    /\ Templates(m) \subseteq Volumes(m) /\ (m.templates # None => Distinct(m.templates))

BackedAssumption == \A m \in Manifests : Backed(m)

(* edit.go:95-97: "in exactly one representation", never both: any edit of  *)
(* a manifest that has both an instance type and a size, too.  But for one: *)
(* an empty instance type, given without a mode to a VM that had none, is   *)
(* written beside the size (edit.go:124), until the next edit.              *)
OneSizing ==
    [][vm' # vm => \/ vm'.instancetype = None \/ ~Inlined(vm')
                   \/ vm.instancetype = None /\ vm'.instancetype = Ref("")]_vars

(* semantic.go:11-13: the preview "mirrors what ApplyEdit will do": nothing *)
(* that an edit changes, in the fields that a comparison of the two shows, *)
(* was left out of what the user was shown.  The pod network that KubeVirt *)
(* attaches once the last interface is gone is in no manifest; and an       *)
(* instance type with an empty name reads as none, though it sizes the VM   *)
(* (semantic.go:167, edit.go:123).                                          *)
PreviewCovers ==
    [][vm' # vm /\ (vm.instancetype = None \/ NameOf(vm.instancetype) # "") =>
          DiffVMs(Parsed(vm), Parsed(vm'))
              \subseteq told' \union IF vm'.nics = <<>> /\ vm'.autoattach
                                     THEN {<<"network", "default">>} ELSE {}]_vars

(* edit_devices.go:113-114: "no orphaned PVC template is left behind", over *)
(* any sequence of disks added, removed, moved to another class and        *)
(* adopted; and a replacement's name is fresh.  A manifest without a disk   *)
(* has no list to add one to, and KubeVirt refuses two disks of one name.  *)
NoOrphans ==
    [][vm' # vm /\ vm.disks # <<>> /\ Templates(vm) \subseteq Volumes(vm) /\ Distinct(vm'.volumes) =>
          /\ Templates(vm') \subseteq Volumes(vm')
          /\ vm'.templates # None => Distinct(vm'.templates)]_vars

(* editmatch_test.go:9-11: "every difference DiffVMs can report must be     *)
(* reconcilable": adopting what runs closes the differences of one edit.   *)
(* It leaves what a stopped VM does not report, the placement, the size    *)
(* of a disk that both have and of a VM under an instance type; a device   *)
(* joins a list that has one, and an interface is named for its network.   *)
(* Two differences that are reported stay for ever: a live label without a *)
(* value that git lacks (semantic.go:384), and the pod network that git    *)
(* does not decline, of a VM that runs without an interface.               *)
AdoptionCloses ==
    LET from  == Parsed(vm)
        to    == Parsed(live)
        made  == ApplyEdit(vm, EditToMatch(from, to))
        after == Parsed(made)
        unset == {f \in Scalars : to[f] = Unset[f]}
        sized == IF made.instancetype = None THEN {} ELSE {"cpu", "memory"}
    IN  /\ \A f \in Scalars \ (unset \union sized) : after[f] = to[f]
        /\ \A l \in Labels : after.labels[l] # to.labels[l] => vm.labels[l] = None /\ to.labels[l] = ""
        /\ vm.disks # <<>> /\ Distinct(vm.disks) => DiskNames(after) = DiskNames(to)
        /\ (/\ vm.nics # <<>> /\ Distinct(vm.nics) /\ (to.nics = {} => ~vm.autoattach)
            /\ \A n \in to.nics : n.name \in NicNames(from) \union {n.net.nad}) =>
              NicNames(after) = NicNames(to)
================================================================================
