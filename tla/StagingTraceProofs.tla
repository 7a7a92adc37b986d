--------------------------- MODULE StagingTraceProofs --------------------------
(***************************************************************************)
(* Three parts of GitParts.                                                *)
(*                                                                         *)
(* For any layouts of the branch, any operations and any number of tabs:   *)
(* the draft is what is missing of the DRS configuration that was asked    *)
(* for (Staging).  A DRS request that runs alone cancels what is staged,   *)
(* then stages one delta for each file it wants; the invariant says of     *)
(* every write what is still to do and what already lands as wanted.  Of   *)
(* the other entries it says what their author saw of the file, so that a  *)
(* landing takes nothing it did not name, and declares nothing twice.      *)
(*                                                                         *)
(* For any objects, VMs and flows: a certain verdict is the cluster's, the *)
(* chain of a namespace hides nothing, and the trace and the catalog name  *)
(* one primary network (NetTrace).  Each match, from a port up to a side   *)
(* of the flow, tells of what holds in a world: yes and no are certain.    *)
(*                                                                         *)
(* For any forms and rows of uplinks: a form comes back as it was saved, a *)
(* save drops nothing it does not know, and an uplink's save or removal    *)
(* acts on the one that was asked for (NetForms).                          *)
(***************************************************************************)
EXTENDS ManifestsProofs, FunctionTheorems

Drs == Stage!Drs
DrsNames == Drs \union {"opaque"}

IsSeq(p) == \E S : p \in Seq(S)

(* An entry that rewrites or removes a file names all that the index shows  *)
(* of it; a create brings what no file declares to the path it is rendered *)
(* at.  Of templates, at their own path, the index knows nothing.          *)
Sound(k, e) ==
    /\ e.op \in {"create", "edit", "patch", "delete", "restore", "path"}
    /\ e.op \in {"edit", "delete", "restore"} => e.seen \subseteq {k} \union Stage!Named(e.docs)
    /\ e.op = "delete" => e.docs = {}
    /\ e.op = "patch" => k = "vm"
    /\ e.op = "create" =>
          /\ e.file = k /\ k # "net"
          /\ Stage!Named(e.docs) \subseteq {k} \union (IF k = "ns" THEN {"net"} ELSE {})
          /\ k # "tpl" => Stage!Named(e.docs) \intersect e.known = {}

Plain(s) ==
    /\ s.key \in Stage!Objects
    /\ \/ s.do = "unstage"
       \/ s.do = "stage" /\ s.entry.file \in Stage!Paths \ Drs /\ Sound(s.key, s.entry)

OfDrs(s) ==
    /\ s.key \in Drs
    /\ \/ s.do = "unstage"
       \/ s.do = "delta" /\ s.docs \subseteq Drs \X Stage!Vals

(* A request writes the one kind of entry or the other.                    *)
PlanOK(p) ==
    /\ IsSeq(p)
    /\ (\A i \in DOMAIN p : Plain(p[i])) \/ (\A i \in DOMAIN p : OfDrs(p[i]))

(* What branch b has of a DRS file once draft f is merged.                 *)
ToLand(f, b, k) == IF f[k] = None THEN b[k] ELSE f[k].docs

(* What is left of a DRS request that runs alone: unstages, then one delta  *)
(* for each file that is wanted; what it is done with lands as wanted.      *)
Left(f, b, p, want) ==
    /\ \A i, j \in DOMAIN p : i < j /\ p[i].do = "delta" => p[j].do = "delta" /\ p[j].key # p[i].key
    /\ \A i \in DOMAIN p : p[i].do = "delta" => p[i].key \in DOMAIN want /\ p[i].docs = want[p[i].key]
    /\ \A k \in DOMAIN want :
          \/ \E i \in DOMAIN p : p[i].do = "delta" /\ p[i].key = k
          \/ /\ k \in Drs /\ ToLand(f, b, k) = want[k]
             /\ \A i \in DOMAIN p : p[i].do # "unstage"
    /\ \A k \in Drs : f[k] # None =>
          \/ \E i \in DOMAIN p : p[i].do = "unstage" /\ p[i].key = k
          \/ k \in DOMAIN want /\ \A i \in DOMAIN p : p[i].do = "delta" => p[i].key # k

DrsPlan(p) == p # <<>> /\ p[1].key \in Drs

TreeOK(b) == \A k \in Drs : b[k] \subseteq DrsNames \X Stage!Vals

DraftOK(d) ==
    /\ DOMAIN d = Stage!EntryKeys
    /\ \A k \in Stage!EntryKeys : d[k] # None =>
          IF k \in Drs
          THEN d[k].file = k /\ d[k].docs \subseteq Drs \X Stage!Vals
          ELSE d[k].file \in Stage!Paths \ Drs /\ Sound(k, d[k])

TodoOK(r) ==
    /\ r = [plan |-> r.plan, want |-> r.want, alone |-> r.alone] /\ r.alone \in BOOLEAN
    /\ PlanOK(r.plan)
    /\ r.want # None => DrsPlan(r.plan)

(* Two requests on DRS that overlap are not alone.                         *)
ApartOK(r, q) == DrsPlan(r.plan) /\ DrsPlan(q.plan) => ~r.alone

AskedOK(f, b, ask) ==
    /\ \A k \in DOMAIN ask : k \in Drs /\ ToLand(f, b, k) = ask[k]
    /\ \A k \in Drs : f[k] # None => k \in DOMAIN ask

StageInv ==
    /\ DOMAIN ran = {"vm", "seg", "ns"}
    /\ DOMAIN trunk = Stage!Paths /\ TreeOK(trunk)
    /\ DraftOK(filled)
    /\ DOMAIN todo = Tabs
    /\ \A t \in Tabs : TodoOK(todo[t])
    /\ \A t, u \in Tabs : t # u => ApartOK(todo[t], todo[u])
    /\ \A t \in Tabs : todo[t].alone /\ todo[t].want # None =>
          Left(filled, trunk, todo[t].plan, todo[t].want)
    /\ asked # None => /\ \A t \in Tabs : ~DrsPlan(todo[t].plan)
                       /\ AskedOK(filled, trunk, asked)

--------------------------------------------------------------------------------
(* Where an operation finds an object.                                     *)

LEMMA Constants ==
    /\ Stage!Objects = {"vm", "seg", "ns", "net", "rb", "tpl"} /\ Drs = {"op", "cr", "psi"}
    /\ Stage!EntryKeys = Stage!Objects \union Drs
    /\ Stage!Paths = Stage!EntryKeys \union {"mixed"}
    /\ Stage!Objects \intersect Drs = {}
BY DEF Stage!Objects, Drs, Stage!Drs, Stage!EntryKeys, Stage!Paths

LEMMA Extremes ==
    ASSUME NEW H \in SUBSET (1..9), H # {}
    PROVE  Stage!Max(H) \in H /\ Stage!Min(H) \in H
<1>1. Stage!Max(H) \in H
    BY Greatest DEF Stage!Max, Drift!Max
<1>2. Stage!Min(H) \in H
    <2>1. H \in SUBSET Nat
        OBVIOUS
    <2> QED
        BY <2>1, Smallest DEF Stage!Min
<1> QED
    BY <1>1, <1>2

(* The file of an object that is not of DRS is no file of DRS.             *)
LEMMA IndexAt ==
    ASSUME NEW b, TreeOK(b), NEW o \in Stage!Objects, Stage!DeclaredIn(b, o)
    PROVE  Stage!Index(b, o) \in Stage!Paths \ Drs /\ Stage!Found(b, o) \in Stage!Paths \ Drs
<1> DEFINE H == Stage!Holders(b, o)
<1>1. H \subseteq 1..9 /\ H # {}
    BY DEF Stage!DeclaredIn, Stage!Holders, Stage!Walk
<1>2. \A i \in H : Stage!Walk[i] \in Stage!Paths \ Drs
    <2> SUFFICES ASSUME NEW i \in H PROVE Stage!Walk[i] \in Stage!Paths \ Drs
        OBVIOUS
    <2>1. i \in DOMAIN Stage!Walk /\ o \in Stage!Named(b[Stage!Walk[i]])
        BY DEF Stage!Holders
    <2>2. Stage!Walk[i] \in Stage!Paths
        BY <2>1, Constants DEF Stage!Walk
    <2>3. ASSUME Stage!Walk[i] \in Drs PROVE FALSE
        <3>1. PICK d \in b[Stage!Walk[i]] : d[1] = o
            BY <2>1 DEF Stage!Named
        <3>2. d \in DrsNames \X Stage!Vals
            BY <2>3, <3>1 DEF TreeOK
        <3>3. o \in DrsNames
            BY <3>1, <3>2
        <3> QED
            BY <3>3, Constants DEF DrsNames
    <2> QED
        BY <2>2, <2>3
<1> HIDE DEF H
<1>3. Stage!Max(H) \in H /\ Stage!Min(H) \in H
    BY <1>1, Extremes
<1> QED
    BY <1>2, <1>3, Zenon DEF Stage!Index, Stage!Found, H

LEMMA SoleAt ==
    ASSUME NEW b, TreeOK(b), NEW refs \in SUBSET Stage!Objects,
           Stage!SoleDeclarer(b, refs) \notin {None, Stage!Conflict}
    PROVE  Stage!SoleDeclarer(b, refs) \in Stage!Paths \ Drs
<1> DEFINE at == {Stage!Index(b, o) : o \in refs} \ {None}
<1>1. \A f \in at : f \in Stage!Paths \ Drs
    <2> SUFFICES ASSUME NEW o \in refs, Stage!Index(b, o) # None
                 PROVE  Stage!Index(b, o) \in Stage!Paths \ Drs
        OBVIOUS
    <2>1. o \in Stage!Objects /\ Stage!DeclaredIn(b, o)
        BY DEF Stage!Index
    <2> QED
        BY <2>1, IndexAt
<1>2. at # {} /\ Stage!SoleDeclarer(b, refs) = CHOOSE f \in at : TRUE
    BY DEF Stage!SoleDeclarer
<1> HIDE DEF at
<1> QED
    BY <1>1, <1>2

LEMMA IndexNone ==
    ASSUME Stage!StagingAssumption, NEW b, NEW o
    PROVE  /\ Stage!DeclaredIn(b, o) => /\ Stage!Index(b, o) # None
                                       /\ \E i \in Stage!Holders(b, o) : Stage!Index(b, o) = Stage!Walk[i]
           /\ ~Stage!DeclaredIn(b, o) => Stage!Index(b, o) = None
<1> DEFINE H == Stage!Holders(b, o)
<1>1. ASSUME H # {} PROVE Stage!Max(H) \in H
    <2>1. H \subseteq 1..9
        BY DEF Stage!Holders, Stage!Walk
    <2> HIDE DEF H
    <2> QED
        BY <1>1, <2>1, Extremes
<1>2. \A i \in H : Stage!Walk[i] \in Stage!Paths
    BY Constants DEF Stage!Holders, Stage!Walk
<1>3. None \notin Stage!Paths
    BY DEF Stage!StagingAssumption
<1> HIDE DEF H
<1> QED
    BY <1>1, <1>2, <1>3 DEF Stage!DeclaredIn, Stage!Index, H

(* soleDeclarer finds nothing when no file declares the objects; the file   *)
(* it finds shows them and nothing else.                                   *)
LEMMA SoleShows ==
    ASSUME Stage!StagingAssumption, NEW b, NEW refs
    PROVE  /\ Stage!SoleDeclarer(b, refs) = None => \A o \in refs : ~Stage!DeclaredIn(b, o)
           /\ Stage!SoleDeclarer(b, refs) \notin {None, Stage!Conflict} =>
                 Stage!Shown(b, Stage!SoleDeclarer(b, refs)) = refs
<1> DEFINE at == {Stage!Index(b, o) : o \in refs} \ {None}
           f  == CHOOSE x \in at : TRUE
           Sole(g) == Stage!Shown(b, g) = refs /\ \A d \in b[g] : d[1] # "opaque"
<1>1. Stage!SoleDeclarer(b, refs) =
          IF at = {} THEN None ELSE IF \E g \in at : Sole(g) THEN f ELSE Stage!Conflict
    BY Zenon DEF Stage!SoleDeclarer
<1>2. None # Stage!Conflict
    BY DEF Stage!StagingAssumption
<1>3. at = {} => \A o \in refs : ~Stage!DeclaredIn(b, o)
    BY IndexNone
<1>4. None \notin at
    OBVIOUS
<1>5. \A g \in at : Sole(g) => at = {g}
    <2> SUFFICES ASSUME NEW g \in at, Stage!Shown(b, g) = refs PROVE at = {g}
        OBVIOUS
    <2>1. \A o \in refs : Stage!Index(b, o) = g
        BY DEF Stage!Shown
    <2> QED
        BY <2>1
<1>6. at # {} => f \in at
    <2> HIDE DEF at
    <2> QED
        OBVIOUS
<1> HIDE DEF at, f
<1>7. ASSUME NEW g \in at, Sole(g) PROVE Stage!Shown(b, f) = refs
    <2>1. f = g
        BY <1>5, <1>6, <1>7
    <2> QED
        BY <1>7, <2>1, Zenon
<1> HIDE DEF Sole
<1> QED
    BY <1>1, <1>2, <1>3, <1>4, <1>6, <1>7

LEMMA LocatedAt ==
    ASSUME Stage!StagingAssumption, NEW b, TreeOK(b), NEW o \in Stage!Objects,
           NEW f \in {Stage!SoleDeclarer(b, {o})} \ {None, Stage!Conflict}
    PROVE  f \in Stage!Paths \ Drs /\ Stage!Shown(b, f) = {o}
BY SoleAt, SoleShows

--------------------------------------------------------------------------------
(* What the operations plan.                                               *)

PlainPlan(p) == IsSeq(p) /\ \A i \in DOMAIN p : Plain(p[i])

LEMMA SeqPlan ==
    ASSUME NEW S, NEW p \in Seq(S), \A i \in DOMAIN p : Plain(p[i])
    PROVE  PlainPlan(p)
BY Zenon DEF PlainPlan, IsSeq

LEMMA Staged1 ==
    ASSUME NEW o \in Stage!Objects, NEW e, e.file \in Stage!Paths \ Drs, Sound(o, e)
    PROVE  PlainPlan(<<Stage!Stage(o, e)>>)
<1>1. Plain(Stage!Stage(o, e))
    BY DEF Plain, Stage!Stage
<1> DEFINE p == <<Stage!Stage(o, e)>>
<1>2. p \in Seq({Stage!Stage(o, e)}) /\ \A i \in DOMAIN p : Plain(p[i])
    BY <1>1
<1> QED
    BY <1>2, SeqPlan

LEMMA EntryFile ==
    \A op, file, ds : Stage!Entry(op, file, ds).file = file /\ Stage!Entry(op, file, ds).docs = ds
                        /\ Stage!Entry(op, file, ds).op = op
                        /\ Stage!Entry(op, file, ds).seen = Stage!Shown(trunk, file)
                        /\ \A o \in Stage!Entry(op, file, ds).known : Stage!DeclaredIn(trunk, o)
BY DEF Stage!Entry

LEMMA ObjectPaths == \A o \in Stage!Objects : Stage!PathOf[o] \in Stage!Paths \ Drs
BY Constants DEF Stage!PathOf

LEMMA SoundCreate ==
    ASSUME NEW o \in Stage!Objects \ {"net"}, NEW ds,
           Stage!Named(ds) \subseteq {o} \union (IF o = "ns" THEN {"net"} ELSE {}),
           o # "tpl" => \A x \in Stage!Named(ds) : ~Stage!DeclaredIn(trunk, x)
    PROVE  Sound(o, Stage!Entry("create", Stage!PathOf[o], ds))
<1> DEFINE e == Stage!Entry("create", Stage!PathOf[o], ds)
<1>1. Stage!PathOf[o] = o
    BY Constants DEF Stage!PathOf
<1>2. e.op = "create" /\ e.file = o /\ e.docs = ds /\ \A x \in e.known : Stage!DeclaredIn(trunk, x)
    BY <1>1, EntryFile
<1> HIDE DEF e
<1>3. Sound(o, e)
    BY <1>2 DEF Sound
<1> QED
    BY <1>3 DEF e

LEMMA SoundWhole ==
    ASSUME NEW o, NEW f, NEW ds, NEW op \in {"edit", "delete", "restore"},
           Stage!Shown(trunk, f) \subseteq {o} \union Stage!Named(ds), op = "delete" => ds = {}
    PROVE  Sound(o, Stage!Entry(op, f, ds))
<1> DEFINE e == Stage!Entry(op, f, ds)
<1>1. e.op = op /\ e.seen = Stage!Shown(trunk, f) /\ e.docs = ds
    BY EntryFile
<1> HIDE DEF e
<1>2. Sound(o, e)
    BY <1>1 DEF Sound
<1> QED
    BY <1>2 DEF e

LEMMA SoundOther ==
    \A o, f, ds : Sound("vm", Stage!Entry("patch", f, ds)) /\ Sound(o, Stage!Entry("path", f, ds))
<1> SUFFICES ASSUME NEW o, NEW f, NEW ds
             PROVE  Sound("vm", Stage!Entry("patch", f, ds)) /\ Sound(o, Stage!Entry("path", f, ds))
    OBVIOUS
<1>1. Stage!Entry("patch", f, ds).op = "patch" /\ Stage!Entry("path", f, ds).op = "path"
    BY EntryFile
<1> QED
    BY <1>1 DEF Sound

LEMMA RenderedPlain ==
    ASSUME Stage!StagingAssumption, StageInv, NEW k \in {"seg", "ns"}, NEW ds,
           Stage!Named(ds) \subseteq {k} \union (IF k = "ns" THEN {"net"} ELSE {}),
           NEW p \in Stage!Rendered(k, ds)
    PROVE  PlainPlan(p)
<1> DEFINE at == Stage!SoleDeclarer(trunk, Stage!Named(ds))
<1>0. k \in Stage!Objects \ {"net"} /\ Stage!Named(ds) \subseteq Stage!Objects
    BY Constants
<1>1. CASE at = None
    <2>1. p = <<Stage!Stage(k, Stage!Entry("create", Stage!PathOf[k], ds))>>
        BY <1>1 DEF Stage!Rendered
    <2>2. Sound(k, Stage!Entry("create", Stage!PathOf[k], ds))
        BY <1>0, <1>1, SoleShows, SoundCreate
    <2> QED
        BY <1>0, <2>1, <2>2, Staged1, EntryFile, ObjectPaths
<1>2. CASE at # None /\ at = Stage!Conflict
    BY <1>2 DEF Stage!Rendered
<1>3. CASE at # None /\ at # Stage!Conflict
    <2>1. p = <<Stage!Stage(k, Stage!Entry("edit", at, ds))>>
        BY <1>3 DEF Stage!Rendered
    <2>2. at \in Stage!Paths \ Drs
        BY <1>0, <1>3, SoleAt DEF StageInv
    <2>3. Stage!Shown(trunk, at) = Stage!Named(ds)
        BY <1>3, SoleShows
    <2> HIDE DEF at
    <2>4. Sound(k, Stage!Entry("edit", at, ds))
        BY <2>3, SoundWhole
    <2> QED
        BY <1>0, <2>1, <2>2, <2>4, Staged1, EntryFile
<1> QED
    BY <1>1, <1>2, <1>3

(* The file in which the VM's reader finds it.                             *)
LEMMA FoundAt ==
    ASSUME StageInv, Stage!DeclaredIn(trunk, "vm")
    PROVE  Stage!Found(trunk, "vm") \in Stage!Paths \ Drs
BY Constants, IndexAt DEF StageInv

LEMMA NamesOne == \A o \in Stage!Objects : \A v : Stage!Named({<<o, v>>}) = {o}
BY Constants DEF Stage!Named

LEMMA SoundNew ==
    ASSUME NEW o \in Stage!Objects \ {"net"}, NEW v, o # "tpl" => ~Stage!DeclaredIn(trunk, o)
    PROVE  Sound(o, Stage!Entry("create", Stage!PathOf[o], {<<o, v>>}))
<1> DEFINE ds == {<<o, v>>}
<1>1. Stage!Named(ds) = {o}
    BY NamesOne
<1> HIDE DEF ds
<1>2. Sound(o, Stage!Entry("create", Stage!PathOf[o], ds))
    BY <1>1, SoundCreate
<1> QED
    BY <1>2 DEF ds

LEMMA AdoptObjectsPlain ==
    ASSUME StageInv, NEW p \in Stage!AdoptObjects
    PROVE  PlainPlan(p)
<1> DEFINE new == {o \in DOMAIN ran : ran[o] # None /\ ~Stage!DeclaredIn(trunk, o)}
           Brought(o) == Stage!Stage(o, Stage!Entry("create", Stage!PathOf[o], {<<o, ran[o]>>}))
<1>1. new \subseteq {"vm", "seg", "ns"} /\ new \subseteq Stage!Objects
    BY Constants DEF StageInv
<1>2. Cardinality(new) \in Nat
    <2>1. IsFiniteSet({} \union {"vm"} \union {"seg"} \union {"ns"})
        BY FS_EmptySet, FS_AddElement
    <2> QED
        BY <1>1, <2>1, FS_Subset, FS_CardinalityType
<1>3. PICK s \in Stage!Bijection(1..Cardinality(new), new) : p = [i \in DOMAIN s |-> Brought(s[i])]
    BY Zenon DEF Stage!AdoptObjects, Stage!Cardinality, Cardinality
<1> HIDE DEF new
<1>4. s \in [1..Cardinality(new) -> new]
    BY <1>3, Zenon DEF Stage!Bijection, Stage!Injection
<1>5. DOMAIN s = 1..Cardinality(new) /\ DOMAIN p = 1..Cardinality(new)
    BY <1>3, <1>4
<1>6. \A i \in DOMAIN p : Plain(p[i])
    <2> SUFFICES ASSUME NEW i \in DOMAIN p PROVE Plain(p[i])
        OBVIOUS
    <2>1. s[i] \in Stage!Objects
        BY <1>1, <1>4, <1>5
    <2>2. p[i] = Brought(s[i])
        BY <1>3, <1>5
    <2>3. s[i] \in {"vm", "seg", "ns"} /\ ~Stage!DeclaredIn(trunk, s[i])
        BY <1>1, <1>4, <1>5 DEF new
    <2>4. Sound(s[i], Stage!Entry("create", Stage!PathOf[s[i]], {<<s[i], ran[s[i]]>>}))
        BY <2>1, <2>3, SoundNew
    <2> QED
        BY <2>1, <2>2, <2>4, EntryFile, ObjectPaths DEF Plain, Stage!Stage
<1> DEFINE S == {p[i] : i \in 1..Cardinality(new)}
<1>7. p \in [1..Cardinality(new) -> S]
    BY <1>3, <1>5
<1> HIDE DEF S
<1>8. p \in Seq(S)
    BY <1>2, <1>7
<1> QED
    BY <1>6, <1>8, SeqPlan

LEMMA PlansPlain ==
    ASSUME Stage!StagingAssumption, StageInv, NEW op, NEW p \in Stage!Plans(op)
    PROVE  PlainPlan(p)
<1> USE Constants
<1>1. CASE op = "CreateVM"
    <2>1. PICK v \in Stage!Vals :
              p = <<Stage!Stage("vm", Stage!Entry("create", Stage!PathOf["vm"], {<<"vm", v>>}))>>
        BY <1>1 DEF Stage!Plans, Stage!CreateVM
    <2>2. ~Stage!DeclaredIn(trunk, "vm")
        BY <1>1 DEF Stage!Plans, Stage!CreateVM
    <2>3. Sound("vm", Stage!Entry("create", Stage!PathOf["vm"], {<<"vm", v>>}))
        BY <2>2, SoundNew
    <2> QED
        BY <2>1, <2>3, Staged1, EntryFile, ObjectPaths
<1>2. CASE op = "StageEdit"
    <2>1. PICK v \in Stage!Vals :
              p = <<Stage!Stage("vm", Stage!Entry("patch", Stage!Found(trunk, "vm"), {<<"vm", v>>}))>>
        BY <1>2 DEF Stage!Plans, Stage!StageEdit
    <2>2. Stage!DeclaredIn(trunk, "vm")
        BY <1>2 DEF Stage!Plans, Stage!StageEdit
    <2> QED
        BY <2>1, <2>2, FoundAt, Staged1, EntryFile, SoundOther
<1>3. CASE op = "StageCreate"
    <2>1. PICK v \in Stage!Vals : p \in Stage!Rendered("seg", {<<"seg", v>>})
        BY <1>3 DEF Stage!Plans, Stage!StageCreate
    <2> QED
        BY <2>1, NamesOne, RenderedPlain
<1>4. CASE op = "CreateNamespace"
    <2>1. \/ p \in Stage!Rendered("ns", {<<"ns", 1>>})
          \/ p \in Stage!Rendered("ns", {<<"ns", 1>>, <<"net", 1>>})
        BY <1>4 DEF Stage!Plans, Stage!CreateNamespace
    <2>2. Stage!Named({<<"ns", 1>>, <<"net", 1>>}) = {"ns", "net"}
        BY DEF Stage!Named
    <2> QED
        BY <2>1, <2>2, NamesOne, RenderedPlain
<1>5. CASE op = "StageDelete"
    <2>1. PICK o \in {"vm", "seg", "ns"} : \E f \in Stage!Located(o) :
              p = <<Stage!Stage(o, Stage!Entry("delete", f, {}))>>
        BY <1>5 DEF Stage!Plans, Stage!StageDelete
    <2>2. PICK f \in Stage!Located(o) : p = <<Stage!Stage(o, Stage!Entry("delete", f, {}))>>
        BY <2>1
    <2>3. f \in Stage!Paths \ Drs /\ Stage!Shown(trunk, f) = {o}
        <3>1. o \in Stage!Objects /\ TreeOK(trunk) /\ f \in {Stage!SoleDeclarer(trunk, {o})} \ {None, Stage!Conflict}
            BY <2>2 DEF Stage!Located, StageInv
        <3> QED
            BY <3>1, LocatedAt
    <2>4. Sound(o, Stage!Entry("delete", f, {}))
        BY <2>3, SoundWhole
    <2> QED
        BY <2>2, <2>3, <2>4, Staged1, EntryFile
<1>6. CASE op = "UpdateManifest"
    <2>0. p \in Stage!StageUpdateManifest
        BY <1>6 DEF Stage!Plans
    <2>1. PICK f \in Stage!Located("seg") : \E v \in Stage!Vals :
              p = <<Stage!Stage("seg", Stage!Entry("edit", f, {<<"seg", v>>}))>>
        <3>1. PICK f \in Stage!Located("seg") :
                  p \in {<<Stage!Stage("seg", Stage!Entry("edit", f, {<<"seg", v>>}))>> :
                             v \in {x \in Stage!Vals : <<"seg", x>> \notin trunk[f]}}
            BY <2>0 DEF Stage!StageUpdateManifest
        <3> QED
            BY <3>1
    <2>2. PICK v \in Stage!Vals : p = <<Stage!Stage("seg", Stage!Entry("edit", f, {<<"seg", v>>}))>>
        BY <2>1
    <2>3. f \in Stage!Paths \ Drs /\ Stage!Shown(trunk, f) = {"seg"}
        BY <2>1, LocatedAt DEF Stage!Located, StageInv
    <2>4. Sound("seg", Stage!Entry("edit", f, {<<"seg", v>>}))
        BY <2>3, SoundWhole
    <2> QED
        BY <2>2, <2>3, <2>4, Staged1, EntryFile
<1>7. CASE op = "RestoreVersion"
    <2>1. PICK f \in Stage!Located("vm") : \E q \in past :
              p = <<Stage!Stage("vm", Stage!Entry("restore", f, q[f]))>>
        BY <1>7 DEF Stage!Plans, Stage!RestoreVersion
    <2>2. f \in Stage!Paths \ Drs /\ Stage!Shown(trunk, f) = {"vm"}
        BY <2>1, LocatedAt DEF Stage!Located, StageInv
    <2>3. PICK q \in past : p = <<Stage!Stage("vm", Stage!Entry("restore", f, q[f]))>>
        BY <2>1
    <2>4. Sound("vm", Stage!Entry("restore", f, q[f]))
        BY <2>2, SoundWhole
    <2> QED
        BY <2>2, <2>3, <2>4, Staged1, EntryFile
<1>8. CASE op = "AdoptObject"
    <2>1. p \in Stage!Rendered("seg", {<<"seg", ran["seg"]>>})
        BY <1>8 DEF Stage!Plans, Stage!AdoptObject
    <2> QED
        BY <2>1, NamesOne, RenderedPlain
<1>9. CASE op = "AdoptVM"
    <2>1. \/ /\ ~Stage!DeclaredIn(trunk, "vm")
             /\ p = <<Stage!Stage("vm", Stage!Entry("create", Stage!PathOf["vm"], {<<"vm", ran["vm"]>>}))>>
          \/ /\ Stage!DeclaredIn(trunk, "vm")
             /\ p = <<Stage!Stage("vm", Stage!Entry("patch", Stage!Found(trunk, "vm"), {<<"vm", ran["vm"]>>}))>>
        BY <1>9 DEF Stage!Plans, Stage!AdoptVM
    <2>2. ASSUME ~Stage!DeclaredIn(trunk, "vm")
          PROVE  Sound("vm", Stage!Entry("create", Stage!PathOf["vm"], {<<"vm", ran["vm"]>>}))
        BY <2>2, SoundNew
    <2> QED
        BY <2>1, <2>2, FoundAt, Staged1, EntryFile, ObjectPaths, SoundOther
<1>10. CASE op = "AdoptObjects"
    BY <1>10, AdoptObjectsPlain DEF Stage!Plans
<1>11. CASE op = "AdoptProject"
    <2> DEFINE a == Stage!Stage("ns", Stage!Entry("path", Stage!PathOf["ns"], {<<"ns", 1>>}))
               b == Stage!Stage("rb", Stage!Entry("path", Stage!PathOf["rb"], {<<"rb", 1>>}))
    <2>1. p = <<a, b>>
        BY <1>11 DEF Stage!Plans, Stage!AdoptProject
    <2>2. Plain(a) /\ Plain(b)
        BY EntryFile, ObjectPaths, SoundOther DEF Plain, Stage!Stage
    <2> HIDE DEF a, b
    <2>3. p \in Seq({a, b}) /\ \A i \in DOMAIN p : Plain(p[i])
        BY <2>1, <2>2
    <2> QED
        BY <2>3, SeqPlan
<1>12. CASE op = "ReleaseDeclared"
    <2>1. p = <<Stage!Stage("ns", Stage!Entry("path", Stage!PathOf["ns"], {<<"ns", 2>>}))>>
        BY <1>12 DEF Stage!Plans, Stage!ReleaseDeclared
    <2> QED
        BY <2>1, Staged1, EntryFile, ObjectPaths, SoundOther
<1>13. CASE op = "SaveTemplate"
    <2>1. p = <<Stage!Stage("tpl", Stage!Entry("create", Stage!PathOf["tpl"], {<<"tpl", 1>>}))>>
        BY <1>13 DEF Stage!Plans, Stage!SaveTemplate
    <2>2. Sound("tpl", Stage!Entry("create", Stage!PathOf["tpl"], {<<"tpl", 1>>}))
        BY SoundNew
    <2> QED
        BY <2>1, <2>2, Staged1, EntryFile, ObjectPaths
<1>14. CASE op = "UpdateTemplate"
    <2>1. PICK v \in Stage!Vals :
              p = <<Stage!Stage("tpl", Stage!Entry("edit", Stage!PathOf["tpl"], {<<"tpl", v>>}))>>
        BY <1>14 DEF Stage!Plans, Stage!UpdateTemplate
    <2>2. Stage!Shown(trunk, Stage!PathOf["tpl"]) = {}
        <3>1. Stage!PathOf["tpl"] = "tpl" /\ "tpl" \in Stage!Paths
            BY DEF Stage!PathOf
        <3>2. \A i \in DOMAIN Stage!Walk : Stage!Walk[i] # "tpl"
            BY DEF Stage!Walk
        <3>3. None # "tpl"
            BY <3>1 DEF Stage!StagingAssumption
        <3>4. \A o : Stage!Index(trunk, o) # "tpl"
            BY <3>2, <3>3, IndexNone DEF Stage!Holders
        <3> QED
            BY <3>1, <3>4 DEF Stage!Shown
    <2>3. Sound("tpl", Stage!Entry("edit", Stage!PathOf["tpl"], {<<"tpl", v>>}))
        BY <2>2, SoundWhole
    <2> QED
        BY <2>1, <2>3, Staged1, EntryFile, ObjectPaths
<1>15. CASE op = "Unstage"
    <2>1. PICK k \in Stage!Objects : p = <<Stage!Unstage(k)>>
        BY <1>15 DEF Stage!Plans, Stage!UnstageObject
    <2>2. Plain(Stage!Unstage(k))
        BY DEF Plain, Stage!Unstage
    <2>3. p \in Seq({Stage!Unstage(k)}) /\ \A i \in DOMAIN p : Plain(p[i])
        BY <2>1, <2>2
    <2> QED
        BY <2>3, SeqPlan
<1> QED
    BY <1>1, <1>2, <1>3, <1>4, <1>5, <1>6, <1>7, <1>8, <1>9, <1>10, <1>11, <1>12, <1>13, <1>14, <1>15,
       Zenon DEF Stage!Plans

--------------------------------------------------------------------------------
(* What a request on DRS plans: to cancel what is staged, then the deltas.  *)

Cancels == {Stage!Unstage(k) : k \in Drs}
Wishes  == {Stage!Delta(k, ds) : k \in Drs, ds \in SUBSET (Drs \X Stage!Vals)}

LEMMA BothHold ==
    ASSUME NEW S, NEW p \in Seq(S), NEW q \in Seq(S)
    PROVE  /\ p \o q \in Seq(S)
           /\ Len(p \o q) = Len(p) + Len(q)
           /\ \A i \in DOMAIN p : i \in DOMAIN (p \o q) /\ (p \o q)[i] = p[i]
           /\ \A i \in DOMAIN q : Len(p) + i \in DOMAIN (p \o q) /\ (p \o q)[Len(p) + i] = q[i]
           /\ \A i \in DOMAIN (p \o q) :
                 \/ i \in DOMAIN p /\ (p \o q)[i] = p[i]
                 \/ i - Len(p) \in DOMAIN q /\ (p \o q)[i] = q[i - Len(p)]
OBVIOUS

LEMMA CancelsAll ==
    /\ Stage!UnstageDrs \in Seq(Cancels)
    /\ \A k \in Drs : filled[k] # None =>
          \E i \in DOMAIN Stage!UnstageDrs : Stage!UnstageDrs[i] = Stage!Unstage(k)
<1> DEFINE one(k) == Stage!UnstageStaged(k)
           a == one("cr") \o one("op")
<1>1. ASSUME NEW k \in Drs
      PROVE  /\ one(k) \in Seq(Cancels)
             /\ filled[k] # None => 1 \in DOMAIN one(k) /\ one(k)[1] = Stage!Unstage(k)
    <2>1. Stage!Unstage(k) \in Cancels
        BY DEF Cancels
    <2> QED
        BY <2>1 DEF Stage!UnstageStaged
<1>2. Stage!UnstageDrs = a \o one("psi")
    BY DEF Stage!UnstageDrs
<1> HIDE DEF one
<1>3. /\ a \in Seq(Cancels)
      /\ \A i \in DOMAIN one("cr") : i \in DOMAIN a /\ a[i] = one("cr")[i]
      /\ \A i \in DOMAIN one("op") : Len(one("cr")) + i \in DOMAIN a /\ a[Len(one("cr")) + i] = one("op")[i]
    <2>1. one("cr") \in Seq(Cancels) /\ one("op") \in Seq(Cancels)
        BY <1>1, Constants
    <2> QED
        BY <2>1, BothHold
<1>4. \A k \in {"cr", "op"} : filled[k] # None => \E i \in DOMAIN a : a[i] = Stage!Unstage(k)
    <2>1. ASSUME filled["cr"] # None PROVE a[1] = Stage!Unstage("cr") /\ 1 \in DOMAIN a
        <3>1. 1 \in DOMAIN one("cr") /\ one("cr")[1] = Stage!Unstage("cr")
            BY <1>1, <2>1, Constants
        <3> QED
            BY <1>3, <3>1
    <2>2. ASSUME filled["op"] # None
          PROVE  a[Len(one("cr")) + 1] = Stage!Unstage("op") /\ Len(one("cr")) + 1 \in DOMAIN a
        <3>1. 1 \in DOMAIN one("op") /\ one("op")[1] = Stage!Unstage("op")
            BY <1>1, <2>2, Constants
        <3> QED
            BY <1>3, <3>1
    <2> QED
        BY <2>1, <2>2
<1> HIDE DEF a
<1>5. /\ a \o one("psi") \in Seq(Cancels)
      /\ \A i \in DOMAIN a : i \in DOMAIN (a \o one("psi")) /\ (a \o one("psi"))[i] = a[i]
      /\ \A i \in DOMAIN one("psi") : /\ Len(a) + i \in DOMAIN (a \o one("psi"))
                                      /\ (a \o one("psi"))[Len(a) + i] = one("psi")[i]
    <2>1. one("psi") \in Seq(Cancels)
        BY <1>1, Constants
    <2> QED
        BY <2>1, <1>3, BothHold
<1> DEFINE u == a \o one("psi")
<1> HIDE DEF u
<1>6. \A k \in {"cr", "op", "psi"} : filled[k] # None => \E i \in DOMAIN u : u[i] = Stage!Unstage(k)
    <2>1. \A k \in {"cr", "op"} : filled[k] # None => \E i \in DOMAIN u : u[i] = Stage!Unstage(k)
        <3>1. \A i \in DOMAIN a : i \in DOMAIN u /\ u[i] = a[i]
            BY <1>5 DEF u
        <3> QED
            BY <3>1, <1>4
    <2>2. ASSUME filled["psi"] # None PROVE \E i \in DOMAIN u : u[i] = Stage!Unstage("psi")
        <3>1. 1 \in DOMAIN one("psi") /\ one("psi")[1] = Stage!Unstage("psi")
            BY <1>1, <2>2, Constants
        <3> QED
            BY <1>5, <3>1 DEF u
    <2> QED
        BY <2>1, <2>2
<1> QED
    BY <1>2, <1>5, <1>6, Constants DEF u

(* Deltas of different files, one for each that is wanted.                 *)
Deltas(q, want) ==
    /\ q \in Seq(Wishes)
    /\ \A i, j \in DOMAIN q : i # j => q[i].key # q[j].key
    /\ \A i \in DOMAIN q : q[i].key \in DOMAIN want /\ q[i].docs = want[q[i].key]
    /\ \A k \in DOMAIN want : \E i \in DOMAIN q : q[i].key = k

LEMMA LeftAtFirst ==
    ASSUME NEW q, NEW want, Deltas(q, want)
    PROVE  LET p == Stage!UnstageDrs \o q
           IN  IsSeq(p) /\ (\A i \in DOMAIN p : OfDrs(p[i])) /\ Left(filled, trunk, p, want)
<1> DEFINE S == Cancels \union Wishes
           u == Stage!UnstageDrs
           p == u \o q
<1>1. \A s \in S : OfDrs(s)
    BY DEF Cancels, Wishes, OfDrs, Stage!Unstage, Stage!Delta
<1>2. /\ u \in Seq(S) /\ \A i \in DOMAIN u : u[i].do = "unstage" /\ u[i].key \in Drs
      /\ \A k \in Drs : filled[k] # None => \E i \in DOMAIN u : u[i].do = "unstage" /\ u[i].key = k
    <2>1. \A s \in Cancels : s.do = "unstage" /\ s.key \in Drs
        BY DEF Cancels, Stage!Unstage
    <2>2. u \in Seq(S)
        BY CancelsAll
    <2>3. \A i \in DOMAIN u : u[i] \in Cancels
        BY CancelsAll
    <2>4. \A k \in Drs : Stage!Unstage(k).do = "unstage" /\ Stage!Unstage(k).key = k
        BY DEF Stage!Unstage
    <2> QED
        BY <2>1, <2>2, <2>3, <2>4, CancelsAll
<1>3. q \in Seq(S) /\ \A i \in DOMAIN q : q[i].do = "delta"
    <2>1. \A s \in Wishes : s.do = "delta"
        BY DEF Wishes, Stage!Delta
    <2>2. q \in Seq(Wishes)
        BY DEF Deltas
    <2> QED
        BY <2>1, <2>2
<1> HIDE DEF S, u
<1>4. /\ p \in Seq(S)
      /\ \A i \in DOMAIN u : i \in DOMAIN p /\ p[i] = u[i]
      /\ \A i \in DOMAIN q : Len(u) + i \in DOMAIN p /\ p[Len(u) + i] = q[i]
      /\ \A i \in DOMAIN p :
            \/ i \in DOMAIN u /\ p[i] = u[i]
            \/ i - Len(u) \in DOMAIN q /\ p[i] = q[i - Len(u)]
    BY <1>2, <1>3, BothHold
<1>5. Len(u) \in Nat /\ DOMAIN u = 1..Len(u) /\ DOMAIN q = 1..Len(q) /\ Len(q) \in Nat
    BY <1>2, <1>3
<1>6. DOMAIN p \subseteq Nat
    BY <1>4
<1> HIDE DEF p
<1>7. \A i \in DOMAIN p : p[i].do = "delta" => i - Len(u) \in DOMAIN q /\ p[i] = q[i - Len(u)]
    <2> SUFFICES ASSUME NEW i \in DOMAIN p, p[i].do = "delta"
                 PROVE  i - Len(u) \in DOMAIN q /\ p[i] = q[i - Len(u)]
        OBVIOUS
    <2>1. i \in DOMAIN u => p[i].do = "unstage"
        BY <1>2, <1>4
    <2> QED
        BY <2>1, <1>4
<1>8. \A i, j \in DOMAIN p : i < j /\ p[i].do = "delta" => p[j].do = "delta" /\ p[j].key # p[i].key
    <2> SUFFICES ASSUME NEW i \in DOMAIN p, NEW j \in DOMAIN p, i < j, p[i].do = "delta"
                 PROVE  p[j].do = "delta" /\ p[j].key # p[i].key
        OBVIOUS
    <2>1. i - Len(u) \in DOMAIN q /\ p[i] = q[i - Len(u)]
        BY <1>7
    <2>2. j \notin DOMAIN u
        BY <2>1, <1>5, <1>6
    <2>3. j - Len(u) \in DOMAIN q /\ p[j] = q[j - Len(u)]
        BY <2>2, <1>4
    <2>4. i - Len(u) # j - Len(u)
        BY <1>5, <1>6
    <2> QED
        BY <2>1, <2>3, <2>4, <1>3 DEF Deltas
<1>9. \A i \in DOMAIN p : p[i].do = "delta" => p[i].key \in DOMAIN want /\ p[i].docs = want[p[i].key]
    BY <1>7 DEF Deltas
<1>10. \A k \in DOMAIN want : \E i \in DOMAIN p : p[i].do = "delta" /\ p[i].key = k
    <2> SUFFICES ASSUME NEW k \in DOMAIN want
                 PROVE  \E i \in DOMAIN p : p[i].do = "delta" /\ p[i].key = k
        OBVIOUS
    <2>1. PICK i \in DOMAIN q : q[i].key = k
        BY DEF Deltas
    <2>2. Len(u) + i \in DOMAIN p /\ p[Len(u) + i] = q[i] /\ q[i].do = "delta"
        BY <1>3, <1>4
    <2> QED
        BY <2>1, <2>2
<1>11. \A k \in Drs : filled[k] # None => \E i \in DOMAIN p : p[i].do = "unstage" /\ p[i].key = k
    <2> SUFFICES ASSUME NEW k \in Drs, filled[k] # None
                 PROVE  \E i \in DOMAIN p : p[i].do = "unstage" /\ p[i].key = k
        OBVIOUS
    <2>1. PICK i \in DOMAIN u : u[i].do = "unstage" /\ u[i].key = k
        BY <1>2
    <2> QED
        BY <2>1, <1>4
<1>12. Left(filled, trunk, p, want)
    BY <1>8, <1>9, <1>10, <1>11, Zenon DEF Left
<1>13. IsSeq(p)
    BY <1>4, Zenon DEF IsSeq
<1>14. \A i \in DOMAIN p : OfDrs(p[i])
    BY <1>1, <1>4
<1> QED
    BY <1>12, <1>13, <1>14 DEF p, u

LEMMA DrsPlansLeft ==
    ASSUME NEW q \in Stage!DrsPlans
    PROVE  /\ IsSeq(q[1]) /\ \A i \in DOMAIN q[1] : OfDrs(q[1][i])
           /\ q[2] # None => q[1] # <<>> /\ Left(filled, trunk, q[1], q[2])
<1>1. CASE \E c \in Stage!Configs :
          q = <<Stage!EnableDRS(c), [k \in Stage!Named(Stage!Range(Stage!DrsFiles(c))) |->
                    {d \in Stage!Range(Stage!DrsFiles(c)) : d[1] = k}]>>
    <2>1. PICK c \in Stage!Configs :
              q = <<Stage!EnableDRS(c), [k \in Stage!Named(Stage!Range(Stage!DrsFiles(c))) |->
                        {d \in Stage!Range(Stage!DrsFiles(c)) : d[1] = k}]>>
        BY <1>1
    <2> DEFINE F == Stage!DrsFiles(c)
               D == [i \in 1..Len(F) |-> Stage!Delta(F[i][1], {F[i]})]
               want == [k \in Stage!Named(Stage!Range(F)) |-> {d \in Stage!Range(F) : d[1] = k}]
    <2>2. c.val \in Stage!Vals /\ c.psi \in BOOLEAN /\ 1 \in Stage!Vals
        BY DEF Stage!Configs, Stage!Vals
    <2> DEFINE A == << <<"op", 1>>, <<"cr", c.val>> >>
               B == IF c.psi THEN << <<"psi", 1>> >> ELSE << >>
    <2>3. /\ A \in Seq(Drs \X Stage!Vals) /\ B \in Seq(Drs \X Stage!Vals)
          /\ A[1][1] = "op" /\ A[2][1] = "cr" /\ DOMAIN A = {1, 2} /\ Len(A) = 2
          /\ (Len(B) = 0 \/ Len(B) = 1) /\ (Len(B) = 1 => B[1][1] = "psi") /\ DOMAIN B = 1..Len(B)
        <3> DEFINE x == <<"op", 1>>
                   y == <<"cr", c.val>>
                   z == <<"psi", 1>>
        <3>1. /\ x \in Drs \X Stage!Vals /\ y \in Drs \X Stage!Vals /\ z \in Drs \X Stage!Vals
              /\ x[1] = "op" /\ y[1] = "cr" /\ z[1] = "psi"
            BY <2>2, Constants
        <3>2. A = <<x, y>> /\ B = IF c.psi THEN <<z>> ELSE << >>
            OBVIOUS
        <3> HIDE DEF A, B, x, y, z
        <3>3. /\ A \in Seq(Drs \X Stage!Vals) /\ A[1] = x /\ A[2] = y
              /\ DOMAIN A = {1, 2} /\ Len(A) = 2
            BY <3>1, <3>2
        <3>4. CASE c.psi
            <4>1. B = <<z>>
                BY <3>2, <3>4
            <4> QED
                BY <3>1, <3>3, <4>1
        <3>5. CASE ~c.psi
            <4>1. B = << >>
                BY <3>2, <3>5
            <4> QED
                BY <3>1, <3>3, <4>1
        <3> QED
            BY <3>4, <3>5
    <2>31. F = A \o B
        BY Zenon DEF Stage!DrsFiles
    <2> HIDE DEF A, B, F
    <2>32. /\ A \o B \in Seq(Drs \X Stage!Vals)
           /\ Len(A \o B) = 2 + Len(B)
           /\ (A \o B)[1] = A[1] /\ (A \o B)[2] = A[2]
           /\ Len(B) = 1 => (A \o B)[3] = B[1]
        <3> DEFINE S == Drs \X Stage!Vals
        <3>0. A \in Seq(S) /\ B \in Seq(S)
            BY <2>3
        <3> HIDE DEF S
        <3>1. /\ A \o B \in Seq(S)
              /\ Len(A \o B) = Len(A) + Len(B)
              /\ \A i \in DOMAIN A : (A \o B)[i] = A[i]
              /\ \A i \in DOMAIN B : (A \o B)[Len(A) + i] = B[i]
            BY <3>0, BothHold
        <3>2. Len(A \o B) = 2 + Len(B)
            BY <2>3, <3>1
        <3>3. (A \o B)[1] = A[1] /\ (A \o B)[2] = A[2]
            <4>1. 1 \in DOMAIN A /\ 2 \in DOMAIN A
                BY <2>3
            <4> QED
                BY <3>1, <4>1, Zenon
        <3>4. ASSUME Len(B) = 1 PROVE (A \o B)[3] = B[1]
            <4>1. 1 \in DOMAIN B /\ Len(A) + 1 = 3
                BY <2>3, <3>4
            <4>2. (A \o B)[Len(A) + 1] = B[1]
                BY <3>1, <4>1, Zenon
            <4> QED
                BY <4>1, <4>2, Zenon
        <3> QED
            BY <3>1, <3>2, <3>3, <3>4, Zenon DEF S
    <2>4. /\ (Len(F) = 2 \/ Len(F) = 3) /\ F \in Seq(Drs \X Stage!Vals)
          /\ \A i, j \in 1..Len(F) : i # j => F[i][1] # F[j][1]
        <3>1. F \in Seq(Drs \X Stage!Vals) /\ F[1][1] = "op" /\ F[2][1] = "cr"
              /\ (Len(F) = 2 \/ Len(F) = 3) /\ (Len(F) = 3 => F[3][1] = "psi")
            BY <2>3, <2>31, <2>32
        <3>2. \A i \in 1..Len(F) : i = 1 \/ i = 2 \/ (i = 3 /\ Len(F) = 3)
            <4>1. \A n : n = 2 \/ n = 3 => \A i \in 1..n : i = 1 \/ i = 2 \/ (i = 3 /\ n = 3)
                OBVIOUS
            <4> QED
                BY <3>1, <4>1, Zenon
        <3> QED
            BY <3>1, <3>2
    <2>5. Stage!Range(F) = {F[i] : i \in 1..Len(F)}
        BY <2>4 DEF Stage!Range
    <2>6. \A i \in 1..Len(F) : F[i] \in Drs \X Stage!Vals /\ F[i][1] \in Drs
        BY <2>4
    <2>7. Stage!Named(Stage!Range(F)) = {F[i][1] : i \in 1..Len(F)}
        <3>1. \A i \in 1..Len(F) : F[i][1] # "opaque"
            BY <2>6, Constants
        <3> QED
            BY <2>5, <3>1 DEF Stage!Named
    <2>8. DOMAIN want = {F[i][1] : i \in 1..Len(F)}
          /\ \A i \in 1..Len(F) : want[F[i][1]] = {F[i]}
        <3>1. \A i \in 1..Len(F) : {d \in Stage!Range(F) : d[1] = F[i][1]} = {F[i]}
            BY <2>4, <2>5
        <3> QED
            BY <2>7, <3>1
    <2>9. Deltas(D, want)
        <3>1. ASSUME NEW i \in 1..Len(F)
              PROVE  Stage!Delta(F[i][1], {F[i]}) \in Wishes
            <4>1. \A k \in Drs : \A ds \in SUBSET (Drs \X Stage!Vals) : Stage!Delta(k, ds) \in Wishes
                BY DEF Wishes
            <4>2. F[i][1] \in Drs /\ {F[i]} \in SUBSET (Drs \X Stage!Vals)
                BY <2>6
            <4> QED
                BY <4>1, <4>2, Zenon
        <3>2. D \in [1..Len(F) -> Wishes] /\ Len(F) \in Nat
            <4>1. \A i \in 1..Len(F) : Stage!Delta(F[i][1], {F[i]}) \in Wishes
                BY <3>1
            <4>2. D \in [1..Len(F) -> Wishes]
                BY <4>1, Zenon
            <4>3. Len(F) \in Nat
                BY <2>4
            <4> QED
                BY <4>2, <4>3, Zenon
        <3>3. \A i \in 1..Len(F) : D[i].key = F[i][1] /\ D[i].docs = {F[i]}
            BY DEF Stage!Delta
        <3>4. D \in Seq(Wishes) /\ DOMAIN D = 1..Len(F)
            <4> HIDE DEF D
            <4> QED
                BY <3>2
        <3> HIDE DEF D, want
        <3>5. \A i, j \in DOMAIN D : i # j => D[i].key # D[j].key
            BY <2>4, <3>3, <3>4
        <3>6. \A i \in DOMAIN D : D[i].key \in DOMAIN want /\ D[i].docs = want[D[i].key]
            BY <2>8, <3>3, <3>4
        <3>7. \A k \in DOMAIN want : \E i \in DOMAIN D : D[i].key = k
            BY <2>8, <3>3, <3>4
        <3> QED
            BY <3>4, <3>5, <3>6, <3>7 DEF Deltas
    <2>10. q[1] = Stage!UnstageDrs \o D /\ q[2] = want
        BY <2>1 DEF Stage!EnableDRS, F
    <2>11. D # <<>> /\ Len(D) > 0
        BY <2>4
    <2>12. D \in Seq(Wishes)
        BY <2>9 DEF Deltas
    <2> HIDE DEF D, want
    <2>13. Stage!UnstageDrs \o D # <<>>
        BY <2>11, <2>12, CancelsAll
    <2> QED
        BY <2>9, <2>10, <2>13, LeftAtFirst
<1>2. CASE \E p \in Stage!DisableDRS : q = <<p, [k \in {"cr"} |-> {}]>>
    <2> DEFINE D == <<Stage!Delta("cr", {})>>
               want == [k \in {"cr"} |-> {}]
    <2>1. q[1] = Stage!UnstageDrs \o D /\ q[2] = want
        BY <1>2 DEF Stage!DisableDRS
    <2>2. Stage!Delta("cr", {}) \in Wishes
        BY Constants DEF Wishes
    <2>3. D \in Seq(Wishes)
        BY <2>2
    <2>4. Deltas(D, want)
        <3>1. D[1].key = "cr" /\ D[1].docs = {} /\ DOMAIN D = {1}
            BY DEF Stage!Delta
        <3> QED
            BY <2>3, <3>1 DEF Deltas
    <2>5. Stage!UnstageDrs \o D # <<>>
        BY CancelsAll, <2>3
    <2> HIDE DEF D, want
    <2> QED
        BY <2>1, <2>4, <2>5, LeftAtFirst
<1>3. CASE \E p \in Stage!UnstageAtomic : q = <<p, None>>
    <2>1. q[1] = Stage!UnstageDrs /\ q[2] = None
        BY <1>3 DEF Stage!UnstageAtomic
    <2>2. \A s \in Cancels : OfDrs(s)
        BY DEF Cancels, OfDrs, Stage!Unstage
    <2>3. \A i \in DOMAIN Stage!UnstageDrs : Stage!UnstageDrs[i] \in Cancels
        BY CancelsAll
    <2>4. IsSeq(Stage!UnstageDrs)
        BY CancelsAll, Zenon DEF IsSeq
    <2> QED
        BY <2>1, <2>2, <2>3, <2>4
<1> QED
    BY <1>1, <1>2, <1>3, Zenon DEF Stage!DrsPlans

--------------------------------------------------------------------------------
(* The steps.                                                              *)

LEMMA PlanFirst ==
    ASSUME NEW p, PlanOK(p), p # <<>>
    PROVE  /\ 1 \in DOMAIN p /\ Head(p) = p[1]
           /\ IsSeq(Tail(p))
           /\ \A i \in DOMAIN Tail(p) : i + 1 \in DOMAIN p /\ Tail(p)[i] = p[i + 1]
           /\ \A i \in DOMAIN p : i # 1 => i - 1 \in DOMAIN Tail(p) /\ Tail(p)[i - 1] = p[i]
           /\ DOMAIN p \subseteq Nat
           /\ IF DrsPlan(p) THEN \A i \in DOMAIN p : OfDrs(p[i]) ELSE \A i \in DOMAIN p : Plain(p[i])
<1>1. PICK S : p \in Seq(S)
    BY Zenon DEF PlanOK, IsSeq
<1>2. 1 \in DOMAIN p /\ Head(p) = p[1] /\ DOMAIN p \subseteq Nat /\ Tail(p) \in Seq(S)
    BY <1>1
<1>3. \A i \in DOMAIN Tail(p) : i + 1 \in DOMAIN p /\ Tail(p)[i] = p[i + 1]
    BY <1>1
<1>4. \A i \in DOMAIN p : i # 1 => i - 1 \in DOMAIN Tail(p) /\ Tail(p)[i - 1] = p[i]
    BY <1>1
<1>5. IsSeq(Tail(p))
    BY <1>2, Zenon DEF IsSeq
<1>6. IF DrsPlan(p) THEN \A i \in DOMAIN p : OfDrs(p[i]) ELSE \A i \in DOMAIN p : Plain(p[i])
    BY <1>2, Constants DEF PlanOK, DrsPlan, Plain, OfDrs
<1> QED
    BY <1>2, <1>3, <1>4, <1>5, <1>6

LEMMA RestOK ==
    ASSUME NEW p, PlanOK(p), p # <<>>, Tail(p) # <<>>
    PROVE  PlanOK(Tail(p)) /\ (DrsPlan(Tail(p)) <=> DrsPlan(p))
<1>1. CASE DrsPlan(p)
    <2>1. \A i \in DOMAIN Tail(p) : OfDrs(Tail(p)[i])
        BY <1>1, PlanFirst
    <2>2. PlanOK(Tail(p))
        BY <2>1, PlanFirst DEF PlanOK
    <2>3. 1 \in DOMAIN Tail(p)
        BY <2>2, PlanFirst
    <2> QED
        BY <1>1, <2>1, <2>2, <2>3 DEF DrsPlan, OfDrs
<1>2. CASE ~DrsPlan(p)
    <2>1. \A i \in DOMAIN Tail(p) : Plain(Tail(p)[i])
        BY <1>2, PlanFirst
    <2>2. PlanOK(Tail(p))
        BY <2>1, PlanFirst DEF PlanOK
    <2>3. 1 \in DOMAIN Tail(p)
        BY <2>2, PlanFirst
    <2> QED
        BY <1>2, <2>1, <2>2, <2>3, Constants DEF DrsPlan, Plain
<1> QED
    BY <1>1, <1>2

LEMMA RestingOK ==
    /\ TodoOK(Stage!Resting) /\ ~DrsPlan(Stage!Resting.plan) /\ Stage!Resting.want = None
<1>1. PlanOK(<<>>)
    <2>1. <<>> \in Seq({})
        OBVIOUS
    <2>2. \A i \in DOMAIN <<>> : Plain(<<>>[i])
        OBVIOUS
    <2> QED
        BY <2>1, <2>2, Zenon DEF PlanOK, IsSeq
<1> QED
    BY <1>1 DEF TodoOK, DrsPlan, Stage!Resting

(* What other writes and landings leave of a plan.                         *)
LEMMA LeftKept ==
    ASSUME NEW f, NEW b, NEW g, NEW c, NEW p, NEW want,
           \A k \in Drs : ToLand(g, c, k) = ToLand(f, b, k) /\ (g[k] # None => f[k] # None),
           Left(f, b, p, want)
    PROVE  Left(g, c, p, want)
BY DEF Left

LEMMA AskedKept ==
    ASSUME NEW f, NEW b, NEW g, NEW c, NEW ask,
           \A k \in Drs : ToLand(g, c, k) = ToLand(f, b, k) /\ (g[k] # None => f[k] # None),
           AskedOK(f, b, ask)
    PROVE  AskedOK(g, c, ask)
BY DEF AskedOK

LEMMA EntryThere ==
    ASSUME StageInv, Stage!StagingAssumption, NEW op \in {"create", "delete"}, NEW k \in Drs,
           NEW ds \in SUBSET (Drs \X Stage!Vals)
    PROVE  Stage!Entry(op, k, ds) # None
<1> USE Constants
<1>1. k \in Stage!Paths
    OBVIOUS
<1>2. ds \subseteq Stage!Documents
    BY DEF Stage!Documents
<1>3. Stage!Shown(trunk, k) \subseteq Stage!EntryKeys
    <2> SUFFICES ASSUME NEW d \in trunk[k], d[1] # "opaque" PROVE d[1] \in Stage!EntryKeys
        BY DEF Stage!Shown, Stage!Named
    <2>1. d \in DrsNames \X Stage!Vals
        BY DEF StageInv, TreeOK
    <2> QED
        BY <2>1 DEF DrsNames
<1>4. {o \in Stage!EntryKeys : Stage!DeclaredIn(trunk, o)} \subseteq Stage!EntryKeys
    OBVIOUS
<1>5. Stage!Entry(op, k, ds) \in Stage!Entries
    BY <1>1, <1>2, <1>3, <1>4 DEF Stage!Entry, Stage!Entries
<1> QED
    BY <1>5 DEF Stage!StagingAssumption

(* One write of a DRS request that runs alone.                             *)
LEMMA LeftStep ==
    ASSUME NEW f, NEW b, NEW p, NEW want, NEW e,
           DraftOK(f), PlanOK(p), p # <<>>, DrsPlan(p), Left(f, b, p, want),
           p[1].do = "unstage" => e = None,
           p[1].do = "delta" => IF b[p[1].key] = p[1].docs THEN e = f[p[1].key]
                                ELSE e # None /\ e.docs = p[1].docs
    PROVE  Left([f EXCEPT ![p[1].key] = e], b, Tail(p), want)
<1> DEFINE g == [f EXCEPT ![p[1].key] = e]
           r == Tail(p)
<1>1. /\ 1 \in DOMAIN p /\ p[1].key \in Drs /\ p[1].do \in {"unstage", "delta"}
      /\ \A i \in DOMAIN p : p[i].do \in {"unstage", "delta"}
    BY PlanFirst DEF OfDrs
<1>2. /\ \A i \in DOMAIN r : i + 1 \in DOMAIN p /\ r[i] = p[i + 1] /\ i \in Nat /\ i > 0
      /\ \A i \in DOMAIN p : i # 1 => i - 1 \in DOMAIN r /\ r[i - 1] = p[i]
      /\ DOMAIN p \subseteq Nat
    <2>1. PICK S : r \in Seq(S)
        BY PlanFirst, Zenon DEF IsSeq
    <2>2. \A i \in DOMAIN r : i \in Nat /\ i > 0
        BY <2>1
    <2> QED
        BY <2>2, PlanFirst
<1>3. g[p[1].key] = e /\ \A k \in Drs : k # p[1].key => g[k] = f[k]
    BY <1>1, Constants DEF DraftOK
<1> HIDE DEF g, r
<1>4. \A i, j \in DOMAIN r : i < j /\ r[i].do = "delta" => r[j].do = "delta" /\ r[j].key # r[i].key
    <2> SUFFICES ASSUME NEW i \in DOMAIN r, NEW j \in DOMAIN r, i < j, r[i].do = "delta"
                 PROVE  r[j].do = "delta" /\ r[j].key # r[i].key
        OBVIOUS
    <2>1. i + 1 < j + 1
        BY <1>2
    <2> QED
        BY <2>1, <1>2 DEF Left
<1>5. \A i \in DOMAIN r : r[i].do = "delta" => r[i].key \in DOMAIN want /\ r[i].docs = want[r[i].key]
    BY <1>2 DEF Left
<1>6. p[1].do = "delta" => \A i \in DOMAIN r : r[i].do = "delta" /\ r[i].key # p[1].key
    <2> SUFFICES ASSUME p[1].do = "delta", NEW i \in DOMAIN r
                 PROVE  r[i].do = "delta" /\ r[i].key # p[1].key
        OBVIOUS
    <2>1. 1 < i + 1 /\ i + 1 \in DOMAIN p /\ r[i] = p[i + 1]
        BY <1>2
    <2> QED
        BY <2>1, <1>1 DEF Left
<1>7. \A k \in DOMAIN want :
          \/ \E i \in DOMAIN r : r[i].do = "delta" /\ r[i].key = k
          \/ /\ k \in Drs /\ ToLand(g, b, k) = want[k]
             /\ \A i \in DOMAIN r : r[i].do # "unstage"
    <2> SUFFICES ASSUME NEW k \in DOMAIN want,
                        ~\E i \in DOMAIN r : r[i].do = "delta" /\ r[i].key = k
                 PROVE  /\ k \in Drs /\ ToLand(g, b, k) = want[k]
                        /\ \A i \in DOMAIN r : r[i].do # "unstage"
        OBVIOUS
    <2>1. CASE p[1].do = "delta" /\ p[1].key = k
        <3>1. f[k] = None
            <4> SUFFICES ASSUME f[k] # None PROVE FALSE
                OBVIOUS
            <4>1. PICK i \in DOMAIN p : p[i].do = "unstage" /\ p[i].key = k
                BY <2>1, <1>1 DEF Left
            <4>2. i # 1 /\ r[i - 1] = p[i] /\ i - 1 \in DOMAIN r
                BY <4>1, <2>1, <1>2
            <4> QED
                BY <4>1, <4>2, <2>1, <1>6
        <3>2. want[k] = p[1].docs
            BY <2>1, <1>1 DEF Left
        <3>3. ToLand(g, b, k) = want[k]
            BY <3>1, <3>2, <2>1, <1>3 DEF ToLand
        <3> QED
            BY <3>3, <2>1, <1>1, <1>6
    <2>2. CASE ~(p[1].do = "delta" /\ p[1].key = k)
        <3>1. ~\E i \in DOMAIN p : p[i].do = "delta" /\ p[i].key = k
            BY <2>2, <1>2
        <3>2. /\ k \in Drs /\ ToLand(f, b, k) = want[k]
              /\ \A i \in DOMAIN p : p[i].do # "unstage"
            BY <3>1 DEF Left
        <3>3. p[1].key # k
            BY <3>2, <1>1, <2>2
        <3>4. ToLand(g, b, k) = want[k]
            BY <3>2, <3>3, <1>3 DEF ToLand
        <3> QED
            BY <3>2, <3>4, <1>2
    <2> QED
        BY <2>1, <2>2
<1>8. \A k \in Drs : g[k] # None =>
          \/ \E i \in DOMAIN r : r[i].do = "unstage" /\ r[i].key = k
          \/ k \in DOMAIN want /\ \A i \in DOMAIN r : r[i].do = "delta" => r[i].key # k
    <2> SUFFICES ASSUME NEW k \in Drs, g[k] # None
                 PROVE  \/ \E i \in DOMAIN r : r[i].do = "unstage" /\ r[i].key = k
                        \/ k \in DOMAIN want /\ \A i \in DOMAIN r : r[i].do = "delta" => r[i].key # k
        OBVIOUS
    <2>1. CASE k = p[1].key
        <3>1. p[1].do = "delta"
            BY <2>1, <1>1, <1>3
        <3> QED
            BY <3>1, <2>1, <1>1, <1>6 DEF Left
    <2>2. CASE k # p[1].key
        <3>1. f[k] # None
            BY <2>2, <1>3
        <3>2. CASE \E i \in DOMAIN p : p[i].do = "unstage" /\ p[i].key = k
            BY <3>2, <2>2, <1>2
        <3>3. CASE k \in DOMAIN want /\ \A i \in DOMAIN p : p[i].do = "delta" => p[i].key # k
            BY <3>3, <1>2
        <3> QED
            BY <3>1, <3>2, <3>3 DEF Left
    <2> QED
        BY <2>1, <2>2
<1>9. Left(g, b, r, want)
    BY <1>4, <1>5, <1>7, <1>8, Zenon DEF Left
<1> QED
    BY <1>9 DEF g, r

LEMMA StageInit ==
    ASSUME Stage!StagingAssumption, Stage!Init
    PROVE  StageInv
<1>1. DOMAIN ran = {"vm", "seg", "ns"}
    BY DEF Stage!Init, Stage!StagingAssumption
<1>2. DOMAIN trunk = Stage!Paths /\ TreeOK(trunk)
    <2>1. trunk \in Layouts
        BY DEF Stage!Init
    <2> QED
        BY <2>1 DEF TreeOK, DrsNames, Drs, Stage!StagingAssumption
<1>3. /\ DOMAIN filled = Stage!EntryKeys
      /\ \A k \in Stage!EntryKeys : filled[k] = None
    BY DEF Stage!Init
<1>4. DraftOK(filled)
    BY <1>3 DEF DraftOK
<1>5. DOMAIN todo = Tabs /\ \A t \in Tabs : todo[t] = Stage!Resting
    BY DEF Stage!Init
<1>6. asked = None
    BY DEF Stage!Init
<1> QED
    BY <1>1, <1>2, <1>4, <1>5, <1>6, RestingOK DEF StageInv, ApartOK

(* A request puts its plan up; no other tab's changes, but that a request on *)
(* DRS is no longer alone when one more starts.                            *)
LEMMA StageBegin ==
    ASSUME Stage!StagingAssumption, StageInv, NEW t \in Tabs, Stage!Begin(t)
    PROVE  StageInv'
<1>1. PICK op, p : p \in Stage!Plans(op) /\ todo' = [todo EXCEPT ![t] = [plan |-> p, want |-> None, alone |-> TRUE]]
    BY DEF Stage!Begin
<1>2. PlainPlan(p)
    BY <1>1, PlansPlain
<1>3. PlanOK(p)
    BY <1>2 DEF PlainPlan, PlanOK
<1>4. ~DrsPlan(p)
    <2> SUFFICES ASSUME p # <<>> PROVE p[1].key \notin Drs
        BY DEF DrsPlan
    <2>1. 1 \in DOMAIN p
        BY <1>3, PlanFirst
    <2> QED
        BY <2>1, <1>2, Constants DEF PlainPlan, Plain
<1> DEFINE r == [plan |-> p, want |-> None, alone |-> TRUE]
<1>5. TodoOK(r) /\ r.want = None /\ ~DrsPlan(r.plan)
    BY <1>3, <1>4 DEF TodoOK
<1>6. /\ DOMAIN todo' = Tabs /\ todo'[t] = r
      /\ \A u \in Tabs : u # t => todo'[u] = todo[u]
    BY <1>1 DEF StageInv
<1>7. UNCHANGED <<trunk, past, ran, filled, asked>>
    BY DEF Stage!Begin
<1> HIDE DEF r
<1>8. \A u \in Tabs : TodoOK(todo'[u])
    BY <1>5, <1>6 DEF StageInv
<1>9. \A u, v \in Tabs : u # v => ApartOK(todo'[u], todo'[v])
    BY <1>5, <1>6 DEF StageInv, ApartOK
<1>10. \A u \in Tabs : todo'[u].alone /\ todo'[u].want # None =>
           Left(filled, trunk, todo'[u].plan, todo'[u].want)
    BY <1>5, <1>6 DEF StageInv
<1>11. asked # None => \A u \in Tabs : ~DrsPlan(todo'[u].plan)
    BY <1>5, <1>6 DEF StageInv
<1> QED
    BY <1>6, <1>7, <1>8, <1>9, <1>10, <1>11 DEF StageInv

LEMMA StageBeginDRS ==
    ASSUME StageInv, NEW t \in Tabs, Stage!BeginDRS(t)
    PROVE  StageInv'
<1>1. PICK q \in Stage!DrsPlans :
          todo' = [Stage!Alone(Stage!DrsTabs) EXCEPT
                      ![t] = [plan |-> q[1], want |-> q[2], alone |-> Stage!DrsTabs = {}]]
    BY DEF Stage!BeginDRS
<1> DEFINE r == [plan |-> q[1], want |-> q[2], alone |-> Stage!DrsTabs = {}]
           kept(u) == [todo[u] EXCEPT !.alone = @ /\ u \notin Stage!DrsTabs]
<1>2. /\ DOMAIN todo' = Tabs /\ todo'[t] = r
      /\ \A u \in Tabs : u # t => todo'[u] = kept(u)
    BY <1>1 DEF Stage!Alone
<1>3. \A u \in Tabs : u \in Stage!DrsTabs <=> DrsPlan(todo[u].plan)
    BY DEF Stage!DrsTabs, Stage!Idle, DrsPlan, Drs
<1>4. \A u \in Tabs :
          /\ kept(u).plan = todo[u].plan /\ kept(u).want = todo[u].want
          /\ kept(u).alone = (todo[u].alone /\ ~DrsPlan(todo[u].plan))
          /\ kept(u) = [plan |-> todo[u].plan, want |-> todo[u].want, alone |-> kept(u).alone]
    <2> SUFFICES ASSUME NEW u \in Tabs
                 PROVE  /\ kept(u).plan = todo[u].plan /\ kept(u).want = todo[u].want
                        /\ kept(u).alone = (todo[u].alone /\ ~DrsPlan(todo[u].plan))
                        /\ kept(u) = [plan |-> todo[u].plan, want |-> todo[u].want, alone |-> kept(u).alone]
        OBVIOUS
    <2>1. todo[u] = [plan |-> todo[u].plan, want |-> todo[u].want, alone |-> todo[u].alone]
        BY DEF StageInv, TodoOK
    <2> QED
        BY <2>1, <1>3
<1>5. \A u \in Tabs : TodoOK(kept(u))
    BY <1>4 DEF StageInv, TodoOK
<1>6. /\ IsSeq(q[1]) /\ \A i \in DOMAIN q[1] : OfDrs(q[1][i])
      /\ q[2] # None => q[1] # <<>> /\ Left(filled, trunk, q[1], q[2])
    BY DrsPlansLeft
<1>7. PlanOK(q[1]) /\ (q[1] # <<>> => DrsPlan(q[1]))
    <2>1. PlanOK(q[1])
        BY <1>6 DEF PlanOK
    <2> SUFFICES ASSUME q[1] # <<>> PROVE q[1][1].key \in Drs
        BY <2>1 DEF DrsPlan
    <2>2. 1 \in DOMAIN q[1]
        BY <2>1, PlanFirst
    <2> QED
        BY <2>2, <1>6 DEF OfDrs
<1>8. /\ TodoOK(r) /\ r.plan = q[1] /\ r.want = q[2]
      /\ r.alone <=> \A u \in Tabs : ~DrsPlan(todo[u].plan)
    <2>1. r.alone <=> \A u \in Tabs : ~DrsPlan(todo[u].plan)
        BY <1>3 DEF Stage!DrsTabs
    <2> QED
        BY <2>1, <1>6, <1>7 DEF TodoOK
<1>9. UNCHANGED <<trunk, past, ran, filled>> /\ asked' = None
    BY DEF Stage!BeginDRS
<1> HIDE DEF r, kept
<1>10. \A u \in Tabs : TodoOK(todo'[u])
    BY <1>2, <1>5, <1>8
<1>11. \A u, v \in Tabs : u # v => ApartOK(todo'[u], todo'[v])
    <2> SUFFICES ASSUME NEW u \in Tabs, NEW v \in Tabs, u # v,
                        DrsPlan(todo'[u].plan), DrsPlan(todo'[v].plan)
                 PROVE  ~todo'[u].alone
        BY Zenon DEF ApartOK
    <2>1. CASE u = t
        <3>1. DrsPlan(todo[v].plan)
            BY <2>1, <1>2, <1>4
        <3> QED
            BY <2>1, <3>1, <1>2, <1>8
    <2>2. CASE u # t
        <3>1. DrsPlan(todo[u].plan) /\ todo'[u].alone = (todo[u].alone /\ ~DrsPlan(todo[u].plan))
            BY <2>2, <1>2, <1>4
        <3> QED
            BY <3>1
    <2> QED
        BY <2>1, <2>2
<1>12. \A u \in Tabs : todo'[u].alone /\ todo'[u].want # None =>
           Left(filled, trunk, todo'[u].plan, todo'[u].want)
    <2>1. todo'[t].want # None => Left(filled, trunk, todo'[t].plan, todo'[t].want)
        BY <1>2, <1>6, <1>8
    <2>2. ASSUME NEW u \in Tabs, u # t, todo'[u].alone, todo'[u].want # None
          PROVE  Left(filled, trunk, todo'[u].plan, todo'[u].want)
        <3>1. /\ todo'[u].plan = todo[u].plan /\ todo'[u].want = todo[u].want
              /\ todo[u].alone
            BY <2>2, <1>2, <1>4
        <3>2. todo[u].want # None
            BY <3>1, <2>2
        <3>3. Left(filled, trunk, todo[u].plan, todo[u].want)
            BY <3>1, <3>2 DEF StageInv
        <3> QED
            BY <3>1, <3>3
    <2> QED
        BY <2>1, <2>2
<1> QED
    BY <1>2, <1>9, <1>10, <1>11, <1>12 DEF StageInv

LEMMA StageWriteFails ==
    ASSUME StageInv, NEW t \in Tabs, Stage!WriteFails(t)
    PROVE  StageInv'
<1>1. /\ DOMAIN todo' = Tabs /\ todo'[t] = Stage!Resting
      /\ \A u \in Tabs : u # t => todo'[u] = todo[u]
    BY DEF StageInv, Stage!WriteFails
<1>2. UNCHANGED <<trunk, past, ran, filled, asked>>
    BY DEF Stage!WriteFails
<1>3. \A u \in Tabs : TodoOK(todo'[u])
    BY <1>1, RestingOK DEF StageInv
<1>4. \A u, v \in Tabs : u # v => ApartOK(todo'[u], todo'[v])
    BY <1>1, RestingOK DEF StageInv, ApartOK
<1>5. \A u \in Tabs : todo'[u].alone /\ todo'[u].want # None =>
           Left(filled, trunk, todo'[u].plan, todo'[u].want)
    BY <1>1, RestingOK DEF StageInv
<1>6. asked # None => \A u \in Tabs : ~DrsPlan(todo'[u].plan)
    BY <1>1, RestingOK DEF StageInv
<1> QED
    BY <1>1, <1>2, <1>3, <1>4, <1>5, <1>6 DEF StageInv

(* A write of any other request touches no file of DRS.                    *)
LEMMA StageWritePlain ==
    ASSUME StageInv, NEW t \in Tabs, Stage!Write(t), ~DrsPlan(todo[t].plan)
    PROVE  StageInv'
<1> DEFINE p == todo[t].plan
           s == Head(p)
           e == CASE s.do = "stage"   -> s.entry
                  [] s.do = "unstage" -> None
                  [] OTHER -> IF trunk[s.key] = s.docs THEN filled[s.key]
                              ELSE Stage!Entry(IF s.docs = {} THEN "delete" ELSE "create", s.key, s.docs)
<1>1. PlanOK(p) /\ p # <<>> /\ todo[t].want = None
    BY DEF StageInv, TodoOK, Stage!Write, Stage!Idle
<1>2. s = p[1] /\ Plain(s)
    BY <1>1, PlanFirst
<1>3. filled' = [filled EXCEPT ![s.key] = e]
    BY DEF Stage!Write
<1>4. UNCHANGED <<trunk, past, ran>>
    BY DEF Stage!Write
<1>5. IF Tail(p) = <<>>
      THEN /\ todo' = [todo EXCEPT ![t] = Stage!Resting]
           /\ asked' = IF todo[t].alone /\ todo[t].want # None THEN todo[t].want ELSE asked
      ELSE todo' = [todo EXCEPT ![t].plan = Tail(p)] /\ UNCHANGED asked
    BY Zenon DEF Stage!Write
<1>6. s.key \in Stage!Objects /\ (e # None => e.file \in Stage!Paths \ Drs /\ Sound(s.key, e))
    BY <1>2 DEF Plain
<1> HIDE DEF e, s, p
<1>7. \A k \in Stage!EntryKeys : filled'[k] = IF k = s.key THEN e ELSE filled[k]
    BY <1>3 DEF StageInv, DraftOK
<1>8. DraftOK(filled')
    BY <1>3, <1>6, <1>7, Constants DEF StageInv, DraftOK
<1>9. \A k \in Drs : filled'[k] = filled[k]
    BY <1>6, <1>7, Constants
<1>10. \A k \in Drs : ToLand(filled', trunk, k) = ToLand(filled, trunk, k) /\ (filled'[k] # None => filled[k] # None)
    BY <1>9 DEF ToLand
<1>11. asked' = asked
    BY <1>1, <1>5
<1>12. /\ DOMAIN todo' = Tabs /\ TodoOK(todo'[t]) /\ todo'[t].want = None /\ ~DrsPlan(todo'[t].plan)
       /\ \A u \in Tabs : u # t => todo'[u] = todo[u]
    <2>1. CASE Tail(p) = <<>>
        BY <2>1, <1>5, RestingOK DEF StageInv
    <2>2. CASE Tail(p) # <<>>
        <3>1. todo' = [todo EXCEPT ![t].plan = Tail(p)]
            BY <2>2, <1>5
        <3>2. todo[t] = [plan |-> todo[t].plan, want |-> todo[t].want, alone |-> todo[t].alone]
              /\ todo[t].alone \in BOOLEAN
            BY DEF StageInv, TodoOK
        <3>3. todo'[t] = [plan |-> Tail(p), want |-> todo[t].want, alone |-> todo[t].alone]
            BY <3>1, <3>2 DEF StageInv
        <3>4. PlanOK(Tail(p)) /\ ~DrsPlan(Tail(p))
            BY <1>1, <2>2, RestOK DEF p
        <3> QED
            BY <3>1, <3>2, <3>3, <3>4, <1>1 DEF StageInv, TodoOK
    <2> QED
        BY <2>1, <2>2
<1>13. \A u, v \in Tabs : u # v => ApartOK(todo'[u], todo'[v])
    BY <1>12 DEF StageInv, ApartOK
<1>14. \A u \in Tabs : todo'[u].alone /\ todo'[u].want # None =>
           Left(filled', trunk, todo'[u].plan, todo'[u].want)
    BY <1>10, <1>12, LeftKept DEF StageInv
<1>15. asked # None => /\ \A u \in Tabs : ~DrsPlan(todo'[u].plan)
                       /\ AskedOK(filled', trunk, asked)
    BY <1>10, <1>12, AskedKept DEF StageInv
<1>16. \A u \in Tabs : TodoOK(todo'[u])
    BY <1>12 DEF StageInv
<1> QED
    BY <1>4, <1>8, <1>11, <1>12, <1>13, <1>14, <1>15, <1>16 DEF StageInv

LEMMA StageWriteDRS ==
    ASSUME Stage!StagingAssumption, StageInv, NEW t \in Tabs, Stage!Write(t), DrsPlan(todo[t].plan)
    PROVE  StageInv'
<1> DEFINE p == todo[t].plan
           s == Head(p)
           e == CASE s.do = "stage"   -> s.entry
                  [] s.do = "unstage" -> None
                  [] OTHER -> IF trunk[s.key] = s.docs THEN filled[s.key]
                              ELSE Stage!Entry(IF s.docs = {} THEN "delete" ELSE "create", s.key, s.docs)
<1>1. PlanOK(p) /\ p # <<>>
    BY DEF StageInv, TodoOK, DrsPlan
<1>2. s = p[1] /\ OfDrs(s)
    BY <1>1, PlanFirst
<1>3. filled' = [filled EXCEPT ![s.key] = e]
    BY DEF Stage!Write
<1>4. UNCHANGED <<trunk, past, ran>>
    BY DEF Stage!Write
<1>5. IF Tail(p) = <<>>
      THEN /\ todo' = [todo EXCEPT ![t] = Stage!Resting]
           /\ asked' = IF todo[t].alone /\ todo[t].want # None THEN todo[t].want ELSE asked
      ELSE todo' = [todo EXCEPT ![t].plan = Tail(p)] /\ UNCHANGED asked
    BY Zenon DEF Stage!Write
<1>6. /\ s.key \in Drs
      /\ s.do = "unstage" => e = None
      /\ s.do = "delta" => IF trunk[s.key] = s.docs THEN e = filled[s.key]
                           ELSE e # None /\ e.docs = s.docs /\ e.file = s.key
      /\ s.do = "unstage" \/ (s.do = "delta" /\ s.docs \subseteq Drs \X Stage!Vals)
    <2>1. CASE s.do = "unstage"
        <3> HIDE DEF s
        <3> QED
            BY <2>1, <1>2 DEF OfDrs
    <2>2. CASE s.do = "delta"
        <3> DEFINE op == IF s.docs = {} THEN "delete" ELSE "create"
        <3>1. e = IF trunk[s.key] = s.docs THEN filled[s.key] ELSE Stage!Entry(op, s.key, s.docs)
            <4> HIDE DEF s
            <4> QED
                BY <2>2
        <3>2. s.key \in Drs /\ s.docs \subseteq Drs \X Stage!Vals
            BY <2>2, <1>2 DEF OfDrs
        <3> HIDE DEF s
        <3>3. op \in {"create", "delete"}
            OBVIOUS
        <3> HIDE DEF op, e
        <3>4. Stage!Entry(op, s.key, s.docs) # None
            BY <3>2, <3>3, EntryThere
        <3> QED
            BY <2>2, <3>1, <3>2, <3>4, EntryFile
    <2> QED
        BY <2>1, <2>2, <1>2 DEF OfDrs
<1> HIDE DEF e, s, p
<1>7. \A k \in Stage!EntryKeys : filled'[k] = IF k = s.key THEN e ELSE filled[k]
    BY <1>3 DEF StageInv, DraftOK
<1>8. DraftOK(filled')
    BY <1>3, <1>6, <1>7, Constants DEF StageInv, DraftOK
<1>9. asked = None
    BY DEF StageInv
<1>10. todo[t].alone => \A u \in Tabs : u # t => ~DrsPlan(todo[u].plan)
    BY DEF StageInv, ApartOK
<1>11. todo[t].alone /\ todo[t].want # None => Left(filled', trunk, Tail(p), todo[t].want)
    <2> SUFFICES ASSUME todo[t].alone, todo[t].want # None PROVE Left(filled', trunk, Tail(p), todo[t].want)
        OBVIOUS
    <2>1. Left(filled, trunk, p, todo[t].want) /\ DrsPlan(p) /\ DraftOK(filled)
        BY DEF StageInv, p
    <2> QED
        BY <2>1, <1>1, <1>2, <1>3, <1>6, LeftStep
<1>12. \A u \in Tabs : u # t => todo'[u] = todo[u]
    BY <1>5 DEF StageInv
<1>13. \A u \in Tabs : u # t => ~(todo'[u].alone /\ todo'[u].want # None)
    <2> SUFFICES ASSUME NEW u \in Tabs, u # t, todo[u].alone, todo[u].want # None PROVE FALSE
        BY <1>12
    <2>1. DrsPlan(todo[u].plan)
        BY DEF StageInv, TodoOK
    <2> QED
        BY <2>1 DEF StageInv, ApartOK
<1>14. CASE Tail(p) = <<>>
    <2>1. DOMAIN todo' = Tabs /\ todo'[t] = Stage!Resting
        BY <1>5, <1>14 DEF StageInv
    <2>2. asked' = IF todo[t].alone /\ todo[t].want # None THEN todo[t].want ELSE None
        BY <1>5, <1>9, <1>14
    <2>3. asked' # None => /\ \A u \in Tabs : ~DrsPlan(todo'[u].plan)
                          /\ AskedOK(filled', trunk, asked')
        <3> SUFFICES ASSUME todo[t].alone, todo[t].want # None, asked' = todo[t].want
                     PROVE  /\ \A u \in Tabs : ~DrsPlan(todo'[u].plan)
                            /\ AskedOK(filled', trunk, asked')
            BY <2>2
        <3>1. Left(filled', trunk, <<>>, asked')
            BY <1>11, <1>14
        <3>2. AskedOK(filled', trunk, asked')
            BY <3>1 DEF Left, AskedOK
        <3> QED
            BY <3>2, <2>1, <1>10, <1>12, RestingOK
    <2>4. \A u \in Tabs : TodoOK(todo'[u])
        BY <2>1, <1>12, RestingOK DEF StageInv
    <2>5. \A u, v \in Tabs : u # v => ApartOK(todo'[u], todo'[v])
        BY <2>1, <1>12, RestingOK DEF StageInv, ApartOK
    <2>6. \A u \in Tabs : ~(todo'[u].alone /\ todo'[u].want # None)
        BY <2>1, <1>13, RestingOK
    <2> QED
        BY <1>4, <1>8, <2>1, <2>3, <2>4, <2>5, <2>6 DEF StageInv
<1>15. CASE Tail(p) # <<>>
    <2>1. todo' = [todo EXCEPT ![t].plan = Tail(p)] /\ asked' = None
        BY <1>5, <1>9, <1>15
    <2>2. todo[t] = [plan |-> todo[t].plan, want |-> todo[t].want, alone |-> todo[t].alone]
          /\ todo[t].alone \in BOOLEAN
        BY DEF StageInv, TodoOK
    <2>3. todo'[t] = [plan |-> Tail(p), want |-> todo[t].want, alone |-> todo[t].alone]
        BY <2>1, <2>2 DEF StageInv
    <2>4. PlanOK(Tail(p)) /\ DrsPlan(Tail(p))
        BY <1>1, <1>15, RestOK DEF p
    <2>5. TodoOK(todo'[t])
        BY <2>2, <2>3, <2>4 DEF TodoOK
    <2>6. \A u \in Tabs : TodoOK(todo'[u])
        BY <2>5, <1>12 DEF StageInv
    <2>7. \A u, v \in Tabs : u # v => ApartOK(todo'[u], todo'[v])
        BY <2>3, <1>12 DEF StageInv, ApartOK
    <2>8. \A u \in Tabs : todo'[u].alone /\ todo'[u].want # None =>
               Left(filled', trunk, todo'[u].plan, todo'[u].want)
        <3> SUFFICES ASSUME NEW u \in Tabs, todo'[u].alone, todo'[u].want # None
                     PROVE  Left(filled', trunk, todo'[u].plan, todo'[u].want)
            OBVIOUS
        <3>1. u = t
            BY <1>13
        <3>2. todo'[u] = [plan |-> Tail(p), want |-> todo[t].want, alone |-> todo[t].alone]
            BY <2>3, <3>1, Zenon
        <3>3. todo'[u].plan = Tail(p) /\ todo'[u].want = todo[t].want
            BY <3>2
        <3>4. todo[t].alone
            BY <2>2, <3>2
        <3> QED
            BY <3>3, <3>4, <1>11
    <2>9. DOMAIN todo' = Tabs
        BY <2>1 DEF StageInv
    <2> QED
        BY <1>4, <1>8, <2>1, <2>6, <2>7, <2>8, <2>9 DEF StageInv
<1> QED
    BY <1>14, <1>15

(* A landing gives each file of DRS what its entry says: no other entry is *)
(* of that file.                                                           *)
LEMMA StageLand ==
    ASSUME StageInv, Stage!Land
    PROVE  StageInv'
<1>1. PICK first \in BOOLEAN : trunk' = Stage!Landed(first)
    BY DEF Stage!Land
<1>2. filled' = [k \in Stage!EntryKeys |-> None]
    BY DEF Stage!Land
<1>3. UNCHANGED <<ran, todo, asked>>
    BY DEF Stage!Land
<1>4. \A k \in Drs : Stage!Rewritten(trunk, k) = ToLand(filled, trunk, k)
    <2> SUFFICES ASSUME NEW k \in Drs PROVE Stage!Rewritten(trunk, k) = ToLand(filled, trunk, k)
        OBVIOUS
    <2>1. \A j \in Stage!EntryKeys : filled[j] # None /\ filled[j].file = k => j = k
        BY DEF StageInv, DraftOK
    <2>2. k # "vm" /\ k \in Stage!EntryKeys
        BY Constants
    <2>3. Stage!Writers(k) \subseteq {k} /\ (k \in Stage!Writers(k) <=> filled[k] # None)
        BY <2>1, <2>2 DEF Stage!Writers, Stage!Staged, StageInv, DraftOK
    <2>4. CASE filled[k] = None
        <3>1. Stage!Writers(k) = {}
            BY <2>3, <2>4
        <3> QED
            BY <3>1, <2>4 DEF Stage!Rewritten, ToLand
    <2>5. CASE filled[k] # None
        <3>1. Stage!Writers(k) = {k}
            BY <2>3, <2>5
        <3>2. Stage!Rank[k] = 1
            BY <2>2, Constants DEF Stage!Rank, Drs
        <3> DEFINE W == Stage!Writers(k)
                   c == CHOOSE i \in W : \A j \in W : Stage!Rank[j] <= Stage!Rank[i]
        <3>3. \E i \in W : \A j \in W : Stage!Rank[j] <= Stage!Rank[i]
            BY <3>1, <3>2
        <3>4. c \in W
            <4> HIDE DEF W
            <4> QED
                BY <3>3
        <3>5. c = k
            BY <3>1, <3>4
        <3>6. Stage!Rewritten(trunk, k) = filled[c].docs
            BY <3>1, Zenon DEF Stage!Rewritten
        <3> QED
            BY <3>5, <3>6, <2>5 DEF ToLand
    <2> QED
        BY <2>4, <2>5
<1>5. \A k \in Drs : trunk'[k] = ToLand(filled, trunk, k)
    <2> SUFFICES ASSUME NEW k \in Drs PROVE trunk'[k] = ToLand(filled, trunk, k)
        OBVIOUS
    <2>1. k \in Stage!Paths
        BY Constants
    <2>2. ~(filled["vm"] # None /\ filled["vm"].file = k)
        BY Constants DEF StageInv, DraftOK
    <2>3. trunk'[k] = Stage!Rewritten(trunk, k)
        BY <1>1, <2>1, <2>2 DEF Stage!Landed
    <2> QED
        BY <2>3, <1>4
<1>6. DOMAIN trunk' = Stage!Paths /\ TreeOK(trunk')
    <2>1. DOMAIN trunk' = Stage!Paths
        BY <1>1 DEF Stage!Landed
    <2>2. ASSUME NEW k \in Drs PROVE trunk'[k] \subseteq DrsNames \X Stage!Vals
        <3>1. trunk[k] \subseteq DrsNames \X Stage!Vals
            BY DEF StageInv, TreeOK
        <3>2. filled[k] # None => filled[k].docs \subseteq Drs \X Stage!Vals
            BY Constants DEF StageInv, DraftOK
        <3>3. Drs \X Stage!Vals \subseteq DrsNames \X Stage!Vals
            BY DEF DrsNames
        <3> QED
            BY <3>1, <3>2, <3>3, <1>5 DEF ToLand
    <2> QED
        BY <2>1, <2>2 DEF TreeOK
<1>7. DraftOK(filled') /\ \A k \in Drs : filled'[k] = None
    BY <1>2, Constants DEF DraftOK
<1>8. \A k \in Drs : /\ ToLand(filled', trunk', k) = ToLand(filled, trunk, k)
                      /\ (filled'[k] # None => filled[k] # None)
    BY <1>5, <1>7 DEF ToLand
<1>9. \A u \in Tabs : todo[u].alone /\ todo[u].want # None =>
           Left(filled', trunk', todo[u].plan, todo[u].want)
    BY <1>8, LeftKept DEF StageInv
<1>10. asked # None => AskedOK(filled', trunk', asked)
    BY <1>8, AskedKept DEF StageInv
<1> QED
    BY <1>3, <1>6, <1>7, <1>9, <1>10 DEF StageInv

LEMMA NoLonger ==
    ASSUME NEW a, NEW b, NEW c
    PROVE  [plan |-> a, want |-> b, alone |-> FALSE] = [[plan |-> a, want |-> b, alone |-> c] EXCEPT !.alone = FALSE]
<1> DEFINE q == [plan |-> a, want |-> b, alone |-> c]
           r == [q EXCEPT !.alone = FALSE]
<1>1. /\ DOMAIN r = {"plan", "want", "alone"} /\ r = [k \in DOMAIN r |-> r[k]]
      /\ r["plan"] = a /\ r["want"] = b /\ r["alone"] = FALSE
    OBVIOUS
<1>2. [plan |-> a, want |-> b, alone |-> FALSE] = r
    <2> HIDE DEF r
    <2> QED
        BY <1>1
<1> QED
    BY <1>2, Zenon

(* Others may change what is asked for; then nothing is any more.          *)
LEMMA StageOthersMerge ==
    ASSUME Stage!StagingAssumption, StageInv, Stage!OthersMerge
    PROVE  StageInv'
<1>1. trunk' \in Layouts /\ UNCHANGED <<ran, filled>>
    BY DEF Stage!OthersMerge
<1>2. DOMAIN trunk' = Stage!Paths /\ TreeOK(trunk')
    BY <1>1 DEF TreeOK, DrsNames, Drs, Stage!StagingAssumption
<1>3. CASE \E k \in Drs : trunk'[k] # trunk[k]
    <2>1. asked' = None /\ todo' = Stage!Alone(Tabs)
        BY <1>3 DEF Stage!OthersMerge, Drs
    <2>2. \A u \in Tabs : todo[u] = [plan |-> todo[u].plan, want |-> todo[u].want, alone |-> todo[u].alone]
        BY DEF StageInv, TodoOK
    <2>3. DOMAIN todo' = Tabs /\ \A u \in Tabs : todo'[u] = [todo[u] EXCEPT !.alone = @ /\ u \notin Tabs]
        BY <2>1 DEF Stage!Alone
    <2>4. \A u \in Tabs : todo'[u] = [plan |-> todo[u].plan, want |-> todo[u].want, alone |-> FALSE]
        <3> SUFFICES ASSUME NEW u \in Tabs
                     PROVE  todo'[u] = [plan |-> todo[u].plan, want |-> todo[u].want, alone |-> FALSE]
            OBVIOUS
        <3> DEFINE a == todo[u].plan
                   b == todo[u].want
                   c == todo[u].alone
        <3>1. todo[u] = [plan |-> a, want |-> b, alone |-> c]
            BY <2>2
        <3>2. todo'[u] = [todo[u] EXCEPT !.alone = FALSE]
            BY <2>3
        <3> HIDE DEF a, b, c
        <3>3. [plan |-> a, want |-> b, alone |-> FALSE] = [[plan |-> a, want |-> b, alone |-> c] EXCEPT !.alone = FALSE]
            BY NoLonger
        <3>4. todo'[u] = [plan |-> a, want |-> b, alone |-> FALSE]
            BY <3>1, <3>2, <3>3
        <3> QED
            BY <3>4 DEF a, b, c
    <2>5. \A u \in Tabs : TodoOK(todo'[u])
        <3> SUFFICES ASSUME NEW u \in Tabs PROVE TodoOK(todo'[u])
            OBVIOUS
        <3>1. todo'[u] = [plan |-> todo[u].plan, want |-> todo[u].want, alone |-> FALSE]
            BY <2>4
        <3>2. PlanOK(todo[u].plan) /\ (todo[u].want # None => DrsPlan(todo[u].plan))
            BY DEF StageInv, TodoOK
        <3> QED
            BY <3>1, <3>2 DEF TodoOK
    <2> QED
        BY <1>1, <1>2, <2>1, <2>3, <2>4, <2>5 DEF StageInv, ApartOK
<1>4. CASE ~\E k \in Drs : trunk'[k] # trunk[k]
    <2>1. UNCHANGED <<todo, asked>>
        BY <1>4 DEF Stage!OthersMerge, Drs
    <2>2. \A k \in Drs : /\ ToLand(filled, trunk', k) = ToLand(filled, trunk, k)
                          /\ (filled[k] # None => filled[k] # None)
        BY <1>4 DEF ToLand
    <2>3. \A u \in Tabs : todo[u].alone /\ todo[u].want # None =>
               Left(filled, trunk', todo[u].plan, todo[u].want)
        BY <2>2, LeftKept DEF StageInv
    <2>4. asked # None => AskedOK(filled, trunk', asked)
        BY <2>2, AskedKept DEF StageInv
    <2> QED
        BY <1>1, <1>2, <2>1, <2>3, <2>4 DEF StageInv
<1> QED
    BY <1>3, <1>4

LEMMA StageClusterMoves ==
    ASSUME StageInv, Stage!ClusterMoves
    PROVE  StageInv'
<1>1. DOMAIN ran' = DOMAIN ran /\ UNCHANGED <<trunk, filled, todo, asked>>
    BY DEF Stage!ClusterMoves
<1> QED
    BY <1>1 DEF StageInv

LEMMA StagingStep ==
    ASSUME Stage!StagingAssumption, StageInv, [Stage!Next]_(Stage!vars)
    PROVE  StageInv'
<1>1. CASE UNCHANGED Stage!vars
    BY <1>1 DEF Stage!vars, StageInv
<1>2. ASSUME NEW t \in Tabs, Stage!Begin(t) PROVE StageInv'
    BY <1>2, StageBegin
<1>3. ASSUME NEW t \in Tabs, Stage!BeginDRS(t) PROVE StageInv'
    BY <1>3, StageBeginDRS
<1>4. ASSUME NEW t \in Tabs, Stage!Write(t) PROVE StageInv'
    BY <1>4, StageWritePlain, StageWriteDRS
<1>5. ASSUME NEW t \in Tabs, Stage!WriteFails(t) PROVE StageInv'
    BY <1>5, StageWriteFails
<1> QED
    BY <1>1, <1>2, <1>3, <1>4, <1>5, StageLand, StageOthersMerge, StageClusterMoves, Zenon DEF Stage!Next

LEMMA StageDelta == StageInv => Stage!DraftIsTheDelta
<1> SUFFICES ASSUME StageInv, asked # None
             PROVE  /\ \A k \in DOMAIN asked :
                          (IF filled[k] = None THEN trunk[k] ELSE filled[k].docs) = asked[k]
                    /\ Stage!StagedDrs \subseteq DOMAIN asked
    BY DEF Stage!DraftIsTheDelta
<1> QED
    BY DEF StageInv, AskedOK, ToLand, Stage!StagedDrs, Drs

--------------------------------------------------------------------------------
(* What a landing brings and takes.                                        *)

LEMMA LastWriter ==
    ASSUME StageInv, NEW b, NEW f, Stage!Writers(f) # {}
    PROVE  \E k \in Stage!Writers(f) : Stage!Rewritten(b, f) = filled[k].docs
<1> DEFINE W == Stage!Writers(f)
           R(k) == Stage!Rank[k]
           T == {5 - R(k) : k \in W}
           c == CHOOSE k \in W : \A j \in W : Stage!Rank[j] <= Stage!Rank[k]
<1>1. \A k \in W : R(k) \in 1..5
    <2>1. \A k \in W : k \in Stage!EntryKeys \ {"vm"}
        BY DEF Stage!Writers, Stage!Staged
    <2>2. \A k \in Stage!EntryKeys \ {"vm"} : Stage!Rank[k] \in 1..5
        BY DEF Stage!Rank
    <2> QED
        BY <2>1, <2>2
<1>2. Stage!Rewritten(b, f) = filled[c].docs
    BY Zenon DEF Stage!Rewritten
<1> HIDE DEF W, R
<1>3. T \in SUBSET Nat /\ T # {}
    <2>1. W # {}
        BY DEF W
    <2> QED
        BY <1>1, <2>1
<1>4. PICK x \in T : \A y \in T : x <= y
    BY <1>3, Smallest
<1>5. PICK k \in W : x = 5 - R(k)
    BY <1>4
<1>6. \A j \in W : R(j) <= R(k)
    <2> SUFFICES ASSUME NEW j \in W PROVE R(j) <= R(k)
        OBVIOUS
    <2>1. 5 - R(j) \in T
        OBVIOUS
    <2>2. 5 - R(k) <= 5 - R(j)
        BY <1>4, <1>5, <2>1
    <2> QED
        BY <1>1, <2>2
<1>7. c \in W
    BY <1>6, Zenon DEF R
<1> QED
    BY <1>2, <1>7 DEF W

(* What a file holds once the draft landed was there, or one of its         *)
(* entries brought it.                                                     *)
LEMMA Arrives ==
    ASSUME StageInv, NEW first \in BOOLEAN, NEW f \in Stage!Paths, NEW o,
           o \in Stage!Named(Stage!Landed(first)[f]), o \notin Stage!Named(trunk[f])
    PROVE  \E k \in Stage!Staged : filled[k].file = f /\ o \in Stage!Named(filled[k].docs)
<1>1. Stage!Writers(f) \subseteq Stage!Staged /\ \A k \in Stage!Writers(f) : filled[k].file = f
    BY DEF Stage!Writers
<1>2. ASSUME o \in Stage!Named(Stage!Rewritten(trunk, f))
      PROVE  \E k \in Stage!Staged : filled[k].file = f /\ o \in Stage!Named(filled[k].docs)
    <2>1. Stage!Writers(f) # {}
        BY <1>2 DEF Stage!Rewritten
    <2>2. PICK k \in Stage!Writers(f) : Stage!Rewritten(trunk, f) = filled[k].docs
        BY <2>1, LastWriter
    <2> QED
        BY <1>1, <1>2, <2>2
<1> DEFINE byVm == filled["vm"] # None /\ filled["vm"].file = f /\ (Stage!Writers(f) = {} \/ ~first)
<1>3. CASE byVm
    <2>1. Stage!Landed(first)[f] = Stage!Patched(Stage!Current(trunk, first))
        BY <1>3 DEF Stage!Landed
    <2>2. "vm" \in Stage!Staged
        BY <1>3, Constants DEF Stage!Staged
    <2>3. \/ o \in Stage!Named(filled["vm"].docs)
          \/ o \in Stage!Named(Stage!Current(trunk, first))
        BY <2>1 DEF Stage!Patched, Stage!Named
    <2>4. Stage!Current(trunk, first) \in {trunk[f], Stage!Rewritten(trunk, f)}
        BY <1>3 DEF Stage!Current
    <2> QED
        BY <1>2, <1>3, <2>2, <2>3, <2>4
<1>4. CASE ~byVm
    <2>1. Stage!Landed(first)[f] = Stage!Rewritten(trunk, f)
        BY <1>4 DEF Stage!Landed
    <2> QED
        BY <1>2, <2>1
<1> QED
    BY <1>3, <1>4

(* What it took from a file is the VM that the draft names, or one of the   *)
(* file's entries is of DRS or no patch.                                   *)
LEMMA Leaves ==
    ASSUME StageInv, NEW first \in BOOLEAN, NEW f \in Stage!Paths, NEW o,
           o \in Stage!Named(trunk[f]), o \notin Stage!Named(Stage!Landed(first)[f])
    PROVE  \/ o = "vm" /\ "vm" \in Stage!Staged
           \/ \E k \in Stage!Staged : filled[k].file = f /\ (k \in Drs \/ filled[k].op # "patch")
<1>1. \A k \in Stage!Writers(f) :
          /\ k \in Stage!Staged /\ filled[k].file = f
          /\ k \in Drs \/ filled[k].op # "patch"
    <2> SUFFICES ASSUME NEW k \in Stage!Writers(f), k \notin Drs
                 PROVE  k \in Stage!Staged /\ filled[k].file = f /\ filled[k].op # "patch"
        BY DEF Stage!Writers
    <2>1. k \in Stage!EntryKeys /\ filled[k] # None /\ k # "vm" /\ k \in Stage!Staged /\ filled[k].file = f
        BY DEF Stage!Writers, Stage!Staged
    <2>2. Sound(k, filled[k])
        BY <2>1 DEF StageInv, DraftOK
    <2> QED
        BY <2>1, <2>2 DEF Sound
<1>2. CASE Stage!Writers(f) # {}
    BY <1>1, <1>2
<1>3. CASE Stage!Writers(f) = {} /\ ~(filled["vm"] # None /\ filled["vm"].file = f)
    <2>1. Stage!Landed(first)[f] = trunk[f]
        BY <1>3 DEF Stage!Landed, Stage!Rewritten
    <2> QED
        BY <2>1
<1>4. CASE Stage!Writers(f) = {} /\ filled["vm"] # None /\ filled["vm"].file = f
    <2>1. "vm" \in Stage!Staged
        BY <1>4, Constants DEF Stage!Staged
    <2>2. Stage!Current(trunk, first) = trunk[f]
        BY <1>4 DEF Stage!Current, Stage!Rewritten
    <2>3. Stage!Landed(first)[f] = Stage!Patched(trunk[f])
        BY <1>4, <2>2 DEF Stage!Landed
    <2>4. filled["vm"].op = "patch" /\ o # "vm" => o \in Stage!Named(Stage!Landed(first)[f])
        <3> SUFFICES ASSUME filled["vm"].op = "patch", o # "vm"
                     PROVE  o \in Stage!Named(Stage!Landed(first)[f])
            OBVIOUS
        <3>1. {d \in trunk[f] : d[1] # "vm"} \subseteq Stage!Landed(first)[f]
            BY <2>3 DEF Stage!Patched
        <3>2. PICK d \in trunk[f] : d[1] = o /\ o # "opaque"
            BY DEF Stage!Named
        <3> QED
            BY <3>1, <3>2 DEF Stage!Named
    <2> QED
        BY <1>4, <2>1, <2>4
<1> QED
    BY <1>2, <1>3, <1>4

(* A step that changes the draft and the branch is a landing.              *)
LEMMA IsLanding ==
    ASSUME [Stage!Next]_(Stage!vars), Stage!Landing
    PROVE  Stage!Land
<1>1. \A t \in Tabs : ~Stage!Begin(t) /\ ~Stage!BeginDRS(t) /\ ~Stage!Write(t) /\ ~Stage!WriteFails(t)
    BY DEF Stage!Landing, Stage!Begin, Stage!BeginDRS, Stage!Write, Stage!WriteFails
<1>2. ~Stage!OthersMerge /\ ~Stage!ClusterMoves /\ ~UNCHANGED Stage!vars
    BY DEF Stage!Landing, Stage!OthersMerge, Stage!ClusterMoves, Stage!vars
<1> QED
    BY <1>1, <1>2, Zenon DEF Stage!Next

LEMMA Spared ==
    ASSUME StageInv, [Stage!Next]_(Stage!vars), Stage!Landing
    PROVE  Stage!TakesButNamed(Stage!AtPath)
<1>1. PICK first \in BOOLEAN : trunk' = Stage!Landed(first)
    BY IsLanding DEF Stage!Land
<1> SUFFICES ASSUME NEW o \in Stage!EntryKeys, Stage!DeclaredIn(trunk, o), ~Stage!DeclaredIn(trunk', o),
                    ~\E k \in Stage!Staged : o \in Stage!Speaks(k),
                    NEW i \in Stage!Holders(trunk, o)
             PROVE  \E k \in Stage!Staged :
                        filled[k].file = Stage!Walk[i] /\ (k \in Stage!AtPath \/ o \notin filled[k].seen)
    BY DEF Stage!TakesButNamed
<1> DEFINE f == Stage!Walk[i]
<1>2. i \in DOMAIN Stage!Walk /\ f \in Stage!Paths /\ o \in Stage!Named(trunk[f])
    BY Constants DEF Stage!Holders, Stage!Walk
<1>3. o \notin Stage!Named(trunk'[f])
    BY <1>2 DEF Stage!DeclaredIn, Stage!Holders
<1>4. ~(o = "vm" /\ "vm" \in Stage!Staged)
    BY DEF Stage!Speaks
<1> HIDE DEF f
<1>5. PICK k \in Stage!Staged : filled[k].file = f /\ (k \in Drs \/ filled[k].op # "patch")
    BY <1>1, <1>2, <1>3, <1>4, Leaves
<1>6. ASSUME k \notin Stage!AtPath PROVE o \notin filled[k].seen
    <2>1. k \notin Drs /\ filled[k].op \notin {"create", "path"}
        BY <1>6 DEF Stage!AtPath, Drs
    <2>2. Sound(k, filled[k])
        BY <2>1 DEF StageInv, DraftOK, Stage!Staged
    <2>3. filled[k].seen \subseteq {k} \union Stage!Named(filled[k].docs)
        BY <1>5, <2>1, <2>2 DEF Sound
    <2> QED
        BY <2>3 DEF Stage!Speaks
<1> QED
    BY <1>5, <1>6 DEF f

(* An entry that brings an object which no more than its author knew of is  *)
(* in a file comes to that file, or, as a create, to its own.              *)
OwnFile(o) == IF o = "net" THEN "ns" ELSE o

LEMMA Comes ==
    ASSUME Stage!StagingAssumption, StageInv, NEW o \in Stage!Objects, NEW k \in Stage!Staged,
           NEW i \in DOMAIN Stage!Walk, filled[k].file = Stage!Walk[i],
           o \in Stage!Named(filled[k].docs),
           filled[k].op \notin {"path", "restore"}, (o \in filled[k].known) = Stage!DeclaredIn(trunk, o),
           Stage!Index(trunk, o) = filled[k].file \/ filled[k].op \notin {"edit", "patch"}
    PROVE  \/ i \in Stage!Holders(trunk, o)
           \/ ~Stage!DeclaredIn(trunk, o) /\ Stage!Walk[i] = OwnFile(o)
<1>1. \A m, n \in DOMAIN Stage!Walk : Stage!Walk[m] = Stage!Walk[n] => m = n
    BY DEF Stage!Walk
<1>2. Stage!Walk[i] \in Stage!Paths \ {"tpl"}
    BY Constants DEF Stage!Walk
<1>3. k \in Stage!EntryKeys /\ filled[k] # None
    BY DEF Stage!Staged
<1>4. k \notin Drs
    <2> SUFFICES ASSUME k \in Drs PROVE FALSE
        OBVIOUS
    <2>1. filled[k].docs \subseteq Drs \X Stage!Vals
        BY <1>3 DEF StageInv, DraftOK
    <2>2. o \in Drs
        BY <2>1 DEF Stage!Named
    <2> QED
        BY <2>2, Constants
<1>5. Sound(k, filled[k])
    BY <1>3, <1>4 DEF StageInv, DraftOK
<1>6. filled[k].op \in {"create", "edit", "patch"}
    BY <1>5 DEF Sound, Stage!Named
<1>7. CASE filled[k].op \in {"edit", "patch"}
    <2>1. Stage!Index(trunk, o) = Stage!Walk[i]
        BY <1>7
    <2>2. None \notin Stage!Paths
        BY DEF Stage!StagingAssumption
    <2>3. PICK m \in Stage!Holders(trunk, o) : Stage!Index(trunk, o) = Stage!Walk[m]
        BY <1>2, <2>1, <2>2, IndexNone
    <2>4. m \in DOMAIN Stage!Walk
        BY DEF Stage!Holders
    <2> QED
        BY <1>1, <2>1, <2>3, <2>4
<1>8. CASE filled[k].op = "create"
    <2>1. /\ k # "net" /\ filled[k].file = k
          /\ o = k \/ (k = "ns" /\ o = "net")
          /\ k # "tpl" => o \notin filled[k].known
        BY <1>5, <1>8 DEF Sound
    <2>2. k # "tpl"
        BY <1>2, <2>1
    <2> QED
        BY <2>1, <2>2 DEF OwnFile
<1> QED
    BY <1>6, <1>7, <1>8

LEMMA StaysOnce ==
    ASSUME Stage!StagingAssumption, StageInv, [Stage!Next]_(Stage!vars), Stage!Landing,
           NEW o \in Stage!Objects
    PROVE  \/ Cardinality(Stage!Holders(trunk', o)) <= 1
           \/ Cardinality(Stage!Holders(trunk, o)) > 1
           \/ \E k \in Stage!Staged :
                 /\ o \in Stage!Named(filled[k].docs)
                 /\ \/ filled[k].op \in {"path", "restore"}
                    \/ (o \in filled[k].known) # Stage!DeclaredIn(trunk, o)
                    \/ Stage!Index(trunk, o) # filled[k].file /\ filled[k].op \in {"edit", "patch"}
<1>1. PICK first \in BOOLEAN : trunk' = Stage!Landed(first)
    BY IsLanding DEF Stage!Land
<1> SUFFICES ASSUME ~(Cardinality(Stage!Holders(trunk, o)) > 1),
                    \A k \in Stage!Staged : o \in Stage!Named(filled[k].docs) =>
                        /\ filled[k].op \notin {"path", "restore"}
                        /\ (o \in filled[k].known) = Stage!DeclaredIn(trunk, o)
                        /\ Stage!Index(trunk, o) = filled[k].file \/ filled[k].op \notin {"edit", "patch"}
             PROVE  Cardinality(Stage!Holders(trunk', o)) <= 1
    OBVIOUS
<1> DEFINE H == Stage!Holders(trunk, o)
           G == Stage!Holders(trunk', o)
<1>2. H \subseteq 1..9 /\ G \subseteq 1..9 /\ DOMAIN Stage!Walk = 1..9
    BY DEF Stage!Holders, Stage!Walk
<1>3. IsFiniteSet(H) /\ IsFiniteSet(G)
    <2> HIDE DEF H, G
    <2>1. \A n \in Nat : IsFiniteSet(1..n)
        BY FS_Interval
    <2>2. IsFiniteSet(1..9)
        BY <2>1
    <2> QED
        BY <1>2, <2>2, FS_Subset
<1>4. \A i, j \in H : i = j
    <2> HIDE DEF H
    <2>1. Cardinality(H) \in Nat /\ ~(Cardinality(H) > 1)
        BY <1>3, FS_CardinalityType DEF H
    <2>2. Cardinality(H) <= 1
        BY <2>1
    <2> QED
        BY <1>3, <2>2, AtMostOne
<1>5. \A i \in G : i \in H \/ (H = {} /\ Stage!Walk[i] = OwnFile(o))
    <2> SUFFICES ASSUME NEW i \in G, i \notin H PROVE H = {} /\ Stage!Walk[i] = OwnFile(o)
        OBVIOUS
    <2> DEFINE f == Stage!Walk[i]
    <2>1. i \in DOMAIN Stage!Walk /\ f \in Stage!Paths
        BY Constants DEF Stage!Holders, Stage!Walk
    <2>2. o \in Stage!Named(Stage!Landed(first)[f]) /\ o \notin Stage!Named(trunk[f])
        BY <1>1, <2>1 DEF Stage!Holders
    <2>3. PICK k \in Stage!Staged : filled[k].file = f /\ o \in Stage!Named(filled[k].docs)
        BY <2>1, <2>2, Arrives
    <2>4. \/ i \in Stage!Holders(trunk, o)
          \/ ~Stage!DeclaredIn(trunk, o) /\ Stage!Walk[i] = OwnFile(o)
        BY <2>1, <2>3, Comes
    <2> QED
        BY <2>4 DEF Stage!DeclaredIn
<1>6. \A i, j \in 1..9 : Stage!Walk[i] = Stage!Walk[j] => i = j
    BY DEF Stage!Walk
<1>7. \A i, j \in G : i = j
    BY <1>2, <1>4, <1>5, <1>6
<1> HIDE DEF G
<1>8. Cardinality(G) <= 1
    BY <1>3, <1>7, AtMostOne
<1> QED
    BY <1>8 DEF G

--------------------------------------------------------------------------------
LEMMA StagePart ==
    ASSUME Stage!StagingAssumption
    PROVE  PartsSpec => [](part = "staging" => StageInv)
<1>1. PartsInit => (part = "staging" => StageInv)
    BY StageInit DEF PartsInit
<1>2. (part = "staging" => StageInv) /\ [PartsNext]_partsVars => (part = "staging" => StageInv)'
    <2> SUFFICES ASSUME StageInv, [PartsNext]_partsVars, part = "staging" PROVE StageInv'
        BY DEF PartsNext, partsVars
    <2>1. [Stage!Next]_(Stage!vars)
        BY DEF PartsNext, partsVars, stageVars, Stage!vars
    <2> QED
        BY <2>1, StagingStep
<1> QED
    BY <1>1, <1>2, PTL DEF PartsSpec

(* drs.go:22: the draft of a DRS configuration is exactly what the branch   *)
(* lacks of it, through the other tabs' entries, landings and failures.    *)
THEOREM DraftIsDelta ==
    ASSUME Stage!StagingAssumption
    PROVE  (Stage!Spec => []Stage!DraftIsTheDelta) /\ (PartsSpec => []DraftIsTheDelta)
<1>1. Stage!Spec => []Stage!DraftIsTheDelta
    BY StageInit, StagingStep, StageDelta, PTL DEF Stage!Spec
<1>2. (part = "staging" => StageInv) => DraftIsTheDelta
    BY StageDelta DEF DraftIsTheDelta
<1> QED
    BY <1>1, <1>2, StagePart, PTL

(* staging.go:158: an edit, a removal or a restore that lands takes nothing *)
(* off the branch but what it names, unless the index did not show it      *)
(* there: for any layout of the branch, and any requests and merges.       *)
THEOREM LandingsSpare ==
    ASSUME Stage!StagingAssumption
    PROVE  (Stage!Spec => Stage!SparesNeighbours) /\ (PartsSpec => SparesNeighbours)
<1> DEFINE Spare == Stage!Landing => Stage!TakesButNamed(Stage!AtPath)
<1>1. StageInv /\ [Stage!Next]_(Stage!vars) => StageInv' /\ [Spare]_(Stage!vars)
    BY StagingStep, Spared
<1>2. (part = "staging" => StageInv) /\ [PartsNext]_partsVars => [Spare]_(Stage!vars)
    <2> SUFFICES ASSUME part = "staging" => StageInv, [PartsNext]_partsVars PROVE [Spare]_(Stage!vars)
        OBVIOUS
    <2>1. (part = "staging" /\ [Stage!Next]_(Stage!vars)) \/ UNCHANGED Stage!vars
        BY DEF PartsNext, partsVars, stageVars, Stage!vars
    <2> HIDE DEF Spare
    <2> QED
        BY <1>1, <2>1
<1> HIDE DEF Spare
<1>3. Stage!Spec => [][Spare]_(Stage!vars)
    BY StageInit, <1>1, PTL DEF Stage!Spec
<1>4. PartsSpec => [][Spare]_(Stage!vars)
    BY <1>2, StagePart, PTL DEF PartsSpec
<1> QED
    BY <1>3, <1>4 DEF Spare, Stage!SparesNeighbours, SparesNeighbours

(* staging.go:102: a landing puts no object in a second file by an entry   *)
(* whose author knew where it was: for any layout of the branch.           *)
THEOREM LandingsDeclareOnce ==
    ASSUME Stage!StagingAssumption
    PROVE  (Stage!Spec => Stage!DeclaredOnce) /\ (PartsSpec => DeclaredOnce)
<1> DEFINE Only == Stage!Landing => \A o \in Stage!Objects :
               \/ Stage!Cardinality(Stage!Holders(trunk', o)) <= 1
               \/ Stage!Cardinality(Stage!Holders(trunk, o)) > 1
               \/ \E k \in Stage!Staged :
                     /\ o \in Stage!Named(filled[k].docs)
                     /\ \/ filled[k].op \in {"path", "restore"}
                        \/ (o \in filled[k].known) # Stage!DeclaredIn(trunk, o)
                        \/ Stage!Index(trunk, o) # filled[k].file /\ filled[k].op \in {"edit", "patch"}
<1>1. StageInv /\ [Stage!Next]_(Stage!vars) => StageInv' /\ [Only]_(Stage!vars)
    <2>1. \A S : Stage!Cardinality(S) = Cardinality(S)
        BY Zenon DEF Stage!Cardinality, Cardinality
    <2> QED
        BY <2>1, StagingStep, StaysOnce
<1>2. (part = "staging" => StageInv) /\ [PartsNext]_partsVars => [Only]_(Stage!vars)
    <2> SUFFICES ASSUME part = "staging" => StageInv, [PartsNext]_partsVars PROVE [Only]_(Stage!vars)
        OBVIOUS
    <2>1. (part = "staging" /\ [Stage!Next]_(Stage!vars)) \/ UNCHANGED Stage!vars
        BY DEF PartsNext, partsVars, stageVars, Stage!vars
    <2> HIDE DEF Only
    <2> QED
        BY <1>1, <2>1
<1> HIDE DEF Only
<1>3. Stage!Spec => [][Only]_(Stage!vars)
    BY StageInit, <1>1, PTL DEF Stage!Spec
<1>4. PartsSpec => [][Only]_(Stage!vars)
    BY <1>2, StagePart, PTL DEF PartsSpec
<1> QED
    BY <1>3, <1>4 DEF Only, Stage!DeclaredOnce, DeclaredOnce

--------------------------------------------------------------------------------
(* What a match tells of what is the case: yes and no are certain.         *)
Told(m, holds) ==
    /\ m \in {"yes", "no", "cond"}
    /\ m = "yes" => holds
    /\ m = "no" => ~holds

LEMMA AllTold ==
    ASSUME NEW a \in {"yes", "no", "cond"}, NEW b \in {"yes", "no", "cond"}
    PROVE  /\ Trace!AllOf({a, b}) \in {"yes", "no", "cond"}
           /\ Trace!AllOf({a, b}) = "yes" <=> a = "yes" /\ b = "yes"
           /\ Trace!AllOf({a, b}) = "no" <=> a = "no" \/ b = "no"
BY DEF Trace!AllOf

LEMMA AnyTold ==
    ASSUME NEW S \in SUBSET {"yes", "no", "cond"}
    PROVE  /\ Trace!AnyOf(S) \in {"yes", "no", "cond"}
           /\ Trace!AnyOf(S) = "yes" => "yes" \in S
           /\ Trace!AnyOf(S) = "no" => \A m \in S : m = "no"
BY DEF Trace!AnyOf

LEMMA SelTold ==
    ASSUME Trace!TraceAssumption, NEW x, NEW sel, NEW labels
    PROVE  Told(Trace!SelMatch(sel, labels), Trace!SelHolds(x, sel, labels))
<1>1. None # Bad
    BY DEF Trace!TraceAssumption
<1>2. CASE sel = None
    BY <1>1, <1>2 DEF Told, Trace!SelMatch, Trace!SelHolds
<1>3. CASE sel = Bad
    BY <1>1, <1>3 DEF Told, Trace!SelMatch, Trace!SelHolds
<1>4. CASE sel \notin {None, Bad}
    BY <1>4 DEF Told, Trace!SelMatch, Trace!SelHolds, Trace!Sure
<1> QED
    BY <1>2, <1>3, <1>4

LEMMA PodTold ==
    ASSUME Trace!TraceAssumption, NEW x, NEW sel, NEW labels, labels # None
    PROVE  Told(Trace!PodMatch(sel, labels), Trace!SelHolds(x, sel, labels))
<1>1. Bad # {} /\ None # {}
    BY DEF Trace!TraceAssumption
<1>2. CASE sel = None
    BY <1>2 DEF Told, Trace!PodMatch, Trace!SelHolds
<1>3. CASE sel = {}
    BY <1>1, <1>3 DEF Told, Trace!PodMatch, Trace!SelHolds
<1>4. CASE sel \notin {None, {}}
    <2>1. Trace!PodMatch(sel, labels) = Trace!SelMatch(sel, labels)
        BY <1>4 DEF Trace!PodMatch
    <2> QED
        BY <2>1, SelTold
<1> QED
    BY <1>2, <1>3, <1>4

(* Whether a policy applies to a VM.                                       *)
LEMMA SubjectTold ==
    ASSUME Trace!TraceAssumption, NEW x, NEW d, NEW w, w.labels # None
    PROVE  Told(Trace!SubjectMatch(d.subject, w.nsLabels, w.labels), Trace!Selects(x, d, w))
<1> DEFINE a == Trace!SelMatch(d.subject.ns, w.nsLabels)
           b == Trace!PodMatch(d.subject.pod, w.labels)
           m == Trace!SubjectMatch(d.subject, w.nsLabels, w.labels)
<1>1. Told(a, Trace!SelHolds(x, d.subject.ns, w.nsLabels))
    BY SelTold
<1>2. Told(b, Trace!SelHolds(x, d.subject.pod, w.labels))
    BY PodTold
<1>3. /\ d.subject.none => m = "no"
      /\ ~d.subject.none => m = Trace!AllOf({a, b})
    BY DEF Trace!SubjectMatch
<1>4. Trace!Selects(x, d, w) <=> /\ ~d.subject.none
                                 /\ Trace!SelHolds(x, d.subject.ns, w.nsLabels)
                                 /\ Trace!SelHolds(x, d.subject.pod, w.labels)
    BY DEF Trace!Selects
<1> HIDE DEF a, b, m
<1>5. CASE d.subject.none
    BY <1>3, <1>4, <1>5 DEF Told, m
<1>6. CASE ~d.subject.none
    <2>1. a \in {"yes", "no", "cond"} /\ b \in {"yes", "no", "cond"}
        BY <1>1, <1>2 DEF Told
    <2>2. /\ Trace!AllOf({a, b}) \in {"yes", "no", "cond"}
          /\ Trace!AllOf({a, b}) = "yes" <=> a = "yes" /\ b = "yes"
          /\ Trace!AllOf({a, b}) = "no" <=> a = "no" \/ b = "no"
        BY <2>1, AllTold
    <2>3. m = Trace!AllOf({a, b})
        BY <1>3, <1>6
    <2>4. Told(m, Trace!Selects(x, d, w))
        BY <1>1, <1>2, <1>4, <1>6, <2>2, <2>3 DEF Told
    <2> QED
        BY <2>4 DEF m
<1> QED
    BY <1>5, <1>6

--------------------------------------------------------------------------------
(* Ports and peers.                                                        *)

(* A world tells of the port what the flow tells.                          *)
Agrees(x, f) == f.port \in Nat /\ (f.port # 0 => x.port = f.port)

Default(admin) == IF admin THEN None ELSE "TCP"

LEMMA PortTold ==
    ASSUME Trace!TraceAssumption, NEW x, NEW f, Agrees(x, f), NEW admin \in BOOLEAN,
           NEW d, Trace!PortOK(d, admin)
    PROVE  Told(Trace!PortMatch(Trace!DecodePort(d, Default(admin)), f.proto, f.port), Trace!PortHolds(x, d, f))
<1> DEFINE p == Trace!DecodePort(d, Default(admin))
           m == Trace!PortMatch(p, f.proto, f.port)
<1>0. None # "TCP" /\ Http \notin Nat
    BY DEF Trace!TraceAssumption
<1>1. CASE d.form = "named"
    <2>1. p.proto = None /\ p.named
        BY <1>1 DEF Trace!DecodePort
    <2>2. m = "cond"
        BY <2>1 DEF Trace!PortMatch
    <2> QED
        BY <2>2 DEF Told
<1>2. CASE d.form = "range"
    <2>1. /\ d.proto # None /\ d.port \in Nat \ {0} /\ d.end \in Nat
          /\ p.proto = d.proto /\ ~p.named /\ p.start = d.port /\ p.end = d.end
        BY <1>2 DEF Trace!DecodePort, Trace!PortOK
    <2>2. Trace!PortHolds(x, d, f) <=> d.proto = f.proto /\ x.port \in d.port..d.end
        BY <1>2 DEF Trace!PortHolds
    <2>3. m = IF d.proto # f.proto THEN "no" ELSE IF f.port = 0 THEN "cond"
              ELSE IF f.port \in d.port..d.end THEN "yes" ELSE "no"
        BY <2>1 DEF Trace!PortMatch, Trace!Sure
    <2> HIDE DEF m
    <2>4. Told(m, Trace!PortHolds(x, d, f))
        BY <2>2, <2>3 DEF Told, Agrees
    <2> QED
        BY <2>4 DEF m
<1>3. CASE d.form = "plain"
    <2> DEFINE proto == IF d.proto = None THEN "TCP" ELSE d.proto
               end == IF d.end = 0 THEN d.port ELSE d.end
    <2>1. /\ d.port \in Nat \union {Http} /\ d.end \in Nat
          /\ p.proto = proto /\ (p.named <=> d.port = Http)
          /\ d.port # Http => p.start = d.port /\ p.end = end
        BY <1>0, <1>3 DEF Trace!DecodePort, Trace!PortOK, Default
    <2>2. Trace!PortHolds(x, d, f) <=>
             /\ f.proto = proto
             /\ IF d.port = 0 THEN TRUE ELSE IF d.port = Http THEN x.port = x.http ELSE x.port \in d.port..end
        BY <1>0, <1>3 DEF Trace!PortHolds
    <2>3. proto # None
        BY <1>0
    <2>4. m = IF proto # f.proto THEN "no" ELSE IF d.port = Http THEN "cond"
              ELSE IF d.port = 0 THEN "yes" ELSE IF f.port = 0 THEN "cond"
              ELSE IF f.port \in d.port..end THEN "yes" ELSE "no"
        BY <2>1, <2>3 DEF Trace!PortMatch, Trace!Sure
    <2> HIDE DEF m, proto, end
    <2>5. Told(m, Trace!PortHolds(x, d, f))
        BY <1>0, <2>2, <2>4 DEF Told, Agrees
    <2> QED
        BY <2>5 DEF m
<1> QED
    BY <1>1, <1>2, <1>3 DEF Trace!PortOK

LEMMA PortsTold ==
    ASSUME Trace!TraceAssumption, NEW x, NEW f, Agrees(x, f), NEW admin \in BOOLEAN,
           NEW ds, \A d \in ds : Trace!PortOK(d, admin)
    PROVE  LET ps == {Trace!DecodePort(d, Default(admin)) : d \in ds}
           IN  Told(IF ps = {} THEN "yes" ELSE Trace!AnyOf({Trace!PortMatch(p, f.proto, f.port) : p \in ps}),
                    Trace!PortsHold(x, ds, f))
<1> DEFINE ps == {Trace!DecodePort(d, Default(admin)) : d \in ds}
           Match(d) == Trace!PortMatch(Trace!DecodePort(d, Default(admin)), f.proto, f.port)
           S == {Match(d) : d \in ds}
           m == IF ps = {} THEN "yes" ELSE Trace!AnyOf({Trace!PortMatch(p, f.proto, f.port) : p \in ps})
<1>1. \A d \in ds : Told(Match(d), Trace!PortHolds(x, d, f))
    BY PortTold
<1>2. {Trace!PortMatch(p, f.proto, f.port) : p \in ps} = S
    OBVIOUS
<1>3. ps = {} <=> ds = {}
    OBVIOUS
<1> HIDE DEF ps, Match
<1>4. S \in SUBSET {"yes", "no", "cond"}
    BY <1>1 DEF Told
<1>5. m = IF ds = {} THEN "yes" ELSE Trace!AnyOf(S)
    BY <1>2, <1>3
<1>6. ASSUME ds = {} PROVE Told(m, Trace!PortsHold(x, ds, f))
    BY <1>5, <1>6 DEF Told, Trace!PortsHold
<1>7. ASSUME ds # {} PROVE Told(m, Trace!PortsHold(x, ds, f))
    <2>1. m = Trace!AnyOf(S)
        BY <1>5, <1>7
    <2>2. m \in {"yes", "no", "cond"} /\ (m = "yes" => "yes" \in S) /\ (m = "no" => \A n \in S : n = "no")
        BY <1>4, <2>1, AnyTold
    <2>3. Trace!PortsHold(x, ds, f) <=> \E d \in ds : Trace!PortHolds(x, d, f)
        BY <1>7 DEF Trace!PortsHold
    <2> HIDE DEF m
    <2>4. ASSUME m = "yes" PROVE Trace!PortsHold(x, ds, f)
        BY <1>1, <2>2, <2>3, <2>4 DEF Told
    <2>5. ASSUME m = "no" PROVE ~Trace!PortsHold(x, ds, f)
        BY <1>1, <2>2, <2>3, <2>5 DEF Told
    <2>6. Told(m, Trace!PortsHold(x, ds, f))
        BY <2>2, <2>4, <2>5 DEF Told
    <2> QED
        BY <2>6 DEF m
<1>8. Told(m, Trace!PortsHold(x, ds, f))
    BY <1>6, <1>7
<1> QED
    BY <1>8 DEF ps, m

LEMMA AddressesTold ==
    ASSUME NEW x, NEW t, NEW cidr
    PROVE  Told(IF t.ips = {} THEN "cond" ELSE Trace!Sure(cidr \intersect t.ips # {}),
                Trace!AddressIn(x, t) \intersect cidr # {})
BY DEF Told, Trace!Sure, Trace!AddressIn

LEMMA SelectorTold ==
    ASSUME Trace!TraceAssumption, NEW x, NEW t, NEW home, NEW ns, NEW pod
    PROVE  Told(Trace!PeerMatch(Trace!SelectorPeer(home, ns, pod), t),
                /\ t.ns # None /\ home \in {None, t.ns}
                /\ Trace!SelHolds(x, ns, t.nsLabels) /\ Trace!SelHolds(x, pod, t.labels))
<1> DEFINE p == Trace!SelectorPeer(home, ns, pod)
           a == Trace!SelMatch(ns, t.nsLabels)
           b == Trace!SelMatch(pod, t.labels)
           m == Trace!PeerMatch(p, t)
           nsHolds  == Trace!SelHolds(x, ns, t.nsLabels)
           podHolds == Trace!SelHolds(x, pod, t.labels)
<1>1. p.kind = "selector" /\ p.home = home /\ p.ns = ns /\ p.pod = pod
    BY DEF Trace!SelectorPeer, Trace!AnyPeer
<1>2. m = IF t.ns = None \/ home \notin {None, t.ns} THEN "no" ELSE Trace!AllOf({a, b})
    <2> HIDE DEF p
    <2> QED
        BY <1>1 DEF Trace!PeerMatch
<1>3. Told(a, nsHolds) /\ Told(b, podHolds)
    BY SelTold
<1> HIDE DEF p, a, b, m, nsHolds, podHolds
<1>4. a \in {"yes", "no", "cond"} /\ b \in {"yes", "no", "cond"}
    BY <1>3 DEF Told
<1>5. /\ Trace!AllOf({a, b}) \in {"yes", "no", "cond"}
      /\ Trace!AllOf({a, b}) = "yes" <=> a = "yes" /\ b = "yes"
      /\ Trace!AllOf({a, b}) = "no" <=> a = "no" \/ b = "no"
    BY <1>4, AllTold
<1>6. Told(m, t.ns # None /\ home \in {None, t.ns} /\ nsHolds /\ podHolds)
    BY <1>2, <1>3, <1>5 DEF Told
<1> QED
    BY <1>6 DEF m, p, nsHolds, podHolds

LEMMA NetworksTold ==
    ASSUME NEW x, NEW t, NEW cidr
    PROVE  Told(Trace!PeerMatch(Trace!NetworksPeer(cidr), t), Trace!AddressIn(x, t) \intersect cidr # {})
<1> DEFINE p == Trace!NetworksPeer(cidr)
<1>1. p.kind = "networks" /\ p.cidr = cidr
    BY DEF Trace!NetworksPeer, Trace!AnyPeer
<1> HIDE DEF p
<1>2. Trace!PeerMatch(p, t) = IF t.ips = {} THEN "cond" ELSE Trace!Sure(cidr \intersect t.ips # {})
    BY <1>1 DEF Trace!PeerMatch
<1>3. Told(Trace!PeerMatch(p, t), Trace!AddressIn(x, t) \intersect cidr # {})
    BY <1>2, AddressesTold DEF Told
<1> QED
    BY <1>3 DEF p

LEMMA NetpolPeerTold ==
    ASSUME Trace!TraceAssumption, NEW x, NEW t, NEW ns, ns # None, NEW p
    PROVE  Told(Trace!PeerMatch(Trace!NetpolPeer(p, ns), t), Trace!NetpolPeerHolds(x, p, ns, t))
<1>1. CASE p.block # None
    <2>1. Trace!NetpolPeer(p, ns) = Trace!NetworksPeer(p.block.cidr \ p.block.except)
        BY <1>1 DEF Trace!NetpolPeer
    <2>2. Trace!NetpolPeerHolds(x, p, ns, t) <=>
             Trace!AddressIn(x, t) \intersect (p.block.cidr \ p.block.except) # {}
        BY <1>1 DEF Trace!NetpolPeerHolds
    <2> QED
        BY <2>1, <2>2, NetworksTold DEF Told
<1>2. CASE p.block = None
    <2> DEFINE home == IF p.ns = None THEN ns ELSE None
    <2>1. Trace!NetpolPeer(p, ns) = Trace!SelectorPeer(home, p.ns, p.pods)
        BY <1>2 DEF Trace!NetpolPeer
    <2>2. Trace!NetpolPeerHolds(x, p, ns, t) <=>
             /\ t.ns # None /\ home \in {None, t.ns}
             /\ Trace!SelHolds(x, p.ns, t.nsLabels) /\ Trace!SelHolds(x, p.pods, t.labels)
        <3>1. p.ns = None => Trace!SelHolds(x, p.ns, t.nsLabels)
            BY DEF Trace!SelHolds
        <3> QED
            BY <1>2, <3>1 DEF Trace!NetpolPeerHolds
    <2> HIDE DEF home
    <2>3. Told(Trace!PeerMatch(Trace!SelectorPeer(home, p.ns, p.pods), t),
               /\ t.ns # None /\ home \in {None, t.ns}
               /\ Trace!SelHolds(x, p.ns, t.nsLabels) /\ Trace!SelHolds(x, p.pods, t.labels))
        BY SelectorTold
    <2> QED
        BY <2>1, <2>2, <2>3 DEF Told
<1> QED
    BY <1>1, <1>2

LEMMA AdminPeerTold ==
    ASSUME Trace!TraceAssumption, NEW x, NEW t, NEW p, Trace!AdminPeerOK(p)
    PROVE  Told(Trace!PeerMatch(Trace!AdminPeer(p), t), Trace!AdminPeerHolds(x, p, t))
<1>0. \A sel, labels : sel = None => Trace!SelHolds(x, sel, labels)
    BY DEF Trace!SelHolds
<1>1. CASE p.namespaces # None
    <2>1. Trace!AdminPeer(p) = Trace!SelectorPeer(None, p.namespaces, None)
        BY <1>1 DEF Trace!AdminPeer
    <2>2. Trace!AdminPeerHolds(x, p, t) <=>
             /\ t.ns # None /\ None \in {None, t.ns}
             /\ Trace!SelHolds(x, p.namespaces, t.nsLabels) /\ Trace!SelHolds(x, None, t.labels)
        BY <1>0, <1>1 DEF Trace!AdminPeerHolds, Trace!AdminPeerOK
    <2> QED
        BY <2>1, <2>2, SelectorTold DEF Told
<1>2. CASE p.namespaces = None /\ p.pods # None
    <2>1. Trace!AdminPeer(p) = Trace!SelectorPeer(None, p.pods.ns, p.pods.pod)
        BY <1>2 DEF Trace!AdminPeer
    <2>2. Trace!AdminPeerHolds(x, p, t) <=>
             /\ t.ns # None /\ None \in {None, t.ns}
             /\ Trace!SelHolds(x, p.pods.ns, t.nsLabels) /\ Trace!SelHolds(x, p.pods.pod, t.labels)
        BY <1>2 DEF Trace!AdminPeerHolds, Trace!AdminPeerOK
    <2> QED
        BY <2>1, <2>2, SelectorTold DEF Told
<1>3. CASE p.namespaces = None /\ p.pods = None /\ p.networks # None
    <2>1. Trace!AdminPeer(p) = Trace!NetworksPeer(p.networks)
        BY <1>3 DEF Trace!AdminPeer
    <2>2. Trace!AdminPeerHolds(x, p, t) <=> Trace!AddressIn(x, t) \intersect p.networks # {}
        BY <1>3 DEF Trace!AdminPeerHolds
    <2> QED
        BY <2>1, <2>2, NetworksTold DEF Told
<1>4. CASE p.namespaces = None /\ p.pods = None /\ p.networks = None
    <2>1. Trace!AdminPeer(p).kind = "nodes"
        BY <1>4 DEF Trace!AdminPeer, Trace!Peer, Trace!AnyPeer
    <2>2. Trace!AdminPeerHolds(x, p, t) <=> t.ns = None /\ x.node
        BY <1>4 DEF Trace!AdminPeerHolds
    <2>3. Trace!PeerMatch(Trace!AdminPeer(p), t) = IF t.ns = None THEN "cond" ELSE "no"
        BY <2>1 DEF Trace!PeerMatch
    <2> QED
        BY <2>2, <2>3 DEF Told
<1> QED
    BY <1>1, <1>2, <1>3, <1>4

(* The gateway sees what leaves the cluster.                               *)
GatewayPeer(r) ==
    CASE r.to = "cidr" -> Trace!NetworksPeer(r.cidr) [] r.to = "dns" -> Trace!Peer("dns")
      [] r.to = "node" -> Trace!Peer("nodes") [] OTHER -> Trace!Peer("unresolved")

LEMMA GatewayPeerTold ==
    ASSUME NEW x, NEW t, t.ns = None, NEW a, t.ips = {a}, NEW r
    PROVE  Told(Trace!PeerMatch(GatewayPeer(r), t), Trace!GatewayHolds(x, r, t))
<1>1. CASE r.to = "cidr"
    <2>1. GatewayPeer(r) = Trace!NetworksPeer(r.cidr)
        BY <1>1 DEF GatewayPeer
    <2>2. Trace!GatewayHolds(x, r, t) <=> t.ips \subseteq r.cidr
        BY <1>1 DEF Trace!GatewayHolds
    <2>3. Trace!AddressIn(x, t) = {a}
        BY DEF Trace!AddressIn
    <2>4. Trace!GatewayHolds(x, r, t) <=> Trace!AddressIn(x, t) \intersect r.cidr # {}
        BY <2>2, <2>3
    <2> QED
        BY <2>1, <2>4, NetworksTold DEF Told
<1>2. CASE r.to # "cidr"
    <2>1. GatewayPeer(r).kind \in {"dns", "nodes", "unresolved"}
        BY <1>2 DEF GatewayPeer, Trace!Peer, Trace!AnyPeer
    <2>2. Trace!PeerMatch(GatewayPeer(r), t) = "cond"
        BY <2>1 DEF Trace!PeerMatch
    <2> QED
        BY <2>2 DEF Told
<1> QED
    BY <1>1, <1>2

(* A rule matches as its peers and its ports do.                           *)
LEMMA BothTold ==
    ASSUME NEW a, NEW b, NEW peers \in BOOLEAN, NEW ports \in BOOLEAN, Told(a, peers), Told(b, ports)
    PROVE  Told(Trace!AllOf({a, b}), ports /\ peers)
<1>1. a \in {"yes", "no", "cond"} /\ b \in {"yes", "no", "cond"}
    BY DEF Told
<1>2. /\ Trace!AllOf({a, b}) \in {"yes", "no", "cond"}
      /\ Trace!AllOf({a, b}) = "yes" <=> a = "yes" /\ b = "yes"
      /\ Trace!AllOf({a, b}) = "no" <=> a = "no" \/ b = "no"
    BY <1>1, AllTold
<1> QED
    BY <1>2 DEF Told

AdminHolds(x, r, t, f) == Trace!PortsHold(x, r.ports, f) /\ \E p \in r.peers : Trace!AdminPeerHolds(x, p, t)

LEMMA AdminRuleTold ==
    ASSUME Trace!TraceAssumption, NEW x, NEW f, Agrees(x, f), NEW t, NEW r,
           \A d \in r.ports : Trace!PortOK(d, TRUE), \A p \in r.peers : Trace!AdminPeerOK(p)
    PROVE  Told(Trace!RuleMatch(Trace!AdminRule(r), t, f.proto, f.port), AdminHolds(x, r, t, f))
<1> DEFINE ps == {Trace!AdminPeer(p) : p \in r.peers}
           ds == {Trace!DecodePort(d, None) : d \in r.ports}
           S == {Trace!PeerMatch(p, t) : p \in ps}
           a == Trace!AnyOf(S)
           b == IF ds = {} THEN "yes" ELSE Trace!AnyOf({Trace!PortMatch(p, f.proto, f.port) : p \in ds})
           some == \E p \in r.peers : Trace!AdminPeerHolds(x, p, t)
           ports == Trace!PortsHold(x, r.ports, f)
<1>1. Trace!RuleMatch(Trace!AdminRule(r), t, f.proto, f.port) = Trace!AllOf({a, b})
    BY DEF Trace!RuleMatch, Trace!AdminRule, Trace!Rule
<1>2. \A p \in r.peers : Told(Trace!PeerMatch(Trace!AdminPeer(p), t), Trace!AdminPeerHolds(x, p, t))
    BY AdminPeerTold
<1>3. S = {Trace!PeerMatch(Trace!AdminPeer(p), t) : p \in r.peers}
    OBVIOUS
<1>4. Told(b, ports)
    BY PortsTold DEF Default
<1> HIDE DEF ps, ds, S, b
<1>5. S \in SUBSET {"yes", "no", "cond"}
    BY <1>2, <1>3 DEF Told
<1>6. Told(a, some)
    <2>1. a \in {"yes", "no", "cond"} /\ (a = "yes" => "yes" \in S) /\ (a = "no" => \A m \in S : m = "no")
        BY <1>5, AnyTold
    <2> HIDE DEF a
    <2>2. ASSUME a = "yes" PROVE some
        BY <1>2, <1>3, <2>1, <2>2 DEF Told
    <2>3. ASSUME a = "no" PROVE ~some
        BY <1>2, <1>3, <2>1, <2>3 DEF Told
    <2> HIDE DEF some
    <2> QED
        BY <2>1, <2>2, <2>3 DEF Told
<1>7. some \in BOOLEAN /\ ports \in BOOLEAN
    BY DEF Trace!PortsHold
<1>8. AdminHolds(x, r, t, f) <=> ports /\ some
    BY DEF AdminHolds
<1> HIDE DEF a, some, ports
<1>9. Told(Trace!AllOf({a, b}), ports /\ some)
    BY <1>4, <1>6, <1>7, BothTold
<1> QED
    BY <1>1, <1>8, <1>9 DEF Told

NetpolHolds(x, r, ns, t, f) ==
    /\ Trace!PortsHold(x, r.ports, f)
    /\ r.peers = {} \/ \E p \in r.peers : Trace!NetpolPeerHolds(x, p, ns, t)

LEMMA NetpolRuleTold ==
    ASSUME Trace!TraceAssumption, NEW x, NEW f, Agrees(x, f), NEW t, NEW ns, ns # None, NEW r,
           \A d \in r.ports : Trace!PortOK(d, FALSE)
    PROVE  Told(Trace!RuleMatch(Trace!NetpolRule(r, ns), t, f.proto, f.port), NetpolHolds(x, r, ns, t, f))
<1> DEFINE ps == IF r.peers = {} THEN {Trace!AnyPeer} ELSE {Trace!NetpolPeer(p, ns) : p \in r.peers}
           ds == {Trace!DecodePort(d, "TCP") : d \in r.ports}
           S == {Trace!PeerMatch(p, t) : p \in ps}
           a == Trace!AnyOf(S)
           b == IF ds = {} THEN "yes" ELSE Trace!AnyOf({Trace!PortMatch(p, f.proto, f.port) : p \in ds})
           some == r.peers = {} \/ \E p \in r.peers : Trace!NetpolPeerHolds(x, p, ns, t)
           ports == Trace!PortsHold(x, r.ports, f)
<1>1. Trace!RuleMatch(Trace!NetpolRule(r, ns), t, f.proto, f.port) = Trace!AllOf({a, b})
    BY DEF Trace!RuleMatch, Trace!NetpolRule, Trace!Rule
<1>2. \A p \in r.peers : Told(Trace!PeerMatch(Trace!NetpolPeer(p, ns), t), Trace!NetpolPeerHolds(x, p, ns, t))
    BY NetpolPeerTold
<1>3. /\ r.peers # {} => S = {Trace!PeerMatch(Trace!NetpolPeer(p, ns), t) : p \in r.peers}
      /\ r.peers = {} => S = {"yes"}
    <2>1. Trace!PeerMatch(Trace!AnyPeer, t) = "yes"
        BY DEF Trace!PeerMatch, Trace!AnyPeer
    <2>2. r.peers = {} => S = {Trace!PeerMatch(Trace!AnyPeer, t)}
        OBVIOUS
    <2>3. r.peers # {} => S = {Trace!PeerMatch(Trace!NetpolPeer(p, ns), t) : p \in r.peers}
        OBVIOUS
    <2> QED
        BY <2>1, <2>2, <2>3
<1>4. Told(b, ports)
    BY PortsTold DEF Default
<1> HIDE DEF ps, ds, S, b
<1>5. S \in SUBSET {"yes", "no", "cond"}
    BY <1>2, <1>3 DEF Told
<1>6. Told(a, some)
    <2>1. a \in {"yes", "no", "cond"} /\ (a = "yes" => "yes" \in S) /\ (a = "no" => \A m \in S : m = "no")
        BY <1>5, AnyTold
    <2> HIDE DEF a
    <2>2. ASSUME a = "yes" PROVE some
        BY <1>2, <1>3, <2>1, <2>2 DEF Told
    <2>3. ASSUME a = "no" PROVE ~some
        BY <1>2, <1>3, <2>1, <2>3 DEF Told
    <2> HIDE DEF some
    <2> QED
        BY <2>1, <2>2, <2>3 DEF Told
<1>7. some \in BOOLEAN /\ ports \in BOOLEAN
    BY DEF Trace!PortsHold
<1>8. NetpolHolds(x, r, ns, t, f) <=> ports /\ some
    BY DEF NetpolHolds
<1> HIDE DEF a, some, ports
<1>9. Told(Trace!AllOf({a, b}), ports /\ some)
    BY <1>4, <1>6, <1>7, BothTold
<1> QED
    BY <1>1, <1>8, <1>9 DEF Told

EgressHolds(x, r, t, f) == Trace!PortsHold(x, r.ports, f) /\ Trace!GatewayHolds(x, r, t)

LEMMA GatewayRuleTold ==
    ASSUME Trace!TraceAssumption, NEW x, NEW f, Agrees(x, f), NEW t, t.ns = None, NEW at, t.ips = {at}, NEW r,
           \A d \in r.ports : Trace!PortOK(d, FALSE)
    PROVE  Told(Trace!RuleMatch(Trace!GatewayRule(r), t, f.proto, f.port), EgressHolds(x, r, t, f))
<1> DEFINE ds == {Trace!DecodePort(d, "TCP") : d \in r.ports}
           S == {Trace!PeerMatch(p, t) : p \in {GatewayPeer(r)}}
           a == Trace!AnyOf(S)
           b == IF ds = {} THEN "yes" ELSE Trace!AnyOf({Trace!PortMatch(p, f.proto, f.port) : p \in ds})
           some == Trace!GatewayHolds(x, r, t)
           ports == Trace!PortsHold(x, r.ports, f)
<1>1. Trace!RuleMatch(Trace!GatewayRule(r), t, f.proto, f.port) = Trace!AllOf({a, b})
    BY DEF Trace!RuleMatch, Trace!GatewayRule, Trace!Rule, GatewayPeer
<1>2. Told(Trace!PeerMatch(GatewayPeer(r), t), some)
    BY GatewayPeerTold
<1>3. S = {Trace!PeerMatch(GatewayPeer(r), t)}
    OBVIOUS
<1>4. Told(b, ports)
    BY PortsTold DEF Default
<1> HIDE DEF ds, S, b, some
<1>5. S \in SUBSET {"yes", "no", "cond"}
    BY <1>2, <1>3 DEF Told
<1>6. Told(a, some)
    <2>1. a \in {"yes", "no", "cond"} /\ (a = "yes" => "yes" \in S) /\ (a = "no" => \A m \in S : m = "no")
        BY <1>5, AnyTold
    <2> HIDE DEF a
    <2> QED
        BY <1>2, <1>3, <2>1 DEF Told
<1>7. EgressHolds(x, r, t, f) <=> ports /\ some
    BY DEF EgressHolds, some
<1> HIDE DEF a, ports
<1>8. a \in {"yes", "no", "cond"} /\ b \in {"yes", "no", "cond"}
    BY <1>4, <1>6 DEF Told
<1>9. /\ Trace!AllOf({a, b}) \in {"yes", "no", "cond"}
      /\ Trace!AllOf({a, b}) = "yes" <=> a = "yes" /\ b = "yes"
      /\ Trace!AllOf({a, b}) = "no" <=> a = "no" \/ b = "no"
    BY <1>8, AllTold
<1> QED
    BY <1>1, <1>4, <1>6, <1>7, <1>9 DEF Told

--------------------------------------------------------------------------------
(* The order of the lines.                                                 *)
DocLines(ds, dir) == UNION {{d} \X DOMAIN d[dir] : d \in {e \in ds : e[dir] # None}}

Earlier(g, h) ==
    \/ g[1].priority < h[1].priority
    \/ g[1].priority = h[1].priority /\ g[1].rank < h[1].rank
    \/ g[1].priority = h[1].priority /\ g[1].rank = h[1].rank /\ g[2] < h[2]

Placed(h) == h[1].priority \in Nat /\ h[1].rank \in Nat /\ h[2] \in Nat

LEMMA Topmost ==
    ASSUME NEW S, S # {}, \A h \in S : Placed(h)
    PROVE  \E h \in S : \A g \in S : ~Earlier(g, h)
<1> DEFINE P == {h[1].priority : h \in S}
<1>1. P \in SUBSET Nat /\ P # {}
    BY DEF Placed
<1>2. PICK p \in P : \A q \in P : p <= q
    BY <1>1, Smallest
<1> DEFINE S1 == {h \in S : h[1].priority = p}
           R == {h[1].rank : h \in S1}
<1>3. R \in SUBSET Nat /\ R # {}
    BY <1>2 DEF Placed
<1>4. PICK r \in R : \A q \in R : r <= q
    BY <1>3, Smallest
<1> DEFINE S2 == {h \in S1 : h[1].rank = r}
           I == {h[2] : h \in S2}
<1>5. I \in SUBSET Nat /\ I # {}
    BY <1>4 DEF Placed
<1>6. PICK i \in I : \A q \in I : i <= q
    BY <1>5, Smallest
<1>7. PICK h \in S2 : h[2] = i
    BY <1>6
<1>8. h \in S /\ h[1].priority = p /\ h[1].rank = r /\ h[2] = i
    BY <1>7
<1>9. ASSUME NEW g \in S, Earlier(g, h) PROVE FALSE
    <2>1. Placed(g) /\ Placed(h)
        BY <1>8
    <2>2. p <= g[1].priority
        BY <1>2
    <2>3. g[1].priority = p => r <= g[1].rank
        BY <1>4
    <2>4. g[1].priority = p /\ g[1].rank = r => i <= g[2]
        BY <1>6
    <2> QED
        BY <1>8, <1>9, <2>1, <2>2, <2>3, <2>4 DEF Earlier, Placed
<1> QED
    BY <1>8, <1>9

(* Different policies of a tier have different names.                      *)
Ranked(ds) ==
    /\ \A d \in ds : Trace!DocOK(d)
    /\ \A d, e \in ds : d # e => d.rank # e.rank

First(hits, h) ==
    \A g \in hits :
        IF h[1] = g[1] THEN h[2] <= g[2]
        ELSE IF h[1].priority = g[1].priority THEN h[1].rank < g[1].rank
        ELSE h[1].priority < g[1].priority

LEMMA LineOf ==
    ASSUME NEW ds, Ranked(ds), NEW dir \in Trace!Directions, NEW h \in DocLines(ds, dir)
    PROVE  /\ h[1] \in ds /\ h[1][dir] # None /\ h[2] \in DOMAIN h[1][dir] /\ h = <<h[1], h[2]>>
           /\ Placed(h)
<1>1. h[1] \in ds /\ h[1][dir] # None /\ h[2] \in DOMAIN h[1][dir] /\ h = <<h[1], h[2]>>
    BY DEF DocLines
<1>2. DOMAIN h[1][dir] \subseteq Nat
    BY <1>1 DEF Ranked, Trace!DocOK
<1> QED
    BY <1>1, <1>2 DEF Placed, Ranked, Trace!DocOK

LEMMA FirstOf ==
    ASSUME NEW ds, Ranked(ds), NEW dir \in Trace!Directions, NEW hits \in SUBSET DocLines(ds, dir), hits # {}
    PROVE  \E h \in hits : First(hits, h) /\ Trace!ActionOf(hits, dir) = h[1][dir][h[2]].action
<1>1. \A h \in hits : Placed(h) /\ h[1] \in ds
    BY LineOf
<1>2. PICK h \in hits : \A g \in hits : ~Earlier(g, h)
    BY <1>1, Topmost
<1>3. First(hits, h)
    <2> SUFFICES ASSUME NEW g \in hits
                 PROVE  IF h[1] = g[1] THEN h[2] <= g[2]
                        ELSE IF h[1].priority = g[1].priority THEN h[1].rank < g[1].rank
                        ELSE h[1].priority < g[1].priority
        BY DEF First
    <2>1. Placed(h) /\ Placed(g) /\ ~Earlier(g, h)
        BY <1>1, <1>2
    <2>2. h[1] # g[1] => h[1].rank # g[1].rank
        BY <1>1 DEF Ranked
    <2> QED
        BY <2>1, <2>2 DEF Placed, Earlier
<1> DEFINE f == CHOOSE k \in hits : First(hits, k)
<1>4. f \in hits /\ First(hits, f)
    BY <1>2, <1>3
<1>5. f = CHOOSE k \in hits : \A g \in hits :
                    IF k[1] = g[1] THEN k[2] <= g[2]
                    ELSE IF k[1].priority = g[1].priority THEN k[1].rank < g[1].rank
                    ELSE k[1].priority < g[1].priority
    BY DEF First
<1> HIDE DEF f
<1>6. Trace!ActionOf(hits, dir) = f[1][dir][f[2]].action
    BY <1>5 DEF Trace!ActionOf
<1> QED
    BY <1>4, <1>6

LEMMA FirstIsEarlier ==
    ASSUME NEW ds, Ranked(ds), NEW dir \in Trace!Directions, NEW hits \in SUBSET DocLines(ds, dir),
           NEW h \in hits, First(hits, h), NEW g \in hits, g # h
    PROVE  Earlier(h, g)
<1>1. /\ Placed(h) /\ h = <<h[1], h[2]>> /\ h[1] \in ds
      /\ Placed(g) /\ g = <<g[1], g[2]>> /\ g[1] \in ds
    BY LineOf
<1>2. CASE h[1] = g[1]
    <2>1. h[2] # g[2]
        BY <1>1, <1>2
    <2>2. h[2] <= g[2]
        BY <1>2 DEF First
    <2> QED
        BY <1>1, <1>2, <2>1, <2>2 DEF Earlier, Placed
<1>3. CASE h[1] # g[1]
    BY <1>1, <1>3 DEF First, Earlier, Placed
<1> QED
    BY <1>2, <1>3

RuleOf(d, r) ==
    CASE d.kind = "netpol" -> Trace!NetpolRule(r, d.ns)
      [] d.kind = "gateway" -> Trace!GatewayRule(r)
      [] OTHER -> Trace!AdminRule(r)

LEMMA DecodedRules ==
    ASSUME NEW d, NEW dir \in Trace!Directions, Trace!DocOK(d)
    PROVE  LET p == Trace!Decoded(d)
           IN  /\ p.subject = d.subject /\ p.priority = d.priority /\ p.rank = d.rank
               /\ p.key = Trace!Key(d)
               /\ p.deny = IF d.kind = "netpol" THEN Trace!NetpolTypes(d) ELSE {}
               /\ d[dir] = None => DOMAIN p.rules[dir] = {}
               /\ d[dir] # None =>
                     /\ DOMAIN p.rules[dir] = DOMAIN d[dir]
                     /\ \A i \in DOMAIN d[dir] : /\ p.rules[dir][i] = RuleOf(d, d[dir][i])
                                                  /\ RuleOf(d, d[dir][i]).action = d[dir][i].action
<1> DEFINE p == Trace!Decoded(d)
<1>1. /\ p.subject = d.subject /\ p.priority = d.priority /\ p.rank = d.rank
      /\ p.key = Trace!Key(d) /\ p.deny = IF d.kind = "netpol" THEN Trace!NetpolTypes(d) ELSE {}
    BY DEF Trace!Decoded
<1>2. p.rules[dir] = IF d[dir] = None THEN <<>> ELSE [i \in DOMAIN d[dir] |-> RuleOf(d, d[dir][i])]
    BY DEF Trace!Decoded, Trace!Section, RuleOf
<1>3. d[dir] = None => DOMAIN p.rules[dir] = {}
    BY <1>2
<1>4. ASSUME d[dir] # None, NEW i \in DOMAIN d[dir]
      PROVE  RuleOf(d, d[dir][i]).action = d[dir][i].action
    <2>1. Trace!RuleOK(d.kind, d[dir][i])
        BY <1>4 DEF Trace!DocOK
    <2>2. d.kind = "netpol" => d[dir][i].action = "Allow"
        BY <2>1 DEF Trace!RuleOK
    <2> QED
        BY <2>2 DEF RuleOf, Trace!NetpolRule, Trace!GatewayRule, Trace!AdminRule, Trace!Rule
<1>5. d[dir] # None => /\ DOMAIN p.rules[dir] = DOMAIN d[dir]
                       /\ \A i \in DOMAIN d[dir] : p.rules[dir][i] = RuleOf(d, d[dir][i])
    BY <1>2
<1> HIDE DEF p
<1>6. /\ p.subject = d.subject /\ p.priority = d.priority /\ p.rank = d.rank
      /\ p.key = Trace!Key(d)
      /\ p.deny = IF d.kind = "netpol" THEN Trace!NetpolTypes(d) ELSE {}
      /\ d[dir] = None => DOMAIN p.rules[dir] = {}
      /\ d[dir] # None =>
            /\ DOMAIN p.rules[dir] = DOMAIN d[dir]
            /\ \A i \in DOMAIN d[dir] : /\ p.rules[dir][i] = RuleOf(d, d[dir][i])
                                         /\ RuleOf(d, d[dir][i]).action = d[dir][i].action
    BY <1>1, <1>3, <1>4, <1>5
<1> QED
    BY <1>6 DEF p

(* What is bound of the policies ds, and what a line of theirs says.       *)
BoundOf(d, nsLabels, labels) ==
    [pol |-> Trace!Decoded(d), m |-> Trace!SubjectMatch(d.subject, nsLabels, labels)]

LEMMA BindOf ==
    ASSUME NEW ds, Ranked(ds), NEW nsLabels, NEW labels
    PROVE  Trace!Bind(ds, nsLabels, labels) =
               {BoundOf(d, nsLabels, labels) :
                   d \in {e \in ds : Trace!SubjectMatch(e.subject, nsLabels, labels) # "no"}}
<1>1. \A d \in ds : Trace!Decoded(d).subject = d.subject
    BY DecodedRules DEF Ranked, Trace!Directions
<1> DEFINE binds(p) == [pol |-> p, m |-> Trace!SubjectMatch(p.subject, nsLabels, labels)]
<1>2. \A d \in ds : binds(Trace!Decoded(d)) = BoundOf(d, nsLabels, labels)
    BY <1>1 DEF BoundOf
<1>3. Trace!Bind(ds, nsLabels, labels) = {b \in {binds(Trace!Decoded(d)) : d \in ds} : b.m # "no"}
    BY DEF Trace!Bind
<1>4. \A d : BoundOf(d, nsLabels, labels).m = Trace!SubjectMatch(d.subject, nsLabels, labels)
    BY DEF BoundOf
<1> HIDE DEF binds
<1> QED
    BY <1>2, <1>3, <1>4

Says(h, nsLabels, labels, counts, t, proto, port, dir) ==
    LET subject == Trace!SubjectMatch(h[1].subject, nsLabels, labels)
        rule    == Trace!RuleMatch(RuleOf(h[1], h[1][dir][h[2]]), t, proto, port)
    IN  IF subject = "no" THEN "no" ELSE Trace!AllOf({rule} \union IF counts THEN {subject} ELSE {})

LineAt(h, nsLabels, labels) == <<BoundOf(h[1], nsLabels, labels), h[2]>>

(* The lines of a tier are the rules of the policies that may bind.        *)
LEMMA LinesOf ==
    ASSUME NEW ds, Ranked(ds), NEW nsLabels, NEW labels, NEW dir \in Trace!Directions
    PROVE  Trace!Lines(Trace!Bind(ds, nsLabels, labels), dir) =
               {LineAt(h, nsLabels, labels) :
                   h \in {g \in DocLines(ds, dir) : Trace!SubjectMatch(g[1].subject, nsLabels, labels) # "no"}}
<1> DEFINE B(d) == BoundOf(d, nsLabels, labels)
           m(d) == Trace!SubjectMatch(d.subject, nsLabels, labels)
           bound == Trace!Bind(ds, nsLabels, labels)
           some == {g \in DocLines(ds, dir) : m(g[1]) # "no"}
<1>1. bound = {B(d) : d \in {e \in ds : m(e) # "no"}}
    BY BindOf
<1>2. ASSUME NEW d \in ds
      PROVE  /\ d[dir] # None => DOMAIN B(d).pol.rules[dir] = DOMAIN d[dir]
             /\ d[dir] = None => DOMAIN B(d).pol.rules[dir] = {}
    <2>1. B(d).pol = Trace!Decoded(d) /\ Trace!DocOK(d)
        BY DEF BoundOf, Ranked
    <2> QED
        BY <2>1, DecodedRules
<1> HIDE DEF B, m, bound
<1>3. ASSUME NEW l \in Trace!Lines(bound, dir) PROVE \E h \in some : l = <<B(h[1]), h[2]>>
    <2>1. PICK b \in bound : l \in {b} \X DOMAIN b.pol.rules[dir]
        BY DEF Trace!Lines
    <2>2. PICK d \in ds : m(d) # "no" /\ b = B(d)
        BY <1>1, <2>1
    <2>3. l[2] \in DOMAIN b.pol.rules[dir] /\ l = <<b, l[2]>>
        BY <2>1
    <2>4. d[dir] # None /\ l[2] \in DOMAIN d[dir]
        BY <1>2, <2>2, <2>3
    <2> DEFINE h == <<d, l[2]>>
    <2>5. h \in DocLines(ds, dir) /\ h[1] = d /\ h[2] = l[2]
        BY <2>4 DEF DocLines
    <2> HIDE DEF h
    <2> QED
        BY <2>2, <2>3, <2>5
<1>4. ASSUME NEW h \in some PROVE <<B(h[1]), h[2]>> \in Trace!Lines(bound, dir)
    <2>1. h[1] \in ds /\ h[1][dir] # None /\ h[2] \in DOMAIN h[1][dir] /\ m(h[1]) # "no"
        BY LineOf
    <2>2. B(h[1]) \in bound /\ h[2] \in DOMAIN B(h[1]).pol.rules[dir]
        BY <1>1, <1>2, <2>1
    <2> QED
        BY <2>2 DEF Trace!Lines
<1>5. Trace!Lines(bound, dir) = {<<B(h[1]), h[2]>> : h \in some}
    <2> HIDE DEF some
    <2> QED
        BY <1>3, <1>4
<1> QED
    BY <1>5 DEF B, m, bound, LineAt

LEMMA LineSays ==
    ASSUME NEW ds, Ranked(ds), NEW nsLabels, NEW labels, NEW dir \in Trace!Directions, NEW h \in DocLines(ds, dir)
    PROVE  LET l == LineAt(h, nsLabels, labels)
           IN  /\ l[1].pol.rules[dir][l[2]] = RuleOf(h[1], h[1][dir][h[2]])
               /\ l[1].pol.rules[dir][l[2]].action = h[1][dir][h[2]].action
               /\ l[1].m = Trace!SubjectMatch(h[1].subject, nsLabels, labels)
               /\ \A g \in DocLines(ds, dir) : Earlier(h, g) <=> Trace!Above(l, LineAt(g, nsLabels, labels))
<1> DEFINE l == LineAt(h, nsLabels, labels)
<1>1. ASSUME NEW g \in DocLines(ds, dir)
      PROVE  LET k == LineAt(g, nsLabels, labels)
             IN  /\ k[1].pol = Trace!Decoded(g[1]) /\ k[2] = g[2]
                 /\ k[1].m = Trace!SubjectMatch(g[1].subject, nsLabels, labels)
                 /\ k[1].pol.priority = g[1].priority /\ k[1].pol.rank = g[1].rank
                 /\ k[1].pol.rules[dir][k[2]] = RuleOf(g[1], g[1][dir][g[2]])
                 /\ RuleOf(g[1], g[1][dir][g[2]]).action = g[1][dir][g[2]].action
    <2> DEFINE k == LineAt(g, nsLabels, labels)
    <2>1. /\ k[1].pol = Trace!Decoded(g[1]) /\ k[2] = g[2]
          /\ k[1].m = Trace!SubjectMatch(g[1].subject, nsLabels, labels)
        BY DEF LineAt, BoundOf
    <2>2. g[1] \in ds /\ g[1][dir] # None /\ g[2] \in DOMAIN g[1][dir] /\ Trace!DocOK(g[1])
        BY LineOf DEF Ranked
    <2>3. LET p == Trace!Decoded(g[1])
          IN  /\ p.priority = g[1].priority /\ p.rank = g[1].rank
              /\ p.rules[dir][g[2]] = RuleOf(g[1], g[1][dir][g[2]])
              /\ RuleOf(g[1], g[1][dir][g[2]]).action = g[1][dir][g[2]].action
        BY <2>2, DecodedRules
    <2> HIDE DEF k
    <2>4. /\ k[1].pol = Trace!Decoded(g[1]) /\ k[2] = g[2]
          /\ k[1].m = Trace!SubjectMatch(g[1].subject, nsLabels, labels)
          /\ k[1].pol.priority = g[1].priority /\ k[1].pol.rank = g[1].rank
          /\ k[1].pol.rules[dir][k[2]] = RuleOf(g[1], g[1][dir][g[2]])
          /\ RuleOf(g[1], g[1][dir][g[2]]).action = g[1][dir][g[2]].action
        BY <2>1, <2>3
    <2> QED
        BY <2>4 DEF k
<1>2. ASSUME NEW g \in DocLines(ds, dir) PROVE Earlier(h, g) <=> Trace!Above(l, LineAt(g, nsLabels, labels))
    <2> DEFINE k == LineAt(g, nsLabels, labels)
    <2>1. /\ k[1].pol.priority = g[1].priority /\ k[1].pol.rank = g[1].rank /\ k[2] = g[2]
          /\ l[1].pol.priority = h[1].priority /\ l[1].pol.rank = h[1].rank /\ l[2] = h[2]
        BY <1>1
    <2> HIDE DEF k, l
    <2>2. Earlier(h, g) <=> Trace!Above(l, k)
        BY <2>1 DEF Earlier, Trace!Above
    <2> QED
        BY <2>2 DEF k, l
<1>3. /\ l[1].pol.rules[dir][l[2]] = RuleOf(h[1], h[1][dir][h[2]])
      /\ l[1].pol.rules[dir][l[2]].action = h[1][dir][h[2]].action
      /\ l[1].m = Trace!SubjectMatch(h[1].subject, nsLabels, labels)
    BY <1>1
<1> HIDE DEF l
<1>4. /\ l[1].pol.rules[dir][l[2]] = RuleOf(h[1], h[1][dir][h[2]])
      /\ l[1].pol.rules[dir][l[2]].action = h[1][dir][h[2]].action
      /\ l[1].m = Trace!SubjectMatch(h[1].subject, nsLabels, labels)
      /\ \A g \in DocLines(ds, dir) : Earlier(h, g) <=> Trace!Above(l, LineAt(g, nsLabels, labels))
    BY <1>2, <1>3
<1> QED
    BY <1>4 DEF l

Acted(h, dir) == h[1][dir][h[2]].action

(* A tier stops at the first line that says yes, with those above it that  *)
(* may match left open.                                                    *)
LEMMA TierOf ==
    ASSUME NEW ds, Ranked(ds), NEW nsLabels, NEW labels, NEW dir \in Trace!Directions,
           NEW counts \in BOOLEAN, NEW t, NEW proto, NEW port, NEW carried
    PROVE  LET T == Trace!Tier(Trace!Bind(ds, nsLabels, labels), dir, counts, t, proto, port, carried)
               say(h) == Says(h, nsLabels, labels, counts, t, proto, port, dir)
               L == DocLines(ds, dir)
           IN  \/ /\ \A h \in L : say(h) # "yes"
                  /\ T.action = None /\ T.open = carried \union {Acted(h, dir) : h \in {g \in L : say(g) = "cond"}}
               \/ \E s \in L : /\ say(s) = "yes" /\ \A h \in L : say(h) = "yes" => ~Earlier(h, s)
                              /\ T.action = Acted(s, dir)
                              /\ T.open = carried \union
                                     {Acted(h, dir) : h \in {g \in L : say(g) = "cond" /\ Earlier(g, s)}}
<1> DEFINE bound == Trace!Bind(ds, nsLabels, labels)
           T == Trace!Tier(bound, dir, counts, t, proto, port, carried)
           say(h) == Says(h, nsLabels, labels, counts, t, proto, port, dir)
           L == DocLines(ds, dir)
           at(h) == LineAt(h, nsLabels, labels)
           rule(l)   == l[1].pol.rules[dir][l[2]]
           match(l)  == Trace!AllOf({Trace!RuleMatch(rule(l), t, proto, port)} \union IF counts THEN {l[1].m} ELSE {})
           action(l) == rule(l).action
           lines == Trace!Lines(bound, dir)
           sure  == {l \in lines : match(l) = "yes"}
           stop  == CHOOSE l \in sure : \A k \in sure : ~Trace!Above(k, l)
           above == {l \in lines : match(l) = "cond" /\ (sure # {} => Trace!Above(l, stop))}
<1>1. T = [action |-> IF sure = {} THEN None ELSE action(stop), open |-> carried \union {action(l) : l \in above}]
    BY DEF Trace!Tier
<1>2. lines = {at(h) : h \in {g \in L : Trace!SubjectMatch(g[1].subject, nsLabels, labels) # "no"}}
    BY LinesOf
<1>3. ASSUME NEW h \in L
      PROVE  /\ action(at(h)) = Acted(h, dir)
             /\ say(h) = IF Trace!SubjectMatch(h[1].subject, nsLabels, labels) = "no" THEN "no" ELSE match(at(h))
             /\ \A g \in L : Earlier(h, g) <=> Trace!Above(at(h), at(g))
    <2>1. /\ rule(at(h)) = RuleOf(h[1], h[1][dir][h[2]])
          /\ rule(at(h)).action = h[1][dir][h[2]].action
          /\ at(h)[1].m = Trace!SubjectMatch(h[1].subject, nsLabels, labels)
          /\ \A g \in L : Earlier(h, g) <=> Trace!Above(at(h), at(g))
        BY LineSays
    <2> HIDE DEF at
    <2> QED
        BY <2>1 DEF Says, Acted
<1>4. \A h \in L : Placed(h)
    BY LineOf
<1> HIDE DEF T, say, L, at, rule, match, action, lines
<1>5. sure = {at(h) : h \in {g \in L : say(g) = "yes"}}
    BY <1>2, <1>3
<1>6. CASE \A h \in L : say(h) # "yes"
    <2>1. sure = {}
        BY <1>5, <1>6
    <2>2. above = {at(h) : h \in {g \in L : say(g) = "cond"}}
        BY <1>2, <1>3, <2>1
    <2> HIDE DEF sure, above
    <2>3. {action(l) : l \in above} = {Acted(h, dir) : h \in {g \in L : say(g) = "cond"}}
        BY <1>3, <2>2
    <2>4. T.action = None /\ T.open = carried \union {action(l) : l \in above}
        BY <1>1, <2>1
    <2>5. T.action = None /\ T.open = carried \union {Acted(h, dir) : h \in {g \in L : say(g) = "cond"}}
        BY <2>3, <2>4
    <2> QED
        BY <1>6, <2>5 DEF T, say, L
<1>7. CASE \E h \in L : say(h) = "yes"
    <2> DEFINE Y == {h \in L : say(h) = "yes"}
    <2>1. PICK first \in Y : \A g \in Y : ~Earlier(g, first)
        <3>1. Y # {} /\ \A h \in Y : Placed(h)
            BY <1>4, <1>7
        <3> HIDE DEF Y
        <3> QED
            BY <3>1, Topmost
    <2>2. at(first) \in sure /\ \A k \in sure : ~Trace!Above(k, at(first))
        BY <1>3, <1>5, <2>1
    <2>3. stop \in sure /\ \A k \in sure : ~Trace!Above(k, stop)
        <3> HIDE DEF sure
        <3> QED
            BY <2>2
    <2>4. PICK s \in L : say(s) = "yes" /\ stop = at(s)
        <3> HIDE DEF stop
        <3> QED
            BY <1>5, <2>3
    <2> HIDE DEF stop
    <2>5. \A h \in L : say(h) = "yes" => ~Earlier(h, s)
        BY <1>3, <1>5, <2>3, <2>4
    <2>6. above = {at(h) : h \in {g \in L : say(g) = "cond" /\ Earlier(g, s)}}
        <3>1. sure # {}
            BY <2>2
        <3> HIDE DEF sure
        <3> QED
            BY <1>2, <1>3, <2>4, <3>1
    <2> HIDE DEF sure, above
    <2>7. {action(l) : l \in above} = {Acted(h, dir) : h \in {g \in L : say(g) = "cond" /\ Earlier(g, s)}}
        BY <1>3, <2>6
    <2>8. T.action = action(stop) /\ T.open = carried \union {action(l) : l \in above}
        BY <1>1, <2>2
    <2>9. T.action = Acted(s, dir)
        BY <1>3, <2>4, <2>8
    <2>10. T.open = carried \union {Acted(h, dir) : h \in {g \in L : say(g) = "cond" /\ Earlier(g, s)}}
        BY <2>7, <2>8
    <2> QED
        BY <2>4, <2>5, <2>9, <2>10 DEF T, say, L
<1> QED
    BY <1>6, <1>7

Tells(ds, nsLabels, labels, dir, counts, t, proto, port, hits) ==
    /\ hits \subseteq DocLines(ds, dir)
    /\ \A h \in DocLines(ds, dir) :
          Told(Says(h, nsLabels, labels, counts, t, proto, port, dir), h \in hits)

Answers(T, ds, dir, hits, carried) ==
    /\ carried \subseteq T.open
    /\ Trace!ActionOf(hits, dir) = T.action \/ Trace!ActionOf(hits, dir) \in T.open
    /\ \A a \in T.open \ carried : \E h \in DocLines(ds, dir) : a = Acted(h, dir)
    /\ T.action = None \/ \E h \in DocLines(ds, dir) : T.action = Acted(h, dir)

(* What the first of the hits does is what the tier says, or is left open. *)
LEMMA TierTold ==
    ASSUME NEW ds, Ranked(ds), NEW nsLabels, NEW labels, NEW dir \in Trace!Directions,
           NEW counts \in BOOLEAN, NEW t, NEW proto, NEW port, NEW carried,
           NEW hits, Tells(ds, nsLabels, labels, dir, counts, t, proto, port, hits)
    PROVE  Answers(Trace!Tier(Trace!Bind(ds, nsLabels, labels), dir, counts, t, proto, port, carried),
                   ds, dir, hits, carried)
<1> DEFINE T == Trace!Tier(Trace!Bind(ds, nsLabels, labels), dir, counts, t, proto, port, carried)
           say(h) == Says(h, nsLabels, labels, counts, t, proto, port, dir)
           L == DocLines(ds, dir)
           truth == Trace!ActionOf(hits, dir)
<1>1. \/ /\ \A h \in L : say(h) # "yes"
         /\ T.action = None /\ T.open = carried \union {Acted(h, dir) : h \in {g \in L : say(g) = "cond"}}
      \/ \E s \in L : /\ say(s) = "yes" /\ \A h \in L : say(h) = "yes" => ~Earlier(h, s)
                     /\ T.action = Acted(s, dir)
                     /\ T.open = carried \union
                            {Acted(h, dir) : h \in {g \in L : say(g) = "cond" /\ Earlier(g, s)}}
    BY TierOf
<1>2. hits \subseteq L /\ \A h \in L : Told(say(h), h \in hits)
    BY DEF Tells
<1>3. hits = {} => truth = None
    BY DEF Trace!ActionOf
<1>4. hits # {} => \E h \in hits : /\ truth = Acted(h, dir)
                                    /\ \A g \in hits : g # h => Earlier(h, g)
    <2> SUFFICES ASSUME hits # {}
                 PROVE  \E h \in hits : truth = Acted(h, dir) /\ \A g \in hits : g # h => Earlier(h, g)
        OBVIOUS
    <2>1. PICK h \in hits : First(hits, h) /\ truth = h[1][dir][h[2]].action
        BY <1>2, FirstOf
    <2>2. \A g \in hits : g # h => Earlier(h, g)
        BY <1>2, <2>1, FirstIsEarlier
    <2> QED
        BY <2>1, <2>2 DEF Acted
<1> HIDE DEF T, say, L, truth
<1>5. hits \subseteq L
    BY <1>2
<1>6. truth = T.action \/ truth \in T.open
    <2>1. CASE hits = {}
        <3>1. \A h \in L : say(h) # "yes"
            BY <1>2, <2>1 DEF Told
        <3> QED
            BY <1>1, <1>3, <2>1, <3>1
    <2>2. CASE hits # {}
        <3>1. PICK h \in hits : truth = Acted(h, dir) /\ \A g \in hits : g # h => Earlier(h, g)
            BY <1>4, <2>2
        <3>2. h \in L /\ say(h) \in {"yes", "cond"}
            BY <1>2, <1>5 DEF Told
        <3>3. CASE \A g \in L : say(g) # "yes"
            <4>1. T.open = carried \union {Acted(g, dir) : g \in {k \in L : say(k) = "cond"}}
                BY <1>1, <3>3
            <4> QED
                BY <3>1, <3>2, <3>3, <4>1
        <3>4. CASE ~\A g \in L : say(g) # "yes"
            <4>1. PICK s \in L : /\ say(s) = "yes" /\ \A g \in L : say(g) = "yes" => ~Earlier(g, s)
                                 /\ T.action = Acted(s, dir)
                                 /\ T.open = carried \union
                                        {Acted(g, dir) : g \in {k \in L : say(k) = "cond" /\ Earlier(k, s)}}
                BY <1>1, <3>4
            <4>2. s \in hits
                BY <1>2, <4>1 DEF Told
            <4>3. CASE h = s
                BY <3>1, <4>1, <4>3
            <4>4. CASE h # s
                <5>1. Earlier(h, s)
                    BY <3>1, <4>2, <4>4
                <5>2. say(h) = "cond"
                    BY <3>2, <4>1, <5>1
                <5> QED
                    BY <3>1, <3>2, <4>1, <5>1, <5>2
            <4> QED
                BY <4>3, <4>4
        <3> QED
            BY <3>3, <3>4
    <2> QED
        BY <2>1, <2>2
<1>7. /\ carried \subseteq T.open
      /\ \A a \in T.open \ carried : \E h \in L : a = Acted(h, dir)
      /\ T.action = None \/ \E h \in L : T.action = Acted(h, dir)
    BY <1>1
<1> QED
    BY <1>6, <1>7 DEF Answers, T, L, truth

--------------------------------------------------------------------------------
(* The stores hold one object of a name.                                   *)
Held ==
    /\ objects \subseteq Docs
    /\ \A d, e \in objects : Trace!Key(d) = Trace!Key(e) => d = e

LEMMA HeldRanked ==
    ASSUME Trace!TraceAssumption, Held, NEW ds \in SUBSET objects, NEW kind, NEW ns,
           kind \in {"anp", "banp", "netpol", "gateway"}, \A d \in ds : d.kind = kind /\ d.ns = ns
    PROVE  Ranked(ds)
<1>1. \A d \in ds : d \in Docs /\ Trace!DocOK(d)
    BY DEF Held, Trace!TraceAssumption
<1>2. ASSUME NEW d \in ds, NEW e \in ds, d # e PROVE d.rank # e.rank
    <2>1. Trace!Key(d) # Trace!Key(e)
        BY <1>2 DEF Held
    <2>2. d.name # e.name
        BY <2>1 DEF Trace!Key
    <2>3. d \in Docs /\ e \in Docs /\ d.kind = kind /\ e.kind = kind /\ d.ns = ns /\ e.ns = ns
        BY <1>1
    <2> QED
        BY <2>2, <2>3 DEF Trace!TraceAssumption
<1> QED
    BY <1>1, <1>2 DEF Ranked

LEMMA RuleAt ==
    ASSUME NEW ds, Ranked(ds), NEW dir \in Trace!Directions, NEW h \in DocLines(ds, dir)
    PROVE  Trace!RuleOK(h[1].kind, h[1][dir][h[2]])
BY LineOf DEF Ranked, Trace!DocOK

(* One policy tier, for a VM's side of a flow.                             *)
AdminTruth(kind, x, dir, w, t, f) ==
    Trace!FirstAction({d \in objects : d.kind = kind /\ Trace!Selects(x, d, w)}, dir,
        LAMBDA r : Trace!PortsHold(x, r.ports, f) /\ \E p \in r.peers : Trace!AdminPeerHolds(x, p, t))

LEMMA AdminTierTold ==
    ASSUME Trace!TraceAssumption, Held, NEW kind \in {"anp", "banp"}, NEW w, w.labels # None,
           NEW dir \in Trace!Directions, NEW t, NEW f, NEW x, Agrees(x, f), NEW carried
    PROVE  LET T == Trace!Tier(Trace!Bind(Trace!Of(kind), w.nsLabels, w.labels), dir, TRUE, t, f.proto, f.port, carried)
               truth == AdminTruth(kind, x, dir, w, t, f)
               actions == {"Allow", "Deny"} \union IF kind = "anp" THEN {"Pass"} ELSE {}
           IN  /\ carried \subseteq T.open /\ T.open \subseteq carried \union actions
               /\ T.action \in {None} \union actions
               /\ truth = T.action \/ truth \in T.open
<1> DEFINE ds == Trace!Of(kind)
           T == Trace!Tier(Trace!Bind(ds, w.nsLabels, w.labels), dir, TRUE, t, f.proto, f.port, carried)
           truth == AdminTruth(kind, x, dir, w, t, f)
           actions == {"Allow", "Deny"} \union IF kind = "anp" THEN {"Pass"} ELSE {}
           L == DocLines(ds, dir)
           hits == {h \in L : Trace!Selects(x, h[1], w) /\ AdminHolds(x, h[1][dir][h[2]], t, f)}
           say(h) == Says(h, w.nsLabels, w.labels, TRUE, t, f.proto, f.port, dir)
<1>1. Ranked(ds)
    <2>1. ds \in SUBSET objects /\ \A d \in ds : d.kind = kind
        BY DEF Trace!Of
    <2>2. \A d \in ds : d.ns = None
        BY <2>1 DEF Held, Trace!TraceAssumption, Trace!DocOK
    <2> HIDE DEF ds
    <2> QED
        BY <2>1, <2>2, HeldRanked
<1>2. truth = Trace!ActionOf(hits, dir)
    <2> DEFINE some == {d \in objects : d.kind = kind /\ Trace!Selects(x, d, w)}
               lines == {h \in UNION {{d} \X DOMAIN d[dir] : d \in {e \in some : e[dir] # None}} :
                             AdminHolds(x, h[1][dir][h[2]], t, f)}
    <2>1. truth = Trace!ActionOf(lines, dir)
        BY DEF AdminTruth, Trace!FirstAction, AdminHolds
    <2>2. lines = hits
        BY DEF DocLines, Trace!Of
    <2> QED
        BY <2>1, <2>2
<1>3. ASSUME NEW h \in L PROVE Told(say(h), h \in hits)
    <2> DEFINE r == h[1][dir][h[2]]
               subject == Trace!SubjectMatch(h[1].subject, w.nsLabels, w.labels)
               rule == Trace!RuleMatch(RuleOf(h[1], r), t, f.proto, f.port)
               selects == Trace!Selects(x, h[1], w)
               holds == AdminHolds(x, r, t, f)
    <2>1. Told(subject, selects)
        BY SubjectTold
    <2>2. h[1].kind = kind
        BY <1>1, LineOf DEF Trace!Of
    <2>3. Trace!RuleOK(kind, r)
        BY <1>1, <2>2, RuleAt
    <2>4. RuleOf(h[1], r) = Trace!AdminRule(r)
        BY <2>2 DEF RuleOf
    <2>5. Told(rule, holds)
        BY <2>3, <2>4, AdminRuleTold DEF Trace!RuleOK
    <2>6. selects \in BOOLEAN /\ holds \in BOOLEAN
        BY DEF Trace!Selects, AdminHolds
    <2>7. say(h) = IF subject = "no" THEN "no" ELSE Trace!AllOf({rule, subject})
        <3>1. {rule} \union {subject} = {rule, subject}
            OBVIOUS
        <3> HIDE DEF rule, subject
        <3> QED
            BY <3>1 DEF Says, rule, subject, r
    <2>8. h \in hits <=> selects /\ holds
        OBVIOUS
    <2> HIDE DEF subject, rule, selects, holds, say, hits, r
    <2>9. Told(Trace!AllOf({rule, subject}), selects /\ holds)
        BY <2>1, <2>5, <2>6, BothTold
    <2>10. CASE subject = "no"
        BY <2>1, <2>7, <2>8, <2>10 DEF Told
    <2>11. CASE subject # "no"
        BY <2>7, <2>8, <2>9, <2>11 DEF Told
    <2> QED
        BY <2>10, <2>11
<1>4. \A h \in L : Acted(h, dir) \in actions
    <2> SUFFICES ASSUME NEW h \in L PROVE Acted(h, dir) \in actions
        OBVIOUS
    <2>1. h[1].kind = kind
        BY <1>1, LineOf DEF Trace!Of
    <2>2. Trace!RuleOK(kind, h[1][dir][h[2]])
        BY <1>1, <2>1, RuleAt
    <2> QED
        BY <2>2 DEF Trace!RuleOK, Acted
<1>5. Tells(ds, w.nsLabels, w.labels, dir, TRUE, t, f.proto, f.port, hits)
    BY <1>3 DEF Tells
<1> HIDE DEF ds, hits, truth
<1>6. /\ carried \subseteq T.open
      /\ Trace!ActionOf(hits, dir) = T.action \/ Trace!ActionOf(hits, dir) \in T.open
      /\ \A a \in T.open \ carried : \E h \in L : a = Acted(h, dir)
      /\ T.action = None \/ \E h \in L : T.action = Acted(h, dir)
    <2>1. Answers(T, ds, dir, hits, carried)
        BY <1>1, <1>5, TierTold
    <2> HIDE DEF T
    <2> QED
        BY <2>1 DEF Answers
<1> HIDE DEF T, L, actions
<1>7. /\ carried \subseteq T.open /\ T.open \subseteq carried \union actions
      /\ T.action \in {None} \union actions
      /\ truth = T.action \/ truth \in T.open
    BY <1>2, <1>4, <1>6
<1> QED
    BY <1>7 DEF T, truth, actions, ds

LEMMA OneTold ==
    ASSUME NEW m \in {"yes", "no", "cond"}
    PROVE  Trace!AllOf({m}) = m
BY DEF Trace!AllOf

(* A line that counts by its rule alone.                                   *)
LEMMA SaysRule ==
    ASSUME NEW h, NEW nsLabels, NEW labels, NEW t, NEW proto, NEW port, NEW dir, NEW rule,
           RuleOf(h[1], h[1][dir][h[2]]) = rule, Trace!RuleMatch(rule, t, proto, port) \in {"yes", "no", "cond"}
    PROVE  Says(h, nsLabels, labels, FALSE, t, proto, port, dir) =
               IF Trace!SubjectMatch(h[1].subject, nsLabels, labels) = "no" THEN "no"
               ELSE Trace!RuleMatch(rule, t, proto, port)
<1> DEFINE subject == Trace!SubjectMatch(h[1].subject, nsLabels, labels)
           match == Trace!RuleMatch(rule, t, proto, port)
           say == Says(h, nsLabels, labels, FALSE, t, proto, port, dir)
<1>1. say = IF subject = "no" THEN "no" ELSE Trace!AllOf({match})
    <2>1. {match} \union {} = {match}
        OBVIOUS
    <2> HIDE DEF match
    <2> QED
        BY <2>1 DEF Says, match
<1> HIDE DEF subject, match, say
<1>2. Trace!AllOf({match}) = match
    BY OneTold DEF match
<1> QED
    BY <1>1, <1>2 DEF subject, match, say

(* The gateway, for what leaves a namespace.                               *)
GatewayFirst(x, ns, t, f) ==
    Trace!FirstAction({d \in objects : d.kind = "gateway" /\ d.ns = ns}, "Egress",
        LAMBDA r : Trace!PortsHold(x, r.ports, f) /\ Trace!GatewayHolds(x, r, t))

LEMMA GatewayTierTold ==
    ASSUME Trace!TraceAssumption, Held, NEW ns, NEW t, t.ns = None, NEW at, t.ips = {at},
           NEW f, NEW x, Agrees(x, f)
    PROVE  LET T == Trace!Tier(Trace!Bind(Trace!Gateways(ns), {}, None), "Egress", FALSE, t, f.proto, f.port, {})
               truth == GatewayFirst(x, ns, t, f)
           IN  /\ T.open \subseteq {"Allow", "Deny"} /\ T.action \in {None, "Allow", "Deny"}
               /\ truth = T.action \/ truth \in T.open
<1> DEFINE ds == Trace!Gateways(ns)
           dir == "Egress"
           T == Trace!Tier(Trace!Bind(ds, {}, None), dir, FALSE, t, f.proto, f.port, {})
           truth == GatewayFirst(x, ns, t, f)
           L == DocLines(ds, dir)
           hits == {h \in L : EgressHolds(x, h[1][dir][h[2]], t, f)}
<1>0. dir \in Trace!Directions
    BY DEF Trace!Directions
<1>1. Ranked(ds)
    <2>1. ds \in SUBSET objects /\ \A d \in ds : d.kind = "gateway" /\ d.ns = ns
        BY DEF Trace!Gateways, Trace!Of
    <2> HIDE DEF ds
    <2> QED
        BY <2>1, HeldRanked
<1>2. truth = Trace!ActionOf(hits, dir)
    <2> DEFINE some == {d \in objects : d.kind = "gateway" /\ d.ns = ns}
               lines == {h \in UNION {{d} \X DOMAIN d[dir] : d \in {e \in some : e[dir] # None}} :
                             EgressHolds(x, h[1][dir][h[2]], t, f)}
    <2>1. truth = Trace!ActionOf(lines, dir)
        BY DEF GatewayFirst, Trace!FirstAction, EgressHolds
    <2>2. lines = hits
        BY DEF DocLines, Trace!Of, Trace!Gateways
    <2> QED
        BY <2>1, <2>2
<1>3. ASSUME NEW h \in L PROVE Told(Says(h, {}, None, FALSE, t, f.proto, f.port, dir), h \in hits)
    <2> DEFINE r == h[1][dir][h[2]]
               subject == Trace!SubjectMatch(h[1].subject, {}, None)
               rule == Trace!GatewayRule(r)
               holds == EgressHolds(x, r, t, f)
               say == Says(h, {}, None, FALSE, t, f.proto, f.port, dir)
    <2>1. h[1].kind = "gateway" /\ Trace!DocOK(h[1])
        BY <1>0, <1>1, LineOf DEF Trace!Gateways, Trace!Of, Ranked
    <2>2. subject = "yes"
        <3>1. ~h[1].subject.none /\ h[1].subject.ns = None /\ h[1].subject.pod = None
            BY <2>1 DEF Trace!DocOK
        <3>2. Trace!SelMatch(None, {}) = "yes" /\ Trace!PodMatch(None, None) = "yes"
            BY DEF Trace!SelMatch, Trace!PodMatch, Trace!TraceAssumption
        <3>3. Trace!AllOf({"yes", "yes"}) = "yes"
            BY DEF Trace!AllOf
        <3> QED
            BY <3>1, <3>2, <3>3 DEF Trace!SubjectMatch
    <2>3. Trace!RuleOK("gateway", r)
        BY <1>0, <1>1, <2>1, RuleAt
    <2>4. RuleOf(h[1], r) = rule
        BY <2>1 DEF RuleOf
    <2>5. Told(Trace!RuleMatch(rule, t, f.proto, f.port), holds)
        <3>1. \A d \in r.ports : Trace!PortOK(d, FALSE)
            BY <2>3 DEF Trace!RuleOK, Trace!PortOK
        <3> HIDE DEF r
        <3> QED
            BY <3>1, GatewayRuleTold
    <2>6. holds \in BOOLEAN
        <3>1. Trace!GatewayHolds(x, r, t) => EgressHolds(x, r, t, f) \in BOOLEAN
            BY DEF EgressHolds
        <3> QED
            BY DEF EgressHolds
    <2>7. h \in hits <=> holds
        OBVIOUS
    <2> HIDE DEF holds, rule, hits
    <2> DEFINE match == Trace!RuleMatch(RuleOf(h[1], r), t, f.proto, f.port)
    <2>8. Told(match, holds)
        BY <2>4, <2>5
    <2>9. say = IF subject = "no" THEN "no" ELSE Trace!AllOf({match} \union {})
        BY DEF Says
    <2> HIDE DEF say, match, subject
    <2>10. Told(say, holds)
        <3>1. match \in {"yes", "no", "cond"} /\ {match} \union {} = {match}
            BY <2>8 DEF Told
        <3>2. Trace!AllOf({match}) = match
            BY <3>1, OneTold
        <3>3. subject # "no"
            BY <2>2
        <3> QED
            BY <2>8, <2>9, <3>1, <3>2, <3>3
    <2>11. Told(say, h \in hits)
        BY <2>7, <2>10 DEF Told
    <2> QED
        BY <2>11 DEF say
<1>4. \A h \in L : Acted(h, dir) \in {"Allow", "Deny"}
    <2> SUFFICES ASSUME NEW h \in L PROVE Acted(h, dir) \in {"Allow", "Deny"}
        OBVIOUS
    <2>1. h[1].kind = "gateway"
        BY <1>0, <1>1, LineOf DEF Trace!Gateways, Trace!Of
    <2>2. Trace!RuleOK("gateway", h[1][dir][h[2]])
        BY <1>0, <1>1, <2>1, RuleAt
    <2> QED
        BY <2>2 DEF Trace!RuleOK, Acted
<1>5. Tells(ds, {}, None, dir, FALSE, t, f.proto, f.port, hits)
    BY <1>3 DEF Tells
<1> HIDE DEF ds, hits, truth, dir
<1>6. /\ Trace!ActionOf(hits, dir) = T.action \/ Trace!ActionOf(hits, dir) \in T.open
      /\ \A a \in T.open : \E h \in L : a = Acted(h, dir)
      /\ T.action = None \/ \E h \in L : T.action = Acted(h, dir)
    <2>1. Answers(T, ds, dir, hits, {})
        BY <1>0, <1>1, <1>5, TierTold
    <2> HIDE DEF T
    <2> QED
        BY <2>1 DEF Answers
<1> HIDE DEF T, L
<1>7. /\ T.open \subseteq {"Allow", "Deny"} /\ T.action \in {None, "Allow", "Deny"}
      /\ truth = T.action \/ truth \in T.open
    BY <1>2, <1>4, <1>6
<1> QED
    BY <1>7 DEF T, truth, ds, dir

--------------------------------------------------------------------------------
(* The network policies that select a VM, as the reference has them.       *)
Selected(x, dir, w) ==
    {d \in objects : /\ d.kind = "netpol" /\ d.ns = w.ns
                     /\ Trace!SelHolds(x, d.subject.pod, w.labels)
                     /\ dir \in (IF d.types # {} THEN d.types
                                 ELSE IF d.Egress = None THEN {"Ingress"} ELSE Trace!Directions)}

Typed(dir, w) == {d \in Trace!Netpols(w.ns) : dir \in Trace!NetpolTypes(d)}

LEMMA TypedRanked ==
    ASSUME Trace!TraceAssumption, Held, NEW dir, NEW w
    PROVE  /\ Ranked(Trace!Netpols(w.ns)) /\ Ranked(Typed(dir, w))
           /\ \A d \in Typed(dir, w) : d \in Trace!Netpols(w.ns)
           /\ \A d \in Trace!Netpols(w.ns) : d.kind = "netpol" /\ d.ns = w.ns /\ Trace!DocOK(d)
<1> DEFINE ds == Trace!Netpols(w.ns)
<1>1. ds \in SUBSET objects /\ \A d \in ds : d.kind = "netpol" /\ d.ns = w.ns
    BY DEF Trace!Netpols, Trace!Of
<1>2. \A d \in Typed(dir, w) : d \in ds
    BY DEF Typed
<1> HIDE DEF ds
<1>3. Ranked(ds)
    BY <1>1, HeldRanked
<1>4. Ranked(Typed(dir, w)) /\ \A d \in ds : Trace!DocOK(d)
    BY <1>2, <1>3 DEF Ranked
<1> QED
    BY <1>1, <1>2, <1>3, <1>4 DEF ds

(* A network policy's pod selector is never rejected, so it tells surely.  *)
LEMMA NetpolSubject ==
    ASSUME Trace!TraceAssumption, NEW x, NEW w, w.labels # None, NEW d, d.kind = "netpol", Trace!DocOK(d)
    PROVE  LET m == Trace!SubjectMatch(d.subject, {}, w.labels)
           IN  m = IF Trace!SelHolds(x, d.subject.pod, w.labels) THEN "yes" ELSE "no"
<1> DEFINE m == Trace!SubjectMatch(d.subject, {}, w.labels)
           pod == Trace!PodMatch(d.subject.pod, w.labels)
           holds == Trace!SelHolds(x, d.subject.pod, w.labels)
<1>1. ~d.subject.none /\ d.subject.ns = None /\ d.subject.pod # Bad
    BY DEF Trace!DocOK
<1>2. Trace!SelMatch(None, {}) = "yes"
    BY DEF Trace!SelMatch, Trace!TraceAssumption
<1>3. m = Trace!AllOf({"yes", pod})
    BY <1>1, <1>2 DEF Trace!SubjectMatch
<1>4. pod \in {"yes", "no"}
    BY <1>1 DEF Trace!PodMatch, Trace!SelMatch, Trace!Sure
<1>5. Told(pod, holds)
    BY PodTold
<1>6. holds \in BOOLEAN
    BY PodTold DEF Trace!SelHolds, Told
<1> HIDE DEF pod, m, holds
<1>7. m = pod
    BY <1>3, <1>4 DEF Trace!AllOf
<1>8. m = IF holds THEN "yes" ELSE "no"
    BY <1>4, <1>5, <1>7 DEF Told
<1> QED
    BY <1>8 DEF m, holds

LEMMA SelectedOf ==
    ASSUME NEW x, NEW dir, NEW w
    PROVE  Selected(x, dir, w) = {d \in Typed(dir, w) : Trace!SelHolds(x, d.subject.pod, w.labels)}
<1>1. \A d : dir \in Trace!NetpolTypes(d) <=>
                dir \in (IF d.types # {} THEN d.types
                         ELSE IF d.Egress = None THEN {"Ingress"} ELSE Trace!Directions)
    BY DEF Trace!NetpolTypes, Trace!Directions
<1> QED
    BY <1>1 DEF Selected, Typed, Trace!Netpols, Trace!Of

LEMMA SelectingOf ==
    ASSUME Trace!TraceAssumption, Held, NEW x, NEW dir \in Trace!Directions, NEW w, w.labels # None
    PROVE  /\ Trace!Selecting(w, dir) = Trace!Bind(Typed(dir, w), {}, w.labels)
           /\ Trace!Selecting(w, dir) = {BoundOf(d, {}, w.labels) : d \in Selected(x, dir, w)}
           /\ \A b \in Trace!Selecting(w, dir) : b.m = "yes"
<1> DEFINE all == Trace!Netpols(w.ns)
           typed == Typed(dir, w)
           m(d) == Trace!SubjectMatch(d.subject, {}, w.labels)
           holds(d) == Trace!SelHolds(x, d.subject.pod, w.labels)
           B(d) == BoundOf(d, {}, w.labels)
<1>1. Ranked(all) /\ Ranked(typed) /\ \A d \in all : d.kind = "netpol" /\ d.ns = w.ns /\ Trace!DocOK(d)
    BY TypedRanked
<1>2. \A d \in all : m(d) = IF holds(d) THEN "yes" ELSE "no"
    BY <1>1, NetpolSubject
<1>3. Trace!Bind(all, {}, w.labels) = {B(d) : d \in {e \in all : m(e) # "no"}}
    BY <1>1, BindOf
<1>4. Trace!Bind(typed, {}, w.labels) = {B(d) : d \in {e \in typed : m(e) # "no"}}
    BY <1>1, BindOf
<1>5. \A d \in all : B(d).m = m(d) /\ B(d).pol.deny = Trace!NetpolTypes(d)
    <2> SUFFICES ASSUME NEW d \in all PROVE B(d).m = m(d) /\ B(d).pol.deny = Trace!NetpolTypes(d)
        OBVIOUS
    <2>1. B(d).m = m(d) /\ B(d).pol = Trace!Decoded(d)
        BY DEF BoundOf
    <2>2. Trace!Decoded(d).deny = Trace!NetpolTypes(d)
        BY <1>1, DecodedRules
    <2> QED
        BY <2>1, <2>2
<1>6. typed = {d \in all : dir \in Trace!NetpolTypes(d)}
    BY DEF Typed
<1>7. Selected(x, dir, w) = {d \in typed : holds(d)}
    BY SelectedOf
<1>8. Trace!Selecting(w, dir) = {b \in Trace!Bind(all, {}, w.labels) : dir \in b.pol.deny}
    BY DEF Trace!Selecting
<1> HIDE DEF all, typed, m, holds, B
<1>9. Trace!Selecting(w, dir) = {B(d) : d \in {e \in typed : m(e) # "no"}}
    BY <1>3, <1>5, <1>6, <1>8
<1>10. {e \in typed : m(e) # "no"} = {d \in typed : holds(d)}
    BY <1>2, <1>6
<1>11. \A b \in Trace!Selecting(w, dir) : b.m = "yes"
    BY <1>2, <1>5, <1>6, <1>9
<1> QED
    BY <1>4, <1>7, <1>9, <1>10, <1>11 DEF typed, holds, B

LEMMA SelectingBind ==
    ASSUME Trace!TraceAssumption, Held, NEW dir \in Trace!Directions, NEW w, w.labels # None
    PROVE  Trace!Selecting(w, dir) = Trace!Bind(Typed(dir, w), {}, w.labels)
<1>1. ASSUME NEW x PROVE Trace!Selecting(w, dir) = Trace!Bind(Typed(dir, w), {}, w.labels)
    BY SelectingOf
<1> QED
    BY <1>1

(* The network policies' tier only allows, and tells that of the flow.     *)
LEMMA NetpolTierTold ==
    ASSUME Trace!TraceAssumption, Held, NEW w, w.ns # None, w.labels # None, NEW dir \in Trace!Directions,
           NEW t, NEW f, NEW x, Agrees(x, f), NEW carried, None \notin carried
    PROVE  LET T == Trace!Tier(Trace!Selecting(w, dir), dir, FALSE, t, f.proto, f.port, carried)
               allowed == \E d \in Selected(x, dir, w) : d[dir] # None /\ \E i \in DOMAIN d[dir] :
                             NetpolHolds(x, d[dir][i], w.ns, t, f)
           IN  /\ carried \subseteq T.open /\ T.action \in {None, "Allow"}
               /\ T.action = "Allow" => allowed
               /\ T.action = None /\ allowed => "Allow" \in T.open
<1> DEFINE ds == Typed(dir, w)
           T == Trace!Tier(Trace!Selecting(w, dir), dir, FALSE, t, f.proto, f.port, carried)
           allowed == \E d \in Selected(x, dir, w) : d[dir] # None /\ \E i \in DOMAIN d[dir] :
                         NetpolHolds(x, d[dir][i], w.ns, t, f)
           L == DocLines(ds, dir)
           selects(h) == Trace!SelHolds(x, h[1].subject.pod, w.labels)
           hits == {h \in L : selects(h) /\ NetpolHolds(x, h[1][dir][h[2]], w.ns, t, f)}
<1>1. Ranked(ds) /\ \A d \in ds : d.kind = "netpol" /\ d.ns = w.ns /\ Trace!DocOK(d)
    BY TypedRanked
<1>2. T = Trace!Tier(Trace!Bind(ds, {}, w.labels), dir, FALSE, t, f.proto, f.port, carried)
    <2>1. Trace!Selecting(w, dir) = Trace!Bind(ds, {}, w.labels)
        BY SelectingBind
    <2> HIDE DEF ds
    <2> QED
        BY <2>1
<1>3. allowed <=> hits # {}
    <2>1. Selected(x, dir, w) = {d \in ds : Trace!SelHolds(x, d.subject.pod, w.labels)}
        BY SelectedOf
    <2> HIDE DEF ds
    <2>2. ASSUME allowed PROVE hits # {}
        <3>1. PICK d \in Selected(x, dir, w) : d[dir] # None /\ \E i \in DOMAIN d[dir] :
                         NetpolHolds(x, d[dir][i], w.ns, t, f)
            BY <2>2
        <3>2. PICK i \in DOMAIN d[dir] : NetpolHolds(x, d[dir][i], w.ns, t, f)
            BY <3>1
        <3>3. <<d, i>> \in hits
            BY <2>1, <3>1, <3>2 DEF DocLines
        <3> QED
            BY <3>3
    <2>3. ASSUME NEW h \in hits PROVE allowed
        <3>1. h[1] \in ds /\ h[1][dir] # None /\ h[2] \in DOMAIN h[1][dir]
            BY <1>1, LineOf
        <3>2. h[1] \in Selected(x, dir, w)
            BY <2>1, <3>1
        <3> QED
            BY <3>1, <3>2
    <2> QED
        BY <2>2, <2>3
<1>4. ASSUME NEW h \in L PROVE Told(Says(h, {}, w.labels, FALSE, t, f.proto, f.port, dir), h \in hits)
    <2> DEFINE r == h[1][dir][h[2]]
               subject == Trace!SubjectMatch(h[1].subject, {}, w.labels)
               match == Trace!RuleMatch(RuleOf(h[1], r), t, f.proto, f.port)
               holds == NetpolHolds(x, r, w.ns, t, f)
               say == Says(h, {}, w.labels, FALSE, t, f.proto, f.port, dir)
    <2>1. h[1] \in ds /\ h[1].kind = "netpol" /\ h[1].ns = w.ns /\ Trace!DocOK(h[1])
        BY <1>1, LineOf
    <2>2. subject = IF selects(h) THEN "yes" ELSE "no"
        BY <2>1, NetpolSubject
    <2>3. Trace!RuleOK("netpol", r)
        BY <1>1, <2>1, RuleAt
    <2>4. RuleOf(h[1], r) = Trace!NetpolRule(r, w.ns)
        BY <2>1 DEF RuleOf
    <2>5. Told(match, holds)
        <3>1. \A d \in r.ports : Trace!PortOK(d, FALSE)
            BY <2>3 DEF Trace!RuleOK, Trace!PortOK
        <3> HIDE DEF r
        <3>2. Told(Trace!RuleMatch(Trace!NetpolRule(r, w.ns), t, f.proto, f.port), holds)
            BY <3>1, NetpolRuleTold
        <3> QED
            BY <2>4, <3>2
    <2>6. h \in hits <=> selects(h) /\ holds
        OBVIOUS
    <2>7. say = IF subject = "no" THEN "no" ELSE Trace!AllOf({match} \union {})
        BY DEF Says
    <2> HIDE DEF say, match, subject, holds, hits, selects
    <2>8. Told(say, h \in hits)
        <3>1. match \in {"yes", "no", "cond"} /\ {match} \union {} = {match}
            BY <2>5 DEF Told
        <3>2. Trace!AllOf({match}) = match
            BY <3>1, OneTold
        <3> QED
            BY <2>2, <2>5, <2>6, <2>7, <3>1, <3>2 DEF Told
    <2> QED
        BY <2>8 DEF say
<1>5. \A h \in L : Acted(h, dir) = "Allow"
    <2> SUFFICES ASSUME NEW h \in L PROVE Acted(h, dir) = "Allow"
        OBVIOUS
    <2>1. h[1].kind = "netpol"
        BY <1>1, LineOf
    <2>2. Trace!RuleOK("netpol", h[1][dir][h[2]])
        BY <1>1, <2>1, RuleAt
    <2> QED
        BY <2>2 DEF Trace!RuleOK, Acted
<1>6. Tells(ds, {}, w.labels, dir, FALSE, t, f.proto, f.port, hits)
    BY <1>4 DEF Tells
<1>7. hits # {} => Trace!ActionOf(hits, dir) = "Allow"
    <2> SUFFICES ASSUME hits # {} PROVE Trace!ActionOf(hits, dir) = "Allow"
        OBVIOUS
    <2>1. hits \subseteq L
        OBVIOUS
    <2> HIDE DEF hits, L
    <2>2. PICK h \in hits : Trace!ActionOf(hits, dir) = h[1][dir][h[2]].action
        BY <1>1, <2>1, FirstOf DEF L
    <2> QED
        BY <1>5, <2>1, <2>2 DEF Acted
<1> HIDE DEF ds, hits, allowed, T
<1>8. hits = {} => Trace!ActionOf(hits, dir) = None
    BY DEF Trace!ActionOf
<1>9. /\ carried \subseteq T.open
      /\ Trace!ActionOf(hits, dir) = T.action \/ Trace!ActionOf(hits, dir) \in T.open
      /\ \A a \in T.open \ carried : \E h \in L : a = Acted(h, dir)
      /\ T.action = None \/ \E h \in L : T.action = Acted(h, dir)
    <2>1. Answers(T, ds, dir, hits, carried)
        BY <1>1, <1>2, <1>6, TierTold
    <2> QED
        BY <2>1 DEF Answers
<1> HIDE DEF L
<1>10. None # "Allow"
    BY DEF Trace!TraceAssumption
<1>11. /\ carried \subseteq T.open /\ T.action \in {None, "Allow"}
       /\ T.action = "Allow" => allowed
       /\ T.action = None /\ allowed => "Allow" \in T.open
    <2>1. T.action \in {None, "Allow"}
        BY <1>5, <1>9
    <2>2. None \notin T.open
        BY <1>5, <1>9, <1>10
    <2> QED
        BY <1>3, <1>7, <1>8, <1>9, <1>10, <2>1, <2>2
<1> QED
    BY <1>11 DEF T, allowed

(* Each of three tiers tells of its own.                                   *)
TiersTell(admin, selecting, dfw, last, anp, banp, allowed) ==
    /\ admin.action \in {None, "Allow", "Deny", "Pass"} /\ admin.open \subseteq {"Allow", "Deny", "Pass"}
    /\ anp = admin.action \/ anp \in admin.open
    /\ admin.open \ {"Pass"} \subseteq last.open /\ last.open \subseteq {"Allow", "Deny"}
    /\ last.action \in {None, "Allow", "Deny"} /\ (banp = last.action \/ banp \in last.open)
    /\ admin.open \ {"Pass"} \subseteq dfw.open /\ dfw.action \in {None, "Allow"}
    /\ dfw.action = "Allow" => allowed
    /\ dfw.action = None /\ allowed => "Allow" \in dfw.open
    /\ \A b \in selecting : b.m = "yes"

(* What three tiers say for certain is so.                                 *)
LEMMA TiersTold ==
    ASSUME Trace!TraceAssumption, NEW admin, NEW selecting, NEW dfw, NEW last,
           NEW anp, NEW banp, NEW allowed \in BOOLEAN,
           TiersTell(admin, selecting, dfw, last, anp, banp, allowed)
    PROVE  LET says == Trace!DecideTiers(admin, selecting, dfw, last)
           IN  /\ says \in {"Allow", "Deny", "Conditional"}
               /\ says # "Conditional" => says = Trace!InTiers(anp, selecting # {}, allowed, banp)
<1> DEFINE says == Trace!DecideTiers(admin, selecting, dfw, last)
           truth == Trace!InTiers(anp, selecting # {}, allowed, banp)
<1>0. None \notin {"Allow", "Deny", "Pass"}
    BY DEF Trace!TraceAssumption
<1> USE DEF TiersTell
<1>1. CASE admin.action \in {"Allow", "Deny"}
    <2>1. says = IF admin.open \subseteq {admin.action} THEN admin.action ELSE "Conditional"
        BY <1>1 DEF Trace!DecideTiers, Trace!Decide
    <2>2. admin.open \subseteq {admin.action} => truth = admin.action
        BY <1>1 DEF Trace!InTiers
    <2> HIDE DEF says, truth
    <2>3. says \in {"Allow", "Deny", "Conditional"} /\ (says # "Conditional" => says = truth)
        BY <1>1, <2>1, <2>2
    <2> QED
        BY <2>3 DEF says, truth
<1>2. CASE admin.action \notin {"Allow", "Deny"} /\ selecting = {}
    <2> DEFINE V == IF last.action = None THEN "Allow" ELSE last.action
    <2>1. says = IF last.open \subseteq {V} THEN V ELSE "Conditional"
        BY <1>2 DEF Trace!DecideTiers, Trace!Decide
    <2>2. truth = IF anp \in {"Allow", "Deny"} THEN anp ELSE IF banp = None THEN "Allow" ELSE banp
        BY <1>2 DEF Trace!InTiers
    <2>3. anp \in {"Allow", "Deny"} => anp \in last.open
        BY <1>2
    <2>4. V \in {"Allow", "Deny"}
        OBVIOUS
    <2>5. last.open \subseteq {V} => truth = V
        BY <1>0, <2>2, <2>3
    <2> HIDE DEF says, truth, V
    <2>6. says \in {"Allow", "Deny", "Conditional"} /\ (says # "Conditional" => says = truth)
        BY <2>1, <2>4, <2>5
    <2> QED
        BY <2>6 DEF says, truth
<1>3. CASE admin.action \notin {"Allow", "Deny"} /\ selecting # {}
    <2> DEFINE V == IF dfw.action = None THEN "Deny" ELSE dfw.action
    <2>1. \E b \in selecting : b.m = "yes"
        BY <1>3
    <2>2. says = IF dfw.open \subseteq {V} THEN V ELSE "Conditional"
        BY <1>0, <1>3, <2>1 DEF Trace!DecideTiers, Trace!Decide
    <2>3. truth = IF anp \in {"Allow", "Deny"} THEN anp ELSE IF allowed THEN "Allow" ELSE "Deny"
        BY <1>3 DEF Trace!InTiers
    <2>4. anp \in {"Allow", "Deny"} => anp \in dfw.open
        BY <1>3
    <2>5. V \in {"Allow", "Deny"}
        OBVIOUS
    <2>6. dfw.open \subseteq {V} => truth = V
        BY <1>0, <2>3, <2>4
    <2> HIDE DEF says, truth, V
    <2>7. says \in {"Allow", "Deny", "Conditional"} /\ (says # "Conditional" => says = truth)
        BY <2>2, <2>5, <2>6
    <2> QED
        BY <2>7 DEF says, truth
<1> QED
    BY <1>1, <1>2, <1>3

(* One side of a flow, in whatever world the flow may be in.               *)
LEMMA SideTold ==
    ASSUME Trace!TraceAssumption, Held, NEW w, w.ns # None, w.labels # None, NEW dir \in Trace!Directions,
           NEW t, NEW f, NEW x, Agrees(x, f)
    PROVE  LET says == Trace!DirectionWalk(dir, w, t, f.proto, f.port)
           IN  /\ says \in {"Allow", "Deny", "Conditional"}
               /\ says # "Conditional" => says = Trace!SideTruth(objects, x, dir, w, t, f)
<1> DEFINE T(kind, carried) ==
               Trace!Tier(Trace!Bind(Trace!Of(kind), w.nsLabels, w.labels), dir, TRUE, t, f.proto, f.port, carried)
           truth(kind) == AdminTruth(kind, x, dir, w, t, f)
           admin == T("anp", {})
           passed == admin.open \ {"Pass"}
           last == T("banp", passed)
           selecting == Trace!Selecting(w, dir)
           dfw == Trace!Tier(selecting, dir, FALSE, t, f.proto, f.port, passed)
           allowed == \E d \in Selected(x, dir, w) : d[dir] # None /\ \E i \in DOMAIN d[dir] :
                         NetpolHolds(x, d[dir][i], w.ns, t, f)
<1>1. Trace!DirectionWalk(dir, w, t, f.proto, f.port) = Trace!DecideTiers(admin, selecting, dfw, last)
    BY DEF Trace!DirectionWalk
<1>2. Trace!SideTruth(objects, x, dir, w, t, f) =
          Trace!InTiers(truth("anp"), Selected(x, dir, w) # {}, allowed, truth("banp"))
    BY DEF Trace!SideTruth, Selected, NetpolHolds, AdminTruth
<1>3. /\ admin.open \subseteq {"Allow", "Deny", "Pass"} /\ admin.action \in {None, "Allow", "Deny", "Pass"}
      /\ truth("anp") = admin.action \/ truth("anp") \in admin.open
    <2>1. LET actions == {"Allow", "Deny"} \union IF "anp" = "anp" THEN {"Pass"} ELSE {}
          IN  /\ {} \subseteq admin.open /\ admin.open \subseteq {} \union actions
              /\ admin.action \in {None} \union actions
              /\ truth("anp") = admin.action \/ truth("anp") \in admin.open
        BY AdminTierTold
    <2> HIDE DEF admin, truth
    <2> QED
        BY <2>1
<1>4. passed \subseteq {"Allow", "Deny"}
    <2> HIDE DEF admin
    <2> QED
        BY <1>3
<1> HIDE DEF passed
<1>5. /\ passed \subseteq last.open /\ last.open \subseteq {"Allow", "Deny"}
      /\ last.action \in {None, "Allow", "Deny"}
      /\ truth("banp") = last.action \/ truth("banp") \in last.open
    <2>1. LET actions == {"Allow", "Deny"} \union IF "banp" = "anp" THEN {"Pass"} ELSE {}
          IN  /\ passed \subseteq last.open /\ last.open \subseteq passed \union actions
              /\ last.action \in {None} \union actions
              /\ truth("banp") = last.action \/ truth("banp") \in last.open
        BY AdminTierTold
    <2> HIDE DEF last, truth
    <2> QED
        BY <1>4, <2>1
<1>6. /\ passed \subseteq dfw.open /\ dfw.action \in {None, "Allow"}
      /\ dfw.action = "Allow" => allowed
      /\ dfw.action = None /\ allowed => "Allow" \in dfw.open
    <2>1. None \notin passed
        BY <1>4 DEF Trace!TraceAssumption
    <2> QED
        BY <2>1, NetpolTierTold
<1>7. /\ \A b \in selecting : b.m = "yes"
      /\ selecting = {} <=> Selected(x, dir, w) = {}
    <2>1. /\ selecting = {BoundOf(d, {}, w.labels) : d \in Selected(x, dir, w)}
          /\ \A b \in selecting : b.m = "yes"
        BY SelectingOf
    <2> HIDE DEF selecting
    <2> QED
        BY <2>1
<1>8. allowed \in BOOLEAN
    OBVIOUS
<1> HIDE DEF truth, admin, last, selecting, dfw, allowed
<1>9. LET says == Trace!DecideTiers(admin, selecting, dfw, last)
      IN  /\ says \in {"Allow", "Deny", "Conditional"}
          /\ says # "Conditional" => says = Trace!InTiers(truth("anp"), selecting # {}, allowed, truth("banp"))
    <2>1. TiersTell(admin, selecting, dfw, last, truth("anp"), truth("banp"), allowed)
        BY <1>3, <1>5, <1>6, <1>7 DEF TiersTell, passed
    <2> QED
        BY <1>8, <2>1, TiersTold
<1> QED
    BY <1>1, <1>2, <1>7, <1>9

LEMMA FlowTold ==
    ASSUME Trace!TraceAssumption, NEW f \in Flows, NEW x \in Trace!WorldsOf(f)
    PROVE  /\ Agrees(x, f) /\ f.src.ns # None /\ f.src.labels # None
           /\ Trace!Inside(f) => f.dst.ns # None /\ f.dst.labels # None
           /\ ~Trace!Inside(f) => f.dst.ns = None /\ \E a : f.dst.ips = {a}
<1>1. Trace!FlowOK(f)
    BY DEF Trace!TraceAssumption
<1>2. x.port \in IF f.port = 0 THEN PortNumbers ELSE {f.port}
    BY DEF Trace!WorldsOf
<1> QED
    BY <1>1, <1>2 DEF Trace!FlowOK, Agrees, Trace!Inside

(* A verdict that is not Conditional is the cluster's, in every world.     *)
LEMMA VerdictTold ==
    ASSUME Trace!TraceAssumption, Held
    PROVE  Trace!VerdictIsCertain
<1> SUFFICES ASSUME NEW f \in Flows, NEW said \in {Trace!Trace(f)} \intersect {"Allow", "Deny"},
                    NEW x \in Trace!WorldsOf(f)
             PROVE  Trace!Truth(objects, x, f) = said
    BY DEF Trace!VerdictIsCertain
<1> DEFINE out == Trace!DirectionWalk("Egress", f.src, f.dst, f.proto, f.port)
           in == Trace!DirectionWalk("Ingress", f.dst, f.src, f.proto, f.port)
           gate == Trace!GatewayWalk(f.src.ns, f.dst, f.proto, f.port)
           outTruth == Trace!SideTruth(objects, x, "Egress", f.src, f.dst, f)
           inTruth == Trace!SideTruth(objects, x, "Ingress", f.dst, f.src, f)
           gateTruth == Trace!GatewayTruth(objects, x, f.src.ns, f.dst, f)
           far == IF Trace!Inside(f) THEN in ELSE gate
           farTruth == IF Trace!Inside(f) THEN inTruth ELSE gateTruth
<1>0. "Egress" \in Trace!Directions /\ "Ingress" \in Trace!Directions
    BY DEF Trace!Directions
<1>1. /\ Agrees(x, f) /\ f.src.ns # None /\ f.src.labels # None
      /\ Trace!Inside(f) => f.dst.ns # None /\ f.dst.labels # None
      /\ ~Trace!Inside(f) => f.dst.ns = None /\ \E a : f.dst.ips = {a}
    BY FlowTold
<1>2. out \in {"Allow", "Deny", "Conditional"} /\ (out # "Conditional" => out = outTruth)
    BY <1>0, <1>1, SideTold
<1>3. Trace!Inside(f) => in \in {"Allow", "Deny", "Conditional"} /\ (in # "Conditional" => in = inTruth)
    BY <1>0, <1>1, SideTold
<1>4. ~Trace!Inside(f) => gate \in {"Allow", "Deny", "Conditional"} /\ (gate # "Conditional" => gate = gateTruth)
    <2> SUFFICES ASSUME ~Trace!Inside(f)
                 PROVE  gate \in {"Allow", "Deny", "Conditional"} /\ (gate # "Conditional" => gate = gateTruth)
        OBVIOUS
    <2> DEFINE T == Trace!Tier(Trace!Bind(Trace!Gateways(f.src.ns), {}, None), "Egress", FALSE,
                               f.dst, f.proto, f.port, {})
               first == GatewayFirst(x, f.src.ns, f.dst, f)
               V == IF T.action = None THEN "Allow" ELSE T.action
    <2>1. /\ T.open \subseteq {"Allow", "Deny"} /\ T.action \in {None, "Allow", "Deny"}
          /\ first = T.action \/ first \in T.open
        <3>1. PICK a : f.dst.ips = {a}
            BY <1>1
        <3> QED
            BY <1>1, <3>1, GatewayTierTold
    <2>2. gate = IF T.open \subseteq {V} THEN V ELSE "Conditional"
        BY DEF Trace!GatewayWalk, Trace!Decide
    <2>3. gateTruth = IF first = None THEN "Allow" ELSE first
        BY DEF Trace!GatewayTruth, GatewayFirst
    <2>4. None \notin {"Allow", "Deny"}
        BY DEF Trace!TraceAssumption
    <2> HIDE DEF gate, gateTruth, T, first
    <2>5. V \in {"Allow", "Deny"}
        BY <2>1
    <2>6. T.open \subseteq {V} => gateTruth = V
        BY <2>1, <2>3, <2>4
    <2> HIDE DEF V
    <2> QED
        BY <2>2, <2>5, <2>6
<1>5. Trace!Trace(f) = IF Trace!Inside(f) /\ ~Trace!Reachable(f.src, f.dst) THEN "Unreachable"
                       ELSE Trace!Verdict({out, far})
    BY DEF Trace!Trace
<1>6. Trace!Truth(objects, x, f) = IF "Deny" \in {outTruth, farTruth} THEN "Deny" ELSE "Allow"
    <2>1. CASE Trace!Inside(f)
        <3> DEFINE ends == {outTruth} \union {inTruth}
        <3>1. Trace!Truth(objects, x, f) = IF "Deny" \in ends THEN "Deny" ELSE "Allow"
            BY <2>1 DEF Trace!Truth
        <3> HIDE DEF outTruth, inTruth
        <3> QED
            BY <2>1, <3>1
    <2>2. CASE ~Trace!Inside(f)
        <3> DEFINE ends == {outTruth} \union {gateTruth}
        <3>1. Trace!Truth(objects, x, f) = IF "Deny" \in ends THEN "Deny" ELSE "Allow"
            BY <2>2 DEF Trace!Truth
        <3> HIDE DEF outTruth, gateTruth
        <3> QED
            BY <2>2, <3>1
    <2> QED
        BY <2>1, <2>2
<1>7. far \in {"Allow", "Deny", "Conditional"} /\ (far # "Conditional" => far = farTruth)
    <2> HIDE DEF in, gate, inTruth, gateTruth
    <2> QED
        BY <1>3, <1>4
<1>8. said \in {"Allow", "Deny"} /\ said = Trace!Verdict({out, far})
    <2> HIDE DEF out, far
    <2> QED
        BY <1>5
<1> HIDE DEF out, far, outTruth, farTruth
<1>9. "Deny" \in {out, far} => said = "Deny" /\ "Deny" \in {outTruth, farTruth}
    BY <1>2, <1>7, <1>8 DEF Trace!Verdict
<1>10. "Deny" \notin {out, far} => said = "Allow" /\ "Deny" \notin {outTruth, farTruth}
    BY <1>2, <1>7, <1>8 DEF Trace!Verdict
<1> QED
    BY <1>6, <1>9, <1>10

--------------------------------------------------------------------------------
(* The chain of a namespace.                                               *)
LEMMA KeyBound ==
    ASSUME NEW ds, NEW d \in ds, Trace!DocOK(d), NEW nsLabels, NEW labels,
           Trace!SubjectMatch(d.subject, nsLabels, labels) # "no"
    PROVE  Trace!Key(d) \in Trace!KeysOf(Trace!Bind(ds, nsLabels, labels))
<1> DEFINE b == BoundOf(d, nsLabels, labels)
<1>1. Trace!Decoded(d).subject = d.subject /\ Trace!Decoded(d).key = Trace!Key(d)
    BY DecodedRules DEF Trace!Directions
<1>2. b = [pol |-> Trace!Decoded(d), m |-> Trace!SubjectMatch(Trace!Decoded(d).subject, nsLabels, labels)]
    BY <1>1 DEF BoundOf
<1>3. b.m # "no" /\ b.pol.key = Trace!Key(d)
    BY <1>1 DEF BoundOf
<1> HIDE DEF b
<1>4. b \in Trace!Bind(ds, nsLabels, labels)
    BY <1>2, <1>3 DEF Trace!Bind
<1> QED
    BY <1>3, <1>4 DEF Trace!KeysOf

(* Without a pod's labels, a pod selector may match.                       *)
LEMMA PodMayMatch ==
    ASSUME NEW pod
    PROVE  /\ Trace!PodMatch(pod, None) \in {"yes", "cond"}
           /\ Trace!PodMatch(pod, None) = "yes" <=> pod \in {None, {}}
BY DEF Trace!PodMatch

LEMMA SubjectMayMatch ==
    ASSUME Trace!TraceAssumption, NEW s, NEW nsLabels, ~s.none
    PROVE  LET a == Trace!SelMatch(s.ns, nsLabels)
               m == Trace!SubjectMatch(s, nsLabels, None)
           IN  /\ a # "no" => m # "no"
               /\ m = "yes" <=> a = "yes" /\ s.pod \in {None, {}}
<1> DEFINE a == Trace!SelMatch(s.ns, nsLabels)
           b == Trace!PodMatch(s.pod, None)
           m == Trace!SubjectMatch(s, nsLabels, None)
<1>1. m = Trace!AllOf({a, b})
    BY DEF Trace!SubjectMatch
<1>2. b \in {"yes", "cond"} /\ (b = "yes" <=> s.pod \in {None, {}})
    BY PodMayMatch
<1>3. a \in {"yes", "no", "cond"}
    BY SelTold DEF Told
<1> HIDE DEF a, b, m
<1>4. /\ a # "no" => m # "no"
      /\ m = "yes" <=> a = "yes" /\ s.pod \in {None, {}}
    BY <1>1, <1>2, <1>3, AllTold
<1> QED
    BY <1>4 DEF a, m

(* What may govern a VM is in the chain of its namespace.                  *)
LEMMA ChainTold ==
    ASSUME Trace!TraceAssumption, Held, NEW d \in objects, NEW w
    PROVE  LET listed == Trace!Key(d) \in Trace!Chain(w.ns, w.nsLabels, None)
           IN  /\ \A x : d.kind \in {"anp", "banp"} /\ Trace!Selects(x, d, w) => listed
               /\ d.kind \in {"netpol", "gateway"} /\ d.ns = w.ns => listed
<1>1. Trace!DocOK(d)
    BY DEF Held, Trace!TraceAssumption
<1>2. Trace!SelMatch(None, {}) = "yes"
    BY DEF Trace!SelMatch, Trace!TraceAssumption
<1>3. ASSUME NEW x, d.kind \in {"anp", "banp"}, Trace!Selects(x, d, w)
      PROVE  Trace!Key(d) \in Trace!Chain(w.ns, w.nsLabels, None)
    <2>1. ~d.subject.none /\ Trace!SelHolds(x, d.subject.ns, w.nsLabels)
        BY <1>3 DEF Trace!Selects
    <2>2. Trace!SelMatch(d.subject.ns, w.nsLabels) # "no"
        BY <2>1, SelTold DEF Told
    <2>3. Trace!SubjectMatch(d.subject, w.nsLabels, None) # "no"
        BY <2>1, <2>2, SubjectMayMatch
    <2> DEFINE ds == Trace!Of("anp") \union Trace!Of("banp")
    <2>4. d \in ds
        BY <1>3 DEF Trace!Of
    <2> HIDE DEF ds
    <2>5. Trace!Key(d) \in Trace!KeysOf(Trace!Bind(ds, w.nsLabels, None))
        BY <1>1, <2>3, <2>4, KeyBound
    <2> QED
        BY <2>5 DEF Trace!Chain, ds
<1>4. ASSUME d.kind \in {"netpol", "gateway"}, d.ns = w.ns
      PROVE  Trace!Key(d) \in Trace!Chain(w.ns, w.nsLabels, None)
    <2>1. ~d.subject.none /\ d.subject.ns = None
        BY <1>1, <1>4 DEF Trace!DocOK
    <2>2. Trace!SubjectMatch(d.subject, {}, None) # "no"
        BY <1>2, <2>1, SubjectMayMatch
    <2>3. CASE d.kind = "netpol"
        <3>1. d \in Trace!Netpols(w.ns)
            BY <1>4, <2>3 DEF Trace!Netpols, Trace!Of
        <3>2. Trace!Key(d) \in Trace!KeysOf(Trace!Bind(Trace!Netpols(w.ns), {}, None))
            BY <1>1, <2>2, <3>1, KeyBound
        <3> QED
            BY <3>2 DEF Trace!Chain
    <2>4. CASE d.kind = "gateway"
        <3>1. d \in Trace!Gateways(w.ns)
            BY <1>4, <2>4 DEF Trace!Gateways, Trace!Of
        <3>2. Trace!Key(d) \in Trace!KeysOf(Trace!Bind(Trace!Gateways(w.ns), {}, None))
            BY <1>1, <2>2, <3>1, KeyBound
        <3> QED
            BY <3>2 DEF Trace!Chain
    <2> QED
        BY <1>4, <2>3, <2>4
<1> QED
    BY <1>3, <1>4

AdminFirst(ds, x, dir, t, f) ==
    Trace!FirstAction(ds, dir,
        LAMBDA r : Trace!PortsHold(x, r.ports, f) /\ \E p \in r.peers : Trace!AdminPeerHolds(x, p, t))

GatewayAction(ds, x, t, f) ==
    Trace!FirstAction(ds, "Egress", LAMBDA r : Trace!PortsHold(x, r.ports, f) /\ Trace!GatewayHolds(x, r, t))

(* Objects that govern nothing of a side change nothing of it.             *)
LEMMA SideOf ==
    ASSUME NEW ds \in SUBSET objects, NEW x, NEW dir, NEW w, NEW t, NEW f,
           \A d \in objects : d.kind \in {"anp", "banp"} /\ Trace!Selects(x, d, w) => d \in ds,
           \A d \in objects : d.kind = "netpol" /\ d.ns = w.ns => d \in ds
    PROVE  Trace!SideTruth(ds, x, dir, w, t, f) = Trace!SideTruth(objects, x, dir, w, t, f)
<1> DEFINE A(kind, D) == {d \in D : d.kind = kind /\ Trace!Selects(x, d, w)}
           N(D) == {d \in D : /\ d.kind = "netpol" /\ d.ns = w.ns
                              /\ Trace!SelHolds(x, d.subject.pod, w.labels)
                              /\ dir \in (IF d.types # {} THEN d.types
                                          ELSE IF d.Egress = None THEN {"Ingress"} ELSE Trace!Directions)}
           allowed(S) == \E d \in S : d[dir] # None /\ \E i \in DOMAIN d[dir] : NetpolHolds(x, d[dir][i], w.ns, t, f)
           side(a, s, b) ==
               Trace!InTiers(AdminFirst(a, x, dir, t, f), s # {}, allowed(s), AdminFirst(b, x, dir, t, f))
<1>1. \A D : Trace!SideTruth(D, x, dir, w, t, f) = side(A("anp", D), N(D), A("banp", D))
    BY DEF Trace!SideTruth, AdminFirst, NetpolHolds
<1>2. A("anp", ds) = A("anp", objects) /\ A("banp", ds) = A("banp", objects)
    OBVIOUS
<1>3. N(ds) = N(objects)
    OBVIOUS
<1> HIDE DEF side, A, N
<1> QED
    BY <1>1, <1>2, <1>3

LEMMA GatewayOf ==
    ASSUME NEW ds \in SUBSET objects, NEW x, NEW ns, NEW t, NEW f,
           \A d \in objects : d.kind = "gateway" /\ d.ns = ns => d \in ds
    PROVE  Trace!GatewayTruth(ds, x, ns, t, f) = Trace!GatewayTruth(objects, x, ns, t, f)
<1> DEFINE G(D) == {d \in D : d.kind = "gateway" /\ d.ns = ns}
           gate(S) == IF GatewayAction(S, x, t, f) = None THEN "Allow" ELSE GatewayAction(S, x, t, f)
<1>1. \A D : Trace!GatewayTruth(D, x, ns, t, f) = gate(G(D))
    BY DEF Trace!GatewayTruth, GatewayAction
<1>2. G(ds) = G(objects)
    OBVIOUS
<1> HIDE DEF gate, G
<1> QED
    BY <1>1, <1>2

(* A direction that a namespace denies by default, its VMs deny.           *)
LEMMA DenyTold ==
    ASSUME Trace!TraceAssumption, Held, NEW w, w.labels # None, NEW dir \in Trace!DefaultDeny(w.ns, None)
    PROVE  \E b \in Trace!Selecting(w, dir) : b.m = "yes"
<1> DEFINE ds == Trace!Netpols(w.ns)
<1>1. Ranked(ds) /\ \A d \in ds : d.kind = "netpol" /\ d.ns = w.ns /\ Trace!DocOK(d)
    BY TypedRanked
<1>2. PICK c \in Trace!Bind(ds, {}, None) : c.m = "yes" /\ dir \in c.pol.deny
    BY DEF Trace!DefaultDeny
<1>3. PICK d \in ds : c = BoundOf(d, {}, None)
    <2>1. Trace!Bind(ds, {}, None) =
              {BoundOf(d, {}, None) : d \in {e \in ds : Trace!SubjectMatch(e.subject, {}, None) # "no"}}
        BY <1>1, BindOf
    <2> HIDE DEF ds
    <2> QED
        BY <2>1
<1>4. /\ Trace!SubjectMatch(d.subject, {}, None) = "yes"
      /\ dir \in Trace!Decoded(d).deny
    BY <1>2, <1>3 DEF BoundOf
<1>5. ~d.subject.none /\ d.subject.ns = None /\ d.subject.pod \in {None, {}}
    <2>1. ~d.subject.none /\ d.subject.ns = None
        BY <1>1 DEF Trace!DocOK
    <2> QED
        BY <1>4, <2>1, SubjectMayMatch
<1>6. Trace!SubjectMatch(d.subject, {}, w.labels) = "yes"
    <2>1. Trace!SelMatch(None, {}) = "yes"
        BY DEF Trace!SelMatch, Trace!TraceAssumption
    <2>2. Trace!PodMatch(d.subject.pod, w.labels) = "yes"
        BY <1>5 DEF Trace!PodMatch
    <2> QED
        BY <1>5, <2>1, <2>2, AllTold DEF Trace!SubjectMatch
<1> DEFINE b == BoundOf(d, {}, w.labels)
<1>7. b \in Trace!Bind(ds, {}, w.labels)
    <2>1. Trace!Bind(ds, {}, w.labels) =
              {BoundOf(e, {}, w.labels) : e \in {g \in ds : Trace!SubjectMatch(g.subject, {}, w.labels) # "no"}}
        BY <1>1, BindOf
    <2> HIDE DEF ds
    <2> QED
        BY <1>6, <2>1
<1>8. b.m = "yes" /\ dir \in b.pol.deny
    BY <1>4, <1>6 DEF BoundOf
<1> HIDE DEF b
<1>9. b \in Trace!Selecting(w, dir)
    BY <1>7, <1>8 DEF Trace!Selecting
<1> QED
    BY <1>8, <1>9

LEMMA ChainHidesNothing ==
    ASSUME Trace!TraceAssumption, Held
    PROVE  Trace!NothingHidden
<1> SUFFICES ASSUME NEW f \in Flows
             PROVE  LET ends == {f.src} \union IF Trace!Inside(f) THEN {f.dst} ELSE {}
                        listed == UNION {Trace!Chain(w.ns, w.nsLabels, None) : w \in ends}
                    IN  /\ \A x \in Trace!WorldsOf(f) :
                              Trace!Truth({d \in objects : Trace!Key(d) \in listed}, x, f) = Trace!Truth(objects, x, f)
                        /\ \A w \in ends : \A dir \in Trace!DefaultDeny(w.ns, None) :
                              \E b \in Trace!Selecting(w, dir) : b.m = "yes"
    BY DEF Trace!NothingHidden
<1> DEFINE ends == {f.src} \union IF Trace!Inside(f) THEN {f.dst} ELSE {}
           listed == UNION {Trace!Chain(w.ns, w.nsLabels, None) : w \in ends}
           ds == {d \in objects : Trace!Key(d) \in listed}
<1>1. \A w \in ends : w.labels # None
    BY DEF Trace!TraceAssumption, Trace!FlowOK, Trace!Inside
<1>2. ASSUME NEW w \in ends, NEW dir \in Trace!DefaultDeny(w.ns, None)
      PROVE  \E b \in Trace!Selecting(w, dir) : b.m = "yes"
    BY <1>1, DenyTold
<1>3. ASSUME NEW w \in ends, NEW d \in objects
      PROVE  /\ \A x : d.kind \in {"anp", "banp"} /\ Trace!Selects(x, d, w) => d \in ds
             /\ d.kind \in {"netpol", "gateway"} /\ d.ns = w.ns => d \in ds
    <2> DEFINE here == Trace!Key(d) \in Trace!Chain(w.ns, w.nsLabels, None)
    <2>1. here => d \in ds
        OBVIOUS
    <2>2. /\ \A x : d.kind \in {"anp", "banp"} /\ Trace!Selects(x, d, w) => here
          /\ d.kind \in {"netpol", "gateway"} /\ d.ns = w.ns => here
        BY ChainTold
    <2> HIDE DEF here, ds, ends
    <2> QED
        BY <2>1, <2>2
<1>4. /\ ds \in SUBSET objects
      /\ f.src \in ends
      /\ Trace!Inside(f) => f.dst \in ends
    OBVIOUS
<1> HIDE DEF ends, ds
<1>5. ASSUME NEW w \in ends, NEW x, NEW dir, NEW t
      PROVE  Trace!SideTruth(ds, x, dir, w, t, f) = Trace!SideTruth(objects, x, dir, w, t, f)
    BY <1>3, <1>4, SideOf
<1>6. ASSUME NEW x
      PROVE  Trace!GatewayTruth(ds, x, f.src.ns, f.dst, f) = Trace!GatewayTruth(objects, x, f.src.ns, f.dst, f)
    BY <1>3, <1>4, GatewayOf
<1>7. ASSUME NEW x
      PROVE  Trace!Truth(ds, x, f) = Trace!Truth(objects, x, f)
    <2>1. Trace!SideTruth(ds, x, "Egress", f.src, f.dst, f) = Trace!SideTruth(objects, x, "Egress", f.src, f.dst, f)
        BY <1>4, <1>5
    <2>2. Trace!Inside(f) => Trace!SideTruth(ds, x, "Ingress", f.dst, f.src, f) =
                                 Trace!SideTruth(objects, x, "Ingress", f.dst, f.src, f)
        BY <1>4, <1>5
    <2>3. CASE Trace!Inside(f)
        BY <2>1, <2>2, <2>3 DEF Trace!Truth
    <2>4. CASE ~Trace!Inside(f)
        BY <1>6, <2>1, <2>4 DEF Trace!Truth
    <2> QED
        BY <2>3, <2>4
<1> QED
    BY <1>2, <1>7 DEF ds, ends

--------------------------------------------------------------------------------
(* The catalog.                                                            *)
Primaries(ns) ==
    {<<"udn", <<ns, d.name>>>> : d \in Trace!PrimaryUDNs(ns)}
      \union {<<"cudn", d.name>> : d \in Trace!PrimaryCUDNs(ns)}

(* The trace's domain of a namespace is one of its primary networks.       *)
LEMMA DomainTold ==
    ASSUME Trace!TraceAssumption, Held, NEW ns
    PROVE  /\ Primaries(ns) = {} => Trace!PrimaryDomain(ns) = <<"default">>
           /\ Primaries(ns) # {} => Trace!PrimaryDomain(ns) \in Primaries(ns)
           /\ <<"default">> \notin Primaries(ns)
           /\ Trace!PrimaryDomain(ns) # None
<1> DEFINE U == Trace!PrimaryUDNs(ns)
           C == Trace!PrimaryCUDNs(ns)
           u == CHOOSE d \in U : TRUE
           c == CHOOSE d \in C : TRUE
<1>1. Trace!PrimaryDomain(ns) = IF U # {} THEN <<"udn", <<ns, u.name>>>>
                                ELSE IF C # {} THEN <<"cudn", c.name>> ELSE <<"default">>
    BY DEF Trace!PrimaryDomain
<1>2. \A d \in U : d \in Docs /\ d.ns = ns
    BY DEF Trace!PrimaryUDNs, Trace!Of, Held
<1>3. \A d \in C : d \in Docs
    BY DEF Trace!PrimaryCUDNs, Trace!Of, Held
<1>4. Primaries(ns) = {<<"udn", <<ns, d.name>>>> : d \in U} \union {<<"cudn", d.name>> : d \in C}
    BY DEF Primaries
<1> HIDE DEF U, C
<1>5. (U # {} => u \in U) /\ (C # {} => c \in C)
    OBVIOUS
<1>6. /\ \A d \in U : <<"udn", <<ns, d.name>>>> # None
      /\ \A d \in C : <<"cudn", d.name>> # None
      /\ <<"default">> # None
    BY <1>2, <1>3 DEF Trace!TraceAssumption
<1> HIDE DEF u, c
<1>7. <<"default">> \notin Primaries(ns)
    BY <1>4
<1>8. Trace!PrimaryDomain(ns) # None
    BY <1>1, <1>5, <1>6
<1>9. Primaries(ns) = {} <=> U = {} /\ C = {}
    BY <1>4
<1>10. CASE U # {}
    BY <1>1, <1>4, <1>5, <1>7, <1>8, <1>9, <1>10
<1>11. CASE U = {} /\ C # {}
    BY <1>1, <1>4, <1>5, <1>7, <1>8, <1>9, <1>11
<1>12. CASE U = {} /\ C = {}
    BY <1>1, <1>7, <1>8, <1>9, <1>12
<1> QED
    BY <1>10, <1>11, <1>12

(* The VM Networks that the catalog shows a namespace are its primary ones.*)
LEMMA CatalogTold ==
    ASSUME Trace!TraceAssumption, Held, NEW ns
    PROVE  {n.net : n \in {m \in Trace!Catalog : m.kind = "default" /\ ns \in m.in}} = Primaries(ns)
<1> DEFINE in(d) == {n.ns : n \in {m \in Trace!Of("nad") : m.owner = <<"cudn", d.name>>}}
           udn(d) == [net |-> <<"udn", <<d.ns, d.name>>>>, kind |-> Trace!KindFor(d.topology, d.role), in |-> {d.ns}]
           cudn(d) == [net |-> <<"cudn", d.name>>, kind |-> Trace!KindFor(d.topology, d.role), in |-> in(d)]
           nad(d) == [net |-> <<"nad", <<d.ns, d.name>>>>, kind |-> Trace!KindFor(d.topology, None), in |-> {d.ns}]
           U == {udn(d) : d \in Trace!Of("udn")}
           C == {cudn(d) : d \in Trace!Of("cudn")}
           N == {nad(d) : d \in {n \in Trace!Of("nad") : n.owner = None /\ n.ns \notin SystemNamespaces}}
           shown(n) == n.kind = "default" /\ ns \in n.in
<1>1. Trace!Catalog = U \union C \union N
    BY DEF Trace!Catalog
<1>2. ASSUME NEW d \in objects
      PROVE  Trace!KindFor(d.topology, d.role) = "default" <=> d.role = "Primary"
    <2>1. Trace!DocOK(d)
        BY DEF Held, Trace!TraceAssumption
    <2> QED
        BY <2>1 DEF Trace!KindFor, Trace!DocOK
<1>3. \A n \in N : ~shown(n)
    <2>1. \A d : nad(d).kind # "default"
        BY DEF Trace!KindFor, Trace!TraceAssumption
    <2> HIDE DEF nad
    <2> QED
        BY <2>1
<1>4. \A d \in Trace!Of("udn") : shown(udn(d)) <=> d \in Trace!PrimaryUDNs(ns)
    BY <1>2 DEF Trace!PrimaryUDNs, Trace!Of
<1>5. \A d \in Trace!Of("cudn") : shown(cudn(d)) <=> d \in Trace!PrimaryCUDNs(ns)
    <2> SUFFICES ASSUME NEW d \in Trace!Of("cudn")
                 PROVE  shown(cudn(d)) <=> d \in Trace!PrimaryCUDNs(ns)
        OBVIOUS
    <2>1. cudn(d).kind = "default" <=> d.role = "Primary"
        BY <1>2 DEF Trace!Of
    <2>2. ns \in cudn(d).in <=> \E n \in Trace!Of("nad") : n.ns = ns /\ n.owner = <<"cudn", d.name>>
        OBVIOUS
    <2> HIDE DEF cudn
    <2> QED
        BY <2>1, <2>2 DEF Trace!PrimaryCUDNs
<1>6. /\ \A d \in Trace!PrimaryUDNs(ns) : d \in Trace!Of("udn") /\ udn(d).net = <<"udn", <<ns, d.name>>>>
      /\ \A d \in Trace!PrimaryCUDNs(ns) : d \in Trace!Of("cudn") /\ cudn(d).net = <<"cudn", d.name>>
    BY DEF Trace!PrimaryUDNs, Trace!PrimaryCUDNs
<1> HIDE DEF udn, cudn, N, shown
<1>7. {n \in Trace!Catalog : shown(n)} =
          {udn(d) : d \in Trace!PrimaryUDNs(ns)} \union {cudn(d) : d \in Trace!PrimaryCUDNs(ns)}
    BY <1>1, <1>3, <1>4, <1>5, <1>6
<1>8. {n.net : n \in {m \in Trace!Catalog : shown(m)}} = Primaries(ns)
    <2> DEFINE S == {n \in Trace!Catalog : shown(n)}
               P == {udn(d) : d \in Trace!PrimaryUDNs(ns)}
               Q == {cudn(d) : d \in Trace!PrimaryCUDNs(ns)}
    <2>1. {n.net : n \in P} = {<<"udn", <<ns, d.name>>>> : d \in Trace!PrimaryUDNs(ns)}
        BY <1>6
    <2>2. {n.net : n \in Q} = {<<"cudn", d.name>> : d \in Trace!PrimaryCUDNs(ns)}
        BY <1>6
    <2>3. S = P \union Q
        BY <1>7
    <2> HIDE DEF S, P, Q
    <2>4. {n.net : n \in S} = {n.net : n \in P} \union {n.net : n \in Q}
        BY <2>3
    <2>5. {n.net : n \in S} = Primaries(ns)
        BY <2>1, <2>2, <2>4 DEF Primaries
    <2> QED
        BY <2>5 DEF S
<1> QED
    BY <1>8 DEF shown

LEMMA CatalogIsTheTrace ==
    ASSUME Trace!TraceAssumption, Held
    PROVE  Trace!CatalogAgrees
<1> DEFINE one(ns) == \A p, q \in Primaries(ns) : p = q
           shown(ns) == {n.net : n \in {m \in Trace!Catalog : m.kind = "default" /\ ns \in m.in}}
<1>1. ASSUME NEW a, NEW b, a.podNet, a.defaultNet = None, one(a.ns), b.podNet, b.defaultNet = None, one(b.ns)
      PROVE  Trace!Reachable(a, b) <=> shown(a.ns) = shown(b.ns)
    <2>1. shown(a.ns) = Primaries(a.ns) /\ shown(b.ns) = Primaries(b.ns)
        BY CatalogTold
    <2>2. /\ Primaries(a.ns) = {} => Trace!PrimaryDomain(a.ns) = <<"default">>
          /\ Primaries(a.ns) # {} => Trace!PrimaryDomain(a.ns) \in Primaries(a.ns)
          /\ <<"default">> \notin Primaries(a.ns)
          /\ Trace!PrimaryDomain(a.ns) # None
        BY DomainTold
    <2>3. /\ Primaries(b.ns) = {} => Trace!PrimaryDomain(b.ns) = <<"default">>
          /\ Primaries(b.ns) # {} => Trace!PrimaryDomain(b.ns) \in Primaries(b.ns)
          /\ <<"default">> \notin Primaries(b.ns)
        BY DomainTold
    <2>4. Trace!PrimaryOf(a) = Trace!PrimaryDomain(a.ns) /\ Trace!PrimaryOf(b) = Trace!PrimaryDomain(b.ns)
        BY <1>1 DEF Trace!PrimaryOf
    <2>5. Trace!Reachable(a, b) <=> Trace!PrimaryDomain(a.ns) = Trace!PrimaryDomain(b.ns)
        BY <2>2, <2>4 DEF Trace!Reachable
    <2> HIDE DEF shown
    <2>6. Trace!PrimaryDomain(a.ns) = Trace!PrimaryDomain(b.ns) <=> Primaries(a.ns) = Primaries(b.ns)
        BY <1>1, <2>2, <2>3
    <2> QED
        BY <2>1, <2>5, <2>6
<1> DEFINE single == {w \in Workloads : w.podNet /\ w.defaultNet = None /\ one(w.ns)}
<1>2. \A a, b \in single : Trace!Reachable(a, b) <=> shown(a.ns) = shown(b.ns)
    <2> HIDE DEF one, shown
    <2> QED
        BY <1>1
<1> QED
    BY <1>2, Zenon DEF Trace!CatalogAgrees, Primaries

--------------------------------------------------------------------------------
LEMMA HeldInit == Trace!Init => Held
BY DEF Trace!Init, Held

LEMMA HeldStep ==
    ASSUME Held, [Trace!Next]_objects
    PROVE  Held'
<1>1. CASE UNCHANGED objects
    BY <1>1 DEF Held
<1>2. ASSUME NEW d \in Docs, Trace!Applied(d) PROVE Held'
    <2>1. objects' = {o \in objects : Trace!Key(o) # Trace!Key(d)} \union {d}
        BY <1>2 DEF Trace!Applied
    <2> QED
        BY <2>1 DEF Held, Trace!Key
<1>3. ASSUME NEW d \in Docs, Trace!Deleted(d) PROVE Held'
    <2>1. objects' = objects \ {d}
        BY <1>3 DEF Trace!Deleted
    <2> QED
        BY <2>1 DEF Held, Trace!Key
<1> QED
    BY <1>1, <1>2, <1>3 DEF Trace!Next

LEMMA TracePart == PartsSpec => [](part = "trace" => Held)
<1>1. PartsInit => (part = "trace" => Held)
    BY HeldInit DEF PartsInit
<1>2. (part = "trace" => Held) /\ [PartsNext]_partsVars => (part = "trace" => Held)'
    <2> SUFFICES ASSUME Held, [PartsNext]_partsVars, part = "trace" PROVE Held'
        BY DEF PartsNext, partsVars
    <2>1. [Trace!Next]_objects
        BY DEF PartsNext, partsVars
    <2> QED
        BY <2>1, HeldStep
<1> QED
    BY <1>1, <1>2, PTL DEF PartsSpec

(* trace.go:39: "Deny is only ever certain", and so is Allow, whatever the  *)
(* objects, the flows and what the trace cannot know.                      *)
THEOREM CertainVerdict ==
    ASSUME Trace!TraceAssumption
    PROVE  (Trace!Spec => []Trace!VerdictIsCertain) /\ (PartsSpec => []VerdictIsCertain)
<1>1. Trace!Spec => []Trace!VerdictIsCertain
    BY HeldInit, HeldStep, VerdictTold, PTL DEF Trace!Spec
<1>2. (part = "trace" => Held) => VerdictIsCertain
    BY VerdictTold DEF VerdictIsCertain
<1> QED
    BY <1>1, <1>2, TracePart, PTL

(* effective.go:19: the chain of a namespace leaves out no policy that can  *)
(* change a flow of its VMs, and what it denies by default they deny.      *)
THEOREM NoneHidden ==
    ASSUME Trace!TraceAssumption
    PROVE  (Trace!Spec => []Trace!NothingHidden) /\ (PartsSpec => []NothingHidden)
<1>1. Trace!Spec => []Trace!NothingHidden
    BY HeldInit, HeldStep, ChainHidesNothing, PTL DEF Trace!Spec
<1>2. (part = "trace" => Held) => NothingHidden
    BY ChainHidesNothing DEF NothingHidden
<1> QED
    BY <1>1, <1>2, TracePart, PTL

(* topology.go:32 and catalog.go:229: the trace and the catalog, each from  *)
(* its own objects, name one primary network for a namespace.              *)
THEOREM OneTopology ==
    ASSUME Trace!TraceAssumption
    PROVE  (Trace!Spec => []Trace!CatalogAgrees) /\ (PartsSpec => []CatalogAgrees)
<1>1. Trace!Spec => []Trace!CatalogAgrees
    BY HeldInit, HeldStep, CatalogIsTheTrace, PTL DEF Trace!Spec
<1>2. (part = "trace" => Held) => CatalogAgrees
    BY CatalogIsTheTrace DEF CatalogAgrees
<1> QED
    BY <1>1, <1>2, TracePart, PTL

--------------------------------------------------------------------------------
(* The network forms.                                                      *)

Opens(d) == Net!Decode(d) # Net!Refused

LEMMA OpensBy ==
    ASSUME NEW d, NEW g, Net!FormOf(d) = g, Net!Accepts(g), Net!Manifest(g) = d, g # Net!Refused
    PROVE  Opens(d)
BY DEF Opens, Net!Decode

LEMMA EmptyList ==
    ASSUME NEW s, Net!IsList(s), DOMAIN s = {}
    PROVE  s = <<>>
<1>1. s = [i \in {} |-> s[i]]
    BY Zenon DEF Net!IsList
<1> QED
    BY <1>1

(* A list of ports, and a selector of names, come back as they were.       *)
LEMMA PortsComeBack ==
    ASSUME NEW ports, NEW wrap \in {None, "portNumber"}
    PROVE  /\ Net!PortEntries(Net!DecodePorts(Net!PortEntries(ports, wrap)), wrap)
                = Net!PortEntries(ports, wrap)
           /\ Net!PortsValid(ports) => Net!PortsValid(Net!DecodePorts(Net!PortEntries(ports, wrap)))
<1> DEFINE entries == Net!PortEntries(ports, wrap)
           back    == Net!DecodePorts(entries)
<1>1. /\ DOMAIN entries = DOMAIN ports
      /\ \A i \in DOMAIN ports :
            entries[i] = [wrap |-> wrap, proto |-> ports[i].proto, port |-> ports[i].port, end |-> 0]
    BY DEF Net!PortEntries
<1> HIDE DEF entries
<1>2. /\ DOMAIN back = DOMAIN ports
      /\ \A i \in DOMAIN ports : back[i] = [proto |-> ports[i].proto, port |-> ports[i].port]
    BY <1>1 DEF Net!DecodePorts
<1> HIDE DEF back
<1>3. Net!PortEntries(back, wrap) = Net!PortEntries(ports, wrap)
    <2>1. \A i \in DOMAIN ports : back[i].proto = ports[i].proto /\ back[i].port = ports[i].port
        BY <1>2
    <2> QED
        BY <1>2, <2>1 DEF Net!PortEntries
<1>4. Net!PortsValid(ports) => Net!PortsValid(back)
    <2> SUFFICES ASSUME Net!PortsValid(ports), NEW i \in DOMAIN back
                 PROVE  back[i].proto \in Net!Protocol /\ back[i].port \in Net!PortNumber
        BY Zenon DEF Net!PortsValid
    <2>1. i \in DOMAIN ports /\ back[i].proto = ports[i].proto /\ back[i].port = ports[i].port
        BY <1>2
    <2> QED
        BY <2>1, Zenon DEF Net!PortsValid
<1> QED
    BY <1>3, <1>4 DEF back, entries

LEMMA NamesComeBack ==
    ASSUME NEW names, \A i \in DOMAIN names : names[i] # ""
    PROVE  Net!NamespaceNames(Net!NsNameSelector(names)) = names
<1>1. ASSUME NEW sel, sel = [labels |-> None, exprs |-> << <<"name", "In", names>> >>]
      PROVE  Net!NamespaceNames(sel) = names
    <2>1. /\ sel.labels = None /\ Len(sel.exprs) = 1
          /\ sel.exprs[1][1] = "name" /\ sel.exprs[1][2] = "In" /\ sel.exprs[1][3] = names
        BY <1>1
    <2>2. sel.labels \in {None, {}}
        BY <2>1
    <2>3. Net!Given(names) = names
        BY DEF Net!Given
    <2> QED
        BY <2>1, <2>2, <2>3, Zenon DEF Net!NamespaceNames
<1> QED
    BY <1>1 DEF Net!NsNameSelector

LEMMA NamesRead ==
    ASSUME NEW f, f.form \in {"network", "egressip", "route"}, ~Net!NamesNothing(f)
    PROVE  Net!NamespaceNames(Net!NsNameSelector(f.nss)) = f.nss
<1>1. \A i \in DOMAIN f.nss : f.nss[i] # ""
    BY DEF Net!NamesNothing
<1> QED
    BY <1>1, NamesComeBack, Zenon

LEMMA NetworkCases ==
    ASSUME NEW f, f.form = "network"
    PROVE  (Net!Accepts(f) <=> Net!NetworkValid(f)) /\ Net!Manifest(f) = Net!NetworkManifest(f)
BY DEF Net!Accepts, Net!Manifest

(* What a network's form renders.                                          *)
LEMMA NetworkRendered ==
    ASSUME NEW f
    PROVE  /\ f.scope \in {"", "project"} =>
                Net!NetworkManifest(f) =
                    [kind |-> "UserDefinedNetwork", name |-> f.name, ns |-> f.ns, extra |-> {},
                     spec |-> [topology |-> "Layer2", layer |-> Net!Layer2(f.subnets), selector |-> None]]
           /\ f.scope = "shared" =>
                Net!NetworkManifest(f) =
                    [kind |-> "ClusterUserDefinedNetwork", name |-> f.name, ns |-> None, extra |-> {},
                     spec |-> [topology |-> "Layer2", layer |-> Net!Layer2(f.subnets),
                               selector |-> Net!NsNameSelector(f.nss)]]
           /\ f.scope = "vlan" =>
                Net!NetworkManifest(f) =
                    [kind |-> "ClusterUserDefinedNetwork", name |-> f.name, ns |-> None, extra |-> {},
                     spec |-> [topology |-> "Localnet", layer |-> Net!Localnet(f),
                               selector |-> Net!NsNameSelector(f.nss)]]
BY DEF Net!NetworkManifest, Net!Doc

LEMMA ProjectOpens ==
    ASSUME NEW f, f.form = "network", Net!NetworkValid(f), f.scope \in {"", "project"}
    PROVE  Opens(Net!NetworkManifest(f))
<1>1. ASSUME NEW d,
             d = [kind |-> "UserDefinedNetwork", name |-> f.name, ns |-> f.ns, extra |-> {},
                  spec |-> [topology |-> "Layer2", layer |-> Net!Layer2(f.subnets), selector |-> None]],
             NEW g,
             g = [form |-> "network", scope |-> "project", name |-> f.name, ns |-> f.ns, nss |-> <<>>,
                  subnets |-> f.subnets, vlan |-> 0, phys |-> None]
      PROVE  Opens(d)
    <2>1. /\ g.form = "network" /\ g.scope = "project" /\ g.name = f.name /\ g.ns = f.ns
          /\ g.subnets = f.subnets
        BY <1>1
    <2>2. Net!NetworkValid(g)
        BY <2>1 DEF Net!NetworkValid
    <2>3. Net!NetworkManifest(g) = d
        BY <1>1, <2>1, NetworkRendered
    <2>4. Net!Accepts(g) /\ Net!Manifest(g) = d
        BY <2>1, <2>2, <2>3, NetworkCases, Zenon
    <2>5. d.kind = "UserDefinedNetwork"
        BY <1>1
    <2>6. Net!DecodeNetwork(d) = g
        BY <1>1 DEF Net!DecodeNetwork, Net!Layer2
    <2>7. Net!FormOf(d) = g
        BY <2>5, <2>6 DEF Net!FormOf
    <2>8. g # Net!Refused
        BY <1>1 DEF Net!Refused
    <2> QED
        BY <2>4, <2>7, <2>8, OpensBy, Zenon
<1> QED
    BY <1>1, NetworkRendered, Zenon

LEMMA SharedOpens ==
    ASSUME NEW f, f.form = "network", Net!NetworkValid(f), f.scope = "shared", ~Net!NamesNothing(f)
    PROVE  Opens(Net!NetworkManifest(f))
<1>1. ASSUME NEW d,
             d = [kind |-> "ClusterUserDefinedNetwork", name |-> f.name, ns |-> None, extra |-> {},
                  spec |-> [topology |-> "Layer2", layer |-> Net!Layer2(f.subnets),
                            selector |-> Net!NsNameSelector(f.nss)]],
             NEW g,
             g = [form |-> "network", scope |-> "shared", name |-> f.name, ns |-> None, nss |-> f.nss,
                  subnets |-> f.subnets, vlan |-> 0, phys |-> None]
      PROVE  Opens(d)
    <2>1. /\ g.form = "network" /\ g.scope = "shared" /\ g.name = f.name /\ g.nss = f.nss
          /\ g.subnets = f.subnets
        BY <1>1
    <2>2. Net!NetworkValid(g)
        BY <2>1 DEF Net!NetworkValid
    <2>3. Net!NetworkManifest(g) = d
        BY <1>1, <2>1, NetworkRendered
    <2>4. Net!Accepts(g) /\ Net!Manifest(g) = d
        BY <2>1, <2>2, <2>3, NetworkCases, Zenon
    <2>5. /\ d.kind = "ClusterUserDefinedNetwork" /\ d.name = f.name /\ d.spec.topology = "Layer2"
          /\ d.spec.layer.subnets = f.subnets /\ d.spec.selector = Net!NsNameSelector(f.nss)
        BY <1>1 DEF Net!Layer2
    <2>6. Net!DecodeNetwork(d) = g
        BY <1>1, <2>5, NamesRead DEF Net!DecodeNetwork
    <2>7. Net!FormOf(d) = g
        BY <2>5, <2>6 DEF Net!FormOf
    <2>8. g # Net!Refused
        BY <1>1 DEF Net!Refused
    <2> QED
        BY <2>4, <2>7, <2>8, OpensBy, Zenon
<1> QED
    BY <1>1, NetworkRendered, Zenon

LEMMA VlanOpens ==
    ASSUME NEW f, f.form = "network", Net!NetworkValid(f), f.scope = "vlan", ~Net!NamesNothing(f)
    PROVE  Opens(Net!NetworkManifest(f))
<1>1. ASSUME NEW d,
             d = [kind |-> "ClusterUserDefinedNetwork", name |-> f.name, ns |-> None, extra |-> {},
                  spec |-> [topology |-> "Localnet", layer |-> Net!Localnet(f),
                            selector |-> Net!NsNameSelector(f.nss)]],
             NEW g,
             g = [form |-> "network", scope |-> "vlan", name |-> f.name, ns |-> None, nss |-> f.nss,
                  subnets |-> f.subnets, vlan |-> f.vlan, phys |-> f.phys]
      PROVE  Opens(d)
    <2>1. /\ g.form = "network" /\ g.scope = "vlan" /\ g.name = f.name /\ g.nss = f.nss
          /\ g.subnets = f.subnets /\ g.vlan = f.vlan /\ g.phys = f.phys
        BY <1>1
    <2>2. Net!NetworkValid(g)
        BY <2>1 DEF Net!NetworkValid
    <2>3. Net!Localnet(g) = Net!Localnet(f)
        BY <2>1 DEF Net!Localnet
    <2>4. Net!NetworkManifest(g) = d
        BY <1>1, <2>1, <2>3, NetworkRendered
    <2>5. Net!Accepts(g) /\ Net!Manifest(g) = d
        BY <2>1, <2>2, <2>4, NetworkCases, Zenon
    <2>6. /\ d.kind = "ClusterUserDefinedNetwork" /\ d.name = f.name /\ d.spec.topology = "Localnet"
          /\ d.spec.layer.subnets = f.subnets /\ d.spec.selector = Net!NsNameSelector(f.nss)
          /\ d.spec.layer.vlan = f.vlan /\ d.spec.layer.phys = f.phys
        BY <1>1 DEF Net!Localnet
    <2>7. Net!DecodeNetwork(d) = g
        BY <1>1, <2>6, NamesRead DEF Net!DecodeNetwork
    <2>8. Net!FormOf(d) = g
        BY <2>6, <2>7 DEF Net!FormOf
    <2>9. g # Net!Refused
        BY <1>1 DEF Net!Refused
    <2> QED
        BY <2>5, <2>8, <2>9, OpensBy, Zenon
<1> QED
    BY <1>1, NetworkRendered, Zenon

LEMMA EgressIPOpens ==
    ASSUME NEW f, f.form = "egressip", Net!Accepts(f), ~Net!NamesNothing(f)
    PROVE  Opens(Net!Manifest(f))
<1>1. ASSUME NEW h, h.form = "egressip"
      PROVE  (Net!Accepts(h) <=> Net!AddressesValid(h)) /\ Net!Manifest(h) = Net!EgressIPManifest(h)
    BY <1>1 DEF Net!Accepts, Net!Manifest
<1>2. ASSUME NEW d,
             d = [kind |-> "EgressIP", name |-> f.name, ns |-> None, extra |-> {},
                  spec |-> [ips |-> f.ips, selector |-> Net!NsNameSelector(f.nss), pods |-> None]],
             NEW g,
             g = [form |-> "egressip", name |-> f.name, ips |-> f.ips, nss |-> f.nss]
      PROVE  Opens(d)
    <2>1. g.form = "egressip" /\ g.name = f.name /\ g.ips = f.ips /\ g.nss = f.nss
        BY <1>2
    <2>2. Net!AddressesValid(g)
        BY <1>1, <2>1 DEF Net!AddressesValid
    <2>3. Net!EgressIPManifest(g) = d
        BY <1>2, <2>1 DEF Net!EgressIPManifest, Net!Doc
    <2>4. Net!Accepts(g) /\ Net!Manifest(g) = d
        BY <1>1, <2>1, <2>2, <2>3, Zenon
    <2>5. /\ d.kind = "EgressIP" /\ d.name = f.name /\ d.spec.ips = f.ips
          /\ d.spec.selector = Net!NsNameSelector(f.nss)
        BY <1>2
    <2>6. Net!DecodeEgressIP(d) = g
        BY <1>2, <2>5, NamesRead DEF Net!DecodeEgressIP
    <2>7. Net!FormOf(d) = g
        BY <2>5, <2>6 DEF Net!FormOf
    <2>8. g # Net!Refused
        BY <1>2 DEF Net!Refused
    <2> QED
        BY <2>4, <2>7, <2>8, OpensBy, Zenon
<1>3. Net!Manifest(f) = [kind |-> "EgressIP", name |-> f.name, ns |-> None, extra |-> {},
          spec |-> [ips |-> f.ips, selector |-> Net!NsNameSelector(f.nss), pods |-> None]]
    BY <1>1 DEF Net!EgressIPManifest, Net!Doc
<1> QED
    BY <1>2, <1>3, Zenon

LEMMA RouteOpens ==
    ASSUME NEW f, f.form = "route", Net!Accepts(f), Net!IsList(f.ips), ~Net!NamesNothing(f)
    PROVE  Opens(Net!Manifest(f))
<1> DEFINE hops == [i \in DOMAIN f.ips |-> [ip |-> f.ips[i], bfd |-> None]]
<1>1. ASSUME NEW h, h.form = "route"
      PROVE  (Net!Accepts(h) <=> Net!AddressesValid(h)) /\ Net!Manifest(h) = Net!ExternalRouteManifest(h)
    BY <1>1 DEF Net!Accepts, Net!Manifest
<1>2. f.ips = [i \in DOMAIN hops |-> hops[i].ip]
    <2>1. DOMAIN hops = DOMAIN f.ips /\ \A i \in DOMAIN f.ips : hops[i].ip = f.ips[i]
        OBVIOUS
    <2> HIDE DEF hops
    <2> QED
        BY <2>1 DEF Net!IsList
<1>3. ASSUME NEW d,
             d = [kind |-> "AdminPolicyBasedExternalRoute", name |-> f.name, ns |-> None, extra |-> {},
                  spec |-> [selector |-> Net!NsNameSelector(f.nss), hops |-> hops]],
             NEW g,
             g = [form |-> "route", name |-> f.name, nss |-> f.nss, ips |-> f.ips]
      PROVE  Opens(d)
    <2>1. g.form = "route" /\ g.name = f.name /\ g.ips = f.ips /\ g.nss = f.nss
        BY <1>3
    <2>2. Net!AddressesValid(g)
        BY <1>1, <2>1 DEF Net!AddressesValid
    <2>3. Net!ExternalRouteManifest(g) = d
        BY <1>3, <2>1 DEF Net!ExternalRouteManifest, Net!Doc
    <2>4. Net!Accepts(g) /\ Net!Manifest(g) = d
        BY <1>1, <2>1, <2>2, <2>3, Zenon
    <2> HIDE DEF hops
    <2>5. /\ d.kind = "AdminPolicyBasedExternalRoute" /\ d.name = f.name /\ d.spec.hops = hops
          /\ d.spec.selector = Net!NsNameSelector(f.nss)
        BY <1>3
    <2>6. Net!DecodeExternalRoute(d) = g
        BY <1>2, <1>3, <2>5, NamesRead DEF Net!DecodeExternalRoute
    <2>7. Net!FormOf(d) = g
        BY <2>5, <2>6 DEF Net!FormOf
    <2>8. g # Net!Refused
        BY <1>3 DEF Net!Refused
    <2> QED
        BY <2>4, <2>7, <2>8, OpensBy, Zenon
<1>4. Net!Manifest(f) = [kind |-> "AdminPolicyBasedExternalRoute", name |-> f.name, ns |-> None,
          extra |-> {}, spec |-> [selector |-> Net!NsNameSelector(f.nss), hops |-> hops]]
    BY <1>1 DEF Net!ExternalRouteManifest, Net!Doc
<1> QED
    BY <1>3, <1>4, Zenon

LEMMA UplinkOpens ==
    ASSUME NEW f, f.form = "uplink", Net!Accepts(f)
    PROVE  Opens(Net!Manifest(f))
<1> DEFINE bridge == IF f.bridge = None THEN Net!Bridge(f.name) ELSE f.bridge
           nodes  == IF f.nodes \in {None, {}} THEN Net!Worker ELSE f.nodes
<1>1. ASSUME NEW h, h.form = "uplink"
      PROVE  /\ Net!Accepts(h) <=> h.name \in Valid /\ h.nic # None
             /\ Net!Manifest(h) = Net!UplinkManifest(h)
    BY <1>1 DEF Net!Accepts, Net!Manifest
<1>2. ASSUME NEW d,
             d = [kind |-> "NodeNetworkConfigurationPolicy", name |-> Net!UplinkPolicyName(f.name),
                  ns |-> None, extra |-> {},
                  spec |-> [selector |-> nodes,
                            bridges  |-> <<[name |-> bridge, ports |-> <<f.nic>>]>>,
                            mappings |-> <<[localnet |-> f.name, bridge |-> bridge, state |-> "present"]>>]],
             NEW g,
             g = [form |-> "uplink", name |-> f.name,
                  bridge |-> IF bridge = Net!Bridge(f.name) THEN None ELSE bridge,
                  nic |-> f.nic, nodes |-> IF nodes = Net!Worker THEN None ELSE nodes]
      PROVE  Opens(d)
    <2>1. /\ g.form = "uplink" /\ g.name = f.name /\ g.nic = f.nic
          /\ (IF g.bridge = None THEN Net!Bridge(f.name) ELSE g.bridge) = bridge
          /\ (IF g.nodes \in {None, {}} THEN Net!Worker ELSE g.nodes) = nodes
        BY <1>2
    <2> HIDE DEF bridge, nodes
    <2>2. Net!UplinkManifest(g) = d
        BY <1>2, <2>1 DEF Net!UplinkManifest, Net!Doc
    <2>3. Net!Accepts(g) /\ Net!Manifest(g) = d
        BY <1>1, <2>1, <2>2, Zenon
    <2>4. /\ d.kind = "NodeNetworkConfigurationPolicy" /\ d.spec.selector = nodes
          /\ d.spec.mappings[1].localnet = f.name /\ d.spec.mappings[1].bridge = bridge
          /\ d.spec.bridges # <<>> /\ d.spec.bridges[1].ports = <<f.nic>>
        BY <1>2
    <2>5. /\ d.spec.bridges # <<>> /\ d.spec.bridges[1].ports # <<>>
          /\ d.spec.bridges[1].ports[1] = f.nic
        BY <2>4
    <2>6. Net!DecodeUplink(d) = g
        BY <1>2, <2>4, <2>5 DEF Net!DecodeUplink
    <2>7. Net!FormOf(d) = g
        BY <2>4, <2>6 DEF Net!FormOf
    <2>8. g # Net!Refused
        BY <1>2 DEF Net!Refused
    <2> QED
        BY <2>3, <2>7, <2>8, OpensBy, Zenon
<1>3. Net!Manifest(f) =
          [kind |-> "NodeNetworkConfigurationPolicy", name |-> Net!UplinkPolicyName(f.name),
           ns |-> None, extra |-> {},
           spec |-> [selector |-> nodes,
                     bridges  |-> <<[name |-> bridge, ports |-> <<f.nic>>]>>,
                     mappings |-> <<[localnet |-> f.name, bridge |-> bridge, state |-> "present"]>>]]
    BY <1>1 DEF Net!UplinkManifest, Net!Doc
<1> QED
    BY <1>2, <1>3, Zenon

LEMMA FirewallOpens ==
    ASSUME NEW f, f.form = "firewall", Net!Accepts(f), Net!IsList(f.rules)
    PROVE  Opens(Net!Manifest(f))
<1> DEFINE entry(i) == [action |-> f.rules[i].action, cidr |-> f.rules[i].cidr, dns |-> f.rules[i].dns,
                        nodes |-> None, ports |-> Net!PortEntries(f.rules[i].ports, None)]
           entries  == [i \in DOMAIN f.rules |-> entry(i)]
           back(i)  == [action |-> f.rules[i].action, cidr |-> f.rules[i].cidr, dns |-> f.rules[i].dns,
                        ports |-> Net!DecodePorts(Net!PortEntries(f.rules[i].ports, None))]
           rules    == [i \in DOMAIN f.rules |-> back(i)]
<1>1. ASSUME NEW h, h.form = "firewall"
      PROVE  (Net!Accepts(h) <=> Net!FirewallValid(h)) /\ Net!Manifest(h) = Net!EgressFirewallManifest(h)
    BY <1>1 DEF Net!Accepts, Net!Manifest
<1>2. /\ DOMAIN rules = DOMAIN f.rules /\ DOMAIN entries = DOMAIN f.rules
      /\ \A i \in DOMAIN f.rules :
            /\ rules[i].action = f.rules[i].action /\ rules[i].cidr = f.rules[i].cidr
            /\ rules[i].dns = f.rules[i].dns
            /\ rules[i].ports = Net!DecodePorts(Net!PortEntries(f.rules[i].ports, None))
    OBVIOUS
<1>3. \A i \in DOMAIN f.rules :
          /\ entries[i].action = f.rules[i].action /\ entries[i].cidr = f.rules[i].cidr
          /\ entries[i].dns = f.rules[i].dns
          /\ entries[i].ports = Net!PortEntries(f.rules[i].ports, None)
    OBVIOUS
<1>4. entries = [i \in DOMAIN rules |->
                    [action |-> rules[i].action, cidr |-> rules[i].cidr, dns |-> rules[i].dns,
                     nodes |-> None, ports |-> Net!PortEntries(rules[i].ports, None)]]
    <2>1. \A i \in DOMAIN f.rules :
              Net!PortEntries(rules[i].ports, None) = Net!PortEntries(f.rules[i].ports, None)
        BY <1>2, PortsComeBack
    <2>2. DOMAIN entries = DOMAIN f.rules /\ \A i \in DOMAIN f.rules : entries[i] = entry(i)
        OBVIOUS
    <2> HIDE DEF rules
    <2> QED
        BY <1>2, <2>1
<1>5. rules = [i \in DOMAIN entries |->
                  [action |-> entries[i].action, cidr |-> entries[i].cidr, dns |-> entries[i].dns,
                   ports |-> Net!DecodePorts(entries[i].ports)]]
    <2> HIDE DEF entries
    <2> QED
        BY <1>2, <1>3
<1>6. rules # <<>>
    <2>1. f.rules # <<>>
        BY <1>1 DEF Net!FirewallValid
    <2>2. DOMAIN f.rules # {}
        BY <2>1, EmptyList
    <2> HIDE DEF rules
    <2> QED
        BY <1>2, <2>2
<1> HIDE DEF entries, rules
<1>7. ASSUME NEW d,
             d = [kind |-> "EgressFirewall", name |-> "default", ns |-> f.ns, extra |-> {},
                  spec |-> [egress |-> entries]],
             NEW g,
             g = [form |-> "firewall", ns |-> f.ns, rules |-> rules]
      PROVE  Opens(d)
    <2>1. g.form = "firewall" /\ g.ns = f.ns /\ g.rules = rules
        BY <1>7
    <2>2. Net!FirewallValid(g)
        <3>1. /\ f.ns \in Valid
              /\ \A i \in DOMAIN f.rules :
                    /\ f.rules[i].action \in {"Allow", "Deny"}
                    /\ (f.rules[i].cidr = None) # (f.rules[i].dns = None)
                    /\ f.rules[i].cidr \in Valid \union {None}
                    /\ Net!PortsValid(f.rules[i].ports)
            BY <1>1, Zenon DEF Net!FirewallValid
        <3>2. \A i \in DOMAIN rules : Net!PortsValid(rules[i].ports)
            BY <1>2, <3>1, PortsComeBack
        <3> QED
            BY <1>2, <1>6, <2>1, <3>1, <3>2 DEF Net!FirewallValid
    <2>3. Net!EgressFirewallManifest(g) = d
        BY <1>4, <1>7, <2>1 DEF Net!EgressFirewallManifest, Net!Doc
    <2>4. Net!Accepts(g) /\ Net!Manifest(g) = d
        BY <1>1, <2>1, <2>2, <2>3, Zenon
    <2>5. d.kind = "EgressFirewall" /\ d.ns = f.ns /\ d.spec.egress = entries
        BY <1>7
    <2>6. Net!DecodeEgressFirewall(d) = g
        BY <1>5, <1>7, <2>5 DEF Net!DecodeEgressFirewall
    <2>7. Net!FormOf(d) = g
        BY <2>5, <2>6 DEF Net!FormOf
    <2>8. g # Net!Refused
        BY <1>7 DEF Net!Refused
    <2> QED
        BY <2>4, <2>7, <2>8, OpensBy, Zenon
<1>8. Net!Manifest(f) = [kind |-> "EgressFirewall", name |-> "default", ns |-> f.ns, extra |-> {},
                         spec |-> [egress |-> entries]]
    BY <1>1 DEF Net!EgressFirewallManifest, Net!Doc, entries
<1> QED
    BY <1>7, <1>8, Zenon

LEMMA PolicyOpens ==
    ASSUME NEW f, f.form = "policy", Net!Accepts(f),
           \A i \in DOMAIN f.ingress : \A j \in DOMAIN f.ingress[i].from :
               Net!MatchLabels(f.ingress[i].from[j]) # None
    PROVE  Opens(Net!Manifest(f))
<1> DEFINE peers(i) == [j \in DOMAIN f.ingress[i].from |->
                           [pods |-> Net!MatchLabels(f.ingress[i].from[j]), other |-> None]]
           ports(i) == Net!PortEntries(f.ingress[i].ports, None)
           entries  == [i \in DOMAIN f.ingress |-> [from |-> peers(i), ports |-> ports(i)]]
           from(i)  == [j \in DOMAIN f.ingress[i].from |-> f.ingress[i].from[j]]
           rules    == [i \in DOMAIN f.ingress |-> [from |-> from(i), ports |-> Net!DecodePorts(ports(i))]]
           pods     == Net!OrEverything(f.appliedTo)
<1>1. ASSUME NEW h, h.form = "policy"
      PROVE  (Net!Accepts(h) <=> Net!PolicyValid(h)) /\ Net!Manifest(h) = Net!NetworkPolicyManifest(h)
    BY <1>1 DEF Net!Accepts, Net!Manifest
<1>2. /\ DOMAIN rules = DOMAIN f.ingress /\ DOMAIN entries = DOMAIN f.ingress
      /\ \A i \in DOMAIN f.ingress :
            /\ rules[i].from = from(i) /\ rules[i].ports = Net!DecodePorts(ports(i))
            /\ entries[i].from = peers(i) /\ entries[i].ports = ports(i)
    OBVIOUS
<1>3. \A i \in DOMAIN f.ingress :
          /\ DOMAIN peers(i) = DOMAIN f.ingress[i].from
          /\ \A j \in DOMAIN f.ingress[i].from :
                /\ peers(i)[j].pods # None
                /\ peers(i)[j].pods.labels = f.ingress[i].from[j]
    BY DEF Net!MatchLabels
<1>4. \A i \in DOMAIN f.ingress :
          /\ Net!PortEntries(Net!DecodePorts(ports(i)), None) = ports(i)
          /\ peers(i) = [j \in DOMAIN from(i) |-> [pods |-> Net!MatchLabels(from(i)[j]), other |-> None]]
    <2>1. \A i \in DOMAIN f.ingress : Net!PortEntries(Net!DecodePorts(ports(i)), None) = ports(i)
        BY PortsComeBack
    <2>2. \A i \in DOMAIN f.ingress :
              peers(i) = [j \in DOMAIN from(i) |-> [pods |-> Net!MatchLabels(from(i)[j]), other |-> None]]
        OBVIOUS
    <2> QED
        BY <2>1, <2>2, Zenon
<1>5. \A i \in DOMAIN f.ingress :
          from(i) = [j \in DOMAIN peers(i) |->
                        IF peers(i)[j].pods = None THEN None ELSE peers(i)[j].pods.labels]
    <2> SUFFICES ASSUME NEW i \in DOMAIN f.ingress
                 PROVE  from(i) = [j \in DOMAIN peers(i) |->
                            IF peers(i)[j].pods = None THEN None ELSE peers(i)[j].pods.labels]
        BY Zenon
    <2>1. /\ DOMAIN peers(i) = DOMAIN f.ingress[i].from
          /\ \A j \in DOMAIN f.ingress[i].from :
                peers(i)[j].pods # None /\ peers(i)[j].pods.labels = f.ingress[i].from[j]
        BY <1>3
    <2> HIDE DEF peers
    <2> QED
        BY <2>1
<1> HIDE DEF peers, from
<1>6. entries = [i \in DOMAIN rules |->
                    [from |-> [j \in DOMAIN rules[i].from |->
                                  [pods |-> Net!MatchLabels(rules[i].from[j]), other |-> None]],
                     ports |-> Net!PortEntries(rules[i].ports, None)]]
    <2> DEFINE again(i) == [from |-> [j \in DOMAIN rules[i].from |->
                                        [pods |-> Net!MatchLabels(rules[i].from[j]), other |-> None]],
                            ports |-> Net!PortEntries(rules[i].ports, None)]
    <2>1. \A i \in DOMAIN f.ingress : again(i) = [from |-> peers(i), ports |-> ports(i)]
        BY <1>2, <1>4
    <2> HIDE DEF again
    <2>2. entries = [i \in DOMAIN rules |-> again(i)]
        BY <1>2, <2>1
    <2> QED
        BY <2>2 DEF again
<1>7. rules = [i \in DOMAIN entries |->
                  [from |-> [j \in DOMAIN entries[i].from |->
                               IF entries[i].from[j].pods = None THEN None
                               ELSE entries[i].from[j].pods.labels],
                   ports |-> Net!DecodePorts(entries[i].ports)]]
    <2> DEFINE again(i) == [from |-> [j \in DOMAIN entries[i].from |->
                                        IF entries[i].from[j].pods = None THEN None
                                        ELSE entries[i].from[j].pods.labels],
                            ports |-> Net!DecodePorts(entries[i].ports)]
    <2>1. \A i \in DOMAIN f.ingress :
              again(i) = [from |-> from(i), ports |-> Net!DecodePorts(ports(i))]
        BY <1>2, <1>5
    <2> HIDE DEF again
    <2>2. rules = [i \in DOMAIN entries |-> again(i)]
        BY <1>2, <2>1
    <2> QED
        BY <2>2 DEF again
<1>8. pods.labels = f.appliedTo \/ (f.appliedTo = {} /\ pods.labels = None)
    BY DEF Net!OrEverything, Net!Everything, Net!MatchLabels
<1>9. Net!OrEverything(pods.labels) = pods
    BY <1>8 DEF Net!OrEverything
<1> HIDE DEF entries, rules, pods
<1>10. ASSUME NEW d,
              d = [kind |-> "NetworkPolicy", name |-> f.name, ns |-> f.ns, extra |-> {},
                   spec |-> [pods |-> pods, types |-> {"Ingress"}, ingress |-> entries]],
              NEW g,
              g = [form |-> "policy", name |-> f.name, ns |-> f.ns, appliedTo |-> pods.labels,
                   ingress |-> rules]
       PROVE  Opens(d)
    <2>1. /\ g.form = "policy" /\ g.name = f.name /\ g.ns = f.ns
          /\ g.appliedTo = pods.labels /\ g.ingress = rules
        BY <1>10
    <2>2. Net!PolicyValid(g)
        <3>1. /\ f.name \in Valid /\ f.ns \in Valid
              /\ \A i \in DOMAIN f.ingress : Net!PortsValid(f.ingress[i].ports)
            BY <1>1, Zenon DEF Net!PolicyValid
        <3>2. \A i \in DOMAIN rules : Net!PortsValid(rules[i].ports)
            BY <1>2, <3>1, PortsComeBack
        <3> QED
            BY <2>1, <3>1, <3>2 DEF Net!PolicyValid
    <2>3. Net!NetworkPolicyManifest(g) = d
        BY <1>6, <1>9, <1>10, <2>1 DEF Net!NetworkPolicyManifest, Net!Doc
    <2>4. Net!Accepts(g) /\ Net!Manifest(g) = d
        BY <1>1, <2>1, <2>2, <2>3, Zenon
    <2>5. /\ d.kind = "NetworkPolicy" /\ d.name = f.name /\ d.ns = f.ns
          /\ d.spec.ingress = entries /\ d.spec.pods = pods
        BY <1>10
    <2>6. Net!DecodeNetworkPolicy(d) = g
        BY <1>7, <1>10, <2>5 DEF Net!DecodeNetworkPolicy
    <2>7. Net!FormOf(d) = g
        BY <2>5, <2>6 DEF Net!FormOf
    <2>8. g # Net!Refused
        BY <1>10 DEF Net!Refused
    <2> QED
        BY <2>4, <2>7, <2>8, OpensBy, Zenon
<1>11. Net!Manifest(f) = [kind |-> "NetworkPolicy", name |-> f.name, ns |-> f.ns, extra |-> {},
                          spec |-> [pods |-> pods, types |-> {"Ingress"}, ingress |-> entries]]
    BY <1>1 DEF Net!NetworkPolicyManifest, Net!Doc, entries, pods, peers
<1> QED
    BY <1>10, <1>11, Zenon

(* The rules of an admin tier, as a manifest has them and read back.       *)
AdminPeers(peers) == [i \in DOMAIN peers |-> [namespaces |-> Net!OrEverything(peers[i]), other |-> None]]

AdminGroup(p) ==
    IF p.namespaces = None THEN {} ELSE IF p.namespaces.labels = None THEN {} ELSE p.namespaces.labels

AdminGroups(peers) == [i \in DOMAIN peers |-> AdminGroup(peers[i])]

AdminEntries(s) ==
    [i \in DOMAIN s |-> [action |-> s[i].action, ports |-> Net!PortEntries(s[i].ports, "portNumber"),
                         peers |-> AdminPeers(s[i].peers)]]

AdminRules(s) ==
    [i \in DOMAIN s |-> [action |-> s[i].action, ports |-> Net!DecodePorts(s[i].ports),
                         peers |-> AdminGroups(s[i].peers)]]

AdminRulesValid(rules, baseline) ==
    \A i \in DOMAIN rules :
        /\ rules[i].action \in {"Allow", "Deny"} \union (IF baseline THEN {} ELSE {"Pass"})
        /\ rules[i].peers # <<>>
        /\ Net!PortsValid(rules[i].ports)

LEMMA PeersComeBack ==
    ASSUME NEW peers, Net!IsList(peers), \A j \in DOMAIN peers : Net!OrEverything(peers[j]) # None
    PROVE  /\ AdminPeers(AdminGroups(AdminPeers(peers))) = AdminPeers(peers)
           /\ peers # <<>> => AdminGroups(AdminPeers(peers)) # <<>>
<1> DEFINE back == AdminGroups(AdminPeers(peers))
<1>1. /\ DOMAIN AdminPeers(peers) = DOMAIN peers
      /\ \A j \in DOMAIN peers : AdminPeers(peers)[j].namespaces = Net!OrEverything(peers[j])
    BY DEF AdminPeers
<1>2. DOMAIN back = DOMAIN peers
    BY <1>1 DEF AdminGroups
<1>3. \A j \in DOMAIN peers : Net!OrEverything(back[j]) = Net!OrEverything(peers[j])
    <2> SUFFICES ASSUME NEW j \in DOMAIN peers
                 PROVE  Net!OrEverything(back[j]) = Net!OrEverything(peers[j])
        OBVIOUS
    <2> DEFINE sel == Net!OrEverything(peers[j])
    <2>1. back[j] = IF sel.labels = None THEN {} ELSE sel.labels
        BY <1>1 DEF AdminGroups, AdminGroup
    <2>2. CASE peers[j] \in {None, {}}
        <3>1. sel = Net!Everything /\ sel.labels = None
            BY <2>2 DEF Net!OrEverything, Net!Everything, Net!MatchLabels
        <3> QED
            BY <2>1, <3>1 DEF Net!OrEverything
    <2>3. CASE peers[j] \notin {None, {}}
        <3>1. sel.labels = peers[j]
            BY <2>3 DEF Net!OrEverything, Net!MatchLabels
        <3>2. back[j] = peers[j]
            BY <2>1, <2>3, <3>1
        <3> QED
            BY <3>2
    <2> QED
        BY <2>2, <2>3
<1> HIDE DEF back
<1>4. AdminPeers(back) = AdminPeers(peers)
    BY <1>2, <1>3 DEF AdminPeers
<1>5. peers # <<>> => back # <<>>
    BY <1>2, EmptyList
<1> QED
    BY <1>4, <1>5 DEF back

LEMMA RulesComeBack ==
    ASSUME NEW s,
           \A i \in DOMAIN s :
               /\ Net!IsList(s[i].peers)
               /\ \A j \in DOMAIN s[i].peers : Net!OrEverything(s[i].peers[j]) # None
    PROVE  /\ AdminEntries(AdminRules(AdminEntries(s))) = AdminEntries(s)
           /\ \A baseline : AdminRulesValid(s, baseline) =>
                 AdminRulesValid(AdminRules(AdminEntries(s)), baseline)
<1> DEFINE back == AdminRules(AdminEntries(s))
<1>1. /\ DOMAIN AdminEntries(s) = DOMAIN s
      /\ \A i \in DOMAIN s :
            /\ AdminEntries(s)[i].action = s[i].action
            /\ AdminEntries(s)[i].ports = Net!PortEntries(s[i].ports, "portNumber")
            /\ AdminEntries(s)[i].peers = AdminPeers(s[i].peers)
    BY DEF AdminEntries
<1>2. /\ DOMAIN back = DOMAIN s
      /\ \A i \in DOMAIN s :
            /\ back[i].action = s[i].action
            /\ back[i].ports = Net!DecodePorts(Net!PortEntries(s[i].ports, "portNumber"))
            /\ back[i].peers = AdminGroups(AdminPeers(s[i].peers))
    BY <1>1 DEF AdminRules
<1> HIDE DEF back
<1>3. \A i \in DOMAIN s :
          /\ Net!PortEntries(back[i].ports, "portNumber") = Net!PortEntries(s[i].ports, "portNumber")
          /\ AdminPeers(back[i].peers) = AdminPeers(s[i].peers)
    BY <1>2, PortsComeBack, PeersComeBack
<1>4. AdminEntries(back) = AdminEntries(s)
    BY <1>2, <1>3 DEF AdminEntries
<1>5. ASSUME NEW baseline, AdminRulesValid(s, baseline)
      PROVE  AdminRulesValid(back, baseline)
    <2> SUFFICES ASSUME NEW i \in DOMAIN back
                 PROVE  /\ back[i].action \in {"Allow", "Deny"} \union (IF baseline THEN {} ELSE {"Pass"})
                        /\ back[i].peers # <<>>
                        /\ Net!PortsValid(back[i].ports)
        BY Zenon DEF AdminRulesValid
    <2>1. /\ s[i].action \in {"Allow", "Deny"} \union (IF baseline THEN {} ELSE {"Pass"})
          /\ s[i].peers # <<>> /\ Net!PortsValid(s[i].ports)
        BY <1>2, <1>5, Zenon DEF AdminRulesValid
    <2>2. Net!PortsValid(back[i].ports)
        BY <1>2, <2>1, PortsComeBack
    <2>3. back[i].peers # <<>>
        BY <1>2, <2>1, PeersComeBack
    <2> QED
        BY <1>2, <2>1, <2>2, <2>3, Zenon
<1> QED
    BY <1>4, <1>5, Zenon DEF back

LEMMA AdminOpens ==
    ASSUME NEW f, f.form = "admin", Net!Accepts(f), Net!WellFormed(f), None \notin Net!Priority
    PROVE  Opens(Net!Manifest(f))
<1> DEFINE kind     == IF f.baseline THEN "BaselineAdminNetworkPolicy" ELSE "AdminNetworkPolicy"
           name     == IF f.baseline THEN "default" ELSE f.name
           priority == IF f.baseline THEN None ELSE f.priority
           subject  == Net!OrEverything(f.subject)
           ingress  == AdminEntries(f.ingress)
           egress   == AdminEntries(f.egress)
<1>1. ASSUME NEW h, h.form = "admin"
      PROVE  /\ Net!Accepts(h) <=> Net!AdminValid(h)
             /\ Net!Manifest(h) = Net!AdminNetworkPolicyManifest(h)
    BY <1>1 DEF Net!Accepts, Net!Manifest
<1>2. ASSUME NEW h
      PROVE  /\ Net!AdminValid(h) <=>
                    /\ h.baseline \/ (h.name \in Valid /\ h.priority \in Net!Priority)
                    /\ AdminRulesValid(h.ingress, h.baseline) /\ AdminRulesValid(h.egress, h.baseline)
             /\ Net!AdminNetworkPolicyManifest(h) =
                    [kind |-> IF h.baseline THEN "BaselineAdminNetworkPolicy" ELSE "AdminNetworkPolicy",
                     name |-> IF h.baseline THEN "default" ELSE h.name, ns |-> None, extra |-> {},
                     spec |-> [subject |-> Net!OrEverything(h.subject), pods |-> None,
                               ingress |-> AdminEntries(h.ingress), egress |-> AdminEntries(h.egress),
                               priority |-> IF h.baseline THEN None ELSE h.priority]]
    <2>1. Net!AdminValid(h) <=>
              /\ h.baseline \/ (h.name \in Valid /\ h.priority \in Net!Priority)
              /\ AdminRulesValid(h.ingress, h.baseline) /\ AdminRulesValid(h.egress, h.baseline)
        BY Zenon DEF Net!AdminValid, AdminRulesValid
    <2>2. Net!AdminNetworkPolicyManifest(h) =
              [kind |-> IF h.baseline THEN "BaselineAdminNetworkPolicy" ELSE "AdminNetworkPolicy",
               name |-> IF h.baseline THEN "default" ELSE h.name, ns |-> None, extra |-> {},
               spec |-> [subject |-> Net!OrEverything(h.subject), pods |-> None,
                         ingress |-> AdminEntries(h.ingress), egress |-> AdminEntries(h.egress),
                         priority |-> IF h.baseline THEN None ELSE h.priority]]
        BY Zenon DEF Net!AdminNetworkPolicyManifest, Net!Doc, AdminEntries, AdminPeers
    <2> QED
        BY <2>1, <2>2
<1>3. /\ f.baseline \in BOOLEAN /\ subject # None
      /\ \A i \in DOMAIN f.ingress :
            /\ Net!IsList(f.ingress[i].peers)
            /\ \A j \in DOMAIN f.ingress[i].peers : Net!OrEverything(f.ingress[i].peers[j]) # None
      /\ \A i \in DOMAIN f.egress :
            /\ Net!IsList(f.egress[i].peers)
            /\ \A j \in DOMAIN f.egress[i].peers : Net!OrEverything(f.egress[i].peers[j]) # None
    BY DEF Net!WellFormed
<1>4. /\ f.baseline \/ (f.name \in Valid /\ f.priority \in Net!Priority)
      /\ AdminRulesValid(f.ingress, f.baseline) /\ AdminRulesValid(f.egress, f.baseline)
    BY <1>1, <1>2
<1>5. subject.labels = f.subject \/ (f.subject = {} /\ subject.labels = None)
    BY DEF Net!OrEverything, Net!Everything, Net!MatchLabels
<1>6. Net!OrEverything(subject.labels) = subject
    BY <1>5 DEF Net!OrEverything
<1>7. /\ AdminEntries(AdminRules(ingress)) = ingress /\ AdminEntries(AdminRules(egress)) = egress
      /\ AdminRulesValid(AdminRules(ingress), f.baseline)
      /\ AdminRulesValid(AdminRules(egress), f.baseline)
    BY <1>3, <1>4, RulesComeBack, Zenon
<1>8. /\ (kind = "BaselineAdminNetworkPolicy") = f.baseline
      /\ kind \in {"AdminNetworkPolicy", "BaselineAdminNetworkPolicy"}
      /\ f.baseline => priority = None /\ name = "default"
      /\ ~f.baseline => name = f.name /\ priority = f.priority /\ priority # None
    BY <1>3, <1>4
<1> HIDE DEF kind, name, priority, subject, ingress, egress
<1>9. ASSUME NEW d,
             d = [kind |-> kind, name |-> name, ns |-> None, extra |-> {},
                  spec |-> [subject |-> subject, pods |-> None, ingress |-> ingress, egress |-> egress,
                            priority |-> priority]],
             NEW g,
             g = [form |-> "admin", name |-> name, baseline |-> kind = "BaselineAdminNetworkPolicy",
                  priority |-> IF priority = None THEN 0 ELSE priority, subject |-> subject.labels,
                  ingress |-> AdminRules(ingress), egress |-> AdminRules(egress)]
      PROVE  Opens(d)
    <2>1. /\ g.form = "admin" /\ g.name = name /\ g.baseline = f.baseline
          /\ g.priority = IF priority = None THEN 0 ELSE priority
          /\ g.subject = subject.labels
          /\ g.ingress = AdminRules(ingress) /\ g.egress = AdminRules(egress)
        BY <1>8, <1>9
    <2>2. Net!AdminValid(g)
        <3>1. g.baseline \/ (g.name \in Valid /\ g.priority \in Net!Priority)
            BY <1>3, <1>4, <1>8, <2>1
        <3>2. AdminRulesValid(g.ingress, g.baseline) /\ AdminRulesValid(g.egress, g.baseline)
            BY <1>7, <2>1, Zenon
        <3> QED
            BY <1>2, <3>1, <3>2, Zenon
    <2>3. Net!AdminNetworkPolicyManifest(g) = d
        <3>1. /\ (IF g.baseline THEN "BaselineAdminNetworkPolicy" ELSE "AdminNetworkPolicy") = kind
              /\ (IF g.baseline THEN "default" ELSE g.name) = name
              /\ (IF g.baseline THEN None ELSE g.priority) = priority
            BY <1>3, <1>8, <2>1
        <3>2. /\ Net!OrEverything(g.subject) = subject
              /\ AdminEntries(g.ingress) = ingress /\ AdminEntries(g.egress) = egress
            BY <1>6, <1>7, <2>1, Zenon
        <3> QED
            BY <1>2, <1>9, <3>1, <3>2, Zenon
    <2>4. Net!Accepts(g) /\ Net!Manifest(g) = d
        BY <1>1, <2>1, <2>2, <2>3, Zenon
    <2>5. /\ d.kind = kind /\ d.name = name /\ d.spec.priority = priority /\ d.spec.subject = subject
          /\ d.spec.ingress = ingress /\ d.spec.egress = egress
        BY <1>9
    <2>6. Net!DecodeAdminNetworkPolicy(d) = g
        <3>1. Net!DecodeAdminNetworkPolicy(d) =
                  [form |-> "admin", name |-> d.name, baseline |-> d.kind = "BaselineAdminNetworkPolicy",
                   priority |-> IF d.spec.priority = None THEN 0 ELSE d.spec.priority,
                   subject |-> IF d.spec.subject = None THEN None ELSE d.spec.subject.labels,
                   ingress |-> AdminRules(d.spec.ingress), egress |-> AdminRules(d.spec.egress)]
            BY Zenon DEF Net!DecodeAdminNetworkPolicy, AdminRules, AdminGroups, AdminGroup
        <3>2. (IF d.spec.subject = None THEN None ELSE d.spec.subject.labels) = subject.labels
            BY <1>3, <2>5 DEF subject
        <3> QED
            BY <1>9, <2>5, <3>1, <3>2, Zenon
    <2>7. Net!FormOf(d) = g
        <3>1. d.kind \in {"AdminNetworkPolicy", "BaselineAdminNetworkPolicy"}
            BY <1>8, <2>5
        <3> QED
            BY <2>6, <3>1 DEF Net!FormOf
    <2>8. g # Net!Refused
        BY <1>9 DEF Net!Refused
    <2> QED
        BY <2>4, <2>7, <2>8, OpensBy, Zenon
<1>10. Net!Manifest(f) = [kind |-> kind, name |-> name, ns |-> None, extra |-> {},
                  spec |-> [subject |-> subject, pods |-> None, ingress |-> ingress, egress |-> egress,
                            priority |-> priority]]
    BY <1>1, <1>2 DEF kind, name, priority, subject, ingress, egress
<1> QED
    BY <1>9, <1>10, Zenon

(* Whatever form is accepted and names what it names, what it renders opens. *)
LEMMA Reopens ==
    ASSUME NEW f \in Forms, Net!FormsAssumption, Net!Accepts(f), ~Net!NamesNothing(f)
    PROVE  Opens(Net!Manifest(f))
<1>1. Net!WellFormed(f) /\ None \notin Net!Priority
    BY DEF Net!FormsAssumption
<1>2. f.form \in {"network", "policy", "admin", "firewall", "egressip", "route", "uplink"}
    BY <1>1 DEF Net!WellFormed
<1>3. CASE f.form = "network"
    <2>1. Net!NetworkValid(f) /\ Net!Manifest(f) = Net!NetworkManifest(f)
        BY <1>3, NetworkCases
    <2>2. f.scope \in {"", "project", "shared", "vlan"}
        BY <2>1, Zenon DEF Net!NetworkValid
    <2> QED
        BY <1>3, <2>1, <2>2, ProjectOpens, SharedOpens, VlanOpens
<1>4. CASE f.form = "policy"
    <2>1. \A i \in DOMAIN f.ingress : \A j \in DOMAIN f.ingress[i].from :
              Net!MatchLabels(f.ingress[i].from[j]) # None
        BY <1>1, <1>4 DEF Net!WellFormed
    <2> QED
        BY <1>4, <2>1, PolicyOpens
<1>5. CASE f.form = "admin"
    BY <1>1, <1>5, AdminOpens
<1>6. CASE f.form = "firewall"
    <2>1. Net!IsList(f.rules)
        BY <1>1, <1>6 DEF Net!WellFormed
    <2> QED
        BY <1>6, <2>1, FirewallOpens
<1>7. CASE f.form = "egressip"
    BY <1>7, EgressIPOpens
<1>8. CASE f.form = "route"
    <2>1. Net!IsList(f.ips)
        BY <1>1, <1>8 DEF Net!WellFormed
    <2> QED
        BY <1>8, <2>1, RouteOpens
<1>9. CASE f.form = "uplink"
    BY <1>9, UplinkOpens
<1> QED
    BY <1>2, <1>3, <1>4, <1>5, <1>6, <1>7, <1>8, <1>9

FormsInv ==
    /\ \A x \in docs : x.id = Net!Id(x.doc)
    /\ \A x, y \in docs : x.id = y.id => x = y
    /\ \A x \in docs : x.form # None =>
          Net!Accepts(x.form) /\ x.doc = Net!Manifest(x.form) /\ (Opens(x.doc) \/ Net!NamesNothing(x.form))
    /\ open # None => open.spec = Net!Decode(open.read)

LEMMA LandInv ==
    ASSUME FormsInv, NEW d, NEW form, Net!Land(Net!Id(d), d, form),
           form # None => Net!Accepts(form) /\ d = Net!Manifest(form) /\ (Opens(d) \/ Net!NamesNothing(form))
    PROVE  /\ \A x \in docs' : x.id = Net!Id(x.doc)
           /\ \A x, y \in docs' : x.id = y.id => x = y
           /\ \A x \in docs' : x.form # None =>
                 Net!Accepts(x.form) /\ x.doc = Net!Manifest(x.form) /\ (Opens(x.doc) \/ Net!NamesNothing(x.form))
<1> DEFINE new == [id |-> Net!Id(d), doc |-> d, form |-> form]
<1>1. docs' = {x \in docs : x.id # Net!Id(d)} \union {new}
    BY DEF Net!Land
<1>2. new.id = Net!Id(d) /\ new.doc = d /\ new.form = form
    OBVIOUS
<1> HIDE DEF new
<1>3. \A x \in docs' : x = new \/ (x \in docs /\ x.id # Net!Id(d))
    BY <1>1
<1>4. \A x \in docs' : x.id = Net!Id(x.doc)
    BY <1>2, <1>3, Zenon DEF FormsInv
<1>5. \A x, y \in docs' : x.id = y.id => x = y
    BY <1>2, <1>3, Zenon DEF FormsInv
<1>6. \A x \in docs' : x.form # None =>
          Net!Accepts(x.form) /\ x.doc = Net!Manifest(x.form) /\ (Opens(x.doc) \/ Net!NamesNothing(x.form))
    BY <1>2, <1>3, Zenon DEF FormsInv
<1> QED
    BY <1>4, <1>5, <1>6, Zenon

LEMMA DecodeGives ==
    ASSUME NEW d, Net!Decode(d) # Net!Refused
    PROVE  Net!Accepts(Net!Decode(d)) /\ Net!Manifest(Net!Decode(d)) = d
BY DEF Net!Decode

LEMMA FormsNext ==
    ASSUME Net!FormsAssumption, FormsInv, [Net!Next]_formVars
    PROVE  FormsInv'
<1>1. CASE UNCHANGED formVars
    BY <1>1, Zenon DEF FormsInv, formVars
<1>2. ASSUME NEW f \in Forms, Net!StageCreate(f)
      PROVE  FormsInv'
    <2>1. /\ Net!Accepts(f) /\ Net!Land(Net!Id(Net!Manifest(f)), Net!Manifest(f), f) /\ open' = open
        BY <1>2, Zenon DEF Net!StageCreate
    <2>2. Opens(Net!Manifest(f)) \/ Net!NamesNothing(f)
        BY <2>1, Reopens
    <2>3. (open # None => open.spec = Net!Decode(open.read))'
        BY <2>1, Zenon DEF FormsInv
    <2> QED
        BY <2>1, <2>2, <2>3, LandInv, Zenon DEF FormsInv
<1>3. ASSUME NEW d \in docs, Net!ObjectSpec(d)
      PROVE  FormsInv'
    <2>1. docs' = docs /\ open' = [read |-> d.doc, spec |-> Net!Decode(d.doc)]
        BY <1>3, Zenon DEF Net!ObjectSpec
    <2>2. open'.spec = Net!Decode(open'.read)
        BY <2>1
    <2> QED
        BY <2>1, <2>2, Zenon DEF FormsInv
<1>4. ASSUME Net!SaveOpen
      PROVE  FormsInv'
    <2>1. /\ open # None /\ open.spec # Net!Refused /\ open' = open
          /\ Net!Land(Net!Id(Net!Manifest(open.spec)), Net!Manifest(open.spec), open.spec)
        BY <1>4, Zenon DEF Net!SaveOpen, Net!StageCreate
    <2>2. Net!Decode(open.read) # Net!Refused /\ open.spec = Net!Decode(open.read)
        BY <2>1, Zenon DEF FormsInv
    <2>3. Net!Accepts(open.spec) /\ Net!Manifest(open.spec) = open.read
        BY <2>2, DecodeGives, Zenon
    <2>4. Opens(Net!Manifest(open.spec))
        BY <2>2, <2>3, Zenon DEF Opens
    <2>5. (open # None => open.spec = Net!Decode(open.read))'
        BY <2>1, <2>2, Zenon
    <2> QED
        BY <2>1, <2>3, <2>4, <2>5, LandInv, Zenon DEF FormsInv
<1>5. ASSUME NEW d \in docs, NEW new \in HandEdits(d.doc), Net!StageUpdateManifest(d, new)
      PROVE  FormsInv'
    <2>1. Net!Id(new) = d.id /\ Net!Land(d.id, new, None) /\ open' = open
        BY <1>5, Zenon DEF Net!StageUpdateManifest
    <2>2. Net!Land(Net!Id(new), new, None)
        BY <2>1
    <2>3. (open # None => open.spec = Net!Decode(open.read))'
        BY <2>1, Zenon DEF FormsInv
    <2> QED
        BY <2>2, <2>3, LandInv, Zenon DEF FormsInv
<1> QED
    BY <1>1, <1>2, <1>3, <1>4, <1>5, Zenon DEF Net!Next, formVars, Net!vars

(* The rows of the catalog, of a network that a form rendered.             *)
LEMMA RowShown ==
    ASSUME NEW f, Net!NetworkValid(f), NEW d, d = Net!NetworkManifest(f)
    PROVE  /\ (Net!NetworkRow(d).kind = "VLAN") = (f.scope = "vlan")
           /\ Net!NetworkRow(d).kind # "VM Network"
           /\ Net!NetworkRow(d).subnets = f.subnets
           /\ f.scope = "vlan" => Net!NetworkRow(d).uplink = f.phys /\ Net!NetworkRow(d).vlan = f.vlan
<1>1. f.scope \in {"", "project", "shared", "vlan"}
    BY Zenon DEF Net!NetworkValid
<1>2. CASE f.scope = "vlan"
    <2>1. d = [kind |-> "ClusterUserDefinedNetwork", name |-> f.name, ns |-> None, extra |-> {},
               spec |-> [topology |-> "Localnet", layer |-> Net!Localnet(f),
                         selector |-> Net!NsNameSelector(f.nss)]]
        BY <1>2, NetworkRendered, Zenon
    <2>2. /\ d.kind = "ClusterUserDefinedNetwork" /\ d.spec.topology = "Localnet"
          /\ d.spec.layer = Net!Localnet(f)
        BY <2>1
    <2>3. /\ d.spec.layer.subnets = f.subnets /\ d.spec.layer.phys = f.phys
          /\ d.spec.layer.vlan = f.vlan
        BY <2>2 DEF Net!Localnet
    <2>4. /\ Net!NetworkRow(d).kind = "VLAN" /\ Net!NetworkRow(d).subnets = f.subnets
          /\ Net!NetworkRow(d).uplink = f.phys /\ Net!NetworkRow(d).vlan = f.vlan
        BY <2>2, <2>3 DEF Net!NetworkRow, Net!PortGroupKind
    <2> QED
        BY <1>2, <2>4
<1>3. CASE f.scope # "vlan"
    <2>1. d.spec.topology = "Layer2" /\ d.spec.layer = Net!Layer2(f.subnets)
        <3>1. CASE f.scope \in {"", "project"}
            <4>1. d = [kind |-> "UserDefinedNetwork", name |-> f.name, ns |-> f.ns, extra |-> {},
                       spec |-> [topology |-> "Layer2", layer |-> Net!Layer2(f.subnets),
                                 selector |-> None]]
                BY <3>1, NetworkRendered, Zenon
            <4> QED
                BY <4>1
        <3>2. CASE f.scope = "shared"
            <4>1. d = [kind |-> "ClusterUserDefinedNetwork", name |-> f.name, ns |-> None, extra |-> {},
                       spec |-> [topology |-> "Layer2", layer |-> Net!Layer2(f.subnets),
                                 selector |-> Net!NsNameSelector(f.nss)]]
                BY <3>2, NetworkRendered, Zenon
            <4> QED
                BY <4>1
        <3> QED
            BY <1>1, <1>3, <3>1, <3>2
    <2>2. d.spec.layer.role = "Secondary" /\ d.spec.layer.subnets = f.subnets
        BY <2>1 DEF Net!Layer2
    <2>3. Net!NetworkRow(d).kind = "Internal" /\ Net!NetworkRow(d).subnets = f.subnets
        BY <2>1, <2>2 DEF Net!NetworkRow, Net!PortGroupKind
    <2> QED
        BY <1>3, <2>3
<1> QED
    BY <1>2, <1>3

LEMMA FormsShown ==
    ASSUME FormsInv
    PROVE  Net!FormsReadBack
<1>1. ASSUME NEW x \in docs, x.form # None
      PROVE  Net!Decode(x.doc) # Net!Refused \/ Net!NamesNothing(x.form)
    BY <1>1, Zenon DEF FormsInv, Opens
<1>2. ASSUME NEW x \in docs, x.form # None, x.form.form = "network"
      PROVE  LET row  == Net!NetworkRow(x.doc)
                 vlan == x.form.scope = "vlan"
             IN  /\ (row.kind = "VLAN") = vlan /\ row.kind # "VM Network"
                 /\ row.subnets = x.form.subnets
                 /\ vlan => row.uplink = x.form.phys /\ row.vlan = x.form.vlan
    <2>1. Net!Accepts(x.form) /\ x.doc = Net!Manifest(x.form)
        BY <1>2, Zenon DEF FormsInv
    <2>2. Net!NetworkValid(x.form) /\ x.doc = Net!NetworkManifest(x.form)
        BY <1>2, <2>1, NetworkCases, Zenon
    <2> QED
        BY <1>2, <2>2, RowShown, Zenon
<1> QED
    BY <1>1, <1>2, Zenon DEF Net!FormsReadBack, Net!ShownAsAsked, Net!Rendered

(* Saving what was opened lands the same manifest at the same place.       *)
LEMMA SavedAsRead ==
    ASSUME FormsInv, open # None, NEW d \in docs, d.doc = open.read, Net!SaveOpen
    PROVE  {x.doc : x \in docs'} = {x.doc : x \in docs}
<1>1. /\ open.spec # Net!Refused
      /\ Net!Land(Net!Id(Net!Manifest(open.spec)), Net!Manifest(open.spec), open.spec)
    BY Zenon DEF Net!SaveOpen, Net!StageCreate
<1>2. Net!Decode(open.read) # Net!Refused /\ open.spec = Net!Decode(open.read)
    BY <1>1, Zenon DEF FormsInv
<1>3. Net!Manifest(open.spec) = d.doc
    BY <1>2, DecodeGives, Zenon
<1> DEFINE new == [id |-> Net!Id(d.doc), doc |-> d.doc, form |-> open.spec]
<1>4. docs' = {x \in docs : x.id # Net!Id(d.doc)} \union {new}
    BY <1>1, <1>3 DEF Net!Land
<1>5. new.doc = d.doc
    OBVIOUS
<1> HIDE DEF new
<1>6. \A x \in docs : x.id = Net!Id(d.doc) => x = d
    BY Zenon DEF FormsInv
<1>7. \A x \in docs' : \E y \in docs : x.doc = y.doc
    BY <1>4, <1>5
<1>8. \A y \in docs : \E x \in docs' : x.doc = y.doc
    <2> SUFFICES ASSUME NEW y \in docs
                 PROVE  \E x \in docs' : x.doc = y.doc
        OBVIOUS
    <2>1. CASE y.id = Net!Id(d.doc)
        BY <1>4, <1>5, <1>6, <2>1
    <2>2. CASE y.id # Net!Id(d.doc)
        BY <1>4, <2>2
    <2> QED
        BY <2>1, <2>2
<1> QED
    BY <1>7, <1>8

LEMMA FormsInit == Net!Init => FormsInv
BY Zenon DEF Net!Init, FormsInv

LEMMA FormsPart ==
    ASSUME Net!FormsAssumption
    PROVE  PartsSpec => [](part = "forms" => FormsInv)
<1>1. PartsInit => (part = "forms" => FormsInv)
    BY FormsInit DEF PartsInit
<1>2. (part = "forms" => FormsInv) /\ [PartsNext]_partsVars => (part = "forms" => FormsInv)'
    <2> SUFFICES ASSUME FormsInv, [PartsNext]_partsVars, part = "forms" PROVE FormsInv'
        BY DEF PartsNext, partsVars
    <2>1. [Net!Next]_formVars
        BY DEF PartsNext, partsVars
    <2> QED
        BY <2>1, FormsNext
<1> QED
    BY <1>1, <1>2, PTL DEF PartsSpec

(* decode.go:11-14: what a form renders opens in a form again, unless it    *)
(* names the empty namespace, and in the catalog a port group has the       *)
(* values that its form asked for.                                          *)
THEOREM FormsComeBack ==
    ASSUME Net!FormsAssumption
    PROVE  (Net!Spec => []Net!FormsReadBack) /\ (PartsSpec => []FormsReadBack)
<1>1. FormsInv => Net!FormsReadBack
    BY FormsShown
<1>2. FormsInv /\ [Net!Next]_(Net!vars) => FormsInv'
    BY FormsNext DEF formVars, Net!vars
<1>3. Net!Spec => []Net!FormsReadBack
    BY <1>1, <1>2, FormsInit, PTL DEF Net!Spec
<1>4. (part = "forms" => FormsInv) => FormsReadBack
    BY <1>1 DEF FormsReadBack
<1> QED
    BY <1>3, <1>4, FormsPart, PTL

(* decode.go:13-15: a form that is opened and saved rewrites nothing.      *)
THEOREM SavingDropsNothing ==
    ASSUME Net!FormsAssumption
    PROVE  (Net!Spec => Net!NothingDropped) /\ (PartsSpec => NothingDropped)
<1> DEFINE Kept == open # None /\ (\E d \in docs : d.doc = open.read) /\ Net!SaveOpen =>
                       {d.doc : d \in docs'} = {d.doc : d \in docs}
<1>1. FormsInv => Kept
    BY SavedAsRead
<1>2. FormsInv /\ [Net!Next]_(Net!vars) => FormsInv' /\ [Kept]_(Net!vars)
    BY <1>1, FormsNext DEF formVars, Net!vars
<1>3. (part = "forms" => FormsInv) /\ [PartsNext]_partsVars => [Kept]_(Net!vars)
    <2> SUFFICES ASSUME part = "forms" => FormsInv, [PartsNext]_partsVars PROVE [Kept]_(Net!vars)
        OBVIOUS
    <2>1. part = "forms" \/ UNCHANGED Net!vars
        BY DEF PartsNext, partsVars, formVars, Net!vars
    <2> HIDE DEF Kept
    <2> QED
        BY <1>1, <2>1
<1>4. Net!Spec => [][Kept]_(Net!vars)
    BY <1>2, FormsInit, PTL DEF Net!Spec
<1>5. PartsSpec => [][Kept]_(Net!vars)
    BY <1>3, FormsPart, PTL DEF PartsSpec
<1> QED
    BY <1>4, <1>5, PTL DEF Net!NothingDropped, NothingDropped

--------------------------------------------------------------------------------
(* The uplinks of the catalog.                                            *)

(* Rows, each with one of some policies or none.                           *)
Rows(N, B, P) == [name : N, bridge : B, policy : P \union {None}, nodes : SUBSET Nodes]

(* A row merged into rows gives rows.                                      *)
LEMMA RowMerged ==
    ASSUME NEW N, NEW B, NEW P, NEW out \in Seq(Rows(N, B, P)), NEW u \in Rows(N, B, P)
    PROVE  Net!MergeRow(out, u) \in Seq(Rows(N, B, P))
<1> DEFINE R == Rows(N, B, P)
<1>a. out \in Seq(R) /\ u \in R
    OBVIOUS
<1> HIDE DEF R
<1>b. Len(out) \in Nat /\ DOMAIN out = 1..Len(out) /\ \A i \in 1..Len(out) : out[i] \in R
    BY <1>a
<1>1. CASE \A i \in DOMAIN out : out[i].name # u.name
    <2>1. Net!MergeRow(out, u) = Append(out, u)
        BY <1>1 DEF Net!MergeRow
    <2> QED
        BY <1>a, <2>1 DEF R
<1>2. CASE ~(\A i \in DOMAIN out : out[i].name # u.name)
    <2> DEFINE new(i) == IF out[i].name # u.name THEN out[i]
                ELSE [out[i] EXCEPT !.nodes = @ \union u.nodes, !.policy = Net!OnlyPolicy(out[i], u)]
    <2>1. Net!MergeRow(out, u) = [i \in 1..Len(out) |-> new(i)]
        BY <1>2, <1>b DEF Net!MergeRow
    <2>2. ASSUME NEW i \in 1..Len(out) PROVE new(i) \in R
        <3>1. out[i] \in R /\ u \in R
            BY <1>a, <1>b
        <3> QED
            BY <3>1 DEF R, Rows, Net!OnlyPolicy
    <2> HIDE DEF new
    <2>3. [i \in 1..Len(out) |-> new(i)] \in Seq(R)
        BY <1>b, <2>2
    <2> QED
        BY <2>1, <2>3 DEF R
<1> QED
    BY <1>1, <1>2

(* What the merge has made of the first k rows.                            *)
MergedSoFar(rows, k, out) ==
    /\ \A i, j \in DOMAIN out : out[i].name = out[j].name => i = j
    /\ \A i \in 1..k : \E j \in DOMAIN out : out[j].name = rows[i].name
    /\ \A j \in DOMAIN out :
          LET K == {i \in 1..k : rows[i].name = out[j].name}
          IN  /\ K # {} /\ out[j].nodes = UNION {rows[i].nodes : i \in K}
              /\ out[j].policy # None => \A i \in K : rows[i].policy = out[j].policy

(* One row more is merged: where the pairwise rule must not forget that    *)
(* two policies met before.                                                *)
LEMMA OneMoreRow ==
    ASSUME NEW N, NEW B, NEW P, NEW rows \in Seq(Rows(N, B, P)), NEW out \in Seq(Rows(N, B, P)),
           NEW k \in Nat, k + 1 <= Len(rows), MergedSoFar(rows, k, out)
    PROVE  MergedSoFar(rows, k + 1, Net!MergeRow(out, rows[k + 1]))
<1> DEFINE R == Rows(N, B, P)
           u == rows[k + 1]
           res == Net!MergeRow(out, u)
           K(name) == {i \in 1..k : rows[i].name = name}
           L(name) == {i \in 1..(k + 1) : rows[i].name = name}
<1>1. u \in R /\ Len(out) \in Nat /\ DOMAIN out = 1..Len(out)
    OBVIOUS
<1>2. /\ \A i, j \in DOMAIN out : out[i].name = out[j].name => i = j
      /\ \A i \in 1..k : \E j \in DOMAIN out : out[j].name = rows[i].name
      /\ \A j \in DOMAIN out : K(out[j].name) # {}
      /\ \A j \in DOMAIN out : out[j].nodes = UNION {rows[i].nodes : i \in K(out[j].name)}
      /\ \A j \in DOMAIN out : out[j].policy # None =>
             \A i \in K(out[j].name) : rows[i].policy = out[j].policy
    BY Zenon DEF MergedSoFar
<1>3. \A name : L(name) = IF u.name = name THEN K(name) \union {k + 1} ELSE K(name)
    OBVIOUS
<1>4. SUFFICES /\ \A i, j \in DOMAIN res : res[i].name = res[j].name => i = j
               /\ \A i \in 1..(k + 1) : \E j \in DOMAIN res : res[j].name = rows[i].name
               /\ \A j \in DOMAIN res : L(res[j].name) # {}
               /\ \A j \in DOMAIN res : res[j].nodes = UNION {rows[i].nodes : i \in L(res[j].name)}
               /\ \A j \in DOMAIN res : res[j].policy # None =>
                      \A i \in L(res[j].name) : rows[i].policy = res[j].policy
    BY Zenon DEF MergedSoFar
<1>5. CASE \A i \in DOMAIN out : out[i].name # u.name
    <2>1. /\ DOMAIN res = 1..(Len(out) + 1)
          /\ \A j \in DOMAIN out : res[j] = out[j]
          /\ res[Len(out) + 1] = u
        <3>1. res = Append(out, u)
            BY <1>5 DEF Net!MergeRow
        <3> HIDE DEF R, u, res
        <3> QED
            BY <1>1, <3>1
    <2>2. K(u.name) = {}
        <3>1. \A i \in 1..k : \E j \in DOMAIN out : out[j].name = rows[i].name
            BY <1>2, Zenon
        <3> HIDE DEF R, u, res
        <3>2. \A i \in 1..k : rows[i].name # u.name
            BY <1>5, <3>1
        <3> QED
            BY <3>2
    <2>3. L(u.name) = {k + 1}
        BY <1>3, <2>2
    <2>4. \A j \in DOMAIN out : L(out[j].name) = K(out[j].name)
        BY <1>3, <1>5
    <2>5. UNION {rows[i].nodes : i \in {k + 1}} = u.nodes
        OBVIOUS
    <2>6. \A j \in DOMAIN res : j \in DOMAIN out \/ j = Len(out) + 1
        BY <1>1, <2>1
    <2> HIDE DEF R, u, res, K, L
    <2>7. \A i, j \in DOMAIN res : res[i].name = res[j].name => i = j
        BY <1>2, <1>5, <2>1, <2>6
    <2>8. \A i \in 1..(k + 1) : \E j \in DOMAIN res : res[j].name = rows[i].name
        <3>1. ASSUME NEW i \in 1..k PROVE \E j \in DOMAIN res : res[j].name = rows[i].name
            BY <1>1, <1>2, <2>1
        <3>2. \E j \in DOMAIN res : res[j].name = rows[k + 1].name
            BY <1>1, <2>1 DEF u
        <3> QED
            BY <3>1, <3>2
    <2>9. \A j \in DOMAIN res : L(res[j].name) # {}
        <3>1. ASSUME NEW j \in DOMAIN out PROVE L(res[j].name) # {}
            <4>1. K(out[j].name) # {} /\ res[j] = out[j] /\ L(out[j].name) = K(out[j].name)
                BY <1>2, <2>1, <2>4, Zenon
            <4> QED
                BY <4>1, Zenon
        <3>2. L(res[Len(out) + 1].name) # {}
            BY <2>1, <2>3
        <3> QED
            BY <2>6, <3>1, <3>2
    <2>10. \A j \in DOMAIN res : res[j].nodes = UNION {rows[i].nodes : i \in L(res[j].name)}
        <3>1. ASSUME NEW j \in DOMAIN out PROVE res[j].nodes = UNION {rows[i].nodes : i \in L(res[j].name)}
            BY <1>2, <2>1, <2>4
        <3>2. res[Len(out) + 1].nodes = UNION {rows[i].nodes : i \in L(u.name)}
            BY <2>1, <2>3, <2>5
        <3> QED
            BY <2>1, <2>6, <3>1, <3>2
    <2>11. \A j \in DOMAIN res : res[j].policy # None => \A i \in L(res[j].name) : rows[i].policy = res[j].policy
        <3>1. ASSUME NEW j \in DOMAIN out, res[j].policy # None
              PROVE  \A i \in L(res[j].name) : rows[i].policy = res[j].policy
            BY <1>2, <2>1, <2>4, <3>1
        <3>2. \A i \in L(u.name) : rows[i].policy = u.policy
            BY <2>3 DEF u
        <3> QED
            BY <2>1, <2>6, <3>1, <3>2
    <2> QED
        BY <2>7, <2>8, <2>9, <2>10, <2>11
<1>6. CASE ~(\A i \in DOMAIN out : out[i].name # u.name)
    <2> DEFINE new(i) == IF out[i].name # u.name THEN out[i]
                ELSE [out[i] EXCEPT !.nodes = @ \union u.nodes, !.policy = Net!OnlyPolicy(out[i], u)]
    <2>1. DOMAIN res = DOMAIN out /\ \A j \in DOMAIN out : res[j] = new(j)
        BY <1>6 DEF Net!MergeRow
    <2>2. \A j \in DOMAIN out : out[j] \in R
        BY <1>1
    <2>3. \A j \in DOMAIN out : out[j].name # u.name => res[j] = out[j]
        BY <2>1
    <2>4. \A j \in DOMAIN out : out[j].name = u.name =>
              /\ res[j].name = u.name /\ res[j].nodes = out[j].nodes \union u.nodes
              /\ res[j].policy = Net!OnlyPolicy(out[j], u)
        <3>1. ASSUME NEW j \in DOMAIN out, out[j].name = u.name
              PROVE  /\ res[j].name = u.name /\ res[j].nodes = out[j].nodes \union u.nodes
                     /\ res[j].policy = Net!OnlyPolicy(out[j], u)
            <4>1. out[j] \in Rows(N, B, P)
                BY <2>2
            <4>2. res[j] = [out[j] EXCEPT !.nodes = @ \union u.nodes, !.policy = Net!OnlyPolicy(out[j], u)]
                BY <2>1, <3>1
            <4> HIDE DEF u, res, R
            <4> QED
                BY <3>1, <4>1, <4>2 DEF Rows
        <3> QED
            BY <3>1, Zenon
    <2>5. \A j \in DOMAIN out : res[j].name = out[j].name
        BY <2>3, <2>4, Zenon
    <2>6. \A j \in DOMAIN out : out[j].name # u.name => L(out[j].name) = K(out[j].name)
        BY <1>3
    <2>7. L(u.name) = K(u.name) \union {k + 1}
        BY <1>3
    <2>8. PICK m \in DOMAIN out : out[m].name = u.name
        BY <1>6
    <2>9. UNION {rows[i].nodes : i \in K(u.name) \union {k + 1}} = (UNION {rows[i].nodes : i \in K(u.name)}) \union u.nodes
        <3> DEFINE nodes(i) == rows[i].nodes
        <3>1. nodes(k + 1) = u.nodes
            OBVIOUS
        <3> HIDE DEF K, u, nodes
        <3>2. UNION {nodes(i) : i \in K(u.name) \union {k + 1}} = (UNION {nodes(i) : i \in K(u.name)}) \union u.nodes
            BY <3>1
        <3> QED
            BY <3>2 DEF nodes
    <2>10. rows[k + 1] = u
        OBVIOUS
    <2> HIDE DEF R, u, res, K, L, new
    <2>11. \A i, j \in DOMAIN res : res[i].name = res[j].name => i = j
        BY <1>2, <2>1, <2>5
    <2>12. \A i \in 1..(k + 1) : \E j \in DOMAIN res : res[j].name = rows[i].name
        <3>1. ASSUME NEW i \in 1..k PROVE \E j \in DOMAIN res : res[j].name = rows[i].name
            BY <1>2, <2>1, <2>5
        <3>2. \E j \in DOMAIN res : res[j].name = rows[k + 1].name
            BY <2>1, <2>5, <2>8, <2>10
        <3> QED
            BY <3>1, <3>2
    <2>13. \A j \in DOMAIN res : L(res[j].name) # {}
        BY <1>2, <2>1, <2>5, <2>6, <2>7
    <2>14. \A j \in DOMAIN res : res[j].nodes = UNION {rows[i].nodes : i \in L(res[j].name)}
        <3>1. ASSUME NEW j \in DOMAIN out, out[j].name # u.name
              PROVE  res[j].nodes = UNION {rows[i].nodes : i \in L(res[j].name)}
            BY <1>2, <2>3, <2>6, <3>1
        <3>2. ASSUME NEW j \in DOMAIN out, out[j].name = u.name
              PROVE  res[j].nodes = UNION {rows[i].nodes : i \in L(res[j].name)}
            <4>1. out[j].nodes = UNION {rows[i].nodes : i \in K(u.name)}
                BY <1>2, <3>2
            <4>2. res[j].nodes = out[j].nodes \union u.nodes /\ res[j].name = u.name
                BY <2>4, <3>2
            <4> QED
                BY <2>7, <2>9, <4>1, <4>2
        <3> QED
            BY <2>1, <3>1, <3>2
    <2>15. \A j \in DOMAIN res : res[j].policy # None => \A i \in L(res[j].name) : rows[i].policy = res[j].policy
        <3>1. ASSUME NEW j \in DOMAIN out, out[j].name # u.name, res[j].policy # None
              PROVE  \A i \in L(res[j].name) : rows[i].policy = res[j].policy
            BY <1>2, <2>3, <2>6, <3>1
        <3>2. ASSUME NEW j \in DOMAIN out, out[j].name = u.name, res[j].policy # None
              PROVE  \A i \in L(res[j].name) : rows[i].policy = res[j].policy
            <4>1. out[j].policy = u.policy /\ res[j].policy = u.policy
                BY <2>4, <3>2 DEF Net!OnlyPolicy
            <4>2. \A i \in K(u.name) : rows[i].policy = u.policy
                BY <1>2, <3>2, <4>1
            <4>3. res[j].name = u.name
                BY <2>4, <3>2
            <4> QED
                BY <2>7, <2>10, <4>1, <4>2, <4>3
        <3> QED
            BY <2>1, <3>1, <3>2
    <2> QED
        BY <2>11, <2>12, <2>13, <2>14, <2>15
<1> QED
    BY <1>5, <1>6

(* The merge, over all the rows.                                           *)
LEMMA AllMerged ==
    ASSUME NEW N, NEW B, NEW P, NEW rows \in Seq(Rows(N, B, P))
    PROVE  /\ Net!MergeUplinks(rows) \in Seq(Rows(N, B, P))
           /\ MergedSoFar(rows, Len(rows), Net!MergeUplinks(rows))
<1> DEFINE R == Rows(N, B, P)
           T == Seq(R)
           n == Len(rows)
           nil == << >>
           F == [k \in 1..n |-> [s \in T |-> Net!MergeRow(s, rows[k])]]
           Is(f) == f = [k \in 0..n |-> IF k = 0 THEN << >> ELSE Net!MergeRow(f[k - 1], rows[k])]
           rec == CHOOSE f : Is(f)
<1>1. n \in Nat /\ \A k \in 1..n : rows[k] \in R
    <2>1. rows \in Seq(R)
        OBVIOUS
    <2> HIDE DEF R
    <2> QED
        BY <2>1
<1>2. nil \in T
    OBVIOUS
<1>3. \A k \in 1..n : \A s \in T : Net!MergeRow(s, rows[k]) \in T
    BY <1>1, RowMerged
<1>4. \A k \in 1..n : \A s \in T : F[k][s] = Net!MergeRow(s, rows[k])
    OBVIOUS
<1>5. Loop(T, nil, n, F)
    <2> HIDE DEF T, n, nil
    <2> QED
        BY <1>1, <1>2, <1>3 DEF Loop
<1>6. Net!MergeUplinks(rows) = rec[n]
    BY Zenon DEF Net!MergeUplinks
<1>7. \A f : Is(f) => Is(rec)
    BY Zenon
<1> HIDE DEF T, n, nil, F, rec
<1>8. PICK g : Runs(T, nil, n, F, g)
    BY <1>5, Recursion
<1>9. g \in [0..n -> T] /\ g[0] = nil /\ \A k \in 1..n : g[k] = F[k][g[k - 1]]
    BY <1>8 DEF Runs
<1>10. \A k \in 1..n : g[k] = Net!MergeRow(g[k - 1], rows[k])
    <2>1. \A k \in 1..n : g[k - 1] \in T
        BY <1>1, <1>9
    <2> QED
        BY <1>4, <1>9, <2>1
<1>11. Is(g)
    <2>1. \A k \in 0..n : g[k] = IF k = 0 THEN << >> ELSE Net!MergeRow(g[k - 1], rows[k])
        <3>1. \A k \in 0..n : k # 0 => k \in 1..n
            BY <1>1
        <3> QED
            BY <1>9, <1>10, <3>1 DEF nil
    <2>2. g = [k \in 0..n |-> g[k]]
        BY <1>9
    <2> HIDE DEF R
    <2> QED
        BY <2>1, <2>2
<1>12. \A k \in 0..n : rec[k] = IF k = 0 THEN << >> ELSE Net!MergeRow(rec[k - 1], rows[k])
    <2>1. Is(rec)
        BY <1>7, <1>11
    <2> QED
        BY <2>1
<1> DEFINE S == {k \in 0..n : rec[k] \in T /\ MergedSoFar(rows, k, rec[k])}
<1>13. 0 \in S
    <2>1. rec[0] = << >> /\ 0 \in 0..n
        BY <1>1, <1>12
    <2>2. MergedSoFar(rows, 0, << >>)
        BY DEF MergedSoFar
    <2> QED
        BY <1>2, <2>1, <2>2 DEF nil
<1>14. ASSUME NEW k \in 0..(n - 1), k \in S PROVE k + 1 \in S
    <2>1. k \in Nat /\ k + 1 <= Len(rows) /\ k + 1 \in 1..n /\ k + 1 \in 0..n /\ k + 1 # 0 /\ (k + 1) - 1 = k
        BY <1>1 DEF n
    <2>2. rec[k + 1] = Net!MergeRow(rec[k], rows[k + 1])
        BY <1>12, <2>1
    <2>3. rec[k] \in Seq(Rows(N, B, P)) /\ MergedSoFar(rows, k, rec[k])
        BY <1>14 DEF T
    <2>4. rec[k + 1] \in T
        BY <1>3, <2>1, <2>2, <2>3 DEF T
    <2>5. MergedSoFar(rows, k + 1, rec[k + 1])
        BY <2>1, <2>2, <2>3, OneMoreRow
    <2> QED
        BY <2>1, <2>4, <2>5
<1>15. n \in S
    <2>1. \A k \in 0..(n - 1) : k \in S => k + 1 \in S
        BY <1>14, Zenon
    <2> HIDE DEF S
    <2>2. \A k \in 0..n : k \in S
        BY <1>1, <1>13, <2>1, UpTo
    <2> QED
        BY <1>1, <2>2
<1> QED
    BY <1>6, <1>15 DEF T, n

(* Some objects in an order, as the store lists them.                      *)
Listing(order, n, D) == n \in Nat /\ order \in [1..n -> D]

(* The rows that a policy makes, one for each mapping that is present.     *)
RowOf(d, i) ==
    [name |-> Net!MappingsOf(d)[i].localnet, bridge |-> Net!MappingsOf(d)[i].bridge,
     policy |-> Net!Id(d), nodes |-> Net!NodesMatching(d.spec.selector)]

PresentIn(d) == {i \in DOMAIN Net!MappingsOf(d) : Net!MappingsOf(d)[i].state # "absent"}

RowsOf(d) == {RowOf(d, i) : i \in PresentIn(d)}

(* The rows of one policy are those of its present mappings.               *)
LEMMA RowsOfOne ==
    ASSUME NEW d, NEW N, NEW B, NEW P, RowsOf(d) \subseteq Rows(N, B, P)
    PROVE  /\ Net!UplinksFromNNCP(d) \in Seq(Rows(N, B, P))
           /\ Items(Net!UplinksFromNNCP(d)) = RowsOf(d)
<1> DEFINE R == Rows(N, B, P)
           m == Net!MappingsOf(d)
           n == Len(m)
           part_(i) == IF m[i].state = "absent" THEN << >> ELSE <<RowOf(d, i)>>
           seqs == [i \in DOMAIN m |-> part_(i)]
<1>1. n \in Nat /\ DOMAIN m = 1..n
    BY DEF Net!MappingsOf
<1>2. Net!UplinksFromNNCP(d) = Net!FlattenSeq(seqs)
    BY DEF Net!UplinksFromNNCP, RowOf
<1>3. \A i \in DOMAIN m : m[i].state # "absent" => RowOf(d, i) \in R
    BY Zenon DEF RowsOf, PresentIn
<1> HIDE DEF n, R
<1>4. \A i \in DOMAIN m : part_(i) \in Seq(R)
    <2>1. << >> \in Seq(R) /\ \A r \in R : <<r>> \in Seq(R)
        OBVIOUS
    <2> QED
        BY <1>3, <2>1
<1>5. \A i \in DOMAIN m : Items(part_(i)) = IF m[i].state = "absent" THEN {} ELSE {RowOf(d, i)}
    <2>1. Items(<< >>) = {}
        BY DEF Items
    <2>2. \A r : Items(<<r>>) = {r}
        BY DEF Items
    <2> QED
        BY <2>1, <2>2
<1> HIDE DEF part_, m
<1>6. DOMAIN seqs = DOMAIN m /\ \A i \in DOMAIN m : seqs[i] = part_(i)
    OBVIOUS
<1>7. seqs \in Seq(Seq(R))
    BY <1>1, <1>4
<1> HIDE DEF seqs
<1>8. Net!FlattenSeq(seqs) \in Seq(R)
    BY <1>7, FlatItems
<1>9. Items(Net!FlattenSeq(seqs)) = UNION {Items(seqs[k]) : k \in DOMAIN seqs}
    BY <1>7, FlatItems
<1>10. UNION {Items(seqs[k]) : k \in DOMAIN seqs} = RowsOf(d)
    <2>1. \A k \in DOMAIN seqs : Items(seqs[k]) = IF m[k].state = "absent" THEN {} ELSE {RowOf(d, k)}
        BY <1>5, <1>6
    <2>2. PresentIn(d) = {k \in DOMAIN seqs : m[k].state # "absent"}
        BY <1>6 DEF PresentIn, m
    <2>3. ASSUME NEW x \in UNION {Items(seqs[k]) : k \in DOMAIN seqs} PROVE x \in RowsOf(d)
        <3>1. PICK k \in DOMAIN seqs : x \in Items(seqs[k])
            OBVIOUS
        <3> QED
            BY <2>1, <2>2, <3>1 DEF RowsOf
    <2>4. ASSUME NEW x \in RowsOf(d) PROVE x \in UNION {Items(seqs[k]) : k \in DOMAIN seqs}
        <3>1. PICK k \in PresentIn(d) : x = RowOf(d, k)
            BY Zenon DEF RowsOf
        <3>2. k \in DOMAIN seqs /\ x \in Items(seqs[k])
            BY <2>1, <2>2, <3>1
        <3> QED
            BY <3>2
    <2> QED
        BY <2>3, <2>4
<1> QED
    BY <1>2, <1>8, <1>9, <1>10 DEF R

(* The rows that are merged: the built-in one and those of the policies.   *)
LEMMA RowsOfAll ==
    ASSUME NEW n, NEW D, NEW order, Listing(order, n, D)
    PROVE  \E N, B, P, rows :
              /\ rows \in Seq(Rows(N, B, P)) /\ Net!Uplinks(order) = Net!MergeUplinks(rows)
              /\ Items(rows) = {Net!BrEx} \union UNION {RowsOf(order[i]) : i \in 1..n}
<1> DEFINE all == {Net!BrEx} \union UNION {RowsOf(order[i]) : i \in 1..n}
           N == {r.name : r \in all}
           B == {r.bridge : r \in all}
           P == {r.policy : r \in all}
           R == Rows(N, B, P)
           seqs == [i \in 1..n |-> Net!UplinksFromNNCP(order[i])]
           flat == Net!FlattenSeq(seqs)
           rows == <<Net!BrEx>> \o flat
<1>a. n \in Nat /\ order \in [1..n -> D]
    BY DEF Listing
<1> USE <1>a
<1>1. all \subseteq R
    <2>1. \A r \in all : r = [name |-> r.name, bridge |-> r.bridge, policy |-> r.policy, nodes |-> r.nodes]
                         /\ r.nodes \subseteq Nodes
        <3>1. Net!BrEx = [name |-> Net!BrEx.name, bridge |-> Net!BrEx.bridge, policy |-> Net!BrEx.policy,
                          nodes |-> Net!BrEx.nodes] /\ Net!BrEx.nodes \subseteq Nodes
            BY DEF Net!BrEx
        <3>2. ASSUME NEW i \in 1..n, NEW r \in RowsOf(order[i])
              PROVE  r = [name |-> r.name, bridge |-> r.bridge, policy |-> r.policy, nodes |-> r.nodes]
                     /\ r.nodes \subseteq Nodes
            BY DEF RowsOf, RowOf, Net!NodesMatching
        <3> QED
            BY <3>1, <3>2
    <2> HIDE DEF all
    <2> QED
        BY <2>1 DEF Rows
<1>2. \A i \in 1..n : RowsOf(order[i]) \subseteq R
    BY <1>1
<1>3. Net!BrEx \in R
    BY <1>1
<1> HIDE DEF all, N, B, P
<1>4. \A i \in 1..n : seqs[i] \in Seq(R) /\ Items(seqs[i]) = RowsOf(order[i])
    BY <1>2, RowsOfOne
<1>5. seqs \in Seq(Seq(R)) /\ DOMAIN seqs = 1..n
    <2> HIDE DEF R
    <2> QED
        BY <1>4
<1> HIDE DEF seqs, R
<1>6. flat \in Seq(R) /\ Items(flat) = UNION {Items(seqs[k]) : k \in DOMAIN seqs}
    BY <1>5, FlatItems
<1>7. UNION {Items(seqs[k]) : k \in DOMAIN seqs} = UNION {RowsOf(order[i]) : i \in 1..n}
    BY <1>4, <1>5
<1> HIDE DEF flat
<1>8. rows \in Seq(R) /\ Items(rows) = {Net!BrEx} \union Items(flat)
    <2>1. DOMAIN rows = 1..(Len(flat) + 1) /\ rows[1] = Net!BrEx /\ \A i \in DOMAIN flat : rows[i + 1] = flat[i]
        BY <1>6
    <2>2. DOMAIN flat = 1..Len(flat) /\ Len(flat) \in Nat
        BY <1>6
    <2>3. rows \in Seq(R)
        BY <1>3, <1>6
    <2> HIDE DEF rows
    <2>4. ASSUME NEW x \in Items(rows) PROVE x \in {Net!BrEx} \union Items(flat)
        <3>1. PICK i \in DOMAIN rows : x = rows[i]
            BY DEF Items
        <3>2. CASE i = 1
            BY <2>1, <3>1, <3>2
        <3>3. CASE i # 1
            <4>1. i - 1 \in DOMAIN flat /\ (i - 1) + 1 = i
                BY <2>1, <2>2, <3>3
            <4>2. x = flat[i - 1]
                BY <2>1, <3>1, <4>1
            <4> QED
                BY <4>1, <4>2 DEF Items
        <3> QED
            BY <3>2, <3>3
    <2>5. Net!BrEx \in Items(rows)
        <3>1. 1 \in DOMAIN rows
            BY <2>1, <2>2
        <3> QED
            BY <2>1, <3>1, Zenon DEF Items
    <2>6. ASSUME NEW x \in Items(flat) PROVE x \in Items(rows)
        <3>1. PICK i \in DOMAIN flat : x = flat[i]
            BY DEF Items
        <3>2. i + 1 \in DOMAIN rows /\ rows[i + 1] = x
            BY <2>1, <2>2, <3>1
        <3> QED
            BY <3>2, Zenon DEF Items
    <2> QED
        BY <2>3, <2>4, <2>5, <2>6
<1>9. Net!Uplinks(order) = Net!MergeUplinks(rows)
    BY DEF Net!Uplinks, seqs, flat
<1>10. Items(rows) = {Net!BrEx} \union UNION {RowsOf(order[i]) : i \in 1..n}
    BY <1>6, <1>7, <1>8
<1> HIDE DEF rows
<1> QED
    BY <1>8, <1>9, <1>10 DEF R

(* An order of the policies has them all.                                  *)
LEMMA OrderIsComplete ==
    ASSUME IsFiniteSet(docs), NEW order \in Net!SetToSeqs(Net!Nncps)
    PROVE  \E n \in Nat : order \in [1..n -> Net!Nncps] /\ \A d \in Net!Nncps : \E i \in 1..n : order[i] = d
<1> DEFINE S == {x \in docs : x.doc.kind = "NodeNetworkConfigurationPolicy"}
           f == [x \in S |-> x.doc]
           D == Net!Nncps
           n == Cardinality(D)
<1>1. IsFiniteSet(S)
    BY FS_Subset
<1>2. f \in Surjection(S, D)
    BY DEF Surjection, Net!Nncps
<1>3. IsFiniteSet(D)
    <2> HIDE DEF S, f, D
    <2> QED
        BY <1>1, <1>2, FS_Surjection
<1>4. order \in [1..n -> D] /\ \A i, j \in 1..n : i # j => order[i] # order[j]
    <2>1. Net!Cardinality(Net!Nncps) = Cardinality(Net!Nncps)
        BY Zenon DEF Net!Cardinality, Cardinality
    <2> QED
        BY <2>1 DEF Net!SetToSeqs
<1> HIDE DEF S, f, D
<1>5. n \in Nat
    BY <1>3, FS_CardinalityType
<1> HIDE DEF n
<1>6. order \in Injection(1..n, D)
    BY <1>4 DEF Injection, IsInjective
<1>7. Cardinality(1..n) = n
    BY <1>5, FS_Interval
<1>8. order \in Surjection(1..n, D)
    BY <1>3, <1>6, <1>7, FS_Injection DEF n
<1>9. \A d \in D : \E i \in 1..n : order[i] = d
    BY <1>8 DEF Surjection
<1> QED
    BY <1>4, <1>5, <1>9 DEF D

(* One row a network, over the nodes of all the policies that map it.      *)
LEMMA UplinksAct == IsFiniteSet(docs) => Net!UplinkActsOnOne
<1> SUFFICES ASSUME IsFiniteSet(docs), NEW order \in Net!SetToSeqs(Net!Nncps)
             PROVE  LET rows == Net!Uplinks(order)
                        of(u) == {d \in Net!Nncps : Net!Maps(d, u.name)}
                    IN  /\ \A i, j \in DOMAIN rows : rows[i].name = rows[j].name => i = j
                        /\ \A i \in DOMAIN rows : LET u == rows[i] IN
                              /\ u.policy # None => u.name # "br-ex" /\ {Net!Id(d) : d \in of(u)} = {u.policy}
                              /\ u.name # "br-ex" => u.nodes = UNION {Net!NodesMatching(d.spec.selector) : d \in of(u)}
    BY Zenon DEF Net!UplinkActsOnOne
<1> DEFINE D == Net!Nncps
           out == Net!Uplinks(order)
           of(u) == {d \in D : Net!Maps(d, u.name)}
<1>1. PICK n \in Nat : order \in [1..n -> D] /\ \A d \in D : \E i \in 1..n : order[i] = d
    BY OrderIsComplete
<1>2. PICK N, B, P, rows :
          /\ rows \in Seq(Rows(N, B, P)) /\ out = Net!MergeUplinks(rows)
          /\ Items(rows) = {Net!BrEx} \union UNION {RowsOf(order[i]) : i \in 1..n}
    <2>1. Listing(order, n, D)
        BY <1>1 DEF Listing
    <2> HIDE DEF D, out
    <2> QED
        BY <2>1, RowsOfAll DEF out
<1>3. Items(rows) = {Net!BrEx} \union UNION {RowsOf(d) : d \in D}
    <2> HIDE DEF D
    <2>1. {order[i] : i \in 1..n} = D
        BY <1>1
    <2>2. UNION {RowsOf(order[i]) : i \in 1..n} = UNION {RowsOf(d) : d \in D}
        <3>1. ASSUME NEW x \in UNION {RowsOf(order[i]) : i \in 1..n} PROVE x \in UNION {RowsOf(d) : d \in D}
            BY <1>1
        <3>2. ASSUME NEW x \in UNION {RowsOf(d) : d \in D} PROVE x \in UNION {RowsOf(order[i]) : i \in 1..n}
            <4>1. PICK d \in D : x \in RowsOf(d)
                OBVIOUS
            <4>2. PICK i \in 1..n : order[i] = d
                BY <1>1
            <4> QED
                BY <4>1, <4>2
        <3> QED
            BY <3>1, <3>2
    <2> QED
        BY <1>2, <2>2
<1>4. MergedSoFar(rows, Len(rows), out)
    BY <1>2, AllMerged
<1>5. DOMAIN rows = 1..Len(rows)
    BY <1>2
<1> DEFINE Of(name) == {r \in Items(rows) : r.name = name}
<1>6. ASSUME NEW j \in DOMAIN out
      PROVE  /\ Of(out[j].name) # {} /\ out[j].nodes = UNION {r.nodes : r \in Of(out[j].name)}
             /\ out[j].policy # None => \A r \in Of(out[j].name) : r.policy = out[j].policy
    <2> DEFINE u == out[j]
               K == {i \in 1..Len(rows) : rows[i].name = u.name}
    <2>1. /\ K # {} /\ u.nodes = UNION {rows[i].nodes : i \in K}
          /\ u.policy # None => \A i \in K : rows[i].policy = u.policy
        BY <1>4, Zenon DEF MergedSoFar
    <2>2. Of(u.name) = {rows[i] : i \in K}
        BY <1>5 DEF Items
    <2> HIDE DEF u, K, Of
    <2>3. {r.nodes : r \in Of(u.name)} = {rows[i].nodes : i \in K}
        BY <2>2
    <2>4. Of(u.name) # {} /\ u.nodes = UNION {r.nodes : r \in Of(u.name)}
        BY <2>1, <2>2, <2>3
    <2>5. u.policy # None => \A r \in Of(u.name) : r.policy = u.policy
        BY <2>1, <2>2
    <2> QED
        BY <2>4, <2>5 DEF u
<1>7. \A name : Of(name) = {r \in {Net!BrEx} : r.name = name} \union UNION {{r \in RowsOf(d) : r.name = name} : d \in D}
    <2> HIDE DEF D
    <2> QED
        BY <1>3
<1>8. \A d \in D : \A r \in RowsOf(d) : r.policy = Net!Id(d) /\ r.nodes = Net!NodesMatching(d.spec.selector)
    BY DEF RowsOf, RowOf
<1>9. \A d \in D : \A name : Net!Maps(d, name) <=> \E r \in RowsOf(d) : r.name = name
    <2>1. ASSUME NEW d \in D, NEW name, Net!Maps(d, name) PROVE \E r \in RowsOf(d) : r.name = name
        <3>1. PICK i \in PresentIn(d) : Net!MappingsOf(d)[i].localnet = name
            BY <2>1, Zenon DEF Net!Maps, PresentIn
        <3>2. RowOf(d, i) \in RowsOf(d) /\ RowOf(d, i).name = name
            BY <3>1 DEF RowsOf, RowOf
        <3> QED
            BY <3>2
    <2>2. ASSUME NEW d \in D, NEW name, NEW r \in RowsOf(d), r.name = name PROVE Net!Maps(d, name)
        <3>1. PICK i \in PresentIn(d) : r = RowOf(d, i)
            BY DEF RowsOf
        <3>2. Net!MappingsOf(d)[i].localnet = name
            BY <2>2, <3>1 DEF RowOf
        <3> QED
            BY <3>1, <3>2, Zenon DEF Net!Maps, PresentIn
    <2> QED
        BY <2>1, <2>2
<1>10. Net!BrEx.name = "br-ex" /\ Net!BrEx.policy = None
    BY DEF Net!BrEx
<1>11. \A i, j \in DOMAIN out : out[i].name = out[j].name => i = j
    BY <1>4, Zenon DEF MergedSoFar
<1> HIDE DEF D, out, Of
<1>12. ASSUME NEW j \in DOMAIN out, out[j].policy # None
       PROVE  out[j].name # "br-ex" /\ {Net!Id(d) : d \in of(out[j])} = {out[j].policy}
    <2> DEFINE u == out[j]
    <2>1. Of(u.name) # {} /\ \A r \in Of(u.name) : r.policy = u.policy
        BY <1>6, <1>12
    <2>2. u.name # "br-ex"
        <3>1. SUFFICES ASSUME u.name = "br-ex" PROVE FALSE
            OBVIOUS
        <3>2. Net!BrEx \in Of(u.name)
            BY <1>7, <1>10, <3>1
        <3> QED
            BY <1>10, <1>12, <2>1, <3>2
    <2> HIDE DEF u
    <2>3. \A d \in of(u) : Net!Id(d) = u.policy
        <3>1. ASSUME NEW d \in D, Net!Maps(d, u.name) PROVE Net!Id(d) = u.policy
            <4>1. PICK r \in RowsOf(d) : r.name = u.name
                BY <1>9, <3>1
            <4>2. r \in Of(u.name)
                BY <1>7, <4>1
            <4> QED
                BY <1>8, <2>1, <4>1, <4>2
        <3> QED
            BY <3>1
    <2>4. \E d \in of(u) : TRUE
        <3>1. PICK r \in Of(u.name) : TRUE
            BY <2>1
        <3>2. PICK d \in D : r \in RowsOf(d) /\ r.name = u.name
            BY <1>7, <1>10, <2>2, <3>1
        <3> QED
            BY <1>9, <3>2
    <2> HIDE DEF of
    <2>5. {Net!Id(d) : d \in of(u)} = {u.policy}
        BY <2>3, <2>4
    <2> QED
        BY <2>2, <2>5 DEF u
<1>13. ASSUME NEW j \in DOMAIN out, out[j].name # "br-ex"
       PROVE  out[j].nodes = UNION {Net!NodesMatching(d.spec.selector) : d \in of(out[j])}
    <2> DEFINE u == out[j]
               nodes(d) == Net!NodesMatching(d.spec.selector)
    <2>1. u.nodes = UNION {r.nodes : r \in Of(u.name)}
        BY <1>6
    <2>2. \A r \in Of(u.name) : \E d \in D : r \in RowsOf(d) /\ r.name = u.name
        BY <1>7, <1>10, <1>13
    <2>3. \A d \in D : \A r \in RowsOf(d) : r.name = u.name => r \in Of(u.name)
        BY <1>7
    <2> HIDE DEF u, nodes
    <2>4. ASSUME NEW x \in u.nodes PROVE x \in UNION {nodes(d) : d \in of(u)}
        <3>1. PICK r \in Of(u.name) : x \in r.nodes
            BY <2>1
        <3>2. PICK d \in D : r \in RowsOf(d) /\ r.name = u.name
            BY <2>2
        <3>3. Net!Maps(d, u.name) /\ r.nodes = nodes(d)
            BY <1>8, <1>9, <3>2 DEF nodes
        <3> QED
            BY <3>1, <3>3
    <2>5. ASSUME NEW x \in UNION {nodes(d) : d \in of(u)} PROVE x \in u.nodes
        <3>1. PICK d \in D : Net!Maps(d, u.name) /\ x \in nodes(d)
            OBVIOUS
        <3>2. PICK r \in RowsOf(d) : r.name = u.name
            BY <1>9, <3>1
        <3>3. r.nodes = nodes(d) /\ r \in Of(u.name)
            BY <1>8, <2>3, <3>2 DEF nodes
        <3> QED
            BY <2>1, <3>1, <3>3
    <2>6. u.nodes = UNION {nodes(d) : d \in of(u)}
        BY <2>4, <2>5
    <2> QED
        BY <2>6 DEF u, nodes
<1> QED
    BY <1>11, <1>12, <1>13 DEF out, D

(* Git holds finitely many objects.                                        *)
LEMMA DocsFinite == IsFiniteSet(docs) /\ [Net!Next]_formVars => IsFiniteSet(docs')
<1> SUFFICES ASSUME IsFiniteSet(docs), [Net!Next]_formVars PROVE IsFiniteSet(docs')
    OBVIOUS
<1>1. ASSUME NEW id, NEW d, NEW form, Net!Land(id, d, form) PROVE IsFiniteSet(docs')
    <2> DEFINE rest == {x \in docs : x.id # id}
               new == [id |-> id, doc |-> d, form |-> form]
    <2>1. docs' = rest \union {new}
        BY <1>1 DEF Net!Land
    <2>2. IsFiniteSet(rest)
        BY FS_Subset
    <2> HIDE DEF rest, new
    <2> QED
        BY <2>1, <2>2, FS_AddElement
<1>2. docs' = docs \/ \E id, d, form : Net!Land(id, d, form)
    BY Zenon DEF Net!Next, Net!StageCreate, Net!ObjectSpec, Net!SaveOpen, Net!StageUpdateManifest, formVars
<1> QED
    BY <1>1, <1>2

(* catalog.go:92-96: a row of the catalog names a policy to edit or delete *)
(* only when no other maps its network, in whatever order they are listed, *)
(* and shows the nodes of all of them.                                     *)
THEOREM UplinksActOnOne ==
    (Net!Spec => []Net!UplinkActsOnOne) /\ (PartsSpec => []UplinkActsOnOne)
<1>1. Net!Init => IsFiniteSet(docs)
    BY FS_EmptySet DEF Net!Init
<1>2. IsFiniteSet(docs) /\ [Net!Next]_(Net!vars) => IsFiniteSet(docs)'
    BY DocsFinite DEF formVars, Net!vars
<1>3. Net!Spec => []Net!UplinkActsOnOne
    BY <1>1, <1>2, UplinksAct, PTL DEF Net!Spec
<1>4. PartsInit => (part = "forms" => IsFiniteSet(docs))
    BY <1>1 DEF PartsInit
<1>5. (part = "forms" => IsFiniteSet(docs)) /\ [PartsNext]_partsVars => (part = "forms" => IsFiniteSet(docs))'
    <2> SUFFICES ASSUME IsFiniteSet(docs), [PartsNext]_partsVars, part = "forms" PROVE IsFiniteSet(docs')
        BY DEF PartsNext, partsVars
    <2>1. [Net!Next]_formVars
        BY DEF PartsNext, partsVars
    <2> QED
        BY <2>1, DocsFinite
<1>6. (part = "forms" => IsFiniteSet(docs)) => UplinkActsOnOne
    BY UplinksAct DEF UplinkActsOnOne
<1>7. PartsSpec => []UplinkActsOnOne
    BY <1>4, <1>5, <1>6, PTL DEF PartsSpec
<1> QED
    BY <1>3, <1>7
================================================================================
