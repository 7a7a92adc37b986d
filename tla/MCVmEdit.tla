------------------------------- MODULE MCVmEdit -------------------------------
(* Small instances of VmEdit: what the wizard writes, and four manifests   *)
(* written by hand.                                                        *)
EXTENDS VmEdit

Blue == [ns |-> "blue", nad |-> "seg"]

Disk(name, size, class) == [name |-> name, size |-> size, class |-> class]

NoLabels == [k \in Labels |-> None]
NoGroups == [g \in Groups |-> None]

Asked ==
    [running |-> TRUE, instancetype |-> "small", preference |-> "linux", disks |-> {Disk("data", None, None)},
     nets |-> {}, primary |-> TRUE, cloudInit |-> TRUE, labels |-> NoLabels, size |-> "30Gi", class |-> None]

Made   == Wizard(Asked)
Wired  == Wizard([Asked EXCEPT !.disks = {}, !.nets = {Blue}, !.primary = FALSE, !.labels["app"] = "web"])

Axes(c, s, t) == [cores |-> c, sockets |-> s, threads |-> t]
Boot == [name |-> "rootdisk", dv |-> None]

\* A container disk, an inline size, and no template.
Inlined1 ==
    [Made EXCEPT !.running = TRUE, !.strategy = None, !.instancetype = None, !.cpu = Axes(2, 0, 2),
                 !.requests = "1Gi", !.disks = <<[name |-> "rootdisk"]>>, !.volumes = <<Boot>>, !.templates = None]

\* A size beside the instance type, a revision pinned, a host selected.
Both == [Wired EXCEPT !.instancetype.pinned = TRUE, !.cpu = Axes(2, 0, 0), !.guest = "1Gi",
                      !.strategy = "Manual", !.selector = "h1", !.groups["g1"] = "apart", !.eviction = "None"]

Custom == [Inlined1 EXCEPT !.affinity = HandWritten, !.cpu = Axes(2, 0, 0), !.labels["app"] = "db",
                             !.autoattach = FALSE]

SomeManifests == {Made, Wired, Inlined1, Both, Custom}

SomeClusters ==
    {Made,
     [Made EXCEPT !.strategy = "Halted", !.excluded = TRUE, !.eviction = "None", !.labels["app"] = "web",
                  !.nics = <<>>, !.nets = <<>>, !.autoattach = FALSE],
     [Inlined1 EXCEPT !.running = FALSE, !.labels["app"] = "", !.cpu = Axes(0, 2, 0)],
     [Wired EXCEPT !.strategy = "Manual", !.instancetype.name = "large"]}

With(field, v) == [NoEdit EXCEPT ![field] = v]

Term(mode, strict) == [mode |-> mode, strict |-> strict]

SomeEdits ==
    {With("power", p) : p \in {"On", "Off"}}
    \union {With("cpu", 4), With("memory", "2Gi"), With("preference", "bsd")}
    \union {With("instancetype", name) : name \in {"large", ""}}
    \union {[NoEdit EXCEPT !.sizing = "custom", !.cpu = 4, !.memory = "2Gi"],
            [NoEdit EXCEPT !.sizing = "instancetype", !.instancetype = "large"],
            [NoEdit EXCEPT !.instancetype = "large", !.cpu = 4]}
    \union {With("labels", [k \in {"app"} |-> "web"]), With("dropLabels", {"app"})}
    \union {With("excluded", TRUE), With("eviction", "")}
    \union {With("pin", P) : P \in {{}, {"h1"}, {"h1", "h2"}}}
    \union {With("groups", [g \in {"g1"} |-> t]) : t \in {Term("apart", TRUE), Term("together", FALSE)}}
    \union {With("groups", [g \in {"g2"} |-> Term("together", TRUE)]), With("dropGroups", {"g1"})}
    \union {With("addDisks", {Disk(d, None, "fast")}) : d \in {"extra"}}
    \union {With("dropDisks", {d}) : d \in {"rootdisk", "data"}}
    \union {[NoEdit EXCEPT !.addDisks = {Disk("data", "5Gi", None)}, !.dropDisks = {"data"}]}
    \union {With("migrate", {[name |-> d, class |-> "fast"] : d \in D}) : D \in {{"rootdisk"}, {"rootdisk", "data"}}}
    \union {With("addNets", {Blue}), With("dropNets", {"seg"}), With("dropNets", {"default"})}
================================================================================
