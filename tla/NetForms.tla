------------------------------- MODULE NetForms -------------------------------
(***************************************************************************)
(* internal/netgen and the catalog of internal/netstate: the forms of the  *)
(* network objects, the manifests they render, the form read back from a   *)
(* manifest, and what the read plane makes of it.                          *)
(*                                                                         *)
(* A manifest is a record of kind, name, namespace and spec.  A spec holds *)
(* the fields that a form renders; what a person adds by hand in git is a  *)
(* change of one of them, or an entry of extra.  Validity of a name, of a  *)
(* CIDR and of an address is membership of a constant set.                 *)
(***************************************************************************)
EXTENDS Integers, SequencesExt

CONSTANTS None,          \* an absent field, a nil map
          Valid,         \* the names, CIDRs and addresses that validate
          Forms,         \* the forms that a client may send
          HandEdits(_),  \* what a person makes of a manifest in git
          Nodes,         \* the nodes, each a set of labels
          MaxUplinks     \* bound: uplink policies that git declares at once

VARIABLES docs,   \* the objects of the base branch: identity, manifest, form
          open    \* the form that a client has open: the spec and its manifest

vars == <<docs, open>>

Refused == [refused |-> TRUE]

Doc(kind, name, ns, spec) == [kind |-> kind, name |-> name, ns |-> ns, extra |-> {}, spec |-> spec]

Id(d) == <<d.kind, d.name, d.ns>>

--------------------------------------------------------------------------------
(* Selectors: labels <<key, value>>, expressions <<key, operator, values>>. *)

MatchLabels(l)  == [labels |-> l, exprs |-> <<>>]
Everything == MatchLabels(None)

\* The form of a set of labels that leaves an empty one out.
OrEverything(l) == IF l \in {None, {}} THEN Everything ELSE MatchLabels(l)

NsNameSelector(names) == [labels |-> None, exprs |-> << <<"name", "In", names>> >>]

\* The names of a list, without the empty one.
Given(names) == IF \E i \in DOMAIN names : names[i] = "" THEN Remove(names, "") ELSE names

(* The namespaces that a selector provably pins: by one label, or by the   *)
(* one expression that a form writes, each but for the empty name.         *)
NamespaceNames(sel) ==
    IF sel.labels \notin {None, {}}
    THEN IF sel.exprs = <<>> /\ \E v \in {l[2] : l \in sel.labels} \ {""} : sel.labels = {<<"name", v>>}
         THEN <<(CHOOSE v \in {l[2] : l \in sel.labels} : sel.labels = {<<"name", v>>})>> ELSE <<>>
    ELSE IF Len(sel.exprs) = 1 /\ sel.exprs[1][1] = "name" /\ sel.exprs[1][2] = "In"
         THEN Given(sel.exprs[1][3]) ELSE <<>>

--------------------------------------------------------------------------------
(* Ports: a plain entry, or the admin tiers' portNumber or portRange.      *)

Protocol   == {"TCP", "UDP", "SCTP"}
PortNumber == 1..65535
Priority   == 0..1000

PortsValid(ports) ==
    \A i \in DOMAIN ports : ports[i].proto \in Protocol /\ ports[i].port \in PortNumber

PortEntries(ports, wrap) ==
    [i \in DOMAIN ports |-> [wrap |-> wrap, proto |-> ports[i].proto, port |-> ports[i].port, end |-> 0]]

\* Mutation: the port inside a portNumber is not looked for.
PlainPorts(entries) ==
    [i \in DOMAIN entries |->
        IF entries[i].wrap # None THEN [proto |-> None, port |-> 0]
        ELSE [proto |-> entries[i].proto, port |-> entries[i].port]]

(* A range and a named port have no number, and no form.                   *)
DecodePorts(entries) ==
    [i \in DOMAIN entries |->
        IF entries[i].wrap \notin {None, "portNumber"} THEN [proto |-> None, port |-> 0]
        ELSE [proto |-> entries[i].proto, port |-> entries[i].port]]

--------------------------------------------------------------------------------
(* What a client sends: lists are lists, and None is not a selector.       *)

IsList(s) == s = [i \in DOMAIN s |-> s[i]]

WellFormed(f) ==
    CASE f.form = "policy" ->
            \A i \in DOMAIN f.ingress : \A j \in DOMAIN f.ingress[i].from :
                MatchLabels(f.ingress[i].from[j]) # None
      [] f.form = "admin" ->
            /\ f.baseline \in BOOLEAN
            /\ OrEverything(f.subject) # None
            /\ \A rules \in {f.ingress, f.egress} : \A i \in DOMAIN rules :
                  /\ IsList(rules[i].peers)
                  /\ \A j \in DOMAIN rules[i].peers : OrEverything(rules[i].peers[j]) # None
      [] f.form = "firewall" -> IsList(f.rules)
      [] f.form = "route"    -> IsList(f.ips)
      [] OTHER               -> f.form \in {"network", "egressip", "uplink"}

\* What the values of the constants satisfy; the instances assume it.
FormsAssumption ==
    /\ MaxUplinks \in Nat
    /\ None \notin Valid /\ None \notin Priority
    /\ \A f \in Forms : WellFormed(f)

--------------------------------------------------------------------------------
(* Port groups.                                                            *)

Layer2(subnets) ==
    [role |-> "Secondary", subnets |-> subnets, ipam |-> IF subnets = <<>> THEN "Disabled" ELSE None,
     phys |-> None, vlan |-> 0]

Localnet(f) ==
    [role |-> "Secondary", subnets |-> f.subnets, ipam |-> IF f.subnets = <<>> THEN "Disabled" ELSE "Enabled",
     phys |-> f.phys, vlan |-> f.vlan]

VlanId == 1..4094

NetworkValid(f) ==
    /\ f.name \in Valid /\ f.scope \in {"", "project", "shared", "vlan"}
    /\ \A i \in DOMAIN f.subnets : f.subnets[i] \in Valid
    /\ f.scope \in {"", "project"} => f.ns \in Valid
    /\ f.scope \in {"shared", "vlan"} => f.nss # <<>>
    /\ f.scope = "vlan" => f.phys # None /\ f.vlan \in VlanId

NetworkManifest(f) ==
    LET cudn(topology, layer) ==
            Doc("ClusterUserDefinedNetwork", f.name, None,
                [topology |-> topology, layer |-> layer, selector |-> NsNameSelector(f.nss)])
    IN  CASE f.scope \in {"", "project"} ->
                Doc("UserDefinedNetwork", f.name, f.ns,
                    [topology |-> "Layer2", layer |-> Layer2(f.subnets), selector |-> None])
          [] f.scope = "shared" -> cudn("Layer2", Layer2(f.subnets))
          [] f.scope = "vlan"   -> cudn("Localnet", Localnet(f))

DecodeNetwork(d) ==
    LET network(scope, ns, nss, vlan, phys) ==
            [form |-> "network", scope |-> scope, name |-> d.name, ns |-> ns, nss |-> nss,
             subnets |-> d.spec.layer.subnets, vlan |-> vlan, phys |-> phys]
        named == NamespaceNames(d.spec.selector)
    IN  IF d.kind = "UserDefinedNetwork" THEN network("project", d.ns, <<>>, 0, None)
        ELSE IF d.spec.topology # "Localnet" THEN network("shared", None, named, 0, None)
        ELSE network("vlan", None, named, d.spec.layer.vlan, d.spec.layer.phys)

--------------------------------------------------------------------------------
(* The distributed firewall and its admin tiers.                           *)

PolicyValid(f) ==
    /\ f.name \in Valid /\ f.ns \in Valid
    /\ \A i \in DOMAIN f.ingress : PortsValid(f.ingress[i].ports)

\* A peer's labels are written even when there are none.
NetworkPolicyManifest(f) ==
    LET peer(g) == [pods |-> MatchLabels(g), other |-> None]
        rule(r) == [from |-> [i \in DOMAIN r.from |-> peer(r.from[i])], ports |-> PortEntries(r.ports, None)]
    IN  Doc("NetworkPolicy", f.name, f.ns,
            [pods |-> OrEverything(f.appliedTo), types |-> {"Ingress"},
             ingress |-> [i \in DOMAIN f.ingress |-> rule(f.ingress[i])]])

DecodeNetworkPolicy(d) ==
    LET group(p) == IF p.pods = None THEN None ELSE p.pods.labels
        rule(r) == [from |-> [i \in DOMAIN r.from |-> group(r.from[i])], ports |-> DecodePorts(r.ports)]
    IN  [form |-> "policy", name |-> d.name, ns |-> d.ns, appliedTo |-> d.spec.pods.labels,
         ingress |-> [i \in DOMAIN d.spec.ingress |-> rule(d.spec.ingress[i])]]

AdminValid(f) ==
    /\ f.baseline \/ (f.name \in Valid /\ f.priority \in Priority)
    /\ \A rules \in {f.ingress, f.egress} : \A i \in DOMAIN rules :
          /\ rules[i].action \in {"Allow", "Deny"} \union (IF f.baseline THEN {} ELSE {"Pass"})
          /\ rules[i].peers # <<>>
          /\ PortsValid(rules[i].ports)

(* The baseline is a singleton, without a priority.                        *)
AdminNetworkPolicyManifest(f) ==
    LET rule(r) == [action |-> r.action, ports |-> PortEntries(r.ports, "portNumber"),
                    peers |-> [i \in DOMAIN r.peers |-> [namespaces |-> OrEverything(r.peers[i]), other |-> None]]]
        rules(s) == [i \in DOMAIN s |-> rule(s[i])]
    IN  Doc(IF f.baseline THEN "BaselineAdminNetworkPolicy" ELSE "AdminNetworkPolicy",
            IF f.baseline THEN "default" ELSE f.name, None,
            [subject |-> OrEverything(f.subject), pods |-> None, ingress |-> rules(f.ingress),
             egress |-> rules(f.egress), priority |-> IF f.baseline THEN None ELSE f.priority])

DecodeAdminNetworkPolicy(d) ==
    LET group(p) == IF p.namespaces = None THEN {} ELSE IF p.namespaces.labels = None THEN {} ELSE p.namespaces.labels
        rule(r) == [action |-> r.action, ports |-> DecodePorts(r.ports),
                    peers |-> [i \in DOMAIN r.peers |-> group(r.peers[i])]]
        rules(s) == [i \in DOMAIN s |-> rule(s[i])]
    IN  [form |-> "admin", name |-> d.name, baseline |-> d.kind = "BaselineAdminNetworkPolicy",
         priority |-> IF d.spec.priority = None THEN 0 ELSE d.spec.priority,
         subject |-> IF d.spec.subject = None THEN None ELSE d.spec.subject.labels,
         ingress |-> rules(d.spec.ingress), egress |-> rules(d.spec.egress)]

--------------------------------------------------------------------------------
(* The gateway: a firewall per namespace, source addresses, next hops.     *)

FirewallValid(f) ==
    /\ f.ns \in Valid /\ f.rules # <<>>
    /\ \A i \in DOMAIN f.rules :
          /\ f.rules[i].action \in {"Allow", "Deny"}
          /\ (f.rules[i].cidr = None) # (f.rules[i].dns = None)
          /\ f.rules[i].cidr \in Valid \union {None}
          /\ PortsValid(f.rules[i].ports)

EgressFirewallManifest(f) ==
    LET rule(r) == [action |-> r.action, cidr |-> r.cidr, dns |-> r.dns, nodes |-> None,
                    ports |-> PortEntries(r.ports, None)]
    IN  Doc("EgressFirewall", "default", f.ns, [egress |-> [i \in DOMAIN f.rules |-> rule(f.rules[i])]])

DecodeEgressFirewall(d) ==
    LET rule(r) == [action |-> r.action, cidr |-> r.cidr, dns |-> r.dns, ports |-> DecodePorts(r.ports)]
    IN  [form |-> "firewall", ns |-> d.ns, rules |-> [i \in DOMAIN d.spec.egress |-> rule(d.spec.egress[i])]]

AddressesValid(f) ==
    /\ f.name \in Valid
    /\ f.ips # <<>> /\ f.nss # <<>>
    /\ \A i \in DOMAIN f.ips : f.ips[i] \in Valid

EgressIPManifest(f) ==
    Doc("EgressIP", f.name, None, [ips |-> f.ips, selector |-> NsNameSelector(f.nss), pods |-> None])

DecodeEgressIP(d) == [form |-> "egressip", name |-> d.name, ips |-> d.spec.ips, nss |-> NamespaceNames(d.spec.selector)]

ExternalRouteManifest(f) ==
    Doc("AdminPolicyBasedExternalRoute", f.name, None,
        [selector |-> NsNameSelector(f.nss), hops |-> [i \in DOMAIN f.ips |-> [ip |-> f.ips[i], bfd |-> None]]])

DecodeExternalRoute(d) ==
    [form |-> "route", name |-> d.name, nss |-> NamespaceNames(d.spec.selector),
     ips |-> [i \in DOMAIN d.spec.hops |-> d.spec.hops[i].ip]]

--------------------------------------------------------------------------------
(* Uplinks: one bridge, one port, one mapping.                             *)

Worker == {"worker"}

Bridge(name) == "br-" \o name

UplinkPolicyName(name) == "uplink-" \o name

UplinkManifest(f) ==
    LET bridge == IF f.bridge = None THEN Bridge(f.name) ELSE f.bridge
    IN  Doc("NodeNetworkConfigurationPolicy", UplinkPolicyName(f.name), None,
            [selector |-> IF f.nodes \in {None, {}} THEN Worker ELSE f.nodes,
             bridges |-> <<[name |-> bridge, ports |-> <<f.nic>>]>>,
             mappings |-> <<[localnet |-> f.name, bridge |-> bridge, state |-> "present"]>>])

(* The defaults read back as unset.                                        *)
DecodeUplink(d) ==
    LET first  == d.spec.mappings[1]
        ported == d.spec.bridges # <<>> /\ d.spec.bridges[1].ports # <<>>
    IN  [form |-> "uplink", name |-> first.localnet,
         bridge |-> IF first.bridge = Bridge(first.localnet) THEN None ELSE first.bridge,
         nic |-> IF ported THEN d.spec.bridges[1].ports[1] ELSE None,
         nodes |-> IF d.spec.selector = Worker THEN None ELSE d.spec.selector]

--------------------------------------------------------------------------------
(* Rendering, and reading back.                                            *)

Accepts(f) ==
    CASE f.form = "network"               -> NetworkValid(f)
      [] f.form = "policy"                -> PolicyValid(f)
      [] f.form = "admin"                 -> AdminValid(f)
      [] f.form = "firewall"              -> FirewallValid(f)
      [] f.form \in {"egressip", "route"} -> AddressesValid(f)
      [] f.form = "uplink"                -> f.name \in Valid /\ f.nic # None

Manifest(f) ==
    CASE f.form = "network"  -> NetworkManifest(f)
      [] f.form = "policy"   -> NetworkPolicyManifest(f)
      [] f.form = "admin"    -> AdminNetworkPolicyManifest(f)
      [] f.form = "firewall" -> EgressFirewallManifest(f)
      [] f.form = "egressip" -> EgressIPManifest(f)
      [] f.form = "route"    -> ExternalRouteManifest(f)
      [] f.form = "uplink"   -> UplinkManifest(f)

FormOf(d) ==
    CASE d.kind \in {"UserDefinedNetwork", "ClusterUserDefinedNetwork"}  -> DecodeNetwork(d)
      [] d.kind = "NetworkPolicy"                                        -> DecodeNetworkPolicy(d)
      [] d.kind \in {"AdminNetworkPolicy", "BaselineAdminNetworkPolicy"} -> DecodeAdminNetworkPolicy(d)
      [] d.kind = "EgressFirewall"                                       -> DecodeEgressFirewall(d)
      [] d.kind = "EgressIP"                                             -> DecodeEgressIP(d)
      [] d.kind = "AdminPolicyBasedExternalRoute"                        -> DecodeExternalRoute(d)
      [] d.kind = "NodeNetworkConfigurationPolicy"                       -> DecodeUplink(d)

\* Mutation: what the form does not carry is not looked for.
DecodeAnyway(d) == IF Accepts(FormOf(d)) THEN FormOf(d) ELSE Refused

(* The form that renders this very manifest, or none.                      *)
Decode(d) ==
    LET f == FormOf(d)
    IN  IF ~Accepts(f) THEN Refused
        ELSE IF Manifest(f) # d THEN Refused
        ELSE f

--------------------------------------------------------------------------------
(* The read plane: the rows that the catalog makes of the objects, once    *)
(* they are applied to the cluster as git declares them.                   *)

PortGroupKind(topology, role) ==
    IF topology = "Localnet" THEN "VLAN"
    ELSE IF role = "Primary" THEN "VM Network"
    ELSE "Internal"

(* networkFromUDN and networkFromCUDN.                                     *)
NetworkRow(d) ==
    LET kind == PortGroupKind(d.spec.topology, d.spec.layer.role)
        vlan == d.kind = "ClusterUserDefinedNetwork" /\ kind = "VLAN"
    IN  [kind |-> kind, name |-> d.name, ns |-> d.ns, subnets |-> d.spec.layer.subnets,
         uplink |-> IF vlan THEN d.spec.layer.phys ELSE None, vlan |-> IF vlan THEN d.spec.layer.vlan ELSE 0]

NodesMatching(sel) == {n \in Nodes : sel \subseteq n}

(* What does not decode as a list of mappings is read as none.             *)
MappingsOf(d) ==
    LET m == d.spec.mappings
    IN  IF Len(m) \in Nat /\ m = [i \in 1..Len(m) |-> m[i]] THEN m ELSE <<>>

(* One row for each mapping of a policy that is not absent.                *)
UplinksFromNNCP(d) ==
    LET row(m) == [name |-> m.localnet, bridge |-> m.bridge, policy |-> Id(d),
                   nodes |-> NodesMatching(d.spec.selector)]
    IN  FlattenSeq([i \in DOMAIN MappingsOf(d) |->
            IF MappingsOf(d)[i].state = "absent" THEN <<>> ELSE <<row(MappingsOf(d)[i])>>])

BrEx == [name |-> "br-ex", bridge |-> "br-ex", policy |-> None, nodes |-> Nodes]

\* Mutation: the first policy stays the one to act on.
FirstPolicy(merged, u) == IF merged.policy = None THEN u.policy ELSE merged.policy

OnlyPolicy(merged, u) == IF merged.policy = u.policy THEN u.policy ELSE None

MergeRow(out, u) ==
    IF \A i \in DOMAIN out : out[i].name # u.name THEN Append(out, u)
    ELSE [i \in DOMAIN out |->
            IF out[i].name # u.name THEN out[i]
            ELSE [out[i] EXCEPT !.nodes = @ \union u.nodes, !.policy = OnlyPolicy(out[i], u)]]

(* Rows of one physical network are one uplink.                            *)
MergeUplinks(rows) ==
    LET merged[n \in 0..Len(rows)] == IF n = 0 THEN <<>> ELSE MergeRow(merged[n - 1], rows[n])
    IN  merged[Len(rows)]

Uplinks(nncps) == MergeUplinks(<<BrEx>> \o FlattenSeq([i \in DOMAIN nncps |-> UplinksFromNNCP(nncps[i])]))

--------------------------------------------------------------------------------
(* What the server does.  A change is staged, proposed and merged in one   *)
(* step: Staging and Propose have the steps in between.                    *)

(* Bound: only uplinks are read together, so git holds several uplinks or  *)
(* one object of another kind.                                             *)
Land(id, d, form) ==
    /\ docs' = {x \in docs : x.id # id} \union {[id |-> id, doc |-> d, form |-> form]}
    /\ Cardinality(docs') <= IF \A x \in docs' : x.doc.kind = "NodeNetworkConfigurationPolicy" THEN MaxUplinks ELSE 1

Init == docs = {} /\ open = None

(* The form that creates an object and the form that changes it are one.   *)
StageCreate(f) ==
    /\ Accepts(f)
    /\ Land(Id(Manifest(f)), Manifest(f), f)
    /\ UNCHANGED open

(* An object of git opens in its form, or says why it has none.            *)
ObjectSpec(d) ==
    /\ open' = [read |-> d.doc, spec |-> Decode(d.doc)]
    /\ UNCHANGED docs

(* The form that is open is saved, here as it was read.                    *)
SaveOpen ==
    /\ open # None
    /\ open.spec # Refused
    /\ StageCreate(open.spec)

(* A manifest is replaced by one that declares the same object (bound: one *)
(* edit by hand after a form).                                             *)
StageUpdateManifest(d, new) ==
    /\ d.form # None
    /\ Id(new) = d.id
    /\ new # d.doc
    /\ Land(d.id, new, None)
    /\ UNCHANGED open

Next ==
    \/ \E f \in Forms : StageCreate(f)
    \/ \E d \in docs : ObjectSpec(d)
    \/ SaveOpen
    \/ \E d \in docs : \E new \in HandEdits(d.doc) : StageUpdateManifest(d, new)

Spec == Init /\ [][Next]_vars

--------------------------------------------------------------------------------
(* Properties.                                                             *)

Rendered == {d \in docs : d.form # None}

(* decode.go:13-15: "a manifest carrying anything the form cannot express  *)
(* is refused rather than silently rewritten without those settings":      *)
(* saving what was opened, while git still has it, changes nothing.        *)
NothingDropped ==
    [][open # None /\ (\E d \in docs : d.doc = open.read) /\ SaveOpen =>
          {d.doc : d \in docs'} = {d.doc : d \in docs}]_vars

\* A port group shows in the catalog with the values its form asked for.
ShownAsAsked ==
    \A d \in Rendered : d.form.form = "network" =>
        LET row  == NetworkRow(d.doc)
            vlan == d.form.scope = "vlan"
        IN  /\ (row.kind = "VLAN") = vlan /\ row.kind # "VM Network"
            /\ row.subnets = d.form.subnets
            /\ vlan => row.uplink = d.form.phys /\ row.vlan = d.form.vlan

\* A form that names the empty namespace: accepted, and not read back.
NamesNothing(f) ==
    f.form \in {"network", "egressip", "route"} /\ \E i \in DOMAIN f.nss : f.nss[i] = ""

(* What a form renders is read back by both planes: it opens in a form     *)
(* again (decode.go:11-12, "so the form that created an object can edit    *)
(* it") and its row in the catalog shows what was asked (doc.go:10-14);    *)
(* but for a form that names the empty namespace, which nothing refuses    *)
(* and which doc.go:50-53 leaves out of what is read.                      *)
FormsReadBack ==
    /\ \A d \in Rendered : Decode(d.doc) # Refused \/ NamesNothing(d.form)
    /\ ShownAsAsked

Nncps == {d.doc : d \in {x \in docs : x.doc.kind = "NodeNetworkConfigurationPolicy"}}

Maps(d, name) ==
    \E i \in DOMAIN MappingsOf(d) : MappingsOf(d)[i].localnet = name /\ MappingsOf(d)[i].state # "absent"

(* catalog.go:92-96: one physical network is one uplink, over the nodes of *)
(* all the policies that map it; it names a policy to edit or delete only  *)
(* when there is no other, in whatever order the store lists them.         *)
UplinkActsOnOne ==
    \A order \in SetToSeqs(Nncps) :
        LET rows == Uplinks(order)
            of(u) == {d \in Nncps : Maps(d, u.name)}
        IN  /\ \A i, j \in DOMAIN rows : rows[i].name = rows[j].name => i = j
            /\ \A i \in DOMAIN rows : LET u == rows[i] IN
                  /\ u.policy # None => u.name # "br-ex" /\ {Id(d) : d \in of(u)} = {u.policy}
                  /\ u.name # "br-ex" => u.nodes = UNION {NodesMatching(d.spec.selector) : d \in of(u)}
================================================================================
