-------------------------------- MODULE NetTrace --------------------------------
(***************************************************************************)
(* The network read plane (internal/netstate): stores fed by watches, each *)
(* object decoded once, and the readers over them: the trace of a flow     *)
(* through the policy tiers, the chain of policies that govern a           *)
(* namespace, and the catalog of networks.                                 *)
(*                                                                         *)
(* A trace knows less than the cluster: a named port, a DNS name, which    *)
(* addresses are nodes, where a stopped VM will be.  A world is one way    *)
(* all of that may be, and what the cluster does with a flow in a world is *)
(* the reference the readers are held against.                             *)
(*                                                                         *)
(* A label selector is the set of labels it asks for, Bad one that the     *)
(* library rejects.  A CIDR is the set of its addresses.                   *)
(***************************************************************************)
EXTENDS Naturals, Sequences, FiniteSets

CONSTANTS Docs,       \* the objects that may be created
          Workloads,  \* the VMs of the cluster
          Flows,      \* [src, dst, proto, port]: dst a VM or an address outside, port 0 when none is given
          Addresses,  \* every address
          PortNumbers,
          None, Bad, Http,
          SystemNamespaces,
          MaxObjects  \* bound: objects at a time

Directions == {"Ingress", "Egress"}

\* What the schemas of the objects, and the API server, let through.
PortOK(d, admin) ==
    \/ d.form = "named"
    \/ d.form = "range" /\ d.proto # None /\ d.port \in Nat \ {0} /\ d.end \in Nat
    \/ d.form = "plain" /\ d.port \in Nat \union {Http} /\ d.end \in Nat /\ (admin => d.proto # None)

AdminPeerOK(p) ==
    \/ p.pods = None /\ p.networks = None
    \/ p.namespaces = None /\ (p.pods = None \/ p.networks = None)

RuleOK(kind, r) ==
    LET admin == kind \in {"anp", "banp"}
    IN  /\ r.action \in {"Allow"} \union (IF kind = "netpol" THEN {} ELSE {"Deny"})
                            \union IF kind = "anp" THEN {"Pass"} ELSE {}
        /\ \A d \in r.ports : PortOK(d, admin)
        /\ admin => \A p \in r.peers : AdminPeerOK(p)

DocOK(d) ==
    /\ d.priority \in Nat /\ d.rank \in Nat
    /\ d.kind \in {"anp", "banp"} => d.ns = None
    /\ d.kind = "netpol" => d.ns # None /\ ~d.subject.none /\ d.subject.ns = None /\ d.subject.pod # Bad
    /\ d.kind = "gateway" => ~d.subject.none /\ d.subject.ns = None /\ d.subject.pod = None
    /\ \A dir \in Directions : d[dir] # None =>
          DOMAIN d[dir] \subseteq Nat /\ \A i \in DOMAIN d[dir] : RuleOK(d.kind, d[dir][i])
    /\ d.role = "Primary" => d.topology # "Localnet"

\* A flow starts at a VM and ends at one, or at an address outside.
FlowOK(f) ==
    /\ f.src.ns # None /\ f.src.labels # None /\ f.port \in Nat
    /\ IF f.dst.ns = None THEN \E a \in Addresses : f.dst.ips = {a} ELSE f.dst.labels # None

TraceAssumption ==
    /\ {None, Bad} \intersect {{}, "Primary", "TCP", "Allow", "Deny", "Pass"} = {}
    /\ None # Bad /\ Http \notin Nat /\ None # <<"default">>
    /\ \A d \in Docs : DocOK(d) /\ None \notin {<<"udn", <<d.ns, d.name>>>>, <<"cudn", d.name>>}
    /\ \A d, e \in {c \in Docs : c.kind \in {"anp", "banp", "netpol", "gateway"}} :
          <<d.kind, d.ns>> = <<e.kind, e.ns>> /\ d.name # e.name => d.rank # e.rank
    /\ \A f \in Flows : FlowOK(f)

VARIABLE objects \* what the stores hold

Key(d) == <<d.kind, d.ns, d.name>>

Init == objects = {}

(* A watch event; a store holds one object of a name.                      *)
Applied(d) ==
    /\ d \notin objects
    /\ objects' = {o \in objects : Key(o) # Key(d)} \union {d}
    /\ Cardinality(objects') <= MaxObjects

Deleted(d) == d \in objects /\ objects' = objects \ {d}

Next == \E d \in Docs : Applied(d) \/ Deleted(d)

Spec == Init /\ [][Next]_objects

Of(kind) == {d \in objects : d.kind = kind}

--------------------------------------------------------------------------------
(* Decoding: each wire form into one rule, peer and port shape.            *)

DecodePort(d, default) ==
    IF d.form = "named" THEN [proto |-> None, named |-> TRUE, start |-> 0, end |-> 0]
    ELSE IF d.form = "range" THEN [proto |-> d.proto, named |-> FALSE, start |-> d.port, end |-> d.end]
    ELSE [proto |-> IF d.proto = None THEN default ELSE d.proto,
          named |-> d.port = Http,
          start |-> IF d.port = Http THEN 0 ELSE d.port,
          end   |-> IF d.port = Http THEN 0 ELSE IF d.end # 0 THEN d.end ELSE d.port]

AnyPeer == [kind |-> "any", home |-> None, ns |-> None, pod |-> None, cidr |-> {}]
SelectorPeer(home, ns, pod) == [AnyPeer EXCEPT !.kind = "selector", !.home = home, !.ns = ns, !.pod = pod]
NetworksPeer(cidr) == [AnyPeer EXCEPT !.kind = "networks", !.cidr = cidr]
Peer(kind) == [AnyPeer EXCEPT !.kind = kind]

Rule(action, peers, ports) == [action |-> action, peers |-> peers, ports |-> ports]

(* A podSelector without a namespaceSelector means the policy's namespace. *)
NetpolPeer(p, ns) ==
    IF p.block # None THEN NetworksPeer(p.block.cidr \ p.block.except)
    ELSE SelectorPeer(IF p.ns = None THEN ns ELSE None, p.ns, p.pods)

NetpolRule(r, ns) ==
    Rule("Allow", IF r.peers = {} THEN {AnyPeer} ELSE {NetpolPeer(p, ns) : p \in r.peers},
         {DecodePort(d, "TCP") : d \in r.ports})

AdminPeer(p) ==
    IF p.namespaces # None THEN SelectorPeer(None, p.namespaces, None)
    ELSE IF p.pods # None THEN SelectorPeer(None, p.pods.ns, p.pods.pod)
    ELSE IF p.networks # None THEN NetworksPeer(p.networks)
    ELSE Peer("nodes")

(* An empty list of peers matches nothing.                                 *)
AdminRule(r) == Rule(r.action, {AdminPeer(p) : p \in r.peers}, {DecodePort(d, None) : d \in r.ports})

GatewayRule(r) ==
    Rule(r.action,
         {CASE r.to = "cidr" -> NetworksPeer(r.cidr) [] r.to = "dns" -> Peer("dns")
            [] r.to = "node" -> Peer("nodes") [] OTHER -> Peer("unresolved")},
         {DecodePort(d, "TCP") : d \in r.ports})

(* policyTypes absent: Ingress, and Egress when there is an egress section.*)
NetpolTypes(d) ==
    IF d.types # {} THEN d.types
    ELSE {"Ingress"} \union IF d.Egress = None THEN {} ELSE {"Egress"}

Section(rules, Op(_)) ==
    IF rules = None THEN <<>> ELSE [i \in DOMAIN rules |-> Op(rules[i])]

Decoded(d) ==
    LET rule(r) == CASE d.kind = "netpol" -> NetpolRule(r, d.ns)
                     [] d.kind = "gateway" -> GatewayRule(r)
                     [] OTHER -> AdminRule(r)
    IN  [key |-> Key(d), priority |-> d.priority, rank |-> d.rank, subject |-> d.subject,
         deny |-> IF d.kind = "netpol" THEN NetpolTypes(d) ELSE {},
         rules |-> [dir \in Directions |-> Section(d[dir], rule)]]

--------------------------------------------------------------------------------
(* Three-valued matching.                                                  *)
AllOf(ms) == IF "no" \in ms THEN "no" ELSE IF "cond" \in ms THEN "cond" ELSE "yes"
AnyOf(ms) == IF "yes" \in ms THEN "yes" ELSE IF "cond" \in ms THEN "cond" ELSE "no"

Sure(p) == IF p THEN "yes" ELSE "no"

SelMatch(sel, labels) ==
    CASE sel = None -> "yes" [] sel = Bad -> "cond" [] OTHER -> Sure(sel \subseteq labels)

(* A question about a namespace has no pod labels.                         *)
PodMatch(sel, labels) ==
    IF sel \in {None, {}} THEN "yes" ELSE IF labels = None THEN "cond" ELSE SelMatch(sel, labels)

(* An admin policy without a subject applies to nothing.                   *)
SubjectMatch(s, nsLabels, labels) ==
    IF s.none THEN "no" ELSE AllOf({SelMatch(s.ns, nsLabels), PodMatch(s.pod, labels)})

PeerMatch(p, t) ==
    CASE p.kind = "any" -> "yes"
      [] p.kind = "selector" ->
            IF t.ns = None \/ p.home \notin {None, t.ns} THEN "no"
            ELSE AllOf({SelMatch(p.ns, t.nsLabels), SelMatch(p.pod, t.labels)})
      [] p.kind = "networks" -> IF t.ips = {} THEN "cond" ELSE Sure(p.cidr \intersect t.ips # {})
      [] p.kind = "nodes" -> IF t.ns = None THEN "cond" ELSE "no"
      [] OTHER -> "cond"

PortMatch(p, proto, port) ==
    IF p.proto \notin {None, proto} THEN "no"
    ELSE IF p.named THEN "cond"
    ELSE IF p.start = 0 THEN "yes"
    ELSE IF port = 0 THEN "cond"
    ELSE Sure(port \in p.start..p.end)

RuleMatch(r, t, proto, port) ==
    AllOf({AnyOf({PeerMatch(p, t) : p \in r.peers}),
           IF r.ports = {} THEN "yes" ELSE AnyOf({PortMatch(p, proto, port) : p \in r.ports})})

--------------------------------------------------------------------------------
(* The policies of a tier that may bind a workload.                        *)
Bind(docs, nsLabels, labels) ==
    LET binds(p) == [pol |-> p, m |-> SubjectMatch(p.subject, nsLabels, labels)]
    IN  {b \in {binds(Decoded(d)) : d \in docs} : b.m # "no"}

Netpols(ns)  == {d \in Of("netpol") : d.ns = ns}
Gateways(ns) == {d \in Of("gateway") : d.ns = ns}

(* A rule of a tier is a line <<bound, place>>; lines are walked by        *)
(* priority, name and place.                                               *)
Lines(bound, dir) == UNION {{b} \X DOMAIN b.pol.rules[dir] : b \in bound}

Above(k, l) ==
    LET p == k[1].pol q == l[1].pol
    IN  \/ p.priority < q.priority
        \/ p.priority = q.priority /\ p.rank < q.rank
        \/ p.priority = q.priority /\ p.rank = q.rank /\ k[2] < l[2]

(* One pass over the rules of a tier's policies in the direction: up to    *)
(* the first that surely matches, with the actions of those above it that  *)
(* may.                                                                    *)
Tier(bound, dir, subjectCounts, t, proto, port, open) ==
    LET rule(l)  == l[1].pol.rules[dir][l[2]]
        match(l) == AllOf({RuleMatch(rule(l), t, proto, port)} \union IF subjectCounts THEN {l[1].m} ELSE {})
        lines    == Lines(bound, dir)
        sure     == {l \in lines : match(l) = "yes"}
        stop     == CHOOSE l \in sure : \A k \in sure : ~Above(k, l)
        above    == {l \in lines : match(l) = "cond" /\ (sure # {} => Above(l, stop))}
    IN  [action |-> IF sure = {} THEN None ELSE rule(stop).action,
         open   |-> open \union {rule(l).action : l \in above}]

\* Mutation: what may have matched above is forgotten.
DecideAtOnce(open, action) == action

(* Certain only when no rule above could have decided differently.         *)
Decide(open, action) == IF open \subseteq {action} THEN action ELSE "Conditional"

Selecting(w, dir) == {b \in Bind(Netpols(w.ns), {}, w.labels) : dir \in b.pol.deny}

(* What three tiers make of a side: admin policies, the network policies   *)
(* that select the workload, the baseline.                                 *)
DecideTiers(admin, selecting, dfw, base) ==
    IF admin.action \in {"Allow", "Deny"} THEN Decide(admin.open, admin.action)
    ELSE IF selecting = {} THEN Decide(base.open, IF base.action = None THEN "Allow" ELSE base.action)
    ELSE IF dfw.action # None THEN Decide(dfw.open, dfw.action)
    ELSE IF \E b \in selecting : b.m = "yes" THEN Decide(dfw.open, "Deny")
    ELSE "Conditional"

(* One side of a flow.  A Pass that may match changes nothing below its    *)
(* tier.                                                                   *)
DirectionWalk(dir, w, t, proto, port) ==
    LET admin  == Tier(Bind(Of("anp"), w.nsLabels, w.labels), dir, TRUE, t, proto, port, {})
        passed == admin.open \ {"Pass"}
    IN  DecideTiers(admin, Selecting(w, dir), Tier(Selecting(w, dir), dir, FALSE, t, proto, port, passed),
                    Tier(Bind(Of("banp"), w.nsLabels, w.labels), dir, TRUE, t, proto, port, passed))

(* The gateway firewall: first match, default allow.                       *)
GatewayWalk(ns, t, proto, port) ==
    LET gate == Tier(Bind(Gateways(ns), {}, None), "Egress", FALSE, t, proto, port, {})
    IN  Decide(gate.open, IF gate.action = None THEN "Allow" ELSE gate.action)

Verdict(said) ==
    IF "Deny" \in said THEN "Deny" ELSE IF "Conditional" \in said THEN "Conditional" ELSE "Allow"

--------------------------------------------------------------------------------
(* The networks.                                                           *)

(* A multus reference as a segment: what one CUDN generated is one segment *)
(* in every namespace.                                                     *)
SegmentKey(ref) ==
    LET at == {d \in Of("nad") : <<d.ns, d.name>> = ref}
    IN  IF at = {} \/ (CHOOSE d \in at : TRUE).owner = None THEN <<"nad", ref>>
        ELSE LET d == CHOOSE d \in at : TRUE
             IN  IF d.owner[1] = "cudn" THEN d.owner ELSE <<"udn", ref>>

PrimaryUDNs(ns)  == {d \in Of("udn") : d.ns = ns /\ d.role = "Primary"}
PrimaryCUDNs(ns) ==
    {d \in Of("cudn") : /\ d.role = "Primary"
                        /\ \E n \in Of("nad") : n.ns = ns /\ n.owner = <<"cudn", d.name>>}

\* Mutation: the shared networks are forgotten.
OwnDomain(ns) ==
    IF PrimaryUDNs(ns) # {} THEN <<"udn", <<ns, (CHOOSE d \in PrimaryUDNs(ns) : TRUE).name>>>>
    ELSE <<"default">>

(* OVN-K allows a namespace one primary network.                           *)
PrimaryDomain(ns) ==
    IF PrimaryUDNs(ns) # {} THEN <<"udn", <<ns, (CHOOSE d \in PrimaryUDNs(ns) : TRUE).name>>>>
    ELSE IF PrimaryCUDNs(ns) # {} THEN <<"cudn", (CHOOSE d \in PrimaryCUDNs(ns) : TRUE).name>>
    ELSE <<"default">>

PrimaryOf(w) ==
    IF w.defaultNet # None THEN SegmentKey(w.defaultNet)
    ELSE IF w.podNet THEN PrimaryDomain(w.ns) ELSE None

Reachable(a, b) == PrimaryOf(a) # None /\ PrimaryOf(a) = PrimaryOf(b)

KindFor(topology, role) ==
    IF topology = "Localnet" THEN "vlan" ELSE IF role = "Primary" THEN "default" ELSE "internal"

(* The port groups: each UDN, each CUDN with the namespaces its generated  *)
(* NADs are in, and the NADs that nobody generated.                        *)
Catalog ==
    {[net |-> <<"udn", <<d.ns, d.name>>>>, kind |-> KindFor(d.topology, d.role), in |-> {d.ns}] : d \in Of("udn")}
    \union {[net |-> <<"cudn", d.name>>, kind |-> KindFor(d.topology, d.role),
             in |-> {n.ns : n \in {m \in Of("nad") : m.owner = <<"cudn", d.name>>}}] : d \in Of("cudn")}
    \union {[net |-> <<"nad", <<d.ns, d.name>>>>, kind |-> KindFor(d.topology, None), in |-> {d.ns}] :
               d \in {n \in Of("nad") : n.owner = None /\ n.ns \notin SystemNamespaces}}

--------------------------------------------------------------------------------
(* The readers.                                                            *)

Inside(f) == f.dst.ns # None

Trace(f) ==
    IF Inside(f) /\ ~Reachable(f.src, f.dst) THEN "Unreachable"
    ELSE Verdict({DirectionWalk("Egress", f.src, f.dst, f.proto, f.port),
                  IF Inside(f) THEN DirectionWalk("Ingress", f.dst, f.src, f.proto, f.port)
                  ELSE GatewayWalk(f.src.ns, f.dst, f.proto, f.port)})

KeysOf(bound) == {b.pol.key : b \in bound}

\* Mutation: what a namespace's labels cannot tell is left out.
ChainOfTheSure(ns, nsLabels, labels) ==
    LET sure(bound) == KeysOf({b \in bound : b.m = "yes"})
    IN  sure(Bind(Of("anp") \union Of("banp"), nsLabels, labels))
          \union sure(Bind(Netpols(ns), {}, labels)) \union KeysOf(Bind(Gateways(ns), {}, None))
          \union sure(Bind(Of("egressip") \union Of("route"), nsLabels, labels))

(* Effective: every policy that may bind; without a pod's labels, that of  *)
(* the whole namespace.                                                    *)
Chain(ns, nsLabels, labels) ==
    KeysOf(Bind(Of("anp") \union Of("banp"), nsLabels, labels))
      \union KeysOf(Bind(Netpols(ns), {}, labels)) \union KeysOf(Bind(Gateways(ns), {}, None))
      \union KeysOf(Bind(Of("egressip") \union Of("route"), nsLabels, labels))

DefaultDeny(ns, labels) ==
    UNION {b.pol.deny : b \in {c \in Bind(Netpols(ns), {}, labels) : c.m = "yes"}}

--------------------------------------------------------------------------------
(* The reference: what the cluster does with a flow, by the documentation  *)
(* of the objects' own fields, in a world where all is known.              *)

(* The worlds that may tell a flow apart: the port that Http names at its  *)
(* end, whether a DNS name or a node selector means that end, where a      *)
(* stopped VM will be, the port when none is given, and what a rejected    *)
(* selector selects.                                                       *)
WorldsOf(f) ==
    [http : PortNumbers, dns : IF Inside(f) THEN {FALSE} ELSE BOOLEAN,
     node : IF Inside(f) THEN {FALSE} ELSE BOOLEAN,
     ip   : IF f.dst.ips = {} \/ (Inside(f) /\ f.src.ips = {}) THEN Addresses ELSE {None},
     port : IF f.port = 0 THEN PortNumbers ELSE {f.port}, bad : BOOLEAN]

AddressIn(x, t) == IF t.ips = {} THEN {x.ip} ELSE t.ips

SelHolds(x, sel, labels) == sel = None \/ (IF sel = Bad THEN x.bad ELSE sel \subseteq labels)

PortHolds(x, d, f) ==
    CASE d.form = "named" -> x.port = x.http
      [] d.form = "range" -> d.proto = f.proto /\ x.port \in d.port..d.end
      [] OTHER -> /\ f.proto = (IF d.proto = None THEN "TCP" ELSE d.proto)
                  /\ CASE d.port = 0    -> TRUE
                       [] d.port = Http -> x.port = x.http
                       [] OTHER -> x.port \in d.port..(IF d.end = 0 THEN d.port ELSE d.end)

PortsHold(x, ds, f) == ds = {} \/ \E d \in ds : PortHolds(x, d, f)

NetpolPeerHolds(x, p, ns, t) ==
    IF p.block # None THEN AddressIn(x, t) \intersect (p.block.cidr \ p.block.except) # {}
    ELSE /\ t.ns # None
         /\ IF p.ns = None THEN t.ns = ns ELSE SelHolds(x, p.ns, t.nsLabels)
         /\ SelHolds(x, p.pods, t.labels)

AdminPeerHolds(x, p, t) ==
    IF p.networks # None THEN AddressIn(x, t) \intersect p.networks # {}
    ELSE IF p.namespaces # None THEN t.ns # None /\ SelHolds(x, p.namespaces, t.nsLabels)
    ELSE IF p.pods # None
    THEN t.ns # None /\ SelHolds(x, p.pods.ns, t.nsLabels) /\ SelHolds(x, p.pods.pod, t.labels)
    ELSE t.ns = None /\ x.node

GatewayHolds(x, r, t) ==
    CASE r.to = "cidr" -> t.ips \subseteq r.cidr [] r.to = "dns" -> x.dns [] OTHER -> x.node

(* The action of the first of hits, rules as <<object, place>>: by         *)
(* priority, name and place.                                               *)
ActionOf(hits, dir) ==
    LET first == CHOOSE h \in hits : \A g \in hits :
                    IF h[1] = g[1] THEN h[2] <= g[2]
                    ELSE IF h[1].priority = g[1].priority THEN h[1].rank < g[1].rank
                    ELSE h[1].priority < g[1].priority
    IN  IF hits = {} THEN None ELSE first[1][dir][first[2]].action

FirstAction(ds, dir, Holds(_)) ==
    ActionOf({h \in UNION {{d} \X DOMAIN d[dir] : d \in {e \in ds : e[dir] # None}} :
                 Holds(h[1][dir][h[2]])}, dir)

Selects(x, d, w) ==
    /\ ~d.subject.none
    /\ SelHolds(x, d.subject.ns, w.nsLabels)
    /\ SelHolds(x, d.subject.pod, w.labels)

(* Admin policies go first, then the network policies of those selected,   *)
(* then the baseline.                                                      *)
InTiers(anp, selected, allowed, banp) ==
    IF anp \in {"Allow", "Deny"} THEN anp
    ELSE IF selected THEN IF allowed THEN "Allow" ELSE "Deny"
    ELSE IF banp = None THEN "Allow" ELSE banp

(* What ds do with a flow's side: w's in the direction, t the other end.   *)
SideTruth(ds, x, dir, w, t, f) ==
    LET admin(kind) ==
            FirstAction({d \in ds : d.kind = kind /\ Selects(x, d, w)}, dir,
                LAMBDA r : PortsHold(x, r.ports, f) /\ \E p \in r.peers : AdminPeerHolds(x, p, t))
        netpols ==
            {d \in ds : /\ d.kind = "netpol" /\ d.ns = w.ns
                        /\ SelHolds(x, d.subject.pod, w.labels)
                        /\ dir \in (IF d.types # {} THEN d.types
                                    ELSE IF d.Egress = None THEN {"Ingress"} ELSE Directions)}
        allowed == \E d \in netpols : d[dir] # None /\ \E i \in DOMAIN d[dir] :
                      /\ PortsHold(x, d[dir][i].ports, f)
                      /\ \/ d[dir][i].peers = {}
                         \/ \E p \in d[dir][i].peers : NetpolPeerHolds(x, p, w.ns, t)
    IN  InTiers(admin("anp"), netpols # {}, allowed, admin("banp"))

GatewayTruth(ds, x, ns, t, f) ==
    LET first == FirstAction({d \in ds : d.kind = "gateway" /\ d.ns = ns}, "Egress",
                    LAMBDA r : PortsHold(x, r.ports, f) /\ GatewayHolds(x, r, t))
    IN  IF first = None THEN "Allow" ELSE first

Truth(ds, x, f) ==
    LET said == {SideTruth(ds, x, "Egress", f.src, f.dst, f)}
                  \union IF Inside(f) THEN {SideTruth(ds, x, "Ingress", f.dst, f.src, f)}
                         ELSE {GatewayTruth(ds, x, f.src.ns, f.dst, f)}
    IN  IF "Deny" \in said THEN "Deny" ELSE "Allow"

--------------------------------------------------------------------------------
(* trace.go:39: "Deny is only ever certain", and so is Allow: a verdict    *)
(* without a condition is what the cluster does, in every world.           *)
VerdictIsCertain ==
    \A f \in Flows : \A said \in {Trace(f)} \intersect {"Allow", "Deny"} :
        \A x \in WorldsOf(f) : Truth(objects, x, f) = said

(* effective.go:19: "a maybe-applying firewall rule is never hidden".  A   *)
(* policy that the chain of a namespace leaves out changes no flow of its  *)
(* VMs, in any world; and a direction the namespace denies by default      *)
(* denies each of its VMs, when no rule of a policy allows.                *)
NothingHidden ==
    \A f \in Flows :
        LET ends == {f.src} \union IF Inside(f) THEN {f.dst} ELSE {}
            told == UNION {Chain(w.ns, w.nsLabels, None) : w \in ends}
        IN  /\ \A x \in WorldsOf(f) :
                  Truth({d \in objects : Key(d) \in told}, x, f) = Truth(objects, x, f)
            /\ \A w \in ends : \A dir \in DefaultDeny(w.ns, None) :
                  \E b \in Selecting(w, dir) : b.m = "yes"

(* topology.go:32 and catalog.go:229 read one rule off different objects.  *)
(* Two VMs on their namespaces' own network are reachable for the trace    *)
(* exactly when the catalog shows both the same VM Network, or none; of a  *)
(* namespace with two primary networks, which OVN-K refuses, nothing is    *)
(* said.                                                                   *)
CatalogAgrees ==
    LET vmNetworks(ns) == {n.net : n \in {m \in Catalog : m.kind = "default" /\ ns \in m.in}}
        primaries(ns)  == {<<"udn", <<ns, d.name>>>> : d \in PrimaryUDNs(ns)}
                            \union {<<"cudn", d.name>> : d \in PrimaryCUDNs(ns)}
        onePrimary(ns) == \A p, q \in primaries(ns) : p = q
    IN  \A a, b \in {w \in Workloads : w.podNet /\ w.defaultNet = None /\ onePrimary(w.ns)} :
           Reachable(a, b) <=> vmNetworks(a.ns) = vmNetworks(b.ns)
================================================================================
