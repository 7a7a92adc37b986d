------------------------------- MODULE MCNetwork -------------------------------
(* Small instances of NetTrace: two namespaces, a stopped VM, an address   *)
(* outside, and every wire form that a policy may be written in.           *)
EXTENDS NetTrace

--------------------------------------------------------------------------------
(* Workloads and flows.                                                    *)
Vm(name, ns, labels, ips) ==
    [name |-> name, ns |-> ns, nsLabels |-> {ns}, labels |-> labels, ips |-> ips,
     podNet |-> TRUE, defaultNet |-> None]

Web == Vm("web", "blue", {"web"}, {1})
Off == Vm("off", "blue", {"db"}, {})
Db  == Vm("db", "red", {"db"}, {2})
Cdr == [Vm("cdr", "red", {"web"}, {1}) EXCEPT !.defaultNet = <<"blue", "seg">>]

Vms == {Web, Off, Db, Cdr}

Host == [Vm("host", None, {}, {3}) EXCEPT !.nsLabels = {}]

Flow(src, dst, proto, port) == [src |-> src, dst |-> dst, proto |-> proto, port |-> port]

SomeFlows ==
    {Flow(Web, Db, "TCP", 80), Flow(Web, Off, "TCP", 81), Flow(Off, Web, "TCP", 0), Flow(Db, Web, "UDP", 80),
     Flow(Web, Host, "TCP", 80), Flow(Web, Host, "TCP", 0), Flow(Off, Host, "UDP", 81), Flow(Cdr, Web, "TCP", 80)}

--------------------------------------------------------------------------------
(* Ports and peers.                                                        *)
Number(proto, port, end) == [form |-> "plain", proto |-> proto, port |-> port, end |-> end]
Interval(proto, port, end) == [form |-> "range", proto |-> proto, port |-> port, end |-> end]
Named == [form |-> "named", proto |-> None, port |-> Http, end |-> 0]

Labelled(ns, pods) == [block |-> None, ns |-> ns, pods |-> pods]
Block(cidr, except) == [block |-> [cidr |-> cidr, except |-> except], ns |-> None, pods |-> None]

NoAdminPeer == [namespaces |-> None, pods |-> None, networks |-> None]
InNamespaces(sel) == [NoAdminPeer EXCEPT !.namespaces = sel]
OfPods(ns, pod) == [NoAdminPeer EXCEPT !.pods = [ns |-> ns, pod |-> pod]]
OnNetworks(cidr) == [NoAdminPeer EXCEPT !.networks = cidr]

On(action, peers, ports) == [action |-> action, peers |-> peers, ports |-> ports]
To(action, to, cidr, ports) == [action |-> action, to |-> to, cidr |-> cidr, ports |-> ports]

--------------------------------------------------------------------------------
(* The objects.                                                            *)
All == [none |-> FALSE, ns |-> None, pod |-> None]

Doc(kind, ns, name) ==
    [kind |-> kind, ns |-> ns, name |-> name, priority |-> 0, rank |-> 0, subject |-> All,
     types |-> {}, Ingress |-> None, Egress |-> None, role |-> None, topology |-> None, owner |-> None]

Netpol(ns, name, rank, pods, types, in, out) ==
    [Doc("netpol", ns, name) EXCEPT !.rank = rank, !.subject.pod = pods, !.types = types,
                                    !.Ingress = in, !.Egress = out]

Admin(kind, name, rank, priority, subject, in, out) ==
    [Doc(kind, None, name) EXCEPT !.rank = rank, !.priority = priority, !.subject = subject,
                                  !.Ingress = in, !.Egress = out]

Only(ns, pod) == [none |-> FALSE, ns |-> ns, pod |-> pod]

Policies ==
    {Netpol("blue", "a", 1, {}, {}, <<On("Allow", {}, {})>>, None),
     Netpol("blue", "b", 2, {"web"}, {}, <<On("Allow", {Labelled({"red"}, None)}, {Number("TCP", Http, 0)})>>, None),
     Netpol("red", "c", 1, {"db"}, {}, <<On("Allow", {Block({1, 3}, {3})}, {Number(None, 80, 0)})>>, None),
     Netpol("blue", "d", 3, {}, {}, None, <<>>),
     Netpol("blue", "e", 4, {"web"}, {"Egress"}, None,
            <<On("Allow", {Labelled(None, {"db"})}, {Number("TCP", 80, 81)}),
              On("Allow", {Block({2, 3, 4}, {4})}, {Number("TCP", 80, 0)})>>),
     Admin("anp", "p", 1, 10, Only({"red"}, None), <<On("Pass", {OnNetworks({1})}, {Named})>>, None),
     Admin("anp", "q", 2, 20, Only({}, None), <<On("Deny", {InNamespaces({"blue"})}, {})>>, None),
     Admin("anp", "r", 3, 10, Only({"blue"}, {"web"}), None,
           <<On("Allow", {NoAdminPeer}, {}), On("Deny", {OnNetworks({2, 3})}, {Number("TCP", 80, 0)})>>),
     Admin("anp", "s", 4, 5, [All EXCEPT !.none = TRUE], <<On("Deny", {InNamespaces({})}, {})>>, None),
     Admin("anp", "t", 5, 15, Only({"blue"}, None), None, <<On("Deny", {}, {})>>),
     Admin("anp", "u", 6, 15, Only(Bad, None), <<On("Allow", {OfPods({"blue"}, {"web"})}, {Interval("TCP", 80, 81)})>>,
           <<On("Deny", {OfPods({}, {}), OnNetworks({3})}, {Interval("UDP", 81, 81)})>>),
     Admin("banp", "default", 1, 0, Only({}, None), None, <<On("Deny", {OnNetworks({3})}, {})>>),
     Admin("banp", "default", 1, 0, Only({}, {"web"}), <<On("Deny", {InNamespaces({})}, {Named})>>, None),
     [Doc("gateway", "blue", "default") EXCEPT !.Egress = <<To("Allow", "dns", {}, {}), To("Deny", "cidr", {3}, {})>>],
     [Doc("gateway", "blue", "default") EXCEPT !.Egress =
         <<To("Deny", "node", {}, {Number("UDP", 0, 0)}), To("Allow", "cidr", {3}, {Number("TCP", 80, 0)}),
           To("Deny", "cidr", {1, 2, 3, 4}, {})>>],
     [Doc("egressip", None, "pool") EXCEPT !.subject = Only({"blue"}, {"web"})],
     [Doc("route", None, "hop") EXCEPT !.subject = Only({"red"}, None)]}

Networks ==
    {[Doc("udn", "blue", "own") EXCEPT !.role = "Primary", !.topology = "Layer2"],
     [Doc("nad", "blue", "own") EXCEPT !.owner = <<"udn", <<"blue", "own">>>>],
     [Doc("cudn", None, "shared") EXCEPT !.role = "Primary", !.topology = "Layer3"],
     [Doc("nad", "blue", "shared") EXCEPT !.owner = <<"cudn", "shared">>],
     [Doc("nad", "red", "shared") EXCEPT !.owner = <<"cudn", "shared">>],
     [Doc("nad", "blue", "seg") EXCEPT !.owner = <<"cudn", "shared">>],
     [Doc("nad", "blue", "seg") EXCEPT !.topology = "Localnet"]}

Objects == Policies \union Networks
================================================================================
