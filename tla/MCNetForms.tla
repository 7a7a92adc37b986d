------------------------------ MODULE MCNetForms ------------------------------
(* Small instances of NetForms: the forms that the client can fill in, the *)
(* refused ones among them, and what a person changes in git.              *)
EXTENDS NetForms

Port(proto, port) == [proto |-> proto, port |-> port]

PortLists ==
    {<<>>, <<Port("TCP", 80)>>, <<Port("UDP", 65535), Port("SCTP", 1)>>, <<Port("TCP", 65536)>>, <<Port("TCP", 0)>>}

Web == {<<"app", "web">>}

Network(scope, subnets, vlan, nss) ==
    [form |-> "network", scope |-> scope, name |-> "a", ns |-> IF scope \in {"", "project"} THEN "n1" ELSE None,
     subnets |-> subnets, vlan |-> vlan, phys |-> IF scope = "vlan" THEN "net" ELSE None, nss |-> nss]

Rule(from, ports) == [from |-> from, ports |-> ports]

AdminRule(action, peers, ports) == [action |-> action, peers |-> peers, ports |-> ports]

Admin(baseline, priority, subject, in, out) ==
    [form |-> "admin", name |-> "a", baseline |-> baseline, priority |-> priority, subject |-> subject,
     ingress |-> in, egress |-> out]

Gate(action, cidr, dns, ports) == [action |-> action, cidr |-> cidr, dns |-> dns, ports |-> ports]

Uplink(name, bridge, nodes) == [form |-> "uplink", name |-> name, bridge |-> bridge, nic |-> "eth1", nodes |-> nodes]

SomeForms ==
    {Network(s, <<>>, 0, <<>>) : s \in {"", "project"}}
    \union {Network(s, sub, v, n) : s \in {"shared", "vlan"}, sub \in {<<>>, <<"10/8">>, <<"bad">>},
                                   v \in {1, 4094, 4095}, n \in {<<>>, <<"">>, <<"n1">>, <<"n1", "n2">>}}
    \union {[form |-> "policy", name |-> "a", ns |-> "n1", appliedTo |-> g, ingress |-> r] : g \in {None, Web},
              r \in {<<>>} \union {<<Rule(<<>>, p)>> : p \in PortLists} \union {<<Rule(<<{}, Web>>, <<>>)>>}}
    \union {Admin(FALSE, p, None, <<AdminRule("Pass", <<{}, Web>>, <<>>)>>, <<>>) : p \in {0, 1000, 1001}}
    \union {Admin(b, 10, Web, <<AdminRule(act, <<Web>>, ports)>>, <<>>) :
              b \in BOOLEAN, act \in {"Allow", "Pass"}, ports \in PortLists}
    \union {Admin(FALSE, 10, None, <<>>, r) : r \in {<<>>, <<AdminRule("Deny", <<>>, <<>>)>>}}
    \union {[form |-> "firewall", ns |-> "n1", rules |-> <<Gate("Allow", None, "x", p)>>] : p \in PortLists}
    \union {[form |-> "firewall", ns |-> "n1", rules |-> r] :
              r \in {<<>>} \union {<<Gate("Deny", c, d, <<>>)>> : c \in {None, "10/8", "bad"}, d \in {None, "x"}}}
    \union {[form |-> k, name |-> "a", ips |-> ips, nss |-> n] :
              k \in {"egressip", "route"}, ips \in {<<>>, <<"1.1">>, <<"1.1", "bad">>}, n \in {<<>>, <<"", "n1">>, <<"n1", "n2">>}}
    \union {Uplink(n, b, s) : n \in {"a", "net", "br-ex"}, b \in {None, "ovs"}, s \in {Worker, {"rack"}}}
    \union {Uplink("net", "ovs", None)}

(* A field that no form has; and by kind, a field of a form that holds     *)
(* what the form never writes.                                             *)
SomeHandEdits(d) ==
    {[d EXCEPT !.extra = {"labels"}]}
    \union (IF d.kind # "ClusterUserDefinedNetwork" THEN {} ELSE
              {[d EXCEPT !.spec.layer.role = "Primary"], [d EXCEPT !.spec.layer.vlan = 0],
               [d EXCEPT !.spec.topology = "Layer3"], [d EXCEPT !.spec.selector = MatchLabels(Web)],
               [d EXCEPT !.spec.selector = MatchLabels({<<"name", "n1">>})],
               [d EXCEPT !.spec.selector = NsNameSelector(<<"", "n2">>)]})
    \union (IF d.kind # "NetworkPolicy" THEN {} ELSE
              {[d EXCEPT !.spec.types = {"Ingress", "Egress"}]}
              \union (IF d.spec.ingress = <<>> THEN {} ELSE
                {[d EXCEPT !.spec.ingress[1].from = <<[pods |-> None, other |-> "ipBlock"]>>],
                 [d EXCEPT !.spec.ingress[1].from = <<[pods |-> Everything, other |-> None]>>],
                 [d EXCEPT !.spec.ingress[1].ports = <<[wrap |-> None, proto |-> "TCP", port |-> 80, end |-> 90]>>]}))
    \union (IF d.kind # "AdminNetworkPolicy" THEN {} ELSE
              {[d EXCEPT !.spec.subject = None, !.spec.pods = "db"]}
              \union (IF d.spec.ingress = <<>> THEN {} ELSE
                {[d EXCEPT !.spec.ingress[1].ports = <<[wrap |-> "portRange", proto |-> None, port |-> 0, end |-> 90]>>],
                 [d EXCEPT !.spec.ingress[1].peers = <<[namespaces |-> None, other |-> "nodes"]>>]}))
    \union (IF d.kind # "EgressFirewall" THEN {} ELSE
              {[d EXCEPT !.spec.egress[1].cidr = None, !.spec.egress[1].dns = None, !.spec.egress[1].nodes = "infra"]})
    \union (IF d.kind # "AdminPolicyBasedExternalRoute" THEN {} ELSE {[d EXCEPT !.spec.hops[1].bfd = TRUE]})
    \union (IF d.kind # "NodeNetworkConfigurationPolicy" THEN {} ELSE
              {[d EXCEPT !.spec.mappings = @ \o <<[localnet |-> "net", bridge |-> "ovs", state |-> st]>>] :
                  st \in {"absent", "present"}})
================================================================================
