------------------------------ MODULE ScopeCache ------------------------------
(***************************************************************************)
(* What a token may see, cached: internal/api/scope.go over the namespace  *)
(* snapshot and the RoleBinding signal of internal/clusterstate.           *)
(*                                                                         *)
(* The cluster labels namespaces and binds the token in them.  Two         *)
(* independent watches deliver those changes: the namespaces' store is     *)
(* updated and then NamespaceChanged published; a RoleBinding event is     *)
(* dropped unless its namespace is in that store (rbacstore.go).  One      *)
(* token; its requests run concurrently and share one cache entry stamped  *)
(* with the version read before the cluster was asked.                     *)
(***************************************************************************)
EXTENDS Naturals, Sequences

CONSTANTS Namespaces,
          Requests,   \* requests of the token that may run at once
          Unseen,
          MaxMoves,   \* bound: changes to the cluster
          MaxCallFaults   \* bound: failed calls to the apiserver

ASSUME ScopeAssumption ==
    /\ {MaxMoves, MaxCallFaults} \subseteq Nat
    /\ Unseen \notin [ns: SUBSET Namespaces, ver: Nat]

VARIABLES labelled,  \* the cluster's project namespaces
          bound,     \* those the token may read VMs in
          moves, callFaults,
          nsWatch,   \* namespace events on their way: <<namespace, labelled>>
          rbWatch,   \* RoleBinding events on their way
          nss,       \* State.nss, the snapshot
          owed,      \* watches that updated their store and have yet to publish
          version,   \* the sum Bus.Version(RBACChanged, NamespaceChanged)
          visible,   \* Server.visible for the token
          req        \* each request: its stage and local variables

clusterVars == <<labelled, bound, moves>>
watchVars   == <<nsWatch, rbWatch, nss, owed, version>>
vars        == <<clusterVars, callFaults, watchVars, visible, req>>

Idle     == [at |-> "idle", ver |-> 0, todo |-> {}, ns |-> {}]
Verdicts == [ns: SUBSET Namespaces, ver: Nat]
Queries  == [at: {"idle", "stamped", "asking"}, ver: Nat,
             todo: SUBSET Namespaces, ns: SUBSET Namespaces]

TypeOK ==
    /\ labelled \subseteq Namespaces /\ bound \subseteq Namespaces /\ nss \subseteq Namespaces
    /\ moves \in 0..MaxMoves /\ callFaults \in 0..MaxCallFaults
    /\ nsWatch \in Seq(Namespaces \X BOOLEAN)
    /\ rbWatch \in Seq(Namespaces)
    /\ owed \subseteq {"namespace", "rbac"}
    /\ version \in Nat
    /\ visible \in Verdicts \union {Unseen}
    /\ visible # Unseen => visible.ver <= version
    /\ req \in [Requests -> Queries]
    /\ \A r \in Requests :
          /\ req[r].ver <= version /\ req[r].todo \intersect req[r].ns = {}
          /\ req[r].at = "stamped" => req[r].ns = {}

Init ==
    /\ labelled \in SUBSET Namespaces /\ bound \in SUBSET Namespaces
    /\ moves = MaxMoves /\ callFaults = MaxCallFaults
    /\ nsWatch = <<>> /\ rbWatch = <<>>
    /\ nss = labelled
    /\ owed = {}
    /\ version = 0
    /\ visible = Unseen
    /\ req = [r \in Requests |-> Idle]

Toggled(S, x) == IF x \in S THEN S \ {x} ELSE S \union {x}

--------------------------------------------------------------------------------
(* The cluster.                                                            *)

(* A namespace gains or loses the project label.                           *)
Relabel(n) ==
    /\ moves > 0
    /\ moves' = moves - 1
    /\ labelled' = Toggled(labelled, n)
    /\ nsWatch' = Append(nsWatch, <<n, n \in labelled'>>)
    /\ UNCHANGED <<bound, callFaults, rbWatch, nss, owed, version, visible, req>>

(* A RoleBinding of the namespace grants or revokes.                       *)
Rebind(n) ==
    /\ moves > 0
    /\ moves' = moves - 1
    /\ bound' = Toggled(bound, n)
    /\ rbWatch' = Append(rbWatch, n)
    /\ UNCHANGED <<labelled, callFaults, nsWatch, nss, owed, version, visible, req>>

--------------------------------------------------------------------------------
(* The reflectors.                                                         *)

(* countingStore: the mutation, then onChange.                             *)
NamespaceStored ==
    /\ "namespace" \notin owed /\ nsWatch # <<>>
    /\ nsWatch' = Tail(nsWatch)
    /\ LET n == Head(nsWatch)[1]
       IN nss' = IF Head(nsWatch)[2] THEN nss \union {n} ELSE nss \ {n}
    /\ owed' = owed \union {"namespace"}
    /\ UNCHANGED <<clusterVars, callFaults, rbWatch, version, visible, req>>

\* Mutation: a namespace event only lets the tree move, never visibility.
NamespaceSilent ==
    /\ "namespace" \in owed
    /\ owed' = owed \ {"namespace"}
    /\ UNCHANGED <<clusterVars, callFaults, nsWatch, rbWatch, nss, version, visible, req>>

NamespacePublished ==
    /\ "namespace" \in owed
    /\ owed' = owed \ {"namespace"}
    /\ version' = version + 1
    /\ UNCHANGED <<clusterVars, callFaults, nsWatch, rbWatch, nss, visible, req>>

(* projectRBACStore.relevant.                                              *)
Relevant(n) == n \in nss

BindingSeen ==
    /\ "rbac" \notin owed /\ rbWatch # <<>>
    /\ rbWatch' = Tail(rbWatch)
    /\ owed' = IF Relevant(Head(rbWatch)) THEN owed \union {"rbac"} ELSE owed
    /\ UNCHANGED <<clusterVars, callFaults, nsWatch, nss, version, visible, req>>

BindingPublished ==
    /\ "rbac" \in owed
    /\ owed' = owed \ {"rbac"}
    /\ version' = version + 1
    /\ UNCHANGED <<clusterVars, callFaults, nsWatch, rbWatch, nss, visible, req>>

--------------------------------------------------------------------------------
(* visibleFor.                                                             *)

Become(r, rec) == req' = [req EXCEPT ![r] = rec]

(* The version is read first.                                              *)
Begin(r) ==
    /\ req[r].at = "idle"
    /\ Become(r, [at |-> "stamped", ver |-> version, todo |-> {}, ns |-> {}])
    /\ UNCHANGED <<clusterVars, callFaults, watchVars, visible>>

Hits(r) == visible # Unseen /\ visible.ver = req[r].ver

Hit(r) ==
    /\ req[r].at = "stamped" /\ Hits(r)
    /\ Become(r, Idle)
    /\ UNCHANGED <<clusterVars, callFaults, watchVars, visible>>

(* namespaceNames: the candidates to probe.                                *)
Miss(r) ==
    /\ req[r].at = "stamped" /\ ~Hits(r)
    /\ Become(r, [req[r] EXCEPT !.at = "asking", !.todo = nss])
    /\ UNCHANGED <<clusterVars, callFaults, watchVars, visible>>

(* VisibleNamespaces: one review for each candidate.                       *)
Probe(r, n) ==
    /\ req[r].at = "asking" /\ n \in req[r].todo
    /\ Become(r, [req[r] EXCEPT !.todo = @ \ {n},
                                !.ns = IF n \in bound THEN @ \union {n} ELSE @])
    /\ UNCHANGED <<clusterVars, callFaults, watchVars, visible>>

(* A failed review skips its candidate ...                                 *)
ProbeFails(r, n) ==
    /\ req[r].at = "asking" /\ n \in req[r].todo
    /\ callFaults > 0
    /\ callFaults' = callFaults - 1
    /\ Become(r, [req[r] EXCEPT !.todo = @ \ {n}])
    /\ UNCHANGED <<clusterVars, watchVars, visible>>

(* ... and a failed List fails the request.                                *)
AskFails(r) ==
    /\ req[r].at = "asking"
    /\ callFaults > 0
    /\ callFaults' = callFaults - 1
    /\ Become(r, Idle)
    /\ UNCHANGED <<clusterVars, watchVars, visible>>

\* Mutation: the answer is stamped with the version it is stored at.
StampLate(r) ==
    /\ req[r].at = "asking" /\ req[r].todo = {}
    /\ visible' = [ns |-> req[r].ns, ver |-> version]
    /\ Become(r, Idle)
    /\ UNCHANGED <<clusterVars, callFaults, watchVars>>

\* Mutation: the stamp runs ahead of the version.
StampAhead(r) ==
    /\ req[r].at = "asking" /\ req[r].todo = {}
    /\ visible' = [ns |-> req[r].ns, ver |-> req[r].ver + 1]
    /\ Become(r, Idle)
    /\ UNCHANGED <<clusterVars, callFaults, watchVars>>

Put(r) ==
    /\ req[r].at = "asking" /\ req[r].todo = {}
    /\ visible' = [ns |-> req[r].ns, ver |-> req[r].ver]
    /\ Become(r, Idle)
    /\ UNCHANGED <<clusterVars, callFaults, watchVars>>

(* visibleTTL has passed since the Put.                                    *)
Expire ==
    /\ visible # Unseen
    /\ visible' = Unseen
    /\ UNCHANGED <<clusterVars, callFaults, watchVars, req>>

--------------------------------------------------------------------------------
Request(r) ==
    \/ Begin(r) \/ Hit(r) \/ Miss(r) \/ AskFails(r) \/ Put(r)
    \/ \E n \in Namespaces : Probe(r, n) \/ ProbeFails(r, n)

Next ==
    \/ \E n \in Namespaces : Relabel(n) \/ Rebind(n)
    \/ NamespaceStored \/ NamespacePublished \/ BindingSeen \/ BindingPublished
    \/ Expire
    \/ \E r \in Requests : Request(r)

Spec == Init /\ [][Next]_vars

--------------------------------------------------------------------------------
Delivered == nsWatch = <<>> /\ rbWatch = <<>> /\ owed = {}
Current   == visible # Unseen /\ visible.ver = version

(* Once the watches have delivered every change, an answer that will still *)
(* be served shows no project namespace the token has lost.                *)
NothingOutlivesRevocation ==
    Delivered /\ Current => visible.ns \intersect nss \subseteq bound

(* And it misses none, unless a review failed: a binding whose event came  *)
(* before its namespace's label was seen is covered by NamespaceChanged    *)
(* (rbacstore.go:12).                                                      *)
NothingMissing ==
    Delivered /\ Current /\ callFaults = MaxCallFaults => labelled \intersect bound \subseteq visible.ns
================================================================================
