------------------------------ MODULE ScopeProofs ------------------------------
(***************************************************************************)
(* For every set of namespaces and requests and any number of changes: an  *)
(* answer stamped with the present version is right up to the changes      *)
(* that are still to be published (ScopeCache).                            *)
(***************************************************************************)
EXTENDS ScopeCache, TLAPS

(* A change of the namespace set is still to be published.                 *)
Unpublished == owed # {} \/ nsWatch # <<>>

InFlight(n) == \E i \in DOMAIN rbWatch : rbWatch[i] = n

Settled(n) == n \in bound \/ InFlight(n)

(* What the answer grants in the snapshot is bound, or its RoleBinding     *)
(* event is on its way.  It may be dropped only once the namespace has     *)
(* left the snapshot, and to come back takes a namespace event.            *)
Granted(ns, ver) ==
    ver = version =>
        \/ Unpublished
        \/ \A n \in nss \intersect ns : Settled(n)

AnswersGranted ==
    /\ visible # Unseen => Granted(visible.ns, visible.ver)
    /\ \A r \in Requests : req[r].at # "idle" => Granted(req[r].ns, req[r].ver)

Inv == TypeOK /\ AnswersGranted

--------------------------------------------------------------------------------
(* Nothing has been answered yet.                                          *)
LEMMA InitInv == Init => Inv
<1> SUFFICES ASSUME Init PROVE Inv
    OBVIOUS
<1>1. TypeOK
    BY ScopeAssumption DEF Init, TypeOK, Idle, Queries
<1>2. AnswersGranted
    BY DEF Init, AnswersGranted, Idle
<1> QED
    BY <1>1, <1>2 DEF Inv

(* A change of the cluster sends an event about the namespace it touches.  *)
LEMMA ClusterStep ==
    ASSUME Inv, NEW n \in Namespaces, Relabel(n) \/ Rebind(n)
    PROVE  Inv'
<1>1. CASE Relabel(n)
    <2>1. TypeOK'
        <3>1. PICK gains \in BOOLEAN : nsWatch' = Append(nsWatch, <<n, gains>>)
            <4>1. (n \in labelled') \in BOOLEAN
                OBVIOUS
            <4> QED
                BY <1>1, <4>1 DEF Relabel
        <3>2. nsWatch' \in Seq(Namespaces \X BOOLEAN)
            BY <3>1 DEF Inv, TypeOK
        <3> QED
            BY <1>1, <3>2, ScopeAssumption DEF Inv, TypeOK, Relabel, Toggled, Verdicts
    <2>2. Unpublished'
        BY <1>1 DEF Inv, TypeOK, Relabel, Unpublished
    <2>3. AnswersGranted'
        BY <2>2 DEF AnswersGranted, Granted
    <2> QED
        BY <2>1, <2>3 DEF Inv
<1>2. CASE Rebind(n)
    <2>1. TypeOK'
        BY <1>2, ScopeAssumption DEF Inv, TypeOK, Rebind, Toggled, Verdicts
    <2>2. /\ rbWatch' = Append(rbWatch, n)
          /\ rbWatch \in Seq(Namespaces)
        BY <1>2 DEF Rebind, Inv, TypeOK
    <2>3. InFlight(n)'
        <3>1. Len(rbWatch) + 1 \in DOMAIN rbWatch' /\ rbWatch'[Len(rbWatch) + 1] = n
            BY <2>2
        <3> QED
            BY <3>1 DEF InFlight
    <2>4. ASSUME NEW m \in Namespaces, InFlight(m) PROVE InFlight(m)'
        <3>1. PICK i \in DOMAIN rbWatch : rbWatch[i] = m
            BY <2>4 DEF InFlight
        <3>2. i \in DOMAIN rbWatch' /\ rbWatch'[i] = m
            BY <2>2, <3>1
        <3> QED
            BY <3>2 DEF InFlight
    <2>5. \A m \in Namespaces : Settled(m) => Settled(m)'
        BY <1>2, <2>3, <2>4 DEF Rebind, Toggled, Settled
    <2>6. UNCHANGED <<nss, version, visible, req, owed, nsWatch>>
        BY <1>2 DEF Rebind
    <2>7. nss \subseteq Namespaces
        BY DEF Inv, TypeOK
    <2>9. AnswersGranted'
        BY <2>5, <2>6, <2>7 DEF Inv, AnswersGranted, Granted, Unpublished
    <2> QED
        BY <2>1, <2>9 DEF Inv
<1> QED
    BY <1>1, <1>2

(* A watch's step publishes, or owes a publish, or drops a binding event   *)
(* of a namespace that is not in the snapshot.                             *)
LEMMA WatchStep ==
    ASSUME Inv,
           NamespaceStored \/ NamespacePublished \/ BindingSeen \/ BindingPublished
    PROVE  Inv'
<1>1. CASE NamespaceStored
    <2>1. TypeOK'
        <3>1. nsWatch' \in Seq(Namespaces \X BOOLEAN) /\ Head(nsWatch) \in Namespaces \X BOOLEAN
            BY <1>1 DEF Inv, TypeOK, NamespaceStored
        <3>2. nss' \subseteq Namespaces
            BY <1>1, <3>1 DEF Inv, TypeOK, NamespaceStored
        <3> QED
            BY <1>1, <3>1, <3>2 DEF Inv, TypeOK, NamespaceStored, clusterVars, Verdicts
    <2>2. Unpublished'
        BY <1>1 DEF NamespaceStored, Unpublished
    <2>3. AnswersGranted'
        BY <2>2 DEF AnswersGranted, Granted
    <2> QED
        BY <2>1, <2>3 DEF Inv
<1>2. CASE NamespacePublished \/ BindingPublished
    <2> USE <1>2 DEF NamespacePublished, BindingPublished
    <2>2. version' = version + 1 /\ UNCHANGED <<visible, req>>
        OBVIOUS
    <2>3. /\ visible # Unseen => visible.ver \in Nat /\ visible.ver <= version
          /\ \A r \in Requests : req[r].ver \in Nat /\ req[r].ver <= version
          /\ version \in Nat
        BY DEF Inv, TypeOK, Verdicts, Queries
    <2>1. TypeOK'
        <3>1. /\ visible # Unseen => visible.ver <= version + 1
              /\ \A r \in Requests : req[r].ver <= version + 1
              /\ version + 1 \in Nat
            BY <2>3
        <3> QED
            BY <3>1, <2>2 DEF Inv, TypeOK, clusterVars
    <2>4. AnswersGranted'
        BY <2>2, <2>3 DEF AnswersGranted, Granted
    <2> QED
        BY <2>1, <2>4 DEF Inv
<1>3. CASE BindingSeen
    <2>1. TypeOK'
        <3>1. rbWatch' \in Seq(Namespaces) /\ owed' \subseteq {"namespace", "rbac"}
            BY <1>3 DEF Inv, TypeOK, BindingSeen
        <3> QED
            BY <1>3, <3>1 DEF Inv, TypeOK, BindingSeen, clusterVars, Verdicts
    <2>2. CASE Head(rbWatch) \in nss
        <3>1. Unpublished'
            BY <1>3, <2>2 DEF BindingSeen, Relevant, Unpublished
        <3>2. AnswersGranted'
            BY <3>1 DEF AnswersGranted, Granted
        <3> QED
            BY <2>1, <3>2 DEF Inv
    <2>3. CASE Head(rbWatch) \notin nss
        <3>1. /\ rbWatch' = Tail(rbWatch) /\ rbWatch # <<>> /\ rbWatch \in Seq(Namespaces)
              /\ UNCHANGED <<bound, nss, owed, nsWatch, version, visible, req>>
            BY <1>3, <2>3 DEF BindingSeen, Relevant, clusterVars, Inv, TypeOK
        <3>2. ASSUME NEW m \in nss, InFlight(m) PROVE InFlight(m)'
            <4>1. PICK i \in DOMAIN rbWatch : rbWatch[i] = m
                BY <3>2 DEF InFlight
            <4>2. i # 1
                BY <2>3, <3>1, <4>1
            <4>3. i - 1 \in DOMAIN rbWatch' /\ rbWatch'[i - 1] = m
                BY <3>1, <4>1, <4>2
            <4> QED
                BY <4>3 DEF InFlight
        <3>3. \A m \in nss : Settled(m) => Settled(m)'
            BY <3>1, <3>2 DEF Settled
        <3>4. AnswersGranted'
            BY <3>1, <3>3 DEF Inv, AnswersGranted, Granted, Unpublished
        <3> QED
            BY <2>1, <3>4 DEF Inv
    <2> QED
        BY <2>2, <2>3
<1> QED
    BY <1>1, <1>2, <1>3

(* A request moves to a well formed record that grants what is bound.      *)
LEMMA BecomeInv ==
    ASSUME Inv, NEW r \in Requests, NEW STATE rec, rec \in Queries,
           rec.ver <= version, rec.todo \intersect rec.ns = {},
           rec.at = "stamped" => rec.ns = {},
           rec.at # "idle" => Granted(rec.ns, rec.ver),
           Become(r, rec), UNCHANGED <<clusterVars, watchVars, visible>>,
           callFaults' \in 0..MaxCallFaults
    PROVE  Inv'
<1>1. req \in [Requests -> Queries] /\ req' = [req EXCEPT ![r] = rec]
    BY DEF Inv, TypeOK, Become
<1>2. TypeOK'
    <2>1. req' \in [Requests -> Queries]
        BY <1>1
    <2>2. ASSUME NEW q \in Requests
          PROVE  /\ req'[q].ver <= version /\ req'[q].todo \intersect req'[q].ns = {}
                 /\ req'[q].at = "stamped" => req'[q].ns = {}
        BY <1>1 DEF Inv, TypeOK
    <2> QED
        BY <2>1, <2>2 DEF Inv, TypeOK, clusterVars, watchVars
<1>3. AnswersGranted'
    BY <1>1 DEF Inv, AnswersGranted, Granted, Unpublished, Settled, InFlight, clusterVars, watchVars
<1> QED
    BY <1>2, <1>3 DEF Inv

(* A request starts empty, adds what it finds bound, and stores what it    *)
(* holds under the version it holds.                                       *)
LEMMA RequestStep ==
    ASSUME Inv, NEW r \in Requests, Request(r)
    PROVE  Inv'
<1>0. /\ TypeOK /\ req[r] \in Queries /\ version \in Nat /\ callFaults \in 0..MaxCallFaults
      /\ req[r].ver <= version /\ req[r].todo \intersect req[r].ns = {}
      /\ req[r].at # "idle" => Granted(req[r].ns, req[r].ver)
    BY DEF Inv, TypeOK, AnswersGranted
<1>1. CASE Begin(r)
    <2> DEFINE rec == [at |-> "stamped", ver |-> version, todo |-> {}, ns |-> {}]
    <2>1. rec \in Queries /\ rec.ver <= version /\ rec.ns = {}
        BY <1>0 DEF Queries
    <2>2. Become(r, rec) /\ UNCHANGED <<clusterVars, watchVars, visible>> /\ callFaults' \in 0..MaxCallFaults
        BY <1>0, <1>1 DEF Begin
    <2> HIDE DEF rec
    <2>3. Granted(rec.ns, rec.ver)
        BY <2>1 DEF Granted
    <2> QED
        BY <2>1, <2>2, <2>3, BecomeInv
<1>2. CASE Hit(r) \/ AskFails(r)
    <2>1. Idle \in Queries /\ Idle.ver <= version /\ Idle.ns = {} /\ Idle.at = "idle"
        BY <1>0 DEF Idle, Queries
    <2>2. Become(r, Idle) /\ UNCHANGED <<clusterVars, watchVars, visible>> /\ callFaults' \in 0..MaxCallFaults
        BY <1>0, <1>2, ScopeAssumption DEF Hit, AskFails
    <2> QED
        BY <2>1, <2>2, BecomeInv
<1>3. CASE Miss(r)
    <2> DEFINE rec == [req[r] EXCEPT !.at = "asking", !.todo = nss]
    <2>1. req[r].at = "stamped" /\ Become(r, rec)
          /\ UNCHANGED <<clusterVars, watchVars, visible>> /\ callFaults' \in 0..MaxCallFaults
        BY <1>0, <1>3 DEF Miss
    <2>2. /\ rec \in Queries /\ rec.ver = req[r].ver /\ rec.ns = req[r].ns /\ rec.todo = nss
          /\ rec.at = "asking"
        BY <1>0 DEF TypeOK, Queries
    <2>3. req[r].ns = {}
        BY <1>0, <2>1 DEF TypeOK
    <2> HIDE DEF rec
    <2> QED
        BY <1>0, <2>1, <2>2, <2>3, BecomeInv
<1>4. ASSUME NEW n \in Namespaces, Probe(r, n) PROVE Inv'
    <2> DEFINE rec == [req[r] EXCEPT !.todo = @ \ {n},
                                     !.ns = IF n \in bound THEN @ \union {n} ELSE @]
    <2>1. req[r].at = "asking" /\ Become(r, rec)
          /\ UNCHANGED <<clusterVars, watchVars, visible>> /\ callFaults' \in 0..MaxCallFaults
        BY <1>0, <1>4 DEF Probe
    <2>2. /\ rec \in Queries /\ rec.ver = req[r].ver /\ rec.todo \intersect rec.ns = {}
          /\ rec.ns \subseteq req[r].ns \union (bound \intersect {n})
          /\ rec.at = req[r].at
        BY <1>0 DEF Queries
    <2> HIDE DEF rec
    <2>3. Granted(rec.ns, rec.ver)
        BY <1>0, <2>1, <2>2 DEF Granted, Settled
    <2> QED
        BY <1>0, <2>1, <2>2, <2>3, BecomeInv
<1>5. ASSUME NEW n \in Namespaces, ProbeFails(r, n) PROVE Inv'
    <2> DEFINE rec == [req[r] EXCEPT !.todo = @ \ {n}]
    <2>1. req[r].at = "asking" /\ Become(r, rec)
          /\ UNCHANGED <<clusterVars, watchVars, visible>> /\ callFaults' \in 0..MaxCallFaults
        BY <1>0, <1>5, ScopeAssumption DEF ProbeFails
    <2>2. /\ rec \in Queries /\ rec.ver = req[r].ver /\ rec.ns = req[r].ns /\ rec.at = req[r].at
          /\ rec.todo \subseteq req[r].todo
        BY <1>0 DEF Queries
    <2> HIDE DEF rec
    <2> QED
        BY <1>0, <2>1, <2>2, BecomeInv
<1>6. CASE Put(r)
    <2> DEFINE entry == [ns |-> req[r].ns, ver |-> req[r].ver]
    <2>1. /\ visible' = entry /\ Become(r, Idle) /\ UNCHANGED <<clusterVars, callFaults, watchVars>>
          /\ req[r].at # "idle"
        BY <1>6 DEF Put
    <2>2. entry \in Verdicts /\ entry.ver <= version /\ entry.ver = req[r].ver /\ entry.ns = req[r].ns
        BY <1>0 DEF Queries, Verdicts
    <2>3. req' = [req EXCEPT ![r] = Idle] /\ Idle \in Queries /\ Idle.at = "idle"
          /\ Idle.ver <= version /\ Idle.todo \intersect Idle.ns = {}
        BY <2>1, <1>0 DEF Become, Idle, Queries
    <2> HIDE DEF entry
    <2>4. TypeOK'
        <3>1. ASSUME NEW q \in Requests
              PROVE  /\ req'[q].ver <= version /\ req'[q].todo \intersect req'[q].ns = {}
                     /\ req'[q].at = "stamped" => req'[q].ns = {}
            BY <1>0, <2>3 DEF TypeOK
        <3>2. req' \in [Requests -> Queries]
            BY <1>0, <2>3 DEF TypeOK
        <3> QED
            BY <1>0, <2>1, <2>2, <3>1, <3>2 DEF TypeOK, clusterVars, watchVars
    <2>5. AnswersGranted'
        <3>1. UNCHANGED <<nss, bound, rbWatch, owed, nsWatch, version>>
            BY <2>1 DEF clusterVars, watchVars
        <3>2. Granted(entry.ns, entry.ver)
            BY <1>0, <2>1, <2>2
        <3>3. \A q \in Requests : req'[q].at # "idle" => req'[q] = req[q]
            BY <1>0, <2>3 DEF TypeOK
        <3> QED
            BY <2>1, <3>1, <3>2, <3>3 DEF Inv, AnswersGranted, Granted, Unpublished, Settled, InFlight
    <2> QED
        BY <2>4, <2>5 DEF Inv
<1> QED
    BY <1>1, <1>2, <1>3, <1>4, <1>5, <1>6 DEF Request

(* Inv is inductive.                                                       *)
LEMMA NextInv == Inv /\ [Next]_vars => Inv'
<1> SUFFICES ASSUME Inv, [Next]_vars PROVE Inv'
    OBVIOUS
<1>1. CASE UNCHANGED vars
    BY <1>1 DEF Inv, TypeOK, AnswersGranted, Granted, Unpublished, Settled, InFlight, vars,
                clusterVars, watchVars, Verdicts
<1>2. CASE Expire
    BY <1>2 DEF Inv, TypeOK, AnswersGranted, Granted, Unpublished, Settled, InFlight, Expire,
                clusterVars, watchVars, Verdicts
<1> QED
    BY <1>1, <1>2, ClusterStep, WatchStep, RequestStep DEF Next

LEMMA SpecInv == Spec => []Inv
    BY InitInv, NextInv, PTL DEF Spec

(* The snapshot, the watches, the cache and the requests are well formed,  *)
(* and no stamp is ahead of the version.                                   *)
THEOREM ScopeTypes == Spec => []TypeOK
<1>1. Inv => TypeOK
    BY DEF Inv
<1> QED
    BY <1>1, SpecInv, PTL

(* Once every change is delivered no cached answer that will still be      *)
(* served (visibleFor's version test) shows what the token has lost.       *)
THEOREM RevokedIsNotServed == Spec => []NothingOutlivesRevocation
<1>1. Inv => NothingOutlivesRevocation
    <2> SUFFICES ASSUME Inv, Delivered, Current,
                        NEW n \in visible.ns \intersect nss
                 PROVE  n \in bound
        BY DEF NothingOutlivesRevocation
    <2>1. ~Unpublished /\ ~InFlight(n)
        BY DEF Delivered, Unpublished, InFlight
    <2> QED
        BY <2>1 DEF Inv, AnswersGranted, Granted, Settled, Current
<1> QED
    BY <1>1, SpecInv, PTL

--------------------------------------------------------------------------------
(* Nothing is missing either.                                              *)

(* The last event under way about a namespace says how it is labelled;     *)
(* without one the snapshot does.                                          *)
Follows(n) ==
    /\ \A i \in DOMAIN nsWatch :
          (nsWatch[i][1] = n /\ \A j \in DOMAIN nsWatch : i < j => nsWatch[j][1] # n)
             => (nsWatch[i][2] <=> n \in labelled)
    /\ (\A i \in DOMAIN nsWatch : nsWatch[i][1] # n) => (n \in nss <=> n \in labelled)

(* While no review has failed, an answer stamped with the present version  *)
(* has, or has still to probe, each namespace of the snapshot that is      *)
(* bound, unless the RoleBinding event is on its way.                      *)
Complete(probed, ver) ==
    ver = version /\ callFaults = MaxCallFaults =>
        \/ Unpublished
        \/ \A n \in nss \intersect bound : n \in probed \/ InFlight(n)

AnswersComplete ==
    /\ visible # Unseen => Complete(visible.ns, visible.ver)
    /\ \A r \in Requests : req[r].at = "asking" => Complete(req[r].todo \union req[r].ns, req[r].ver)

FullInv == Inv /\ (\A n \in Namespaces : Follows(n)) /\ AnswersComplete

LEMMA InitFull == Init => FullInv
<1> SUFFICES ASSUME Init PROVE FullInv
    OBVIOUS
<1>1. \A n \in Namespaces : Follows(n)
    BY DEF Init, Follows
<1>2. AnswersComplete
    BY DEF Init, AnswersComplete, Idle
<1> QED
    BY <1>1, <1>2, InitInv DEF FullInv

(* An event about a namespace is appended with its label as it now is, and *)
(* the one taken off the front goes into the snapshot.                     *)
LEMMA FollowsStep ==
    ASSUME FullInv, Next
    PROVE  \A n \in Namespaces : Follows(n)'
<1> SUFFICES ASSUME NEW n \in Namespaces PROVE Follows(n)'
    OBVIOUS
<1>0. Follows(n) /\ nsWatch \in Seq(Namespaces \X BOOLEAN)
    BY DEF FullInv, Inv, TypeOK
<1>1. ASSUME NEW m \in Namespaces, Relabel(m) PROVE Follows(n)'
    <2> DEFINE L == Len(nsWatch)
    <2>1. /\ nsWatch' = Append(nsWatch, <<m, m \in labelled'>>)
          /\ nss' = nss
          /\ m # n => (n \in labelled' <=> n \in labelled)
        BY <1>1 DEF Relabel, Toggled
    <2>2. /\ DOMAIN nsWatch' = 1..(L + 1) /\ DOMAIN nsWatch = 1..L /\ L \in Nat
          /\ \A i \in 1..L : nsWatch'[i] = nsWatch[i]
          /\ nsWatch'[L + 1][1] = m /\ (nsWatch'[L + 1][2] <=> m \in labelled')
        <3> DEFINE gains == m \in labelled'
        <3>1. gains \in BOOLEAN /\ nsWatch' = Append(nsWatch, <<m, gains>>)
            BY <2>1
        <3>2. CASE gains
            <4>1. gains = TRUE
                BY <3>2
            <4>2. nsWatch' = Append(nsWatch, <<m, TRUE>>)
                BY <3>1, <4>1
            <4> QED
                BY <1>0, <3>2, <4>2
        <3>3. CASE ~gains
            <4>1. gains = FALSE
                BY <3>3
            <4>2. nsWatch' = Append(nsWatch, <<m, FALSE>>)
                BY <3>1, <4>1
            <4> QED
                BY <1>0, <3>3, <4>2
        <3> QED
            BY <3>2, <3>3
    <2> HIDE DEF L
    <2>3. CASE m = n
        <3>1. ASSUME NEW i \in 1..(L + 1), \A j \in 1..(L + 1) : i < j => nsWatch'[j][1] # n
              PROVE  nsWatch'[i][2] <=> n \in labelled'
            <4>1. i = L + 1
                BY <2>2, <2>3, <3>1
            <4> QED
                BY <4>1, <2>2, <2>3
        <3>2. L + 1 \in 1..(L + 1) /\ nsWatch'[L + 1][1] = n
            BY <2>2, <2>3
        <3> QED
            BY <2>2, <3>1, <3>2 DEF Follows
    <2>4. CASE m # n
        <3>1. ASSUME NEW i \in 1..(L + 1), nsWatch'[i][1] = n,
                     \A j \in 1..(L + 1) : i < j => nsWatch'[j][1] # n
              PROVE  nsWatch'[i][2] <=> n \in labelled'
            <4>1. i \in 1..L
                BY <2>2, <2>4, <3>1
            <4>2. nsWatch[i][1] = n /\ \A j \in 1..L : i < j => nsWatch[j][1] # n
                BY <4>1, <2>2, <3>1
            <4> QED
                BY <4>1, <4>2, <1>0, <2>1, <2>2, <2>4 DEF Follows
        <3>2. ASSUME \A i \in 1..(L + 1) : nsWatch'[i][1] # n
              PROVE  n \in nss' <=> n \in labelled'
            <4>1. \A i \in 1..L : nsWatch[i][1] # n
                BY <2>2, <3>2
            <4> QED
                BY <4>1, <1>0, <2>1, <2>2, <2>4 DEF Follows
        <3> QED
            BY <2>2, <3>1, <3>2 DEF Follows
    <2> QED
        BY <2>3, <2>4
<1>2. CASE NamespaceStored
    <2> DEFINE L == Len(nsWatch)
    <2>1. /\ nsWatch # <<>> /\ nsWatch' = Tail(nsWatch) /\ UNCHANGED labelled
          /\ nss' = IF nsWatch[1][2] THEN nss \union {nsWatch[1][1]} ELSE nss \ {nsWatch[1][1]}
        <3>1. nsWatch # <<>> => Head(nsWatch) = nsWatch[1]
            BY <1>0
        <3> QED
            BY <1>2, <3>1 DEF NamespaceStored, clusterVars
    <2>2. /\ L \in Nat \ {0} /\ DOMAIN nsWatch = 1..L /\ DOMAIN nsWatch' = 1..(L - 1)
          /\ \A i \in 1..(L - 1) : nsWatch'[i] = nsWatch[i + 1]
        BY <1>0, <2>1
    <2>3. nsWatch[1][2] \in BOOLEAN
        BY <1>0, <2>2
    <2> HIDE DEF L
    <2>4. \A j \in 2..L : j - 1 \in 1..(L - 1) /\ nsWatch'[j - 1] = nsWatch[j]
        BY <2>2
    <2>5. ASSUME NEW i \in 1..(L - 1), nsWatch'[i][1] = n,
                 \A j \in 1..(L - 1) : i < j => nsWatch'[j][1] # n
          PROVE  nsWatch'[i][2] <=> n \in labelled'
        <3>1. i + 1 \in 1..L /\ nsWatch[i + 1][1] = n
            BY <2>2, <2>5
        <3>2. \A j \in 1..L : i + 1 < j => nsWatch[j][1] # n
            BY <2>2, <2>4, <2>5
        <3> QED
            BY <3>1, <3>2, <1>0, <2>1, <2>2 DEF Follows
    <2>6. ASSUME \A i \in 1..(L - 1) : nsWatch'[i][1] # n
          PROVE  n \in nss' <=> n \in labelled'
        <3>1. \A j \in 1..L : 1 < j => nsWatch[j][1] # n
            BY <2>2, <2>4, <2>6
        <3>2. CASE nsWatch[1][1] = n
            <4>1. 1 \in 1..L
                BY <2>2
            <4>2. nsWatch[1][2] <=> n \in labelled
                BY <4>1, <3>1, <3>2, <1>0, <2>2 DEF Follows
            <4> QED
                BY <4>2, <3>2, <2>1, <2>3
        <3>3. CASE nsWatch[1][1] # n
            <4>1. \A j \in 1..L : nsWatch[j][1] # n
                BY <3>1, <3>3, <2>2
            <4>2. n \in nss <=> n \in labelled
                BY <4>1, <1>0, <2>2 DEF Follows
            <4> QED
                BY <4>2, <3>3, <2>1, <2>3
        <3> QED
            BY <3>2, <3>3
    <2> QED
        BY <2>2, <2>5, <2>6 DEF Follows
<1>3. CASE UNCHANGED <<nsWatch, nss, labelled>>
    BY <1>3, <1>0 DEF Follows
<1>4. \/ \E m \in Namespaces : Relabel(m)
      \/ NamespaceStored
      \/ UNCHANGED <<nsWatch, nss, labelled>>
    BY DEF Next, Request, Rebind, NamespacePublished, BindingSeen, BindingPublished, Expire,
           Begin, Hit, Miss, AskFails, Put, Probe, ProbeFails, clusterVars, watchVars
<1> QED
    BY <1>1, <1>2, <1>3, <1>4

(* What is on its way stays on its way but for the event a watch takes.    *)
LEMMA FlightStep ==
    ASSUME Inv, NEW n \in Namespaces,
           \/ \E m \in Namespaces : Rebind(m)
           \/ BindingSeen /\ Head(rbWatch) # n
           \/ UNCHANGED rbWatch
    PROVE  InFlight(n) => InFlight(n)'
<1> SUFFICES ASSUME InFlight(n) PROVE InFlight(n)'
    OBVIOUS
<1>0. PICK i \in DOMAIN rbWatch : rbWatch[i] = n
    BY DEF InFlight
<1>1. rbWatch \in Seq(Namespaces)
    BY DEF Inv, TypeOK
<1>2. ASSUME NEW m \in Namespaces, Rebind(m) PROVE InFlight(n)'
    <2>1. i \in DOMAIN rbWatch' /\ rbWatch'[i] = n
        BY <1>0, <1>1, <1>2 DEF Rebind
    <2> QED
        BY <2>1 DEF InFlight
<1>3. CASE BindingSeen /\ Head(rbWatch) # n
    <2>1. rbWatch' = Tail(rbWatch) /\ i # 1
        BY <1>0, <1>1, <1>3 DEF BindingSeen
    <2>2. i - 1 \in DOMAIN rbWatch' /\ rbWatch'[i - 1] = n
        BY <1>0, <1>1, <2>1
    <2> QED
        BY <2>2 DEF InFlight
<1> QED
    BY <1>0, <1>2, <1>3 DEF InFlight

(* What an answer lacks comes with an event that is appended, or with a    *)
(* change of the snapshot that is still to be published.                   *)
LEMMA CompleteKept ==
    ASSUME FullInv, NEW S, NEW ver \in Nat, Complete(S, ver), ver <= version,
           \/ \E m \in Namespaces : Relabel(m) \/ Rebind(m)
           \/ NamespaceStored \/ NamespacePublished \/ BindingSeen \/ BindingPublished
    PROVE  Complete(S, ver)'
<1>0. TypeOK /\ nss \subseteq Namespaces /\ version \in Nat
    BY DEF FullInv, Inv, TypeOK
<1>1. CASE (\E m \in Namespaces : Relabel(m)) \/ NamespaceStored
    <2>1. Unpublished'
        <3>1. CASE NamespaceStored
            BY <3>1 DEF NamespaceStored, Unpublished
        <3>2. ASSUME NEW m \in Namespaces, Relabel(m) PROVE Unpublished'
            <4>1. nsWatch \in Seq(Namespaces \X BOOLEAN)
                BY <1>0 DEF TypeOK
            <4>2. \A e : Append(nsWatch, e) # <<>>
                BY <4>1
            <4> QED
                BY <3>2, <4>2 DEF Relabel, Unpublished
        <3> QED
            BY <1>1, <3>1, <3>2
    <2> QED
        BY <2>1 DEF Complete
<1>2. CASE NamespacePublished \/ BindingPublished
    BY <1>0, <1>2 DEF NamespacePublished, BindingPublished, Complete
<1>3. ASSUME NEW m \in Namespaces, Rebind(m) PROVE Complete(S, ver)'
    <2>1. InFlight(m)'
        <3>1. rbWatch' = Append(rbWatch, m) /\ rbWatch \in Seq(Namespaces)
            BY <1>0, <1>3 DEF Rebind, TypeOK
        <3>2. Len(rbWatch) + 1 \in DOMAIN rbWatch' /\ rbWatch'[Len(rbWatch) + 1] = m
            BY <3>1
        <3> QED
            BY <3>2 DEF InFlight
    <2>2. \A n \in Namespaces : n # m /\ n \in bound' => n \in bound
        BY <1>3 DEF Rebind, Toggled
    <2>3. UNCHANGED <<nss, version, callFaults, owed, nsWatch>>
        BY <1>3 DEF Rebind
    <2>4. \A n \in Namespaces : InFlight(n) => InFlight(n)'
        BY <1>3, FlightStep DEF FullInv
    <2> QED
        BY <1>0, <2>1, <2>2, <2>3, <2>4 DEF Complete, Unpublished
<1>4. CASE BindingSeen
    <2>1. UNCHANGED <<nss, bound, version, callFaults, nsWatch>>
        BY <1>4 DEF BindingSeen, clusterVars
    <2>2. CASE Head(rbWatch) \in nss
        BY <1>4, <2>2 DEF BindingSeen, Relevant, Unpublished, Complete
    <2>3. CASE Head(rbWatch) \notin nss
        <3>1. \A n \in nss : InFlight(n) => InFlight(n)'
            BY <1>0, <1>4, <2>3, FlightStep DEF FullInv
        <3>2. owed' = owed
            BY <1>4, <2>3 DEF BindingSeen, Relevant
        <3> QED
            BY <1>0, <2>1, <3>1, <3>2 DEF Complete, Unpublished
    <2> QED
        BY <2>2, <2>3
<1> QED
    BY <1>1, <1>2, <1>3, <1>4


LEMMA CompleteStays ==
    ASSUME Inv, callFaults' = callFaults \/ callFaults' = callFaults - 1,
           UNCHANGED <<clusterVars, watchVars>>,
           NEW S, NEW ver, Complete(S, ver)
    PROVE  Complete(S, ver)'
<1>1. callFaults' = MaxCallFaults => callFaults = MaxCallFaults
    BY ScopeAssumption DEF Inv, TypeOK
<1> QED
    BY <1>1 DEF Complete, Unpublished, InFlight, clusterVars, watchVars

LEMMA AnswersStep ==
    ASSUME FullInv, Next
    PROVE  AnswersComplete'
<1>0. /\ TypeOK /\ Inv /\ AnswersComplete /\ version \in Nat
      /\ visible # Unseen => visible.ver \in Nat /\ visible.ver <= version
      /\ \A r \in Requests : req[r] \in Queries /\ req[r].ver \in Nat /\ req[r].ver <= version
    BY DEF FullInv, Inv, TypeOK, Verdicts, Queries
<1>1. CASE \/ \E m \in Namespaces : Relabel(m) \/ Rebind(m)
           \/ NamespaceStored \/ NamespacePublished \/ BindingSeen \/ BindingPublished
    <2>1. UNCHANGED <<visible, req>>
        BY <1>1 DEF Relabel, Rebind, NamespaceStored, NamespacePublished, BindingSeen, BindingPublished
    <2>2. \A S : \A ver \in Nat : ver <= version /\ Complete(S, ver) => Complete(S, ver)'
        BY <1>1, CompleteKept
    <2>3. visible' # Unseen => Complete(visible.ns, visible.ver)'
        BY <1>0, <2>1, <2>2 DEF AnswersComplete
    <2>4. ASSUME NEW r \in Requests, req'[r].at = "asking"
          PROVE  Complete(req[r].todo \union req[r].ns, req[r].ver)'
        BY <1>0, <2>1, <2>2, <2>4 DEF AnswersComplete
    <2> HIDE <1>0, <2>2
    <2> QED
        BY <2>1, <2>3, <2>4 DEF AnswersComplete, Complete
<1>2. CASE Expire
    <2>1. UNCHANGED <<clusterVars, watchVars, callFaults, req>> /\ visible' = Unseen
        BY <1>2 DEF Expire
    <2> QED
        BY <1>0, <2>1 DEF AnswersComplete, Complete, Unpublished, InFlight, clusterVars, watchVars
<1>3. ASSUME NEW r \in Requests, Request(r) PROVE AnswersComplete'
    <2>0. /\ req \in [Requests -> Queries]
          /\ callFaults' = callFaults \/ callFaults' = callFaults - 1
          /\ UNCHANGED <<clusterVars, watchVars>>
          /\ UNCHANGED visible \/ Put(r)
        BY <1>0, <1>3 DEF TypeOK, Request, Begin, Hit, Miss, AskFails, Put, Probe, ProbeFails
    <2>1. \A S, ver : Complete(S, ver) => Complete(S, ver)'
        BY <1>0, <2>0, CompleteStays
    <2>2. \A q \in Requests : q # r => req'[q] = req[q]
        BY <1>3, <2>0 DEF Request, Begin, Hit, Miss, AskFails, Put, Probe, ProbeFails, Become
    <2>3. req'[r].at = "asking" => Complete(req[r].todo \union req[r].ns, req[r].ver)'
        <3>1. CASE Begin(r) \/ Hit(r) \/ AskFails(r) \/ Put(r)
            BY <2>0, <3>1 DEF Begin, Hit, AskFails, Put, Become, Idle
        <3>2. CASE Miss(r)
            <4>1. req'[r].todo = nss /\ UNCHANGED nss
                BY <2>0, <3>2 DEF Miss, Become, Queries, watchVars
            <4> QED
                BY <4>1 DEF Complete
        <3>3. ASSUME NEW n \in Namespaces, Probe(r, n)
              PROVE  Complete(req[r].todo \union req[r].ns, req[r].ver)'
            <4>1. /\ req[r].at = "asking" /\ req'[r].ver = req[r].ver
                  /\ (req[r].todo \union req[r].ns) \intersect bound
                        \subseteq req'[r].todo \union req'[r].ns
                BY <2>0, <3>3 DEF Probe, Become, Queries
            <4>2. Complete(req[r].todo \union req[r].ns, req[r].ver)
                BY <1>0, <4>1 DEF AnswersComplete
            <4>3. UNCHANGED <<bound, nss, rbWatch, nsWatch, owed, version, callFaults>>
                BY <2>0, <3>3 DEF Probe, clusterVars, watchVars
            <4> QED
                BY <4>1, <4>2, <4>3 DEF Complete, Unpublished, InFlight
        <3>4. ASSUME NEW n \in Namespaces, ProbeFails(r, n)
              PROVE  Complete(req[r].todo \union req[r].ns, req[r].ver)'
            <4>1. callFaults' # MaxCallFaults
                BY <1>0, <3>4, ScopeAssumption DEF TypeOK, ProbeFails
            <4> QED
                BY <4>1 DEF Complete
        <3> QED
            BY <1>3, <3>1, <3>2, <3>3, <3>4 DEF Request
    <2>4. visible' # Unseen => Complete(visible.ns, visible.ver)'
        <3>1. CASE UNCHANGED visible
            BY <1>0, <2>1, <3>1 DEF AnswersComplete
        <3>2. CASE Put(r)
            <4>1. /\ req[r].at = "asking" /\ visible'.ver = req[r].ver
                  /\ visible'.ns = req[r].todo \union req[r].ns
                BY <3>2 DEF Put
            <4> QED
                BY <1>0, <2>1, <4>1 DEF AnswersComplete
        <3> QED
            BY <2>0, <3>1, <3>2
    <2>5. \A q \in Requests : req'[q].at = "asking" => Complete(req[q].todo \union req[q].ns, req[q].ver)'
        BY <1>0, <2>1, <2>2, <2>3 DEF AnswersComplete
    <2> QED
        BY <2>4, <2>5 DEF AnswersComplete
<1> QED
    BY <1>1, <1>2, <1>3 DEF Next

(* FullInv is inductive.                                                   *)
LEMMA SpecFull == Spec => []FullInv
<1>1. FullInv /\ [Next]_vars => FullInv'
    <2> SUFFICES ASSUME FullInv, [Next]_vars PROVE FullInv'
        OBVIOUS
    <2>1. CASE Next
        BY <2>1, NextInv, FollowsStep, AnswersStep DEF FullInv
    <2>2. CASE UNCHANGED vars
        <3>1. Inv'
            BY <2>2, NextInv DEF FullInv
        <3>2. (\A n \in Namespaces : Follows(n)') /\ AnswersComplete'
            BY <2>2 DEF FullInv, Follows, AnswersComplete, Complete, Unpublished, InFlight, vars,
                        clusterVars, watchVars
        <3> QED
            BY <3>1, <3>2 DEF FullInv
    <2> QED
        BY <2>1, <2>2
<1> QED
    BY <1>1, InitFull, PTL DEF Spec

(* Once every change is delivered a cached answer that will still be       *)
(* served misses no project namespace that the token may read, unless a    *)
(* review failed: a RoleBinding event that came before its namespace was   *)
(* in the snapshot, and was dropped, is made up for by NamespaceChanged.   *)
THEOREM GrantedIsServed == Spec => []NothingMissing
<1>1. FullInv => NothingMissing
    <2> SUFFICES ASSUME FullInv, Delivered, Current, callFaults = MaxCallFaults,
                        NEW n \in labelled \intersect bound
                 PROVE  n \in visible.ns
        BY DEF NothingMissing
    <2>1. ~Unpublished /\ ~InFlight(n)
        BY DEF Delivered, Unpublished, InFlight
    <2>2. n \in Namespaces /\ n \in nss
        BY DEF FullInv, Inv, TypeOK, Follows, Delivered
    <2> QED
        BY <2>1, <2>2 DEF FullInv, AnswersComplete, Complete, Current
<1> QED
    BY <1>1, SpecFull, PTL
================================================================================
