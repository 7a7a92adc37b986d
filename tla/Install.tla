-------------------------------- MODULE Install --------------------------------
(***************************************************************************)
(* The operator's reconcile loop (operator/internal/controller): passes    *)
(* that apply an install phase by phase and may stop at any of them, the   *)
(* prune that ends a completed pass, the finalizer, and two Dotvirt        *)
(* resources on one cluster.                                               *)
(*                                                                         *)
(* An object is a slot: a kind at a place, which is an install's own       *)
(* namespace, the cluster, or an ArgoCD namespace.  "workload", "forgejo"  *)
(* and "tenants" stand for the objects that are always rendered together;  *)
(* the plugin ConfigMap goes with "mirror".  One worker: a single pass.    *)
(***************************************************************************)
EXTENDS Naturals, Sequences, FiniteSets, SequencesExt

CONSTANTS Installs,  \* Dotvirt resources, in the order of their names
          Argos,     \* namespaces Argo CD may be in
          Specs,     \* what a resource may ask for: [argo, forge]
          None,
          MaxEdits,  \* bound: spec edits, objects lost to others, new resources
          MaxFaults  \* bound: passes that stop early, crashes

ASSUME InstallAssumption ==
    /\ Specs \subseteq [argo : Argos, forge : {"none", "own", "managed"}]
    /\ None \notin Installs
    /\ IsFiniteSet(Installs) /\ IsFiniteSet(Argos) /\ Installs # {}
    /\ {MaxEdits, MaxFaults} \subseteq Nat

InOwn    == {"workload", "forgejo"}
Argoproj == {"tenants", "platform"}
Copies   == {"mirror", "creds"}
Bindings == <<"bindings", None>>

Slots == (InOwn \X Installs) \union {Bindings} \union ((Argoproj \union Copies) \X Argos)

VARIABLES order,   \* the resources present, oldest first
          leaving, \* those with a deletion timestamp
          guarded, \* those with the finalizer
          spec,    \* what each asks for
          owner,   \* the install whose labels each object carries
          token,   \* the ApplicationSet token in each install's namespace
          copied,  \* the token that each ArgoCD namespace's mirror holds
          pass,    \* the pass under way
          pruned,  \* the render set of each install's last prune, in memory
          edits, faults,
          moved    \* history: the namespaces each install had written and left

crVars   == <<order, leaving, guarded, spec>>
objVars  == <<owner, token, copied>>
vars     == <<crVars, objVars, pass, pruned, edits, faults, moved>>

Idle == [i |-> None, at |-> "idle", spec |-> None, done |-> {}]

Present == ToSet(order)
Live    == Present \ leaving
Owned(i) == {s \in Slots : owner[s] = i}

Tokens == 0..(Cardinality(Installs) + Cardinality(Argos) + 1)
Fresh  == CHOOSE t \in Tokens \ {0} :
             (\A n \in Argos : copied[n] # t) /\ (\A i \in Installs : token[i] # t)

(* What a pass over a spec applies: in the install's namespace, then for   *)
(* Argo CD, where the mirror comes first.                                  *)
ForgeObjects(i, s) == IF s.forge = "managed" THEN <<<<"forgejo", i>>>> ELSE <<>>

ArgoObjects(s) ==
    <<<<"mirror", s.argo>>, Bindings, <<"tenants", s.argo>>>>
        \o IF s.forge = "none" THEN <<>> ELSE <<<<"platform", s.argo>>, <<"creds", s.argo>>>>

Render(i, s) ==
    ToSet(ForgeObjects(i, s)) \union {<<"workload", i>>} \union ToSet(ArgoObjects(s))

(* The resources when i is gone.                                           *)
Without(i) == RemoveAt(order, CHOOSE k \in DOMAIN order : order[k] = i)

TakeAway(gone) ==
    /\ owner' = [s \in Slots |-> IF s \in gone THEN None ELSE owner[s]]
    /\ copied' = [n \in Argos |-> IF <<"mirror", n>> \in gone THEN 0 ELSE copied[n]]

(* One resource was there when the operator first started.                 *)
Init ==
    /\ order = <<CHOOSE i \in Installs : TRUE>>
    /\ leaving = {}
    /\ guarded = {}
    /\ spec \in [Installs -> Specs]
    /\ \A i \in Installs \ Present : spec[i] = CHOOSE s \in Specs : TRUE \* until created
    /\ owner = [s \in Slots |-> None]
    /\ token = [i \in Installs |-> 0]
    /\ copied = [n \in Argos |-> 0]
    /\ pass = Idle
    /\ pruned = [i \in Installs |-> {}]
    /\ edits = MaxEdits
    /\ faults = MaxFaults
    /\ moved = [i \in Installs |-> {}]

--------------------------------------------------------------------------------
(* The cluster and its admins.                                             *)

(* A resource is created: the youngest, or of the same second as the       *)
(* youngest and before it in name order (precedes).                        *)
Create(i) ==
    /\ i \notin Present
    /\ Owned(i) \intersect (InOwn \X Installs) = {} \* collected with the last one
    /\ edits > 0
    /\ edits' = edits - 1
    /\ \/ order' = Append(order, i)
       \/ /\ order # <<>>
          /\ order' = Front(order) \o <<i, Last(order)>>
    /\ \E s \in Specs : spec' = [spec EXCEPT ![i] = s]
    /\ UNCHANGED <<leaving, guarded, objVars, pass, pruned, faults, moved>>

Edit(i) ==
    /\ i \in Live
    /\ edits > 0
    /\ edits' = edits - 1
    /\ \E s \in Specs \ {spec[i]} : spec' = [spec EXCEPT ![i] = s]
    /\ moved' = [moved EXCEPT ![i] = @ \union ({spec[i].argo} \ {spec'[i].argo})]
    /\ UNCHANGED <<order, leaving, guarded, objVars, pass, pruned, faults>>

(* The API server drops a resource without finalizer at once.              *)
Delete(i) ==
    /\ i \in Live
    /\ IF i \in guarded
       THEN /\ leaving' = leaving \union {i}
            /\ UNCHANGED order
       ELSE /\ order' = Without(i)
            /\ UNCHANGED leaving
    /\ UNCHANGED <<guarded, spec, objVars, pass, pruned, edits, faults, moved>>

(* Owner references: an absent resource's namespaced objects go.           *)
Collect(i) ==
    /\ i \notin Present
    /\ Owned(i) \intersect (InOwn \X Installs) # {} \/ token[i] # 0
    /\ owner' = [s \in Slots |-> IF s \in InOwn \X {i} THEN None ELSE owner[s]]
    /\ token' = [token EXCEPT ![i] = 0]
    /\ UNCHANGED <<crVars, copied, pass, pruned, edits, faults, moved>>

(* Someone deletes an object or the token behind the operator's back.      *)
Lose ==
    /\ edits > 0
    /\ edits' = edits - 1
    /\ \/ /\ \E s \in Slots : owner[s] # None /\ TakeAway({s})
          /\ UNCHANGED token
       \/ /\ \E i \in Live : token[i] # 0 /\ token' = [token EXCEPT ![i] = 0]
          /\ UNCHANGED <<owner, copied>>
    /\ UNCHANGED <<crVars, pass, pruned, faults, moved>>

--------------------------------------------------------------------------------
(* One pass.                                                               *)

Older(i) == {j \in Live : \E a, b \in DOMAIN order : a < b /\ order[a] = j /\ order[b] = i}

GuardFirst(i) == guarded \union {i}

(* Reconcile up to the pipeline: the oldest live resource gets the         *)
(* finalizer and a pass; any other waits.                                  *)
Begin(i) ==
    /\ pass = Idle
    /\ i \in Live
    /\ Older(i) = {}
    /\ guarded' = GuardFirst(i)
    /\ pass' = [i |-> i, at |-> "forge", spec |-> spec[i], done |-> {}]
    /\ UNCHANGED <<order, leaving, spec, objVars, pruned, edits, faults, moved>>

(* A phase waits or fails (waitPhase, recordFailure), or the operator dies: *)
(* only a crash forgets the prunes.                                        *)
Halt ==
    /\ pass # Idle
    /\ faults > 0
    /\ faults' = faults - 1
    /\ pass' = Idle
    /\ UNCHANGED <<crVars, objVars, pruned, edits, moved>>

Crash ==
    /\ faults > 0
    /\ faults' = faults - 1
    /\ pass' = Idle
    /\ pruned' = [i \in Installs |-> {}]
    /\ UNCHANGED <<crVars, objVars, edits, moved>>

\* Mutation: each phase starts the render set afresh.
ApplyForgetful(n, objs, next) ==
    /\ n = Len(objs)
    /\ owner' = [s \in Slots |-> IF s \in ToSet(objs) THEN pass.i ELSE owner[s]]
    /\ pass' = [pass EXCEPT !.at = next, !.done = ToSet(objs)]
    /\ UNCHANGED faults

(* Applies the first n objects in turn; fewer than all, and the pass ends  *)
(* with what was applied in place.                                         *)
ApplyFirst(n, objs, next) ==
    /\ owner' = [s \in Slots |-> IF s \in ToSet(SubSeq(objs, 1, n)) THEN pass.i ELSE owner[s]]
    /\ \/ /\ n = Len(objs)
          /\ pass' = [pass EXCEPT !.at = next, !.done = @ \union ToSet(objs)]
          /\ UNCHANGED faults
       \/ /\ n < Len(objs)
          /\ faults > 0
          /\ faults' = faults - 1
          /\ pass' = Idle

ReconcileForge ==
    /\ pass.at = "forge"
    /\ \E n \in 0..1 : n <= Len(ForgeObjects(pass.i, pass.spec))
                      /\ ApplyFirst(n, ForgeObjects(pass.i, pass.spec), "secrets")
    /\ UNCHANGED <<crVars, token, copied, pruned, edits, moved>>

(* Create-once: a token that is there stays.                               *)
ReconcileSecrets ==
    /\ pass.at = "secrets"
    /\ token' = [token EXCEPT ![pass.i] = IF @ # 0 THEN @ ELSE Fresh]
    /\ pass' = [pass EXCEPT !.at = "workload"]
    /\ UNCHANGED <<crVars, owner, copied, pruned, edits, faults, moved>>

ReconcileWorkload ==
    /\ pass.at = "workload"
    /\ \E n \in 0..1 : ApplyFirst(n, <<<<"workload", pass.i>>>>, "argo")
    /\ UNCHANGED <<crVars, token, copied, pruned, edits, moved>>

\* Mutation: a mirror that is there is left as it is.
MirroredOnce(n, t) == [copied EXCEPT ![n] = IF @ = 0 THEN t ELSE @]

Mirrored(n, t) == [copied EXCEPT ![n] = t]

(* mirrorAppsetToken refuses to write another install's mirror, and fails  *)
(* without the token; every other object comes after the mirror.           *)
ReconcileArgo ==
    LET n      == pass.spec.argo
        refuse == owner[<<"mirror", n>>] \notin {None, pass.i} \/ token[pass.i] = 0
    IN  /\ pass.at = "argo"
        /\ \/ /\ refuse
              /\ pass' = Idle
              /\ UNCHANGED <<owner, copied, faults>>
           \/ /\ ~refuse
              /\ \E m \in 0..Len(ArgoObjects(pass.spec)) :
                    /\ ApplyFirst(m, ArgoObjects(pass.spec), "prune")
                    /\ copied' = IF m = 0 THEN copied ELSE Mirrored(n, token[pass.i])
        /\ UNCHANGED <<crVars, token, pruned, edits, moved>>

(* The order in which prune and the finalizer go through the kinds.        *)
Rank(s) == CASE s[1] \in InOwn     -> 1
             [] s = Bindings      -> 2
             [] s[1] \in Argoproj -> 3
             [] s[1] \in Copies   -> 4

(* Deletes them kind by kind; all, or the call that failed came in between. *)
Sweep(doomed, all) ==
    \E gone \in SUBSET doomed :
        /\ \A s \in gone, x \in doomed : Rank(x) < Rank(s) => x \in gone
        /\ TakeAway(gone)
        /\ \/ /\ all
              /\ gone = doomed
              /\ UNCHANGED faults
           \/ /\ ~all
              /\ faults > 0
              /\ faults' = faults - 1

(* prune: what the install owns and the pass did not render.  Secrets and  *)
(* ConfigMaps only in the namespaces the pass wrote, and those where it    *)
(* finds an argoproj object of the install.                                *)
Strays ==
    LET written == {n \in Argos : \E k \in Argoproj \union Copies : <<k, n>> \in pass.done}
                     \union {n \in Argos : \E k \in Argoproj : owner[<<k, n>>] = pass.i}
    IN  {s \in Owned(pass.i) \ pass.done :
            /\ s[1] \in InOwn => s[2] = pass.i
            /\ s[1] \in Copies => s[2] \in written}

Prune ==
    /\ pass.at = "prune"
    /\ \/ /\ Sweep(Strays, TRUE)
          /\ pruned' = [pruned EXCEPT ![pass.i] = pass.done]
       \/ /\ Sweep(Strays, FALSE)
          /\ UNCHANGED pruned
    /\ pass' = Idle
    /\ UNCHANGED <<crVars, token, edits, moved>>

(* pruneDue: the render is that of the last prune, and that was lately.    *)
SkipPrune ==
    /\ pass.at = "prune"
    /\ pruned[pass.i] = pass.done
    /\ pass' = Idle
    /\ UNCHANGED <<crVars, objVars, pruned, edits, faults, moved>>

(* finalize: what owner references cannot collect, then the finalizer.     *)
\* Mutation: the cluster-scoped bindings are left to owner references.
CleanupArgo(i) == {s \in Owned(i) : s # Bindings /\ s[2] = spec[i].argo}

Cleanup(i) == {s \in Owned(i) : s = Bindings \/ s[2] = spec[i].argo}

Finalize(i) ==
    /\ pass = Idle
    /\ i \in leaving
    /\ \/ /\ Sweep(Cleanup(i), TRUE)
          /\ guarded' = guarded \ {i}
          /\ leaving' = leaving \ {i}
          /\ order' = Without(i)
          /\ pruned' = [pruned EXCEPT ![i] = {}]
       \/ /\ Sweep(Cleanup(i), FALSE)
          /\ UNCHANGED <<guarded, leaving, order, pruned>>
    /\ UNCHANGED <<spec, token, pass, edits, moved>>

Pass == ReconcileForge \/ ReconcileSecrets \/ ReconcileWorkload \/ ReconcileArgo

Next ==
    \/ \E i \in Installs :
          Create(i) \/ Edit(i) \/ Delete(i) \/ Collect(i) \/ Begin(i) \/ Finalize(i)
    \/ Lose \/ Halt \/ Crash
    \/ Pass \/ Prune \/ SkipPrune

Spec == Init /\ [][Next]_vars

(* The work queue serves every resource; its timer is twice the prune's    *)
(* period, so a pass that is due to prune comes round.                     *)
FairSpec ==
    /\ Spec
    /\ WF_vars(Pass)
    /\ SF_vars(Prune)
    /\ WF_vars(Prune \/ SkipPrune)
    /\ \A i \in Installs : SF_vars(Begin(i)) /\ SF_vars(Finalize(i))

--------------------------------------------------------------------------------
TypeOK ==
    /\ order \in Seq(Installs) /\ IsInjective(order)
    /\ leaving \subseteq Present
    /\ guarded \subseteq Present
    /\ spec \in [Installs -> Specs]
    /\ owner \in [Slots -> Installs \union {None}]
    /\ token \in [Installs -> Tokens]
    /\ copied \in [Argos -> Tokens]
    /\ pass = Idle \/ pass \in [i : guarded, at : {"forge", "secrets", "workload", "argo", "prune"},
                                spec : Specs, done : SUBSET Slots]
    /\ pruned \in [Installs -> SUBSET Slots]
    /\ edits \in 0..MaxEdits
    /\ faults \in 0..MaxFaults
    /\ moved \in [Installs -> SUBSET Argos]

(* dotvirt_controller.go:58: the finalizer guards the cleanup of what lies *)
(* beyond the install's namespace.  Without it an install owns nothing     *)
(* there, whatever pass was cut short, unless its Argo CD namespace moved. *)
Guarded ==
    \A i \in Installs \ guarded : \A s \in Owned(i) :
        s \in InOwn \X {i} \/ (s[1] \in Argoproj \union Copies /\ s[2] \in moved[i])

(* prune.go:134: only what the pass did not render goes.  While the pass   *)
(* works from the spec as it stands, the operator takes away nothing of a  *)
(* live install that this spec asks for, however earlier passes ended.     *)
SparesRendered ==
    [][\A i \in Live :
          pass.i = i /\ pass.spec = spec[i] /\ edits' = edits
             => Render(i, spec[i]) \intersect Owned(i) \subseteq {s \in Slots : owner'[s] = i}]_vars

(* The oldest live install that no other keeps out of its Argo CD          *)
(* namespace ends with all it asks for, the mirror holding its token, and  *)
(* nothing it no longer asks for but copies in a namespace it left.        *)
Settled(i) ==
    LET n == spec[i].argo
    IN  /\ Render(i, spec[i]) \subseteq Owned(i)
        /\ copied[n] = token[i] /\ token[i] # 0
        /\ \A s \in Owned(i) \ Render(i, spec[i]) : s \in Copies \X (moved[i] \ {n})

Converges ==
    \A i \in Installs :
        <>[](\/ i \notin Live
             \/ Older(i) # {}
             \/ owner[<<"mirror", spec[i].argo>>] \notin {None, i}
             \/ Settled(i))
================================================================================
