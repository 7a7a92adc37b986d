-------------------------------- MODULE EventBus --------------------------------
(***************************************************************************)
(* internal/eventbus: a level per kind and per key, and a one-slot wake    *)
(* per subscriber.  Publish and PublishKey are three steps, and a          *)
(* publisher may be interrupted between any two: the kind's version, then  *)
(* the key's (or the kind's share of every key), then the wakes.  Each     *)
(* source publishes in one goroutine: a repository's poll, an informer.    *)
(***************************************************************************)
EXTENDS Naturals, FiniteSets

CONSTANTS Repos,    \* keys of the keyed kind (GitChanged)
          Git,      \* the keyed kind
          Live,     \* the unkeyed kinds, which every reader sums
          Subs,     \* subscribers
          SubKinds  \* [Subs -> kinds they subscribed to]

Sources == Repos \union {Live}
Kinds   == {Git, Live}

ASSUME BusAssumption ==
    /\ Git # Live
    /\ Live \notin Repos
    /\ SubKinds \in [Subs -> SUBSET Kinds]

KindOf(s) == IF s \in Repos THEN Git ELSE Live

VARIABLES versions,  \* Bus.versions
          broad,     \* Bus.broad
          keyed,     \* Bus.keyed[Git]
          pending,   \* subscribers with a wake in their channel
          pub        \* where each source's publisher is

busVars == <<versions, broad, keyed, pending, pub>>

BusTypeOK ==
    /\ versions \in [Kinds -> Nat]
    /\ broad \in [Kinds -> Nat]
    /\ keyed \in [Repos -> Nat]
    /\ pending \subseteq Subs
    /\ pub \in [Sources -> {"idle", "moved", "counted", "leveled"}]

BusInit ==
    /\ versions = [k \in Kinds |-> 0]
    /\ broad = [k \in Kinds |-> 0]
    /\ keyed = [r \in Repos |-> 0]
    /\ pending = {}
    /\ pub = [s \in Sources |-> "idle"]

(* What s publishes has moved in its store: a publish is due. *)
Due(s) ==
    /\ pub[s] = "idle"
    /\ pub' = [pub EXCEPT ![s] = "moved"]
    /\ UNCHANGED <<versions, broad, keyed, pending>>

\* Mutation: with BumpKindLast, the key is moved before the kind.
BumpKeyFirst(s) ==
    /\ pub[s] = "moved"
    /\ pub' = [pub EXCEPT ![s] = "counted"]
    /\ IF s \in Repos
       THEN keyed' = [keyed EXCEPT ![s] = @ + 1] /\ UNCHANGED broad
       ELSE broad' = [broad EXCEPT ![Live] = @ + 1] /\ UNCHANGED keyed
    /\ UNCHANGED <<versions, pending>>

BumpKind(s) ==
    /\ pub[s] = "moved"
    /\ pub' = [pub EXCEPT ![s] = "counted"]
    /\ versions' = [versions EXCEPT ![KindOf(s)] = @ + 1]
    /\ UNCHANGED <<broad, keyed, pending>>

BumpKindLast(s) ==
    /\ pub[s] = "counted"
    /\ pub' = [pub EXCEPT ![s] = "leveled"]
    /\ versions' = [versions EXCEPT ![KindOf(s)] = @ + 1]
    /\ UNCHANGED <<broad, keyed, pending>>

\* Mutation: only the key that moved last has a level.
LastLevel(s) ==
    /\ pub[s] = "counted"
    /\ pub' = [pub EXCEPT ![s] = "leveled"]
    /\ IF s \in Repos
       THEN keyed' = [r \in Repos |-> IF r = s THEN 1 ELSE 0] /\ UNCHANGED broad
       ELSE broad' = [broad EXCEPT ![Live] = @ + 1] /\ UNCHANGED keyed
    /\ UNCHANGED <<versions, pending>>

BumpLevel(s) ==
    /\ pub[s] = "counted"
    /\ pub' = [pub EXCEPT ![s] = "leveled"]
    /\ IF s \in Repos
       THEN keyed' = [keyed EXCEPT ![s] = @ + 1] /\ UNCHANGED broad
       ELSE broad' = [broad EXCEPT ![Live] = @ + 1] /\ UNCHANGED keyed
    /\ UNCHANGED <<versions, pending>>

(* One pending wake per subscriber: a second is dropped. *)
Wake(s) ==
    /\ pub[s] = "leveled"
    /\ pub' = [pub EXCEPT ![s] = "idle"]
    /\ pending' = pending \union {u \in Subs : KindOf(s) \in SubKinds[u]}
    /\ UNCHANGED <<versions, broad, keyed>>

\* Mutation: PublishKey moves the key before the kind.
KeyBeforeKind(s) == BumpKeyFirst(s) \/ BumpKindLast(s) \/ Wake(s)

PublishStep(s) == BumpKind(s) \/ BumpLevel(s) \/ Wake(s)

TakeWake(u) ==
    /\ u \in pending
    /\ pending' = pending \ {u}
    /\ UNCHANGED <<versions, broad, keyed, pub>>

(* Version(k) and KeyVersion(Git, r).  A reader compares two readings for  *)
(* equality only; the counters only grow, so equal sums of them are equal  *)
(* counters, and a reading is modelled by the counters it sums.            *)
Version(k)    == versions[k]
KeyVersion(r) == keyed[r] + broad[Git]
=================================================================================
