-------------------------------- MODULE FrameHub --------------------------------
(***************************************************************************)
(* internal/stream: the one goroutine that reconciles each connected       *)
(* identity's inventory frame to the levels on the bus, its build workers, *)
(* the connections' one-slot mailboxes and their writers.                  *)
(*                                                                         *)
(* A frame is what an inventory build read of each source: the topology    *)
(* and live state first, then the head of each repository the topology     *)
(* shows the identity.  A source's store moves before it publishes.        *)
(***************************************************************************)
EXTENDS EventBus

CONSTANTS Conns,      \* WebSocket connections over the run
          Idents,     \* identities (tokens)
          IdentOf,    \* [Conns -> Idents]
          Sees,       \* [Idents -> [0..MaxMoves -> SUBSET Repos]]: by the topology
          Hub,        \* the hub's subscription
          Hidden,     \* what a frame holds of a repository it does not show
          None,
          Workers,    \* buildWorkers
          MaxConns,   \* bound: connections made over the run
          MaxMoves,   \* bound: moves of all the stores together
          MaxFaults   \* bound: failed builds

Levels == 0..MaxMoves
Frames == [Sources -> Levels \union {Hidden}]

ASSUME HubAssumption ==
    /\ IdentOf \in [Conns -> Idents]
    /\ Sees \in [Idents -> [Levels -> SUBSET Repos]]
    /\ Hub \in Subs
    /\ SubKinds[Hub] = Kinds
    /\ Workers \in Nat \ {0}
    /\ MaxMoves \in Nat
    /\ MaxFaults \in Nat
    /\ MaxConns \in Nat
    /\ Hidden \notin Levels
    /\ None \notin Frames
    /\ IsFiniteSet(Repos)

VARIABLES store,   \* what each source's store holds, counted in moves
          budget,  \* moves still to come
          faults,  \* build failures still to come
          pc,      \* where Run is
          target,  \* the Total it reconciles to
          kick,    \* Hub.kick
          byKey,   \* the connections reconcile took, by identity
          todo,    \* identities it has not looked at
          work,    \* each identity's build
          idents,  \* Hub.idents
          failed,  \* history: identities whose last build failed
          joined,  \* where each connection is
          last,    \* conn.lastJS
          out,     \* conn.out
          shown    \* what its client holds

hubVars  == <<pc, target, kick, byKey, todo, work, idents, failed>>
connVars == <<joined, last, out, shown>>
vars     == <<busVars, store, budget, faults, hubVars, connVars>>

IsStamp(st) ==
    /\ st.live \in Nat
    /\ DOMAIN st.keys \subseteq Repos
    /\ st.keys \in [DOMAIN st.keys -> Nat]

NoWork    == [at |-> "none"]
Building  == {"stamp", "topology", "repos", "restamp", "recheck"}
BuildDone == {"none", "built", "failed", "moved"}
WorkSteps == {"due"} \union Building \union BuildDone

TypeOK ==
    /\ BusTypeOK
    /\ store \in [Sources -> Levels]
    /\ budget \in Levels
    /\ faults \in 0..MaxFaults
    /\ pc \in {"wait", "target", "conns", "scan", "build", "check"}
    /\ target \in [Kinds -> Nat]
    /\ kick \in BOOLEAN
    /\ byKey \in [Idents -> SUBSET Conns]
    /\ todo \subseteq Idents
    /\ \A i \in Idents :
          work[i] # NoWork => /\ work[i].at \in WorkSteps
                              /\ work[i].total \in [Kinds -> Nat]
                              /\ IsStamp(work[i].stamp)
                              /\ work[i].left \subseteq Repos
                              /\ work[i].frame \in Frames
    /\ \A i \in Idents :
          idents[i] # None => /\ idents[i].data \in Frames
                              /\ idents[i].deps \subseteq Repos
                              /\ IsStamp(idents[i].stamp)
    /\ failed \subseteq Idents
    /\ joined \in [Conns -> {"off", "joining", "on", "gone"}]
    /\ last \in [Conns -> Frames \union {None}]
    /\ out \in [Conns -> Frames \union {None}]
    /\ shown \in [Conns -> Frames \union {None}]

Init ==
    /\ BusInit
    /\ store = [s \in Sources |-> 0]
    /\ budget = MaxMoves
    /\ faults = MaxFaults
    /\ pc = "wait"
    /\ target = versions
    /\ kick = FALSE
    /\ byKey = [i \in Idents |-> {}]
    /\ todo = {}
    /\ work = [i \in Idents |-> NoWork]
    /\ idents = [i \in Idents |-> None]
    /\ failed = {}
    /\ joined = [c \in Conns |-> "off"]
    /\ last = [c \in Conns |-> None]
    /\ out = [c \in Conns |-> None]
    /\ shown = [c \in Conns |-> None]

--------------------------------------------------------------------------------
(* The sources.  A fetch moves the mirror, a watch event the indexer; the  *)
(* goroutine that moved it then publishes.                                 *)

Move(s) ==
    /\ budget > 0
    /\ budget' = budget - 1
    /\ store' = [store EXCEPT ![s] = @ + 1]
    /\ Due(s)
    /\ UNCHANGED <<faults, hubVars, connVars>>

Publish(s) ==
    /\ PublishStep(s)
    /\ UNCHANGED <<store, budget, faults, hubVars, connVars>>

--------------------------------------------------------------------------------
(* Connections.  add registers under h.mu, then kicks.                     *)

Connect(c) ==
    /\ joined[c] = "off"
    /\ Cardinality({d \in Conns : joined[d] # "off"}) < MaxConns
    /\ joined' = [joined EXCEPT ![c] = "joining"]
    /\ UNCHANGED <<busVars, store, budget, faults, hubVars, last, out, shown>>

\* Mutation: the connection waits for the next change.
JoinQuietly(c) ==
    /\ joined[c] = "joining"
    /\ joined' = [joined EXCEPT ![c] = "on"]
    /\ UNCHANGED <<busVars, store, budget, faults, hubVars, last, out, shown>>

Kick(c) ==
    /\ joined[c] = "joining"
    /\ joined' = [joined EXCEPT ![c] = "on"]
    /\ kick' = TRUE
    /\ UNCHANGED <<busVars, store, budget, faults, pc, target, byKey, todo, work, idents, failed,
                   last, out, shown>>

Leave(c) ==
    /\ joined[c] = "on"
    /\ joined' = [joined EXCEPT ![c] = "gone"]
    /\ UNCHANGED <<busVars, store, budget, faults, hubVars, last, out, shown>>

(* writePump. *)
Write(c) ==
    /\ joined[c] \in {"joining", "on"}
    /\ out[c] # None
    /\ shown' = [shown EXCEPT ![c] = out[c]]
    /\ out' = [out EXCEPT ![c] = None]
    /\ UNCHANGED <<busVars, store, budget, faults, hubVars, joined, last>>

InHub(c) == joined[c] \in {"joining", "on"}

\* Mutation: every connection gets the frame.
SendAll(cs, f) ==
    /\ last' = [c \in Conns |-> f]
    /\ out' = [c \in Conns |-> IF last[c] # f /\ InHub(c) THEN f ELSE out[c]]
    /\ UNCHANGED <<joined, shown>>

(* sendLatest and deliver: a connection that holds the frame is skipped; a *)
(* pending older one is replaced; a torn-down one drops it.                *)
SendLatest(cs, f) ==
    /\ last' = [c \in Conns |-> IF c \in cs THEN f ELSE last[c]]
    /\ out' = [c \in Conns |-> IF c \in cs /\ last[c] # f /\ InHub(c) THEN f ELSE out[c]]
    /\ UNCHANGED <<joined, shown>>

--------------------------------------------------------------------------------
(* Run.                                                                    *)

Total == versions

Stamp(deps) == [live |-> Version(Live), keys |-> [r \in deps |-> KeyVersion(r)]]

WakeUp ==
    /\ pc = "wait"
    /\ pc' = "target"
    /\ \/ TakeWake(Hub) /\ UNCHANGED kick
       \/ kick /\ kick' = FALSE /\ UNCHANGED busVars
    /\ UNCHANGED <<store, budget, faults, target, byKey, todo, work, idents, failed, connVars>>

ReadTarget ==
    /\ pc = "target"
    /\ pc' = "conns"
    /\ target' = Total
    /\ UNCHANGED <<busVars, store, budget, faults, kick, byKey, todo, work, idents, failed, connVars>>

(* reconcile takes the connections and forgets the identities that left.   *)
TakeConns ==
    LET taken == [i \in Idents |-> {c \in Conns : InHub(c) /\ IdentOf[c] = i}]
    IN  /\ pc = "conns"
        /\ pc' = "scan"
        /\ byKey' = taken
        /\ idents' = [i \in Idents |-> IF taken[i] = {} THEN None ELSE idents[i]]
        /\ todo' = {i \in Idents : taken[i] # {}}
        /\ UNCHANGED <<busVars, store, budget, faults, target, kick, work, failed, connVars>>

DepsOf(i) == IF idents[i] = None THEN {} ELSE idents[i].deps

NewBuild == [at    |-> "due",
             total |-> [k \in Kinds |-> 0],
             stamp |-> Stamp({}),
             left  |-> {},
             frame |-> [s \in Sources |-> Hidden]]

(* Stamps are compared as the sums of their counters: the ticks that all   *)
(* of them together have counted.                                          *)
Ticks(st) == ({Live} \X (1..st.live)) \union UNION {{r} \X (1..st.keys[r]) : r \in DOMAIN st.keys}
SumOf(st) == Cardinality(Ticks(st))

SameLevel(i) == SumOf(idents[i].stamp) = SumOf(Stamp(idents[i].deps))

IsCurrent(i) == idents[i] # None /\ SameLevel(i)

Scan(i) ==
    /\ pc = "scan"
    /\ i \in todo
    /\ todo' = todo \ {i}
    /\ \/ /\ IsCurrent(i)
          /\ SendLatest(byKey[i], idents[i].data)
          /\ UNCHANGED work
       \/ /\ ~IsCurrent(i)
          /\ work' = [work EXCEPT ![i] = NewBuild]
          /\ UNCHANGED connVars
    /\ UNCHANGED <<busVars, store, budget, faults, pc, target, kick, byKey, idents, failed>>

Scanned ==
    /\ pc = "scan"
    /\ todo = {}
    /\ pc' = "build"
    /\ UNCHANGED <<busVars, store, budget, faults, target, kick, byKey, todo, work, idents, failed,
                   connVars>>
--------------------------------------------------------------------------------
(* build, on a worker.  prev is the identity's last frame, if any.         *)

RunUnchanged == UNCHANGED <<store, budget, pc, target, kick, byKey, todo, idents, failed, busVars>>

Advance(i, w) ==
    /\ pc = "build"
    /\ work' = [work EXCEPT ![i] = w]
    /\ RunUnchanged

Step(i, at) == pc = "build" /\ work[i].at = at

ReadTotal(i) ==
    /\ Step(i, "due")
    /\ Cardinality({j \in Idents : work[j].at \in Building}) < Workers
    /\ Advance(i, [work[i] EXCEPT !.at = "stamp", !.total = Total])
    /\ UNCHANGED <<faults, connVars>>

ReadStamp(i) ==
    /\ Step(i, "stamp")
    /\ Advance(i, [work[i] EXCEPT !.at = "topology", !.stamp = Stamp(DepsOf(i))])
    /\ UNCHANGED <<faults, connVars>>

(* The inventory build, for the connections' identity. *)
ReadTopology(i) ==
    /\ Step(i, "topology")
    /\ Advance(i, [work[i] EXCEPT !.at = "repos",
                                  !.frame[Live] = store[Live],
                                  !.left = Sees[i][store[Live]]])
    /\ UNCHANGED <<faults, connVars>>

ReadRepo(i, r) ==
    /\ Step(i, "repos")
    /\ r \in work[i].left
    /\ Advance(i, [work[i] EXCEPT !.frame[r] = store[r], !.left = @ \ {r}])
    /\ UNCHANGED <<faults, connVars>>

(* The token expired, or the build timed out. *)
BuildFails(i) ==
    /\ Step(i, "topology") \/ Step(i, "repos")
    /\ faults > 0
    /\ faults' = faults - 1
    /\ Advance(i, [work[i] EXCEPT !.at = "failed"])
    /\ UNCHANGED connVars

Deps(f) == {r \in Repos : f[r] # Hidden}

Deliver(i) ==
    /\ Step(i, "repos")
    /\ work[i].left = {}
    /\ SendLatest(byKey[i], work[i].frame)
    /\ Advance(i, [work[i] EXCEPT !.at = IF Deps(work[i].frame) = DepsOf(i)
                                         THEN "built" ELSE "restamp"])
    /\ UNCHANGED faults

(* The frame's repositories were not those stamped before the build: their *)
(* levels are read now, and hold if nothing at all moved since.            *)
Restamp(i) ==
    /\ Step(i, "restamp")
    /\ Advance(i, [work[i] EXCEPT !.at = "recheck", !.stamp = Stamp(Deps(work[i].frame))])
    /\ UNCHANGED <<faults, connVars>>

\* Mutation: the levels read after the build are trusted.
NoRecheck(i) ==
    /\ Step(i, "recheck")
    /\ Advance(i, [work[i] EXCEPT !.at = "built"])
    /\ UNCHANGED <<faults, connVars>>

Recheck(i) ==
    /\ Step(i, "recheck")
    /\ Advance(i, [work[i] EXCEPT !.at = IF Total = work[i].total THEN "built" ELSE "moved"])
    /\ UNCHANGED <<faults, connVars>>

(* wg.Wait: the results become the last frames; a failed or overtaken      *)
(* build leaves its identity without one, due in the next pass.            *)
Finish ==
    /\ pc = "build"
    /\ \A i \in Idents : work[i].at \in BuildDone
    /\ pc' = "check"
    /\ idents' = [i \in Idents |->
          IF work[i].at = "none" THEN idents[i]
          ELSE IF work[i].at = "built"
               THEN [data  |-> work[i].frame,
                     deps  |-> Deps(work[i].frame),
                     stamp |-> work[i].stamp]
               ELSE None]
    /\ failed' = {i \in Idents : work[i].at = "failed" \/ (work[i].at = "none" /\ i \in failed)}
    /\ work' = [i \in Idents |-> NoWork]
    /\ UNCHANGED <<busVars, store, budget, faults, target, kick, byKey, todo, connVars>>

CaughtUp ==
    /\ pc = "check"
    /\ pc' = IF Total = target THEN "wait" ELSE "target"
    /\ UNCHANGED <<busVars, store, budget, faults, target, kick, byKey, todo, work, idents, failed,
                   connVars>>

--------------------------------------------------------------------------------
Build(i) ==
    \/ ReadTotal(i) \/ ReadStamp(i) \/ ReadTopology(i)
    \/ \E r \in Repos : ReadRepo(i, r)
    \/ Deliver(i) \/ Restamp(i) \/ Recheck(i)

Run ==
    \/ WakeUp \/ ReadTarget \/ TakeConns \/ Scanned \/ Finish \/ CaughtUp
    \/ \E i \in Idents : Scan(i) \/ Build(i)

Next ==
    \/ \E s \in Sources : Move(s) \/ Publish(s)
    \/ \E c \in Conns : Connect(c) \/ Kick(c) \/ Leave(c) \/ Write(c)
    \/ \E i \in Idents : BuildFails(i)
    \/ Run

Spec == Init /\ [][Next]_vars

(* The hub, each publisher and each writer run until they block on their   *)
(* channel; a handler that registered goes on to its kick.                 *)
FairSpec ==
    /\ Spec
    /\ WF_vars(Run)
    /\ \A s \in Sources : WF_vars(Publish(s))
    /\ \A c \in Conns : WF_vars(Kick(c)) /\ WF_vars(Write(c))

--------------------------------------------------------------------------------
(* What an undisturbed build for i would hold now. *)
Fresh(i) ==
    [s \in Sources |-> IF s = Live \/ s \in Sees[i][store[Live]] THEN store[s] ELSE Hidden]

AtRest == pc = "wait" /\ Hub \notin pending /\ ~kick /\ \A s \in Sources : pub[s] = "idle"

(* A frame the hub holds as current is one: no source it shows has moved   *)
(* and been announced since it was read, though levels are sums and a      *)
(* counter could hide another.                                             *)
CurrentMeansCurrent ==
    \A i \in Idents :
        pc \in {"wait", "target", "conns", "scan"} /\ idents[i] # None =>
            \A s \in {Live} \union idents[i].deps :
                pub[s] = "idle" /\ SameLevel(i) => idents[i].data[s] = store[s]

(* A connection's mailbox and screen only move forward in time, hold       *)
(* nothing its identity may not see, and nothing the stores have not held. *)
View == INSTANCE LiveView
    WITH Viewers <- Conns, Nothing <- None, world <- store,
         Sees <- [c \in Conns |-> Sees[IdentOf[c]]]

ShowsHistory == View!Spec

(* When the stores stop moving, every connection that stays ends up        *)
(* showing them, unless its identity's last build failed.                  *)
Converges ==
    \A c \in Conns : <>[](joined[c] = "on" /\ IdentOf[c] \notin failed
                             => shown[c] = Fresh(IdentOf[c]))
=================================================================================
