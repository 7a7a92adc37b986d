---------------------------- MODULE ProposalsLane ----------------------------
(***************************************************************************)
(* internal/api/proposals.go: the open pull requests shown in every frame. *)
(* Builds read a cache; one refresher goroutine asks the forge for the     *)
(* watched projects that are due and wakes the hub when a lane changed.    *)
(*                                                                         *)
(* A project stands for its repository (several projects of one repository *)
(* are each asked about on their own), the pull requests open in it for a  *)
(* number, 0 when there are none.  The hub is the rebuild of every viewer  *)
(* that FrameHub shows each wake to lead to.                               *)
(***************************************************************************)
EXTENDS Naturals

CONSTANTS Projects,
          Platform,    \* the tier a build may transiently fail to discover
          Viewers,     \* tokens with an open tab
          Sees,        \* the projects each viewer's builds resolve
          None,
          MaxMoves,    \* bound: changes on the forge
          MaxFaults,   \* bound: failed forge calls
          MaxLapses,   \* bound: watches that outlive proposalsTrackFor
          MaxExpiries  \* bound: lanes that outlive proposalsCacheTTL

ASSUME LaneAssumption ==
    /\ {MaxMoves, MaxFaults, MaxLapses, MaxExpiries} \subseteq Nat
    /\ Sees \in [Viewers -> SUBSET Projects]
    /\ None \notin Nat

VARIABLES prs,      \* the pull requests open on the forge
          moved,    \* projects with a pushed head no fetch has seen
          hooks,    \* webhook deliveries about pull requests, on their way
          opening,  \* proposals pushed and opened, proposalOpened to come
          budget,   \* the bounds
          version,  \* the bus's GitChanged version of each repository
          gitWake,  \* the refresher's subscription
          propNudge,
          propDirty,
          propTargets, \* the projects watched for each viewer
          aged,     \* viewers whose lastSeen is too long ago
          proposals,   \* the cached lanes
          propSeen, \* the version each lane was read at
          pass,     \* the refresher's pass: its stage and local variables
          hubWake, toBuild, \* the hub
          frame,    \* the lanes each viewer was last sent
          asked     \* history: projects the forge was asked about since their last event

forgeVars == <<prs, moved, hooks, opening>>
laneVars  == <<proposals, propSeen, pass, asked>>
hubVars   == <<hubWake, toBuild, frame>>
watchVars == <<propTargets, aged>>
wakeVars  == <<version, gitWake, propNudge, propDirty>>
vars      == <<forgeVars, budget, laneVars, hubVars, watchVars, wakeVars>>

Lanes  == 0..MaxMoves
Budget == [moves: 0..MaxMoves, faults: 0..MaxFaults, lapses: 0..MaxLapses, expiries: 0..MaxExpiries]

Resting == [at |-> "rest", all |-> FALSE, todo |-> {}, dirty |-> {}, seen |-> propSeen,
            ver |-> None, prev |-> None, changed |-> FALSE, of |-> None]

Spend(what) == budget[what] > 0 /\ budget' = [budget EXCEPT ![what] = @ - 1]

TypeOK ==
    /\ prs \in [Projects -> Lanes]
    /\ moved \subseteq Projects /\ hooks \subseteq Projects
    /\ opening \subseteq Viewers \X Projects
    /\ budget \in Budget
    /\ version \in [Projects -> Nat]
    /\ {gitWake, propNudge, hubWake} \subseteq BOOLEAN
    /\ propDirty \subseteq Projects
    /\ propTargets \in [Viewers -> SUBSET Projects]
    /\ aged \subseteq Viewers /\ toBuild \subseteq Viewers
    /\ proposals \in [Projects -> Lanes \union {None}]
    /\ propSeen \in [Projects -> Nat \union {None}]
    /\ \A p \in Projects : pass.seen[p] # None => proposals[p] # None
    /\ pass.at \in {"rest", "next", "asking"}
    /\ pass.todo \subseteq Projects
    /\ pass.at = "asking" => pass.of \in pass.todo
    /\ frame \in [Viewers -> [Projects -> Lanes \union {None}]]
    /\ asked \subseteq Projects

Init ==
    /\ prs \in [Projects -> Lanes]
    /\ moved = {} /\ hooks = {} /\ opening = {}
    /\ budget = [moves |-> MaxMoves, faults |-> MaxFaults,
                 lapses |-> MaxLapses, expiries |-> MaxExpiries]
    /\ version = [p \in Projects |-> 0]
    /\ gitWake = FALSE /\ propNudge = FALSE /\ propDirty = {}
    /\ propTargets = [t \in Viewers |-> {}] /\ aged = {}
    /\ proposals = [p \in Projects |-> None]
    /\ propSeen = [p \in Projects |-> None]
    /\ pass = Resting
    /\ hubWake = TRUE /\ toBuild = {}
    /\ frame = [t \in Viewers |-> [p \in Projects |-> None]]
    /\ asked = Projects

--------------------------------------------------------------------------------
(* The forge.                                                              *)

(* A propose pushes its branch and opens a pull request; its handler goes  *)
(* on to proposalOpened.                                                   *)
Propose(t, p) ==
    /\ p \in Sees[t] /\ <<t, p>> \notin opening
    /\ Spend("moves")
    /\ \E n \in Lanes \ {0, prs[p]} : prs' = [prs EXCEPT ![p] = n]
    /\ moved' = moved \union {p}
    /\ opening' = opening \union {<<t, p>>}
    /\ UNCHANGED <<hooks, laneVars, hubVars, watchVars, wakeVars>>

(* Someone opens, closes or merges on the forge itself; only a merge moves *)
(* a head, and the delivery may be lost.                                   *)
Review(p) ==
    /\ Spend("moves")
    /\ \E n \in Lanes \ {prs[p]} : prs' = [prs EXCEPT ![p] = n]
    /\ moved' \in {moved, moved \union {p}}
    /\ hooks' \in {hooks, hooks \union {p}}
    /\ UNCHANGED <<opening, laneVars, hubVars, watchVars, wakeVars>>

Nudged(p) ==
    /\ propDirty' = propDirty \union {p}
    /\ propNudge' = TRUE

ProposalOpened(t, p) ==
    /\ <<t, p>> \in opening
    /\ opening' = opening \ {<<t, p>>}
    /\ propTargets' = [propTargets EXCEPT ![t] = @ \union {p}]
    /\ aged' = aged \ {t}
    /\ Nudged(p)
    /\ asked' = asked \ {p}
    /\ UNCHANGED <<prs, moved, hooks, budget, proposals, propSeen, pass, hubVars, version, gitWake>>

Webhook(p) ==
    /\ p \in hooks
    /\ hooks' = hooks \ {p}
    /\ Nudged(p)
    /\ asked' = asked \ {p}
    /\ UNCHANGED <<prs, moved, opening, budget, proposals, propSeen, pass, hubVars, watchVars,
                   version, gitWake>>

(* The repository's poll sees the head: GitChanged, to both subscribers.   *)
Fetched(p) ==
    /\ p \in moved
    /\ moved' = moved \ {p}
    /\ version' = [version EXCEPT ![p] = @ + 1]
    /\ gitWake' = TRUE /\ hubWake' = TRUE
    /\ asked' = asked \ {p}
    /\ UNCHANGED <<prs, hooks, opening, budget, proposals, propSeen, pass, toBuild, frame,
                   watchVars, propNudge, propDirty>>

--------------------------------------------------------------------------------
(* Time.                                                                   *)

Quiet == pass.at = "rest" /\ ~gitWake /\ ~propNudge

(* No frame was built for t for proposalsTrackFor, which is longer than    *)
(* anything else under way takes.                                          *)
TargetAges(t) ==
    /\ t \notin aged
    /\ Quiet /\ ~hubWake /\ toBuild = {}
    /\ Spend("lapses")
    /\ aged' = aged \union {t}
    /\ UNCHANGED <<forgeVars, laneVars, hubVars, propTargets, wakeVars>>

(* No answer about p for proposalsCacheTTL.  The tick asks five times in   *)
(* that time, so p is unwatched or the last answer was an error.           *)
LaneExpires(p) ==
    /\ proposals[p] # None /\ propSeen[p] = None /\ Quiet
    /\ Spend("expiries")
    /\ proposals' = [proposals EXCEPT ![p] = None]
    /\ UNCHANGED <<forgeVars, propSeen, pass, asked, hubVars, watchVars, wakeVars>>

--------------------------------------------------------------------------------
(* The hub's rebuild after a wake.                                         *)

HubWakes ==
    /\ hubWake
    /\ hubWake' = FALSE
    /\ toBuild' = Viewers
    /\ UNCHANGED <<forgeVars, budget, laneVars, frame, watchVars, wakeVars>>

(* trackProposals: a watched platform tier is carried over.                *)
Tracked(t, resolved) == resolved \union (propTargets[t] \intersect {Platform})

(* proposalsFor, with or without the platform tier discovered.             *)
Build(t) == \E resolved \in {Sees[t], Sees[t] \ {Platform}} :
    LET watched == Tracked(t, resolved) IN
    /\ t \in toBuild
    /\ toBuild' = toBuild \ {t}
    /\ propTargets' = [propTargets EXCEPT ![t] = watched]
    /\ aged' = aged \ {t}
    /\ frame' = [frame EXCEPT ![t] =
                    [p \in Projects |-> IF p \in watched THEN proposals[p] ELSE None]]
    /\ propNudge' = (propNudge \/ \E p \in watched : proposals[p] = None)
    /\ UNCHANGED <<forgeVars, budget, laneVars, hubWake, version, gitWake, propDirty>>

--------------------------------------------------------------------------------
(* The refresher.                                                          *)

(* refreshProposals up to the loop.                                        *)
Begin(all) ==
    LET live == [t \in Viewers |-> IF t \in aged THEN {} ELSE propTargets[t]]
        watched == UNION {live[t] : t \in Viewers}
    IN /\ pass.at = "rest"
       /\ propTargets' = live
       /\ aged' = {}
       /\ propDirty' = {}
       /\ pass' = [pass EXCEPT !.at = "next", !.all = all, !.todo = watched, !.dirty = propDirty,
                     !.seen = [p \in Projects |-> IF p \in watched THEN propSeen[p] ELSE None]]
       /\ UNCHANGED <<forgeVars, budget, proposals, propSeen, asked, hubVars, version>>

OnGitChanged == gitWake   /\ Begin(FALSE) /\ gitWake' = FALSE   /\ UNCHANGED propNudge
OnNudge      == propNudge /\ Begin(FALSE) /\ propNudge' = FALSE /\ UNCHANGED gitWake

\* Mutation: the tick looks at what is due only.
OnTickDue    == Begin(FALSE) /\ UNCHANGED <<gitWake, propNudge>>
OnTick       == Begin(TRUE)  /\ UNCHANGED <<gitWake, propNudge>>

Due(p) ==
    pass.all \/ proposals[p] = None \/ pass.seen[p] # version[p] \/ p \in pass.dirty

Skip(p) ==
    /\ pass.at = "next" /\ p \in pass.todo
    /\ ~Due(p)
    /\ pass' = [pass EXCEPT !.todo = @ \ {p}]
    /\ UNCHANGED <<forgeVars, budget, proposals, propSeen, asked, hubVars, watchVars, wakeVars>>

(* The version and the old lane are read before the forge is asked.        *)
Look(p) ==
    /\ pass.at = "next" /\ p \in pass.todo
    /\ Due(p)
    /\ pass' = [pass EXCEPT !.at = "asking", !.of = p, !.ver = version[p], !.prev = proposals[p]]
    /\ UNCHANGED <<forgeVars, budget, proposals, propSeen, asked, hubVars, watchVars, wakeVars>>

Answered(p, seen, changed) ==
    pass' = [pass EXCEPT !.at = "next", !.todo = @ \ {p}, !.of = None, !.ver = None,
                !.prev = None, !.seen[p] = seen, !.changed = @ \/ changed]

\* Mutation: a lane that was not cached counts as unchanged.
AskQuietly(p) ==
    /\ pass.at = "asking" /\ pass.of = p
    /\ asked' = asked \union {p}
    /\ proposals' = [proposals EXCEPT ![p] = prs[p]]
    /\ Answered(p, pass.ver, pass.prev \notin {None, prs[p]})
    /\ UNCHANGED <<forgeVars, budget, propSeen, hubVars, watchVars, wakeVars>>

Ask(p) ==
    /\ pass.at = "asking" /\ pass.of = p
    /\ asked' = asked \union {p}
    /\ proposals' = [proposals EXCEPT ![p] = prs[p]]
    /\ Answered(p, pass.ver, IF pass.prev = None THEN prs[p] # 0 ELSE prs[p] # pass.prev)
    /\ UNCHANGED <<forgeVars, budget, propSeen, hubVars, watchVars, wakeVars>>

AskFails(p) ==
    /\ pass.at = "asking" /\ pass.of = p
    /\ Spend("faults")
    /\ Answered(p, None, FALSE)
    /\ UNCHANGED <<forgeVars, proposals, propSeen, asked, hubVars, watchVars, wakeVars>>

\* Mutation: the lanes are stamped with the versions at the pass's end.
EndStamping ==
    /\ pass.at = "next" /\ pass.todo = {}
    /\ propSeen' = [p \in Projects |-> IF pass.seen[p] = None THEN None ELSE version[p]]
    /\ hubWake' = (hubWake \/ pass.changed)
    /\ pass' = [Resting EXCEPT !.seen = propSeen']
    /\ UNCHANGED <<forgeVars, budget, proposals, asked, toBuild, frame, watchVars, wakeVars>>

(* The pass ends and its caller publishes ProposalsChanged.                *)
End ==
    /\ pass.at = "next" /\ pass.todo = {}
    /\ propSeen' = pass.seen
    /\ hubWake' = (hubWake \/ pass.changed)
    /\ pass' = [Resting EXCEPT !.seen = pass.seen]
    /\ UNCHANGED <<forgeVars, budget, proposals, asked, toBuild, frame, watchVars, wakeVars>>

--------------------------------------------------------------------------------
Refresher ==
    \/ OnGitChanged \/ OnNudge \/ OnTick \/ End
    \/ \E p \in Projects : Skip(p) \/ Look(p) \/ Ask(p) \/ AskFails(p)

Hub == HubWakes \/ \E t \in Viewers : Build(t)

Next ==
    \/ \E p \in Projects : Review(p) \/ Webhook(p) \/ Fetched(p) \/ LaneExpires(p)
    \/ \E t \in Viewers, p \in Projects : Propose(t, p) \/ ProposalOpened(t, p)
    \/ \E t \in Viewers : TargetAges(t)
    \/ Hub
    \/ Refresher

Spec == Init /\ [][Next]_vars

(* The ticker fires, the forge answers within its time-out, the hub        *)
(* follows its wakes.                                                      *)
FairSpec ==
    /\ Spec
    /\ WF_vars(OnTick)
    /\ WF_vars(End)
    /\ \A p \in Projects : WF_vars(Skip(p) \/ Look(p) \/ Ask(p) \/ AskFails(p))
    /\ WF_vars(HubWakes)
    /\ \A t \in Viewers : WF_vars(Build(t))

--------------------------------------------------------------------------------
Tenants(t) == Sees[t] \ {Platform}

(* Every event about a cached project (its push fetched, its proposal      *)
(* opened, its webhook delivered) has been put to the forge once the       *)
(* refresher has nothing left to do, or the lane is known to be due.       *)
LaneOrDue ==
    Quiet => \A p \in Projects :
        proposals[p] # None => p \in asked \/ propSeen[p] # version[p] \/ p \in propDirty

(* What a viewer was last sent is what the cache holds, a missing lane     *)
(* counting as an empty one (proposals.go:238): whoever changed a lane     *)
(* woke the hub.  A lane that expired and comes back empty does not.       *)
FrameShowsLane ==
    budget.expiries = MaxExpiries /\ Quiet /\ ~hubWake /\ toBuild = {} =>
        \A t \in Viewers, p \in Projects :
            p \in Tenants(t) /\ proposals[p] # None =>
                frame[t][p] = proposals[p] \/ {frame[t][p], proposals[p]} = {None, 0}

(* Even with every webhook lost, every viewer ends up seeing the forge, as *)
(* long as no watch lapses and no lane is dropped.                         *)
LaneConverges ==
    <>[](budget.lapses = MaxLapses /\ budget.expiries = MaxExpiries =>
          \A t \in Viewers : \A p \in Tenants(t) :
            frame[t][p] = prs[p] \/ (frame[t][p] = None /\ prs[p] = 0))
================================================================================
