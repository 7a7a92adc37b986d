------------------------------ MODULE LaneProofs ------------------------------
(***************************************************************************)
(* For any projects, viewers, failures, lapses and expiries: no cached     *)
(* lane is stale without being due, and a frame at rest shows its lanes    *)
(* (ProposalsLane).                                                        *)
(***************************************************************************)
EXTENDS ProposalsLane, TLAPS

Versions == Nat \union {None}

Passes == [at: {"rest", "next", "asking"}, all: BOOLEAN, todo: SUBSET Projects,
           dirty: SUBSET Projects, seen: [Projects -> Versions], ver: Versions,
           prev: Lanes \union {None}, changed: BOOLEAN, of: Projects \union {None}]

(* A pass at rest holds the stamps it left; one that asks holds the        *)
(* version and the lane that it read first; no stamp is ahead of the bus.  *)
PassOK ==
    /\ pass \in Passes
    /\ pass.at = "rest" => pass = Resting
    /\ \A p \in Projects : pass.seen[p] # None => pass.seen[p] <= version[p]
    /\ pass.at = "asking" =>
          pass.ver \in Nat /\ pass.ver <= version[pass.of] /\ pass.prev = proposals[pass.of]

(* Each event about a cached project was put to the forge, or is known by  *)
(* the version it left behind, by the next pass's mark, or by this one's.  *)
EventsKnown ==
    \A p \in Projects : proposals[p] # None =>
        \/ p \in asked
        \/ pass.seen[p] # version[p]
        \/ p \in propDirty
        \/ p \in pass.todo \intersect pass.dirty

Same(a, b) == a = b \/ {a, b} = {None, 0}

(* Until a lane expires, a frame shows what its viewer's lanes hold, or    *)
(* the viewer is to be built again, or the pass will say so.               *)
FramesFollow ==
    budget.expiries = MaxExpiries =>
        \A t \in Viewers : \A p \in Tenants(t) :
            /\ proposals[p] = None => frame[t][p] = None
            /\ \/ proposals[p] = None
               \/ Same(frame[t][p], proposals[p])
               \/ hubWake \/ t \in toBuild \/ pass.changed

Inv == TypeOK /\ PassOK /\ EventsKnown /\ FramesFollow

--------------------------------------------------------------------------------
LEMMA InitInv == Init => Inv
<1> SUFFICES ASSUME Init PROVE Inv
    OBVIOUS
<1> USE LaneAssumption
<1>1. TypeOK
    <2>1. {gitWake, propNudge, hubWake} \subseteq BOOLEAN
        BY DEF Init
    <2> QED
        BY <2>1 DEF Init, TypeOK, Lanes, Budget, Resting
<1>2. PassOK
    BY DEF Init, PassOK, Passes, Versions, Lanes, Resting
<1>3. EventsKnown /\ FramesFollow
    BY DEF Init, EventsKnown, FramesFollow, Tenants
<1> QED
    BY <1>1, <1>2, <1>3 DEF Inv

(* What happens on the forge leaves the lanes and the frames alone, and    *)
(* what the server hears of it is marked.                                  *)
LEMMA ForgeStep ==
    ASSUME Inv, NEW p \in Projects,
           \/ Review(p) \/ Webhook(p) \/ Fetched(p)
           \/ \E t \in Viewers : Propose(t, p) \/ ProposalOpened(t, p)
    PROVE  Inv'
<1> USE LaneAssumption
<1>0. TypeOK /\ PassOK /\ EventsKnown /\ FramesFollow
    BY DEF Inv
<1>1. TypeOK'
    <2>1. CASE Review(p)
        BY <1>0, <2>1 DEF TypeOK, Review, Spend, Budget, Lanes, laneVars, hubVars, watchVars, wakeVars
    <2>2. CASE Webhook(p)
        BY <1>0, <2>2 DEF TypeOK, Webhook, Nudged, hubVars, watchVars
    <2>3. CASE Fetched(p)
        BY <1>0, <2>3 DEF TypeOK, Fetched, watchVars
    <2>4. ASSUME NEW t \in Viewers, Propose(t, p) PROVE TypeOK'
        BY <1>0, <2>4 DEF TypeOK, Propose, Spend, Budget, Lanes, laneVars, hubVars, watchVars, wakeVars
    <2>5. ASSUME NEW t \in Viewers, ProposalOpened(t, p) PROVE TypeOK'
        BY <1>0, <2>5 DEF TypeOK, ProposalOpened, Nudged, hubVars
    <2> QED
        BY <2>1, <2>2, <2>3, <2>4, <2>5
<1>2. /\ UNCHANGED <<proposals, propSeen, pass, frame, toBuild>>
      /\ hubWake' = hubWake \/ hubWake' = TRUE
      /\ budget'.expiries = budget.expiries
      /\ propDirty \subseteq propDirty'
      /\ \/ version' = version
         \/ version' = [version EXCEPT ![p] = @ + 1]
    <2>1. budget' = budget \/ budget' = [budget EXCEPT !["moves"] = @ - 1]
        BY DEF Spend, Review, Webhook, Fetched, Propose, ProposalOpened
    <2>2. budget'.expiries = budget.expiries
        BY <1>0, <2>1 DEF TypeOK, Budget
    <2>3. hubWake' = hubWake \/ hubWake' = TRUE
        BY DEF Review, Webhook, Fetched, Propose, ProposalOpened, hubVars
    <2>4. /\ UNCHANGED <<proposals, propSeen, pass, frame, toBuild>>
          /\ propDirty \subseteq propDirty'
          /\ \/ version' = version
             \/ version' = [version EXCEPT ![p] = @ + 1]
        BY DEF Review, Webhook, Nudged, Fetched, Propose, ProposalOpened, laneVars, hubVars, wakeVars
    <2> QED
        BY <2>2, <2>3, <2>4
<1>3. /\ version \in [Projects -> Nat] /\ version' \in [Projects -> Nat]
      /\ \A q \in Projects : version[q] <= version'[q]
    BY <1>0, <1>1, <1>2 DEF TypeOK
<1>4. PassOK'
    <2>1. /\ pass \in Passes /\ pass.seen \in [Projects -> Versions]
          /\ pass.at = "asking" => pass.of \in Projects
        BY <1>0 DEF PassOK, Passes, TypeOK
    <2>2. ASSUME NEW q \in Projects, pass.seen[q] # None PROVE pass.seen[q] <= version'[q]
        BY <1>0, <1>3, <2>1, <2>2 DEF PassOK, Versions
    <2>3. pass.at = "asking" => pass.ver \in Nat /\ pass.ver <= version'[pass.of]
        BY <1>0, <1>3, <2>1 DEF PassOK
    <2>4. Resting' = Resting
        BY <1>2 DEF Resting
    <2> QED
        BY <1>0, <1>2, <2>1, <2>2, <2>3, <2>4 DEF PassOK
<1>5. EventsKnown'
    <2>1. \/ UNCHANGED <<asked, version>>
          \/ asked' = asked \ {p} /\ (p \in propDirty' \/ pass.seen[p] # version'[p])
        <3>1. CASE Fetched(p)
            <4>1. version'[p] = version[p] + 1
                BY <1>3, <3>1 DEF Fetched
            <4> QED
                BY <1>0, <1>3, <3>1, <4>1 DEF Fetched, PassOK, Passes, Versions
        <3> QED
            BY <3>1 DEF Review, Webhook, Propose, ProposalOpened, Nudged, laneVars, wakeVars
    <2> QED
        BY <1>0, <1>2, <1>3, <2>1 DEF EventsKnown
<1>6. FramesFollow'
    BY <1>0, <1>2 DEF FramesFollow, Tenants, Same
<1> QED
    BY <1>1, <1>4, <1>5, <1>6 DEF Inv

(* A watch lapses, or a lane expires, while the refresher rests.           *)
LEMMA TimeStep ==
    ASSUME Inv,
           (\E t \in Viewers : TargetAges(t)) \/ (\E p \in Projects : LaneExpires(p))
    PROVE  Inv'
<1> USE LaneAssumption
<1>0. TypeOK /\ PassOK /\ EventsKnown /\ FramesFollow
    BY DEF Inv
<1>1. ASSUME NEW t \in Viewers, TargetAges(t) PROVE Inv'
    <2>1. budget'.expiries = budget.expiries
        BY <1>0, <1>1 DEF TypeOK, TargetAges, Spend, Budget
    <2>2. TypeOK'
        BY <1>0, <1>1 DEF TypeOK, TargetAges, Spend, Budget, forgeVars, laneVars, hubVars, wakeVars
    <2>3. PassOK' /\ EventsKnown' /\ FramesFollow'
        BY <1>0, <1>1, <2>1 DEF PassOK, Resting, EventsKnown, FramesFollow, Tenants, Same, TargetAges,
                                forgeVars, laneVars, hubVars, wakeVars
    <2> QED
        BY <2>2, <2>3 DEF Inv
<1>2. ASSUME NEW p \in Projects, LaneExpires(p) PROVE Inv'
    <2>1. /\ UNCHANGED <<forgeVars, propSeen, pass, asked, hubVars, watchVars, wakeVars>>
          /\ proposals' = [proposals EXCEPT ![p] = None]
          /\ pass.at = "rest" /\ pass.seen = propSeen /\ propSeen[p] = None
        BY <1>0, <1>2 DEF LaneExpires, Quiet, PassOK, Resting
    <2>2. budget' \in Budget /\ budget'.expiries # MaxExpiries
        BY <1>0, <1>2 DEF TypeOK, LaneExpires, Spend, Budget
    <2>3. TypeOK'
        BY <1>0, <2>1, <2>2 DEF TypeOK, forgeVars, hubVars, watchVars, wakeVars
    <2>4. PassOK'
        BY <1>0, <2>1 DEF PassOK, Resting, wakeVars
    <2>5. EventsKnown'
        BY <1>0, <2>1 DEF TypeOK, EventsKnown, wakeVars
    <2>6. FramesFollow'
        BY <2>2 DEF FramesFollow
    <2> QED
        BY <2>3, <2>4, <2>5, <2>6 DEF Inv
<1> QED
    BY <1>1, <1>2

(* The hub takes its wake on for every viewer, and a build shows the lanes *)
(* as they are.                                                            *)
LEMMA HubStep ==
    ASSUME Inv, Hub
    PROVE  Inv'
<1> USE LaneAssumption
<1>0. TypeOK /\ PassOK /\ EventsKnown /\ FramesFollow
    BY DEF Inv
<1>1. CASE HubWakes
    <2>1. TypeOK'
        BY <1>0, <1>1 DEF TypeOK, HubWakes, forgeVars, laneVars, watchVars, wakeVars
    <2>2. PassOK' /\ EventsKnown' /\ FramesFollow'
        BY <1>0, <1>1 DEF PassOK, Resting, EventsKnown, FramesFollow, Tenants, Same, HubWakes,
                          forgeVars, laneVars, watchVars, wakeVars
    <2> QED
        BY <2>1, <2>2 DEF Inv
<1>2. ASSUME NEW t \in Viewers, Build(t) PROVE Inv'
    <2>0. PICK resolved \in {Sees[t], Sees[t] \ {Platform}} :
             LET watched == Tracked(t, resolved)
             IN  /\ t \in toBuild
                 /\ toBuild' = toBuild \ {t}
                 /\ propTargets' = [propTargets EXCEPT ![t] = watched]
                 /\ aged' = aged \ {t}
                 /\ frame' = [frame EXCEPT ![t] =
                                 [p \in Projects |-> IF p \in watched THEN proposals[p] ELSE None]]
                 /\ propNudge' = (propNudge \/ \E p \in watched : proposals[p] = None)
                 /\ UNCHANGED <<forgeVars, budget, laneVars, hubWake, version, gitWake, propDirty>>
        BY <1>2 DEF Build
    <2> DEFINE watched == Tracked(t, resolved)
               shown   == [p \in Projects |-> IF p \in watched THEN proposals[p] ELSE None]
    <2>1. watched \subseteq Projects /\ Tenants(t) \subseteq watched
        BY <1>0 DEF TypeOK, Tracked, Tenants
    <2>2. shown \in [Projects -> Lanes \union {None}]
        BY <1>0 DEF TypeOK
    <2>3. \A p \in Tenants(t) : shown[p] = proposals[p]
        BY <2>1
    <2>4. /\ toBuild' = toBuild \ {t} /\ propTargets' = [propTargets EXCEPT ![t] = watched]
          /\ aged' = aged \ {t} /\ frame' = [frame EXCEPT ![t] = shown]
          /\ UNCHANGED <<forgeVars, budget, laneVars, hubWake, version, gitWake, propDirty>>
        BY <2>0
    <2>5. propNudge' \in BOOLEAN
        BY <2>0
    <2> HIDE DEF watched, shown
    <2>6. TypeOK'
        <3>1. {gitWake, propNudge, hubWake}' \subseteq BOOLEAN
            BY <1>0, <2>4, <2>5 DEF TypeOK
        <3> QED
            BY <1>0, <2>1, <2>2, <2>4, <3>1 DEF TypeOK, forgeVars, laneVars
    <2>7. PassOK' /\ EventsKnown'
        BY <1>0, <2>4 DEF PassOK, Resting, EventsKnown, laneVars
    <2>8. FramesFollow'
        <3>1. frame'[t] = shown /\ \A u \in Viewers \ {t} : frame'[u] = frame[u]
            BY <1>0, <2>4 DEF TypeOK
        <3> QED
            BY <1>0, <2>3, <2>4, <3>1 DEF FramesFollow, Tenants, Same, laneVars
    <2> QED
        BY <2>6, <2>7, <2>8 DEF Inv
<1> QED
    BY <1>1, <1>2 DEF Hub

(* A pass takes over what was marked, and begins with no lane known.       *)
LEMMA BeginStep ==
    ASSUME Inv, OnGitChanged \/ OnNudge \/ OnTick
    PROVE  Inv'
<1> USE LaneAssumption
<1>0. TypeOK /\ PassOK /\ EventsKnown /\ FramesFollow
    BY DEF Inv
<1>1. PICK all \in BOOLEAN : Begin(all)
    BY DEF OnGitChanged, OnNudge, OnTick
<1> DEFINE live    == [t \in Viewers |-> IF t \in aged THEN {} ELSE propTargets[t]]
           watched == UNION {live[t] : t \in Viewers}
           seen    == [p \in Projects |-> IF p \in watched THEN propSeen[p] ELSE None]
<1>2. /\ pass.at = "rest" /\ pass = Resting
      /\ propTargets' = live /\ aged' = {} /\ propDirty' = {}
      /\ pass' = [pass EXCEPT !.at = "next", !.all = all, !.todo = watched,
                              !.dirty = propDirty, !.seen = seen]
      /\ UNCHANGED <<forgeVars, budget, proposals, propSeen, asked, hubVars, version>>
    BY <1>0, <1>1 DEF Begin, PassOK
<1>3. live \in [Viewers -> SUBSET Projects] /\ watched \subseteq Projects
    BY <1>0 DEF TypeOK
<1>4. seen \in [Projects -> Versions] /\ \A p \in Projects : seen[p] \in {None, pass.seen[p]}
    BY <1>0, <1>2 DEF TypeOK, Resting, Versions
<1>5. \A p \in Projects : p \notin watched => seen[p] = None
    OBVIOUS
<1> HIDE DEF live, watched, seen
<1>6. /\ pass'.at = "next" /\ pass'.all = all /\ pass'.todo = watched
      /\ pass'.dirty = propDirty /\ pass'.seen = seen /\ pass'.changed = pass.changed
      /\ pass' \in Passes
    BY <1>0, <1>2, <1>3, <1>4 DEF PassOK, Passes, TypeOK
<1>7. TypeOK'
    <2>1. {gitWake, propNudge, hubWake}' \subseteq BOOLEAN
        BY <1>0, <1>2 DEF TypeOK, OnGitChanged, OnNudge, OnTick, hubVars
    <2>2. \A p \in Projects : pass'.seen[p] # None => proposals'[p] # None
        BY <1>0, <1>2, <1>4, <1>6 DEF TypeOK
    <2> QED
        BY <1>0, <1>2, <1>3, <1>6, <2>1, <2>2 DEF TypeOK, forgeVars, hubVars
<1>8. PassOK'
    BY <1>0, <1>2, <1>4, <1>6 DEF PassOK
<1>9. EventsKnown'
    <2> SUFFICES ASSUME NEW p \in Projects, proposals[p] # None
                 PROVE  \/ p \in asked
                        \/ seen[p] # version[p]
                        \/ p \in watched \intersect propDirty
        BY <1>2, <1>6 DEF EventsKnown
    <2>1. version[p] \in Nat /\ pass.todo = {}
        BY <1>0, <1>2 DEF TypeOK, Resting
    <2> QED
        BY <1>0, <1>4, <1>5, <2>1 DEF EventsKnown
<1>10. FramesFollow'
    BY <1>0, <1>2, <1>6 DEF FramesFollow, Tenants, Same, hubVars
<1> QED
    BY <1>7, <1>8, <1>9, <1>10 DEF Inv

(* Only a lane that is known not to be due is passed over.                 *)
LEMMA SkipStep ==
    ASSUME Inv, NEW p \in Projects, Skip(p) \/ Look(p)
    PROVE  Inv'
<1> USE LaneAssumption
<1>0. TypeOK /\ PassOK /\ EventsKnown /\ FramesFollow
    BY DEF Inv
<1>1. /\ pass.at = "next" /\ p \in pass.todo /\ pass \in Passes
      /\ UNCHANGED <<forgeVars, budget, proposals, propSeen, asked, hubVars, watchVars, wakeVars>>
    BY <1>0 DEF Skip, Look, PassOK
<1>2. /\ pass' \in Passes /\ pass'.at \in {"next", "asking"}
      /\ pass'.seen = pass.seen /\ pass'.dirty = pass.dirty /\ pass'.changed = pass.changed
      /\ pass'.todo \in {pass.todo, pass.todo \ {p}}
    <2>1. version[p] \in Versions /\ proposals[p] \in Lanes \union {None}
        BY <1>0 DEF TypeOK, Versions
    <2>2. CASE Skip(p)
        BY <1>1, <2>2 DEF Skip, Passes
    <2>3. CASE Look(p)
        BY <1>1, <2>1, <2>3 DEF Look, Passes
    <2> QED
        BY <2>2, <2>3
<1>3. /\ pass'.todo # pass.todo => ~Due(p)
      /\ pass'.at = "asking" =>
            /\ pass'.of = p /\ pass'.of \in pass'.todo
            /\ pass'.ver = version[p] /\ pass'.prev = proposals[p]
    BY <1>0, <1>1 DEF Skip, Look, Passes
<1>4. TypeOK'
    <2>1. {gitWake, propNudge, hubWake}' \subseteq BOOLEAN
        BY <1>0, <1>1 DEF TypeOK, hubVars, wakeVars
    <2> QED
        BY <1>0, <1>1, <1>2, <1>3, <2>1 DEF TypeOK, forgeVars, hubVars, watchVars, wakeVars
<1>5. PassOK'
    BY <1>0, <1>1, <1>2, <1>3 DEF PassOK, TypeOK, wakeVars
<1>6. EventsKnown'
    BY <1>0, <1>1, <1>2, <1>3 DEF EventsKnown, Due, wakeVars
<1>7. FramesFollow'
    BY <1>0, <1>1, <1>2 DEF FramesFollow, Tenants, Same, hubVars
<1> QED
    BY <1>4, <1>5, <1>6, <1>7 DEF Inv

(* An answer is stamped with the version read before it was asked for, and *)
(* says whether it changed the lane; a failure leaves the lane and drops   *)
(* its stamp.                                                              *)
LEMMA AnswerStep ==
    ASSUME Inv, NEW p \in Projects, Ask(p) \/ AskFails(p)
    PROVE  Inv'
<1> USE LaneAssumption
<1>0. TypeOK /\ PassOK /\ EventsKnown /\ FramesFollow
    BY DEF Inv
<1>1. PICK seen \in {pass.ver, None}, changed \in BOOLEAN : Answered(p, seen, changed) /\
          \/ /\ seen = pass.ver /\ asked' = asked \union {p}
             /\ proposals' = [proposals EXCEPT ![p] = prs[p]]
             /\ changed = (IF pass.prev = None THEN prs[p] # 0 ELSE prs[p] # pass.prev)
             /\ UNCHANGED budget
          \/ /\ seen = None /\ UNCHANGED <<proposals, asked>> /\ Spend("faults")
    BY DEF Ask, AskFails
<1>2. /\ pass.at = "asking" /\ pass.of = p /\ pass \in Passes /\ pass.seen \in [Projects -> Versions]
      /\ pass.ver \in Nat /\ pass.ver <= version[p] /\ pass.prev = proposals[p]
      /\ UNCHANGED <<forgeVars, propSeen, hubVars, watchVars, wakeVars>>
    BY <1>0 DEF Ask, AskFails, PassOK, Passes
<1>3. /\ pass' \in Passes /\ pass'.at = "next" /\ pass'.todo = pass.todo \ {p}
      /\ pass'.dirty = pass.dirty /\ pass'.changed = (pass.changed \/ changed)
      /\ pass'.seen = [pass.seen EXCEPT ![p] = seen]
    <2>1. pass' = [pass EXCEPT !.at = "next", !.todo = @ \ {p}, !.of = None, !.ver = None,
                       !.prev = None, !.seen = [@ EXCEPT ![p] = seen], !.changed = @ \/ changed]
        BY <1>1 DEF Answered
    <2>2. seen \in Versions /\ changed \in BOOLEAN
        BY <1>1, <1>2 DEF Versions
    <2> DEFINE stamps == [pass.seen EXCEPT ![p] = seen]
    <2>3. stamps \in [Projects -> Versions]
        BY <1>2, <2>2
    <2> HIDE DEF stamps
    <2>4. pass' = [pass EXCEPT !.at = "next", !.todo = @ \ {p}, !.of = None, !.ver = None,
                       !.prev = None, !.seen = stamps, !.changed = @ \/ changed]
        BY <2>1 DEF stamps
    <2>5. /\ pass' \in Passes /\ pass'.at = "next" /\ pass'.todo = pass.todo \ {p}
          /\ pass'.dirty = pass.dirty /\ pass'.changed = (pass.changed \/ changed)
          /\ pass'.seen = stamps
        BY <1>2, <2>2, <2>3, <2>4 DEF Passes, Versions
    <2> QED
        BY <2>5 DEF stamps
<1>4. budget' \in Budget /\ budget'.expiries = budget.expiries
    BY <1>0, <1>1 DEF TypeOK, Spend, Budget
<1>5. /\ prs[p] \in Lanes /\ prs[p] # None
      /\ proposals' \in [Projects -> Lanes \union {None}]
      /\ \A q \in Projects \ {p} : proposals'[q] = proposals[q] /\ pass'.seen[q] = pass.seen[q]
      /\ pass'.seen[p] = seen
      /\ proposals'[p] # proposals[p] => seen = pass.ver
      /\ seen # None => proposals'[p] = prs[p]
    BY <1>0, <1>1, <1>2, <1>3 DEF TypeOK, Lanes
<1>6. TypeOK'
    <2>1. {gitWake, propNudge, hubWake}' \subseteq BOOLEAN
        BY <1>0, <1>2 DEF TypeOK, hubVars, wakeVars
    <2>2. \A q \in Projects : pass'.seen[q] # None => proposals'[q] # None
        BY <1>0, <1>5 DEF TypeOK
    <2> QED
        BY <1>0, <1>1, <1>2, <1>3, <1>4, <1>5, <2>1, <2>2
           DEF TypeOK, forgeVars, hubVars, watchVars, wakeVars
<1>7. PassOK'
    BY <1>0, <1>1, <1>2, <1>3, <1>5 DEF PassOK, TypeOK, wakeVars
<1>8. EventsKnown'
    <2>1. ASSUME NEW q \in Projects, q # p, proposals'[q] # None
          PROVE  q \in asked' \/ pass'.seen[q] # version'[q] \/ q \in propDirty'
                     \/ q \in pass'.todo \intersect pass'.dirty
        BY <1>0, <1>1, <1>2, <1>3, <1>5, <2>1 DEF EventsKnown, wakeVars
    <2>2. p \in asked' \/ pass'.seen[p] # version'[p]
        BY <1>0, <1>1, <1>2, <1>5 DEF TypeOK, wakeVars
    <2> QED
        BY <2>1, <2>2 DEF EventsKnown
<1>9. FramesFollow'
    <2> SUFFICES ASSUME budget.expiries = MaxExpiries, NEW t \in Viewers, NEW q \in Tenants(t)
                 PROVE  /\ proposals'[q] = None => frame[t][q] = None
                        /\ \/ proposals'[q] = None
                           \/ Same(frame[t][q], proposals'[q])
                           \/ hubWake \/ t \in toBuild \/ pass.changed \/ changed
        <3>1. /\ frame' = frame /\ hubWake' = hubWake /\ toBuild' = toBuild
              /\ pass'.changed = (pass.changed \/ changed) /\ budget'.expiries = budget.expiries
            BY <1>2, <1>3, <1>4 DEF hubVars
        <3> QED
            BY <3>1 DEF FramesFollow, Tenants, Same
    <2>1. /\ proposals[q] = None => frame[t][q] = None
          /\ \/ proposals[q] = None
             \/ Same(frame[t][q], proposals[q])
             \/ hubWake \/ t \in toBuild \/ pass.changed
        BY <1>0 DEF FramesFollow
    <2>2. q \in Projects
        BY DEF Tenants
    <2>3. CASE q # p
        BY <1>5, <2>1, <2>2, <2>3
    <2>4. CASE q = p
        <3>1. CASE proposals' = proposals
            BY <2>1, <3>1
        <3>2. CASE proposals' # proposals
            <4>1. /\ proposals'[p] = prs[p] /\ pass.prev = proposals[p]
                  /\ changed = (IF pass.prev = None THEN prs[p] # 0 ELSE prs[p] # pass.prev)
                BY <1>0, <1>1, <1>2, <3>2 DEF TypeOK
            <4> QED
                BY <1>5, <2>1, <2>4, <4>1 DEF Same
        <3> QED
            BY <3>1, <3>2
    <2> QED
        BY <2>3, <2>4
<1> QED
    BY <1>6, <1>7, <1>8, <1>9 DEF Inv

(* A pass that changed a lane wakes the hub when it ends.                  *)
LEMMA EndStep ==
    ASSUME Inv, End
    PROVE  Inv'
<1> USE LaneAssumption
<1>0. TypeOK /\ PassOK /\ EventsKnown /\ FramesFollow
    BY DEF Inv
<1>1. /\ pass.at = "next" /\ pass.todo = {} /\ pass \in Passes
      /\ propSeen' = pass.seen /\ hubWake' = (hubWake \/ pass.changed)
      /\ UNCHANGED <<forgeVars, budget, proposals, asked, toBuild, frame, watchVars, wakeVars>>
      /\ pass.seen \in [Projects -> Versions]
    BY <1>0 DEF End, PassOK, Passes
<1>2. pass' = Resting' /\ pass'.seen = pass.seen /\ pass'.at = "rest" /\ pass'.todo = {}
    BY DEF End, Resting
<1>3. pass' \in Passes
    BY <1>1, <1>2 DEF Passes, Resting, Versions
<1>4. TypeOK'
    <2>1. {gitWake, propNudge, hubWake}' \subseteq BOOLEAN
        BY <1>0, <1>1 DEF TypeOK, wakeVars
    <2> QED
        BY <1>0, <1>1, <1>2, <2>1 DEF TypeOK, Versions, forgeVars, watchVars, wakeVars
<1>5. PassOK'
    BY <1>0, <1>1, <1>2, <1>3 DEF PassOK, wakeVars
<1>6. EventsKnown'
    BY <1>0, <1>1, <1>2 DEF EventsKnown, wakeVars
<1>7. FramesFollow'
    BY <1>0, <1>1 DEF FramesFollow, Tenants, Same
<1> QED
    BY <1>4, <1>5, <1>6, <1>7 DEF Inv

--------------------------------------------------------------------------------
LEMMA NextInv == Inv /\ [Next]_vars => Inv'
<1> SUFFICES ASSUME Inv, [Next]_vars PROVE Inv'
    OBVIOUS
<1>1. CASE UNCHANGED vars
    <2>1. /\ UNCHANGED <<prs, moved, hooks, opening, budget, version, propDirty, propTargets, aged>>
          /\ UNCHANGED <<proposals, propSeen, pass, toBuild, frame, asked>>
          /\ UNCHANGED <<gitWake, propNudge, hubWake>>
        BY <1>1 DEF vars, forgeVars, laneVars, hubVars, watchVars, wakeVars
    <2> QED
        BY <2>1 DEF Inv, TypeOK, PassOK, Resting, EventsKnown, FramesFollow, Tenants, Same
<1>2. CASE Next
    BY <1>2, ForgeStep, TimeStep, HubStep, BeginStep, SkipStep, AnswerStep, EndStep
       DEF Next, Refresher
<1> QED
    BY <1>1, <1>2

(* The cached lanes, their stamps, the watches, the marks, the pass and    *)
(* the frames have the types that proposals.go declares.                   *)
THEOREM LaneTypes == Spec => []TypeOK
<1>1. Inv => TypeOK
    BY DEF Inv
<1> QED
    BY <1>1, InitInv, NextInv, PTL DEF Spec

(* Once the refresher has nothing left to do, every event about a cached   *)
(* project has been put to the forge, or its lane is known to be due: the  *)
(* version a lane is stamped with was read before the forge was asked, and *)
(* a mark that arrives during a pass is the next one's.                    *)
THEOREM NoLaneStale == Spec => []LaneOrDue
<1>1. Inv => LaneOrDue
    BY DEF Inv, PassOK, Resting, EventsKnown, LaneOrDue, Quiet
<1> QED
    BY <1>1, InitInv, NextInv, PTL DEF Spec

(* As long as no lane has expired, what every viewer was last sent is what *)
(* the cache holds, whenever the refresher and the hub are at rest:        *)
(* refreshProposals reports each change that a frame could show.           *)
THEOREM FramesShowLanes == Spec => []FrameShowsLane
<1>1. Inv => FrameShowsLane
    <2> SUFFICES ASSUME Inv, budget.expiries = MaxExpiries, Quiet, ~hubWake, toBuild = {},
                        NEW t \in Viewers, NEW p \in Tenants(t), proposals[p] # None
                 PROVE  frame[t][p] = proposals[p] \/ {frame[t][p], proposals[p]} = {None, 0}
        BY DEF FrameShowsLane
    <2>1. pass.changed = FALSE
        BY DEF Inv, PassOK, Resting, Quiet
    <2> QED
        BY <2>1 DEF Inv, FramesFollow, Same
<1> QED
    BY <1>1, InitInv, NextInv, PTL DEF Spec
================================================================================
