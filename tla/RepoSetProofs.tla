----------------------------- MODULE RepoSetProofs -----------------------------
(***************************************************************************)
(* The three invariants of RepoSet for every set of callers and mirrors    *)
(* and every bound.  Together with TypeOK they are inductive as they are   *)
(* once MirrorAnnounced is told what holds between a fetch and its         *)
(* announcement (SignatureKnown).                                          *)
(***************************************************************************)
EXTENDS RepoSet, FiniteSetTheorems, TLAPS

(* The open under way belongs to the caller the others wait for.           *)
OpenerKnown ==
    /\ \A g \in Callers : get[g] \in {"opening", "opened"} <=> opening = g
    /\ opening # None => cached = None

(* What a living poll announced last is the last announcement there was,   *)
(* and unless it has just fetched it is what the mirror holds.             *)
SignatureKnown ==
    \A p \in Pairs : Live(p) /\ lastSig[p] # None =>
        /\ announced = lastSig[p]
        /\ poll[p] # "fetched" => lastSig[p] = mirror[p]

Inv == TypeOK /\ OpenerKnown /\ OnePollPerMirror /\ SignatureKnown

--------------------------------------------------------------------------------
(* The initial table is empty: no mirror, no poll, no open.                *)
LEMMA InitInv == Init => Inv
<1> SUFFICES ASSUME Init PROVE Inv
    OBVIOUS
<1> USE DEF Init
<1>1. TypeOK
    BY RepoSetAssumption DEF TypeOK, Heads
<1>2. OpenerKnown
    BY RepoSetAssumption DEF OpenerKnown
<1>3. OnePollPerMirror /\ SignatureKnown
    BY RepoSetAssumption DEF OnePollPerMirror, SignatureKnown, Live
<1> QED
    BY <1>1, <1>2, <1>3 DEF Inv

(* The steps of the forge and of time leave the table's shape alone.       *)
LEMMA WorldStep ==
    ASSUME Inv, Push \/ Delete \/ Create \/ Created \/ BackoffEnds \/ GoesIdle \/ Poke
    PROVE  Inv'
<1> USE RepoSetAssumption
        DEF Push, Delete, Create, Created, BackoffEnds, GoesIdle, Poke, netVars, getVars,
            tableVars, pollVars
<1>1. TypeOK'
    BY DEF Inv, TypeOK, Heads
<1>2. OpenerKnown'
    BY DEF Inv, OpenerKnown
<1>3. OnePollPerMirror' /\ SignatureKnown'
    BY DEF Inv, OnePollPerMirror, SignatureKnown, Live
<1> QED
    BY <1>1, <1>2, <1>3 DEF Inv

(* A Get begins, or takes a step of its loop or its open.                  *)
LEMMA CallerStep ==
    ASSUME Inv, NEW g \in Callers, Call(g) \/ GetStep(g)
    PROVE  Inv'
<1> USE RepoSetAssumption DEF netVars, getVars, tableVars, pollVars, Return, Released
<1>1. CASE Call(g) \/ Hit(g) \/ Refused(g) \/ WaitForOpen(g) \/ BeginOpen(g) \/ Clone(g)
    <2> USE <1>1 DEF Call, Hit, Refused, WaitForOpen, BeginOpen, Clone
    <2>1. TypeOK'
        BY DEF Inv, TypeOK, Heads
    <2>2. OpenerKnown'
        BY DEF Inv, OpenerKnown, TypeOK
    <2>3. OnePollPerMirror' /\ SignatureKnown'
        BY DEF Inv, OnePollPerMirror, SignatureKnown, Live
    <2> QED
        BY <2>1, <2>2, <2>3 DEF Inv
<1>2. CASE OpenFails(g)
    <2> USE <1>2 DEF OpenFails
    <2>1. TypeOK'
        BY DEF Inv, TypeOK, Heads
    <2>2. OpenerKnown'
        BY DEF Inv, OpenerKnown, TypeOK
    <2>3. OnePollPerMirror' /\ SignatureKnown'
        BY DEF Inv, OnePollPerMirror, SignatureKnown, Live
    <2> QED
        BY <2>1, <2>2, <2>3 DEF Inv
<1>3. ASSUME NEW p \in Pairs, OpenSucceeds(g, p) PROVE Inv'
    <2> USE <1>3 DEF OpenSucceeds
    <2>1. opening = g /\ cached = None
        BY DEF Inv, OpenerKnown
    <2>2. TypeOK'
        BY DEF Inv, TypeOK, Heads
    <2>3. OpenerKnown'
        BY <2>1 DEF Inv, OpenerKnown, TypeOK
    <2>4. OnePollPerMirror'
        BY <2>1 DEF Inv, OnePollPerMirror, Live, TypeOK
    <2>5. SignatureKnown'
        BY <2>1 DEF Inv, OnePollPerMirror, SignatureKnown, Live, TypeOK
    <2> QED
        BY <2>2, <2>3, <2>4, <2>5 DEF Inv
<1> QED
    BY <1>1, <1>2, <1>3 DEF GetStep

(* A poll goroutine's step.  The announcement is the only one that could   *)
(* disturb another mirror, and there is no other one.                      *)
LEMMA PollStepInv ==
    ASSUME Inv, NEW p \in Pairs, PollNext(p)
    PROVE  Inv'
<1> USE RepoSetAssumption DEF netVars, getVars, tableVars, pollVars, PollStep
<1>1. CASE Tick(p) \/ Poked(p) \/ FetchFails(p) \/ RepoGone(p)
    <2> USE <1>1 DEF Tick, Poked, FetchFails, RepoGone
    <2>1. TypeOK'
        BY DEF Inv, TypeOK, Heads
    <2>2. OpenerKnown'
        BY DEF Inv, OpenerKnown
    <2>3. OnePollPerMirror'
        BY DEF Inv, OnePollPerMirror, Live, TypeOK
    <2>4. SignatureKnown'
        BY DEF Inv, SignatureKnown, Live, TypeOK
    <2> QED
        BY <2>1, <2>2, <2>3, <2>4 DEF Inv
<1>2. CASE Fetch(p)
    <2> USE <1>2 DEF Fetch
    <2>1. TypeOK'
        BY DEF Inv, TypeOK, Heads
    <2>2. OpenerKnown'
        BY DEF Inv, OpenerKnown
    <2>3. OnePollPerMirror'
        BY DEF Inv, OnePollPerMirror, Live, TypeOK
    <2>4. SignatureKnown'
        BY DEF Inv, SignatureKnown, Live, TypeOK
    <2> QED
        BY <2>1, <2>2, <2>3, <2>4 DEF Inv
<1>3. CASE Announce(p)
    <2> USE <1>3 DEF Announce
    <2>1. cached = p
        BY DEF Inv, OnePollPerMirror, Live
    <2>2. TypeOK'
        BY DEF Inv, TypeOK, Heads
    <2>3. OpenerKnown'
        BY DEF Inv, OpenerKnown
    <2>4. OnePollPerMirror'
        BY DEF Inv, OnePollPerMirror, Live, TypeOK
    <2>5. SignatureKnown'
        BY <2>1 DEF Inv, OnePollPerMirror, SignatureKnown, Live, TypeOK
    <2> QED
        BY <2>2, <2>3, <2>4, <2>5 DEF Inv
<1>4. CASE Evict(p)
    <2> USE <1>4 DEF Evict
    <2>1. cached = p /\ opening = None
        BY DEF Inv, OnePollPerMirror, OpenerKnown, Live, TypeOK
    <2>2. TypeOK'
        BY DEF Inv, TypeOK, Heads
    <2>3. OpenerKnown'
        BY <2>1 DEF Inv, OpenerKnown
    <2>4. OnePollPerMirror'
        BY <2>1 DEF Inv, OnePollPerMirror, Live, TypeOK
    <2>5. SignatureKnown'
        BY <2>1 DEF Inv, OnePollPerMirror, SignatureKnown, Live, TypeOK
    <2> QED
        BY <2>2, <2>3, <2>4, <2>5 DEF Inv
<1> QED
    BY <1>1, <1>2, <1>3, <1>4 DEF PollNext

(* Inv is inductive.                                                       *)
LEMMA NextInv == Inv /\ [Next]_vars => Inv'
<1> SUFFICES ASSUME Inv, [Next]_vars PROVE Inv'
    OBVIOUS
<1>1. CASE UNCHANGED vars
    BY <1>1 DEF Inv, TypeOK, OpenerKnown, OnePollPerMirror, SignatureKnown, Live, vars,
                netVars, getVars, tableVars, pollVars
<1>2. CASE Next
    BY <1>2, WorldStep, CallerStep, PollStepInv DEF Next
<1> QED
    BY <1>1, <1>2

LEMMA SpecInv == Spec => []Inv
    BY InitInv, NextInv, PTL DEF Spec

(* Every reachable table is well formed (RepoSet's maps, the poll          *)
(* goroutines and the mirrors).                                            *)
THEOREM RepoSetTypes == Spec => []TypeOK
<1>1. Inv => TypeOK
    BY DEF Inv
<1> QED
    BY <1>1, SpecInv, PTL

(* Of every number of concurrent Gets at most one runs the clone           *)
(* (RepoSet.opening), and none does while the mirror is cached.            *)
THEOREM SingleFlight == Spec => []OneOpen
<1>1. Inv => OneOpen
    <2> SUFFICES ASSUME Inv PROVE OneOpen
        OBVIOUS
    <2> DEFINE Openers == {g \in Callers : get[g] \in {"opening", "opened"}}
    <2>1. Openers \subseteq {opening}
        BY DEF Inv, OpenerKnown
    <2>2. IsFiniteSet({opening}) /\ Cardinality({opening}) = 1
        BY FS_Singleton
    <2>3. IsFiniteSet(Openers) /\ Cardinality(Openers) \in Nat /\ Cardinality(Openers) <= 1
        BY <2>1, <2>2, FS_Subset, FS_CardinalityType
    <2> QED
        BY <2>3 DEF Inv, OpenerKnown, OneOpen
<1> QED
    BY <1>1, SpecInv, PTL

(* No cached mirror is ever without a poll goroutine, and no goroutine     *)
(* outlives its entry (RepoSet.poll, RepoSet.evict).                       *)
THEOREM PollPerMirror == Spec => []OnePollPerMirror
<1>1. Inv => OnePollPerMirror
    BY DEF Inv
<1> QED
    BY <1>1, SpecInv, PTL

(* One clone at a time, and one poll for the mirror that is cached         *)
(* (RepoSet.opening, RepoSet.poll).                                        *)
THEOREM OpenAndPollExclude == Spec => []OneAtATime
<1>1. OneOpen /\ OnePollPerMirror => OneAtATime
    BY DEF OneAtATime
<1> QED
    BY <1>1, SingleFlight, PollPerMirror, PTL

(* What a waiting poll's mirror holds has been announced (GitChanged),     *)
(* the clone excepted.                                                     *)
THEOREM ContentAnnounced == Spec => []MirrorAnnounced
<1>1. Inv => MirrorAnnounced
    BY DEF Inv, SignatureKnown, MirrorAnnounced, Live
<1> QED
    BY <1>1, SpecInv, PTL
================================================================================
