-------------------------------- MODULE RepoSet --------------------------------
(***************************************************************************)
(* internal/git/repset.go, for one repository: the table of open mirrors,  *)
(* the shared open, the back-off after a failed one, and the poll          *)
(* goroutine that fetches, announces head moves and evicts.  Repositories  *)
(* share nothing but RepoSet.mu, which is never held across a call.        *)
(*                                                                         *)
(* The remote is a head, or absent; dotvirt itself may create it.          *)
(***************************************************************************)
EXTENDS Naturals, FiniteSets

CONSTANTS Callers,   \* Gets that may run at once
          Pairs,     \* mirrors; a dropped one stands for a later one
          Absent,    \* the forge has no such repository
          None,
          MaxHead,   \* bound: pushes to the remote
          MaxFaults, \* bound: failed network calls
          MaxLapses  \* bound: times a back-off is cut short or over, or a mirror idle

Heads == 0..MaxHead

ASSUME RepoSetAssumption ==
    /\ {MaxHead, MaxFaults, MaxLapses} \subseteq Nat
    /\ Absent \notin Heads
    /\ None \notin Heads \union Pairs \union Callers

VARIABLES remote,    \* the forge's repository
          faults,    \* network failures still to come
          lapses,    \* such times still to come
          get,       \* where each Get is
          opening,   \* the Get whose open the others wait for
          cloned,    \* what that open brought back
          failed,    \* RepoSet.failed: "no", or the back-off is "on"
          cached,    \* RepoSet.cache
          mirror,    \* the head each mirror holds, from the clone or last fetch
          poll,      \* where each poll goroutine is
          poke,      \* repoPair.poke
          lastSig,   \* the signature each poll announced last
          used,      \* repoPair.used: "recent" or "idle"
          announced, \* history: the head of the last GitChanged
          created    \* has dotvirt "made" the repository, and "told" the set

netVars   == <<remote, faults, lapses>>
getVars   == <<get, opening, cloned, failed>>
tableVars == <<cached, used>>
pollVars  == <<mirror, poll, poke, lastSig, announced>>
vars      == <<netVars, getVars, tableVars, pollVars, created>>

Live(p) == poll[p] \in {"wait", "check", "fetched", "evict"}

TypeOK ==
    /\ remote \in Heads \union {Absent}
    /\ faults \in 0..MaxFaults
    /\ lapses \in 0..MaxLapses
    /\ get \in [Callers -> {"idle", "look", "waiting", "opening", "opened"}]
    /\ opening \in Callers \union {None}
    /\ cloned \in Heads \union {None}
    /\ failed \in {"no", "on"}
    /\ cached \in Pairs \union {None}
    /\ mirror \in [Pairs -> Heads \union {None}]
    /\ poll \in [Pairs -> {"none", "wait", "check", "fetched", "evict"}]
    /\ poke \subseteq Pairs
    /\ lastSig \in [Pairs -> Heads \union {None}]
    /\ used \in [Pairs -> {"recent", "idle"}]
    /\ announced \in Heads \union {None}
    /\ created \in {"no", "made", "told"}

Init ==
    /\ remote \in {0, Absent}
    /\ faults = MaxFaults
    /\ lapses = MaxLapses
    /\ get = [g \in Callers |-> "idle"]
    /\ opening = None
    /\ cloned = None
    /\ failed = "no"
    /\ cached = None
    /\ mirror = [p \in Pairs |-> None]
    /\ poll = [p \in Pairs |-> "none"]
    /\ poke = {}
    /\ lastSig = [p \in Pairs |-> None]
    /\ used = [p \in Pairs |-> "recent"]
    /\ announced = None
    /\ created = "no"

--------------------------------------------------------------------------------
(* The forge, and time.                                                    *)

Push ==
    /\ remote \in 0..(MaxHead - 1)
    /\ remote' = remote + 1
    /\ UNCHANGED <<faults, lapses, getVars, tableVars, pollVars, created>>

Delete ==
    /\ remote # Absent
    /\ remote' = Absent
    /\ UNCHANGED <<faults, lapses, getVars, tableVars, pollVars, created>>

(* ensureTenantRepo: the forge makes it, then Created forgets the failure. *)
Create ==
    /\ remote = Absent
    /\ created = "no"
    /\ remote' = MaxHead
    /\ created' = "made"
    /\ UNCHANGED <<faults, lapses, getVars, tableVars, pollVars>>

Created ==
    /\ created = "made"
    /\ created' = "told"
    /\ failed' = "no"
    /\ UNCHANGED <<netVars, get, opening, cloned, tableVars, pollVars>>

(* openBackoff has passed. *)
BackoffEnds ==
    /\ failed = "on"
    /\ lapses > 0
    /\ lapses' = lapses - 1
    /\ failed' = "no"
    /\ UNCHANGED <<remote, faults, get, opening, cloned, tableVars, pollVars, created>>

(* idleTimeout has passed since the last Get. *)
GoesIdle ==
    /\ cached # None
    /\ lapses > 0
    /\ lapses' = lapses - 1
    /\ used' = [used EXCEPT ![cached] = "idle"]
    /\ UNCHANGED <<remote, faults, getVars, cached, pollVars, created>>

--------------------------------------------------------------------------------
(* Get. *)

Call(g) ==
    /\ get[g] = "idle"
    /\ get' = [get EXCEPT ![g] = "look"]
    /\ UNCHANGED <<netVars, opening, cloned, failed, tableVars, pollVars, created>>

Return(g) ==
    /\ get' = [get EXCEPT ![g] = "idle"]

(* The loop's body, under the lock. *)
Hit(g) ==
    /\ get[g] = "look"
    /\ cached # None
    /\ used' = [used EXCEPT ![cached] = "recent"]
    /\ Return(g)
    /\ UNCHANGED <<netVars, opening, cloned, failed, cached, pollVars, created>>

Refused(g) ==
    /\ get[g] = "look"
    /\ cached = None
    /\ failed = "on"
    /\ Return(g)
    /\ UNCHANGED <<netVars, opening, cloned, failed, tableVars, pollVars, created>>

WaitForOpen(g) ==
    /\ get[g] = "look"
    /\ cached = None /\ failed = "no"
    /\ opening # None
    /\ get' = [get EXCEPT ![g] = "waiting"]
    /\ UNCHANGED <<netVars, opening, cloned, failed, tableVars, pollVars, created>>

\* Mutation: a Get that finds another one opening opens as well.
OpenAnyway(g) ==
    /\ get[g] = "look"
    /\ cached = None /\ failed = "no"
    /\ opening' = g
    /\ get' = [get EXCEPT ![g] = "opening"]
    /\ UNCHANGED <<netVars, cloned, failed, tableVars, pollVars, created>>

BeginOpen(g) ==
    /\ get[g] = "look"
    /\ cached = None /\ failed = "no"
    /\ opening = None
    /\ opening' = g
    /\ get' = [get EXCEPT ![g] = "opening"]
    /\ UNCHANGED <<netVars, cloned, failed, tableVars, pollVars, created>>

(* s.open, outside the lock: the mirror clone. *)
Clone(g) ==
    /\ get[g] = "opening"
    /\ get' = [get EXCEPT ![g] = "opened"]
    /\ \/ cloned' = (IF remote = Absent THEN None ELSE remote) /\ UNCHANGED faults
       \/ faults > 0 /\ faults' = faults - 1 /\ cloned' = None
    /\ UNCHANGED <<remote, lapses, opening, failed, tableVars, pollVars, created>>

(* close(done): those who waited look again. *)
Released(g) ==
    /\ opening' = None
    /\ cloned' = None
    /\ get' = [h \in Callers |-> IF h = g THEN "idle"
                                ELSE IF get[h] = "waiting" THEN "look" ELSE get[h]]

\* Mutation: the error return leaves the others waiting.
FailsHoldingOpen(g) ==
    /\ get[g] = "opened"
    /\ cloned = None
    /\ failed' = "on"
    /\ opening' = None
    /\ Return(g)
    /\ UNCHANGED <<netVars, cloned, tableVars, pollVars, created>>

OpenFails(g) ==
    /\ get[g] = "opened"
    /\ cloned = None
    /\ Released(g)
    /\ failed' = "on"
    /\ UNCHANGED <<netVars, tableVars, pollVars, created>>

OpenSucceeds(g, p) ==
    /\ get[g] = "opened"
    /\ cloned # None
    /\ poll[p] = "none"
    /\ Released(g)
    /\ failed' = "no"
    /\ cached' = p
    /\ used' = [used EXCEPT ![p] = "recent"]
    /\ mirror' = [mirror EXCEPT ![p] = cloned]
    /\ poll' = [poll EXCEPT ![p] = "wait"]
    /\ lastSig' = [lastSig EXCEPT ![p] = None]
    /\ poke' = poke \ {p}
    /\ UNCHANGED <<netVars, announced, created>>

--------------------------------------------------------------------------------
(* Poke, from a webhook of the repository, perhaps a late one, or after a  *)
(* proposal to it.                                                         *)

Poke ==
    /\ \/ failed = "no" /\ UNCHANGED lapses
       \/ failed = "on" /\ lapses > 0 /\ lapses' = lapses - 1
    /\ failed' = "no"
    /\ poke' = IF cached = None THEN poke ELSE poke \union {cached}
    /\ UNCHANGED <<remote, faults, get, opening, cloned, tableVars, mirror, poll, lastSig,
                   announced, created>>

--------------------------------------------------------------------------------
(* poll, the goroutine of pair p. *)

PollStep(p, from, to) ==
    /\ poll[p] = from
    /\ poll' = [poll EXCEPT ![p] = to]

Tick(p) ==
    /\ PollStep(p, "wait", IF used[p] = "idle" THEN "evict" ELSE "check")
    /\ UNCHANGED <<netVars, getVars, tableVars, mirror, poke, lastSig, announced, created>>

Poked(p) ==
    /\ p \in poke
    /\ poke' = poke \ {p}
    /\ PollStep(p, "wait", "check")
    /\ UNCHANGED <<netVars, getVars, tableVars, mirror, lastSig, announced, created>>

\* Mutation: a repository that is gone is read as one without heads.
FetchAnything(p) ==
    /\ PollStep(p, "check", "fetched")
    /\ mirror' = [mirror EXCEPT ![p] = remote]
    /\ UNCHANGED <<netVars, getVars, tableVars, poke, lastSig, announced, created>>

(* headsSignature: the fetch. *)
Fetch(p) ==
    /\ remote # Absent
    /\ PollStep(p, "check", "fetched")
    /\ mirror' = [mirror EXCEPT ![p] = remote]
    /\ UNCHANGED <<netVars, getVars, tableVars, poke, lastSig, announced, created>>

\* Mutation: the goroutine ends at the first failed fetch.
FaultEndsPoll(p) ==
    /\ faults > 0
    /\ faults' = faults - 1
    /\ PollStep(p, "check", "none")
    /\ UNCHANGED <<remote, lapses, getVars, tableVars, mirror, poke, lastSig, announced, created>>

FetchFails(p) ==
    /\ faults > 0
    /\ faults' = faults - 1
    /\ PollStep(p, "check", "wait")
    /\ UNCHANGED <<remote, lapses, getVars, tableVars, mirror, poke, lastSig, announced, created>>

RepoGone(p) ==
    /\ remote = Absent
    /\ PollStep(p, "check", "evict")
    /\ UNCHANGED <<netVars, getVars, tableVars, mirror, poke, lastSig, announced, created>>

\* Mutation: the poll starts from the cloned head and stays silent about it.
AnnounceLater(p) ==
    /\ PollStep(p, "fetched", "wait")
    /\ lastSig' = [lastSig EXCEPT ![p] = mirror[p]]
    /\ announced' = IF lastSig[p] \in {None, mirror[p]} THEN announced ELSE mirror[p]
    /\ UNCHANGED <<netVars, getVars, tableVars, mirror, poke, created>>

Announce(p) ==
    /\ PollStep(p, "fetched", "wait")
    /\ lastSig' = [lastSig EXCEPT ![p] = mirror[p]]
    /\ announced' = IF lastSig[p] = mirror[p] THEN announced ELSE mirror[p]
    /\ UNCHANGED <<netVars, getVars, tableVars, mirror, poke, created>>

\* Mutation: the goroutine ends and leaves its entry.
EndOnly(p) ==
    /\ PollStep(p, "evict", "none")
    /\ UNCHANGED <<netVars, getVars, tableVars, mirror, poke, lastSig, announced, created>>

Evict(p) ==
    /\ PollStep(p, "evict", "none")
    /\ cached' = IF cached = p THEN None ELSE cached
    /\ UNCHANGED <<netVars, getVars, used, mirror, poke, lastSig, announced, created>>

--------------------------------------------------------------------------------
GetStep(g) ==
    \/ Hit(g) \/ Refused(g) \/ WaitForOpen(g) \/ BeginOpen(g) \/ Clone(g) \/ OpenFails(g)
    \/ \E p \in Pairs : OpenSucceeds(g, p)

PollNext(p) ==
    \/ Tick(p) \/ Poked(p) \/ Fetch(p) \/ FetchFails(p) \/ RepoGone(p) \/ Announce(p) \/ Evict(p)

Next ==
    \/ Push \/ Delete \/ Create \/ Created \/ BackoffEnds \/ GoesIdle \/ Poke
    \/ \E g \in Callers : Call(g) \/ GetStep(g)
    \/ \E p \in Pairs : PollNext(p)

Spec == Init /\ [][Next]_vars

(* A Get goes on by itself, the clone being bounded by its time-out; the   *)
(* ticker fires for as long as the goroutine lives.                        *)
FairSpec ==
    /\ Spec
    /\ \A g \in Callers : WF_vars(GetStep(g))
    /\ \A p \in Pairs : WF_vars(PollNext(p))

--------------------------------------------------------------------------------
(* The cached mirror is polled and no other one is: no open pair is left   *)
(* to go stale, and no goroutine fetches for a pair nobody can get.        *)
OnePollPerMirror ==
    \A p \in Pairs : Live(p) <=> cached = p

(* However many callers ask, one clone runs at a time (repset.go:45), the  *)
(* one the others wait for, and none while a mirror is cached.             *)
OneOpen ==
    /\ Cardinality({g \in Callers : get[g] \in {"opening", "opened"}}) <= 1
    /\ \A g \in Callers : get[g] \in {"opening", "opened"} <=> opening = g
    /\ opening # None => cached = None

(* Goroutines of a kind exclude each other, whatever else runs.            *)
OneAtATime == OneOpen /\ OnePollPerMirror

(* A mirror's content is announced: whenever its poll waits, the mirror    *)
(* holds either what the last GitChanged was about or what it was cloned   *)
(* with, in which case the first check is still to announce it.            *)
MirrorAnnounced ==
    \A p \in Pairs : poll[p] = "wait" /\ lastSig[p] # None =>
        lastSig[p] = mirror[p] /\ announced = mirror[p]

(* Every Get returns, whatever happens to the open it waits for.           *)
GetReturns == \A g \in Callers : get[g] # "idle" ~> get[g] = "idle"

(* A push to a repository that stays open is announced, webhook or not.    *)
PushSeen ==
    \A h \in Heads : remote = h /\ cached # None
        ~> announced = h \/ remote # h \/ cached = None
================================================================================
