------------------------------ MODULE DraftStore ------------------------------
(***************************************************************************)
(* internal/draft/draft.go: the disk-persisted drafts, one per (user,      *)
(* project) pair.  Every method holds Store.mu from its first line to its  *)
(* return, so a method is one action; what can go wrong inside it is the   *)
(* disk, and the process dying between two methods.                        *)
(*                                                                         *)
(* An absent file and an empty draft are one value: persistLocked removes  *)
(* the file of an emptied draft and loadLocked reads a missing one as      *)
(* empty.  A write goes to a temporary file renamed into place, so a file  *)
(* holds a whole draft; one that does not parse can only be found at       *)
(* start, and so can a create without a manifest (an older version's).     *)
(***************************************************************************)
EXTENDS Naturals

CONSTANTS Pairs,         \* the (user, project) pairs
          Keys,          \* entry keys (resource + namespace/name)
          Payloads,      \* what an entry holds: kind, file, edit or manifest
          StaleCreates,  \* the payloads that are creates without a manifest
          None,          \* no entry under a key
          NotLoaded,     \* a pair whose draft is not in memory
          Corrupt,       \* a file that does not parse
          MaxFaults      \* bound: disk operations that fail in a behaviour

Drafts == [Keys -> Payloads \union {None}]
Files  == Drafts \union {Corrupt}
Empty  == [k \in Keys |-> None]

ASSUME StoreAssumption ==
    /\ StaleCreates \subseteq Payloads
    /\ None \notin Payloads
    /\ NotLoaded \notin Drafts
    /\ Corrupt \notin Drafts
    /\ MaxFaults \in Nat

VARIABLES mem,     \* Store.drafts
          disk,    \* the files under Store.dir
          ahead,   \* history: pairs whose memory holds a write the disk refused
          faults   \* failures still to come

storeVars == <<mem, disk, ahead, faults>>

StoreTypeOK ==
    /\ mem \in [Pairs -> Drafts \union {NotLoaded}]
    /\ disk \in [Pairs -> Files]
    /\ ahead \subseteq Pairs
    /\ faults \in 0..MaxFaults

(* What loadLocked makes of a file. *)
Parsed(f) ==
    IF f = Corrupt THEN Empty
    ELSE [k \in Keys |-> IF f[k] \in StaleCreates THEN None ELSE f[k]]

(* The draft a method works on once loadLocked has run. *)
Visible(p) == IF mem[p] = NotLoaded THEN Parsed(disk[p]) ELSE mem[p]

(* loadLocked moves a corrupt file aside the one time it reads it. *)
Quarantined(p) == IF mem[p] = NotLoaded /\ disk[p] = Corrupt THEN Empty ELSE disk[p]

StoreInit ==
    /\ mem = [p \in Pairs |-> NotLoaded]
    /\ disk \in [Pairs -> Files]
    /\ ahead = {}
    /\ faults = MaxFaults

Fault == faults > 0 /\ faults' = faults - 1

(* The read of the file, or the quarantine of a corrupt one, fails: the    *)
(* method returns before it changed anything.                              *)
LoadFails(p) ==
    /\ mem[p] = NotLoaded
    /\ Fault
    /\ UNCHANGED <<mem, disk, ahead>>

(* persistLocked on the map the method has already changed in memory. *)
Persisted(p, d) ==
    /\ mem' = [mem EXCEPT ![p] = d]
    /\ disk' = [disk EXCEPT ![p] = d]
    /\ ahead' = ahead \ {p}
    /\ UNCHANGED faults

PersistFails(p, d) ==
    /\ mem' = [mem EXCEPT ![p] = d]
    /\ disk' = [disk EXCEPT ![p] = Quarantined(p)]
    /\ ahead' = ahead \union {p}
    /\ Fault

\* Mutation: only the staged entry is written.
StageAlone(p, k, e) ==
    /\ mem' = [mem EXCEPT ![p] = [Visible(p) EXCEPT ![k] = e]]
    /\ disk' = [disk EXCEPT ![p] = [Empty EXCEPT ![k] = e]]
    /\ ahead' = ahead \ {p}
    /\ UNCHANGED faults

StageOK(p, k, e)    == Persisted(p, [Visible(p) EXCEPT ![k] = e])
StageFails(p, k, e) == PersistFails(p, [Visible(p) EXCEPT ![k] = e])
UnstageOK(p, k)     == Persisted(p, [Visible(p) EXCEPT ![k] = None])
UnstageFails(p, k)  == PersistFails(p, [Visible(p) EXCEPT ![k] = None])

\* Mutation: the file goes, the draft in memory stays.
ClearFileOnly(p) ==
    /\ disk' = [disk EXCEPT ![p] = Empty]
    /\ ahead' = ahead \ {p}
    /\ UNCHANGED <<mem, faults>>

(* Clear forgets the draft before it removes the file: when the removal    *)
(* fails, the next load brings the file's content back.                    *)
ClearOK(p) ==
    /\ mem' = [mem EXCEPT ![p] = NotLoaded]
    /\ disk' = [disk EXCEPT ![p] = Empty]
    /\ ahead' = ahead \ {p}
    /\ UNCHANGED faults

ClearFails(p) ==
    /\ mem' = [mem EXCEPT ![p] = NotLoaded]
    /\ ahead' = ahead \ {p}
    /\ Fault
    /\ UNCHANGED disk

\* Mutation: the file is kept in memory as it was read, parsed or not.
ListUnparsed(p) ==
    /\ mem' = [mem EXCEPT ![p] = IF @ = NotLoaded THEN disk[p] ELSE @]
    /\ UNCHANGED <<disk, ahead, faults>>

(* List answers Visible(p), loading it first. *)
ListOK(p) ==
    /\ mem' = [mem EXCEPT ![p] = Visible(p)]
    /\ disk' = [disk EXCEPT ![p] = Quarantined(p)]
    /\ UNCHANGED <<ahead, faults>>

(* The process dies and comes back: Open starts with no draft in memory. *)
StoreRestart ==
    /\ mem' = [p \in Pairs |-> NotLoaded]
    /\ ahead' = {}
    /\ UNCHANGED <<disk, faults>>

Stage(p, k, e) == StageOK(p, k, e) \/ StageFails(p, k, e) \/ LoadFails(p)
Unstage(p, k)  == UnstageOK(p, k) \/ UnstageFails(p, k) \/ LoadFails(p)
Clear(p)       == ClearOK(p) \/ ClearFails(p)
List(p)        == ListOK(p) \/ LoadFails(p)

StoreNext ==
    \/ \E p \in Pairs, k \in Keys, e \in Payloads \ StaleCreates : Stage(p, k, e)
    \/ \E p \in Pairs, k \in Keys : Unstage(p, k)
    \/ \E p \in Pairs : Clear(p) \/ List(p)
    \/ StoreRestart

StoreSpec == StoreInit /\ [][StoreNext]_storeVars

--------------------------------------------------------------------------------
(* What a restart would bring back is what List shows now, for every pair  *)
(* whose last write was not refused by the disk: lazy load, quarantine,    *)
(* stale-create dropping and the two halves of Clear never part the two.   *)
RestartLosesNothing ==
    \A p \in Pairs \ ahead : Visible(p) = Parsed(disk[p])

(* The drafts as their callers see them. *)
Durable == INSTANCE DurableDraft
    WITH draft <- [p \in Pairs |-> Visible(p)],
         saved <- [p \in Pairs |-> Parsed(disk[p])]

(* The store is a durable draft: whole-draft saves, no resurrected entry.  *)
DurableDrafts == Durable!Spec
================================================================================
