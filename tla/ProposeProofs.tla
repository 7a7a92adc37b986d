----------------------------- MODULE ProposeProofs -----------------------------
(***************************************************************************)
(* What holds of the draft store for every set of pairs, keys and entries, *)
(* and any number of disk failures; and that nothing staged is lost when a *)
(* user has one propose under way at a time, for any number of users,      *)
(* files and requests, and any moves of the base branch and of reviewers.  *)
(***************************************************************************)
EXTENDS Propose, TLAPS

--------------------------------------------------------------------------------
(* The draft store.                                                        *)

(* No stale create is ever in memory: loadLocked drops it, no one stages one. *)
MemClean ==
    \A p \in Pairs : mem[p] # NotLoaded => \A k \in Keys : mem[p][k] \notin StaleCreates

StoreInv == StoreTypeOK /\ MemClean /\ RestartLosesNothing

(* What a load makes of a file is a draft, with no stale create in it. *)
LEMMA ParsedType ==
    ASSUME NEW f \in Files
    PROVE  /\ Parsed(f) \in Drafts
           /\ \A k \in Keys : Parsed(f)[k] \notin StaleCreates
BY StoreAssumption DEF Parsed, Files, Drafts, Empty

(* A draft without stale creates survives being written and read back. *)
LEMMA RoundTrip ==
    ASSUME NEW d \in Drafts, \A k \in Keys : d[k] \notin StaleCreates
    PROVE  Parsed(d) = d
BY StoreAssumption DEF Parsed, Drafts

(* The empty draft is a draft, and the file of an emptied pair reads empty. *)
LEMMA EmptyIsClean ==
    /\ Empty \in Drafts
    /\ \A k \in Keys : Empty[k] \notin StaleCreates
    /\ Parsed(Empty) = Empty
<1>1. Empty \in Drafts /\ \A k \in Keys : Empty[k] \notin StaleCreates
  BY StoreAssumption DEF Empty, Drafts
<1>2. QED
  BY <1>1, RoundTrip

(* What a caller sees of a pair is a clean draft. *)
LEMMA VisibleType ==
    ASSUME StoreTypeOK, MemClean, NEW p \in Pairs
    PROVE  /\ Visible(p) \in Drafts
           /\ \A k \in Keys : Visible(p)[k] \notin StaleCreates
<1>1. disk[p] \in Files
  BY DEF StoreTypeOK
<1>2. CASE mem[p] = NotLoaded
  BY <1>1, <1>2, ParsedType DEF Visible
<1>3. CASE mem[p] # NotLoaded
  BY <1>3 DEF Visible, StoreTypeOK, MemClean
<1> QED BY <1>2, <1>3

(* Moving a corrupt file aside changes nothing a load can see. *)
LEMMA QuarantineKeeps ==
    ASSUME StoreTypeOK, NEW p \in Pairs
    PROVE  Quarantined(p) \in Files /\ Parsed(Quarantined(p)) = Parsed(disk[p])
<1>1. disk[p] \in Files /\ Empty \in Files
  BY EmptyIsClean DEF StoreTypeOK, Files
<1>2. CASE mem[p] = NotLoaded /\ disk[p] = Corrupt
  BY <1>1, <1>2, EmptyIsClean DEF Quarantined, Parsed
<1>3. CASE ~(mem[p] = NotLoaded /\ disk[p] = Corrupt)
  BY <1>1, <1>3 DEF Quarantined
<1> QED BY <1>2, <1>3

(* A write the disk took: memory and file agree on the new draft. *)
LEMMA PersistedEffect ==
    ASSUME StoreInv, NEW p \in Pairs, NEW d \in Drafts,
           \A k \in Keys : d[k] \notin StaleCreates,
           Persisted(p, d)
    PROVE  /\ StoreInv'
           /\ Visible(p)' = d
           /\ Parsed(disk[p])' = d
           /\ \A q \in Pairs \ {p} : Visible(q)' = Visible(q) /\ disk'[q] = disk[q]
<1>1. StoreTypeOK'
  BY DEF StoreInv, StoreTypeOK, Persisted, Files
<1>2. mem'[p] = d /\ disk'[p] = d /\ d # NotLoaded
  BY StoreAssumption DEF StoreInv, StoreTypeOK, Persisted
<1>3. \A q \in Pairs \ {p} : mem'[q] = mem[q] /\ disk'[q] = disk[q]
  BY DEF StoreInv, StoreTypeOK, Persisted
<1>4. Visible(p)' = d /\ Parsed(disk[p])' = d
  BY <1>2, RoundTrip DEF Visible, Parsed
<1>5. \A q \in Pairs \ {p} : Visible(q)' = Visible(q)
  BY <1>3 DEF Visible, Parsed
<1>6. MemClean'
  BY <1>2, <1>3 DEF StoreInv, MemClean
<1>7. RestartLosesNothing'
  <2> SUFFICES ASSUME NEW q \in Pairs, q \notin ahead'
               PROVE  Visible(q)' = Parsed(disk[q])'
    BY DEF RestartLosesNothing
  <2>1. CASE q = p
    BY <2>1, <1>4
  <2>2. CASE q # p
    <3>1. q \notin ahead
      BY <2>2 DEF Persisted
    <3>2. Visible(q) = Parsed(disk[q])
      BY <3>1 DEF StoreInv, RestartLosesNothing
    <3> QED BY <3>2, <2>2, <1>3, <1>5 DEF Parsed
  <2> QED BY <2>1, <2>2
<1> QED BY <1>1, <1>3, <1>4, <1>5, <1>6, <1>7 DEF StoreInv

(* A write the disk refused: memory is ahead, the file reads as before. *)
LEMMA PersistFailsEffect ==
    ASSUME StoreInv, NEW p \in Pairs, NEW d \in Drafts,
           \A k \in Keys : d[k] \notin StaleCreates,
           PersistFails(p, d)
    PROVE  /\ StoreInv'
           /\ Visible(p)' = d
           /\ Parsed(disk[p])' = Parsed(disk[p])
           /\ \A q \in Pairs \ {p} : Visible(q)' = Visible(q) /\ disk'[q] = disk[q]
<1>0. Quarantined(p) \in Files /\ Parsed(Quarantined(p)) = Parsed(disk[p])
  BY QuarantineKeeps DEF StoreInv
<1>1. StoreTypeOK'
  BY <1>0, StoreAssumption DEF StoreInv, StoreTypeOK, PersistFails, Fault
<1>2. mem'[p] = d /\ disk'[p] = Quarantined(p) /\ d # NotLoaded
  BY StoreAssumption DEF StoreInv, StoreTypeOK, PersistFails
<1>3. \A q \in Pairs \ {p} : mem'[q] = mem[q] /\ disk'[q] = disk[q]
  BY DEF StoreInv, StoreTypeOK, PersistFails
<1>4. Visible(p)' = d /\ Parsed(disk[p])' = Parsed(disk[p])
  BY <1>0, <1>2 DEF Visible, Parsed
<1>5. \A q \in Pairs \ {p} : Visible(q)' = Visible(q)
  BY <1>3 DEF Visible, Parsed
<1>6. MemClean'
  BY <1>2, <1>3 DEF StoreInv, MemClean
<1>7. RestartLosesNothing'
  <2> SUFFICES ASSUME NEW q \in Pairs, q \notin ahead'
               PROVE  Visible(q)' = Parsed(disk[q])'
    BY DEF RestartLosesNothing
  <2>1. q # p /\ q \notin ahead
    BY DEF PersistFails
  <2>2. Visible(q) = Parsed(disk[q])
    BY <2>1 DEF StoreInv, RestartLosesNothing
  <2> QED BY <2>1, <2>2, <1>3, <1>5 DEF Parsed
<1> QED BY <1>1, <1>3, <1>4, <1>5, <1>6, <1>7 DEF StoreInv

(* Clearing a pair empties it, or leaves what its file holds. *)
LEMMA ClearEffect ==
    ASSUME StoreInv, NEW p \in Pairs, Clear(p)
    PROVE  /\ StoreInv'
           /\ mem'[p] = NotLoaded
           /\ Visible(p)' = Parsed(disk[p])'
           /\ disk'[p] = Empty \/ disk' = disk
           /\ \A q \in Pairs \ {p} : Visible(q)' = Visible(q) /\ disk'[q] = disk[q]
<1>1. StoreTypeOK'
  BY EmptyIsClean, StoreAssumption
  DEF StoreInv, StoreTypeOK, Clear, ClearOK, ClearFails, Fault, Files
<1>2. mem'[p] = NotLoaded /\ (disk'[p] = Empty \/ disk' = disk)
  BY DEF StoreInv, StoreTypeOK, Clear, ClearOK, ClearFails
<1>3. \A q \in Pairs \ {p} : mem'[q] = mem[q] /\ disk'[q] = disk[q]
  BY DEF StoreInv, StoreTypeOK, Clear, ClearOK, ClearFails
<1>4. \A q \in Pairs \ {p} : Visible(q)' = Visible(q) /\ Parsed(disk[q])' = Parsed(disk[q])
  BY <1>3 DEF Visible, Parsed
<1>5. Visible(p)' = Parsed(disk[p])'
  BY <1>2 DEF Visible, Parsed
<1>6. MemClean'
  BY <1>2, <1>3 DEF StoreInv, MemClean
<1>7. \A q \in Pairs \ {p} : q \in ahead <=> q \in ahead'
  BY DEF Clear, ClearOK, ClearFails
<1>8. RestartLosesNothing'
  BY <1>4, <1>5, <1>7 DEF StoreInv, RestartLosesNothing
<1> QED BY <1>1, <1>2, <1>3, <1>4, <1>5, <1>6, <1>8 DEF StoreInv

(* Listing changes nothing anyone sees, now or after a restart. *)
LEMMA ListEffect ==
    ASSUME StoreInv, NEW p \in Pairs, ListOK(p)
    PROVE  /\ StoreInv'
           /\ mem'[p] # NotLoaded
           /\ \A q \in Pairs : Visible(q)' = Visible(q) /\ Parsed(disk[q])' = Parsed(disk[q])
           /\ \A q \in Pairs \ {p} : disk'[q] = disk[q]
<1>0. /\ Quarantined(p) \in Files /\ Parsed(Quarantined(p)) = Parsed(disk[p])
      /\ Visible(p) \in Drafts /\ Visible(p) # NotLoaded
      /\ \A k \in Keys : Visible(p)[k] \notin StaleCreates
  BY QuarantineKeeps, VisibleType, StoreAssumption DEF StoreInv
<1>1. StoreTypeOK'
  BY <1>0 DEF StoreInv, StoreTypeOK, ListOK
<1>2. mem'[p] = Visible(p) /\ disk'[p] = Quarantined(p)
  BY DEF StoreInv, StoreTypeOK, ListOK
<1>3. \A q \in Pairs \ {p} : mem'[q] = mem[q] /\ disk'[q] = disk[q]
  BY DEF StoreInv, StoreTypeOK, ListOK
<1>4. \A q \in Pairs : Visible(q)' = Visible(q) /\ Parsed(disk[q])' = Parsed(disk[q])
  <2> SUFFICES ASSUME NEW q \in Pairs
               PROVE  Visible(q)' = Visible(q) /\ Parsed(disk[q])' = Parsed(disk[q])
    OBVIOUS
  <2>1. CASE q = p
    <3>1. Visible(p)' = mem'[p]
      BY <1>0, <1>2 DEF Visible
    <3>2. Parsed(disk[p])' = Parsed(Quarantined(p))
      BY <1>2 DEF Parsed
    <3> QED BY <2>1, <3>1, <3>2, <1>0, <1>2
  <2>2. CASE q # p
    BY <2>2, <1>3 DEF Visible, Parsed
  <2> QED BY <2>1, <2>2
<1>5. MemClean'
  BY <1>0, <1>2, <1>3 DEF StoreInv, MemClean
<1>6. RestartLosesNothing'
  BY <1>4 DEF StoreInv, RestartLosesNothing, ListOK
<1> QED BY <1>0, <1>1, <1>2, <1>3, <1>4, <1>5, <1>6 DEF StoreInv

(* A restart leaves the files, and shows what they hold. *)
LEMMA RestartEffect ==
    ASSUME StoreInv, StoreRestart
    PROVE  /\ StoreInv'
           /\ \A q \in Pairs : /\ mem'[q] = NotLoaded
                               /\ Visible(q)' = Parsed(disk[q])
                               /\ Parsed(disk[q])' = Parsed(disk[q])
<1>1. StoreTypeOK'
  BY DEF StoreInv, StoreTypeOK, StoreRestart
<1>2. \A q \in Pairs : mem'[q] = NotLoaded /\ disk'[q] = disk[q]
  BY DEF StoreRestart
<1>3. \A q \in Pairs : Visible(q)' = Parsed(disk[q]) /\ Parsed(disk[q])' = Parsed(disk[q])
  BY <1>2 DEF Visible, Parsed
<1> QED BY <1>1, <1>2, <1>3 DEF StoreInv, MemClean, RestartLosesNothing

(* A method the load failed leaves everything but the failure count. *)
LEMMA LoadFailsEffect ==
    ASSUME StoreInv, NEW p \in Pairs, LoadFails(p)
    PROVE  /\ StoreInv'
           /\ \A q \in Pairs : /\ Visible(q)' = Visible(q)
                               /\ disk'[q] = disk[q]
                               /\ Parsed(disk[q])' = Parsed(disk[q])
<1>1. StoreTypeOK'
  BY StoreAssumption DEF StoreInv, StoreTypeOK, LoadFails, Fault
<1>2. mem' = mem /\ disk' = disk /\ ahead' = ahead
  BY DEF LoadFails
<1>3. \A q \in Pairs : Visible(q)' = Visible(q) /\ Parsed(disk[q])' = Parsed(disk[q])
  BY <1>2 DEF Visible, Parsed
<1> QED BY <1>1, <1>2, <1>3 DEF StoreInv, MemClean, RestartLosesNothing

(* The draft an entry operation persists is clean when its entry is. *)
LEMMA EditedDraft ==
    ASSUME StoreInv, NEW p \in Pairs, NEW k \in Keys,
           NEW e \in (Payloads \union {None}) \ StaleCreates
    PROVE  LET d == [Visible(p) EXCEPT ![k] = e]
           IN  d \in Drafts /\ \A j \in Keys : d[j] \notin StaleCreates
BY VisibleType DEF StoreInv, Drafts

(* Every step of the store keeps its invariant. *)
LEMMA StoreStep ==
    ASSUME StoreInv, [StoreNext]_storeVars
    PROVE  StoreInv'
<1>1. ASSUME NEW p \in Pairs, NEW k \in Keys, NEW e \in Payloads \ StaleCreates, Stage(p, k, e)
      PROVE  StoreInv'
  BY <1>1, EditedDraft, PersistedEffect, PersistFailsEffect, LoadFailsEffect
  DEF Stage, StageOK, StageFails
<1>2. ASSUME NEW p \in Pairs, NEW k \in Keys, Unstage(p, k)
      PROVE  StoreInv'
  <2>1. None \notin StaleCreates
    BY StoreAssumption
  <2> QED
    BY <1>2, <2>1, EditedDraft, PersistedEffect, PersistFailsEffect, LoadFailsEffect
    DEF Unstage, UnstageOK, UnstageFails
<1>3. ASSUME NEW p \in Pairs, Clear(p) \/ List(p)
      PROVE  StoreInv'
  BY <1>3, ClearEffect, ListEffect, LoadFailsEffect DEF List
<1>4. CASE StoreRestart
  BY <1>4, RestartEffect
<1>5. CASE UNCHANGED storeVars
  BY <1>5 DEF storeVars, StoreInv, StoreTypeOK, MemClean, RestartLosesNothing, Visible, Parsed
<1> QED BY <1>1, <1>2, <1>3, <1>4, <1>5 DEF StoreNext

LEMMA StoreStart == StoreInit => StoreInv
<1> SUFFICES ASSUME StoreInit PROVE StoreInv
  OBVIOUS
<1>1. StoreTypeOK
  BY StoreAssumption DEF StoreInit, StoreTypeOK
<1> QED BY <1>1 DEF StoreInit, StoreInv, MemClean, RestartLosesNothing, Visible

(* The store's state is always well formed, and what List shows of a pair  *)
(* whose last write went through is what a restart would load.             *)
THEOREM StoreCorrect == StoreSpec => [](StoreTypeOK /\ RestartLosesNothing)
<1>1. StoreInv /\ [StoreNext]_storeVars => StoreInv'
  BY StoreStep
<1>2. StoreInv => StoreTypeOK /\ RestartLosesNothing
  BY DEF StoreInv
<1> QED BY StoreStart, <1>1, <1>2, PTL DEF StoreSpec

--------------------------------------------------------------------------------
(* The store implements the durable draft.                                 *)

Seen == [p \in Pairs |-> Visible(p)]
Kept == [p \in Pairs |-> Parsed(disk[p])]

(* One pair's draft and file replaced: what the two mapped functions become. *)
LEMMA OnePairMoves ==
    ASSUME StoreInv, NEW p \in Pairs,
           \A q \in Pairs \ {p} : Visible(q)' = Visible(q) /\ disk'[q] = disk[q]
    PROVE  /\ Seen' = [Seen EXCEPT ![p] = Visible(p)']
           /\ Kept' = [Kept EXCEPT ![p] = Parsed(disk[p])']
<1>1. \A q \in Pairs \ {p} : Parsed(disk[q])' = Parsed(disk[q])
  BY DEF Parsed
<1> QED BY <1>1 DEF Seen, Kept

(* Setting or removing one entry is a Write of the durable draft. *)
LEMMA EntryIsWrite ==
    ASSUME StoreInv, NEW p \in Pairs, NEW k \in Keys,
           NEW e \in (Payloads \union {None}) \ StaleCreates,
           \/ Persisted(p, [Visible(p) EXCEPT ![k] = e])
           \/ PersistFails(p, [Visible(p) EXCEPT ![k] = e])
    PROVE  Durable!Write(p, k, e)
<1> DEFINE d == [Visible(p) EXCEPT ![k] = e]
<1>1. d \in Drafts /\ \A j \in Keys : d[j] \notin StaleCreates
  BY EditedDraft
<1>2. Seen[p] = Visible(p) /\ Kept[p] = Parsed(disk[p]) /\ DOMAIN Seen = Pairs
  BY DEF Seen, Kept
<1>3. [Seen EXCEPT ![p][k] = e] = [Seen EXCEPT ![p] = d]
  BY <1>2
<1>4. Kept = [Kept EXCEPT ![p] = Parsed(disk[p])]
  BY DEF Kept
<1>5. CASE Persisted(p, d)
  <2>1. Seen' = [Seen EXCEPT ![p] = d] /\ Kept' = [Kept EXCEPT ![p] = d]
    BY <1>1, <1>5, PersistedEffect, OnePairMoves
  <2>2. Seen'[p] = d
    BY <2>1, <1>2
  <2> QED BY <2>1, <2>2, <1>3 DEF Durable!Write, Seen, Kept
<1>6. CASE PersistFails(p, d)
  <2>1. Seen' = [Seen EXCEPT ![p] = d] /\ Kept' = [Kept EXCEPT ![p] = Parsed(disk[p])]
    BY <1>1, <1>6, PersistFailsEffect, OnePairMoves
  <2> QED BY <2>1, <1>3, <1>4 DEF Durable!Write, Seen, Kept
<1> QED BY <1>5, <1>6

LEMMA ClearIsDiscard ==
    ASSUME StoreInv, NEW p \in Pairs, Clear(p)
    PROVE  Durable!Discard(p)
<1>0. Durable!Empty = Empty
  BY DEF Durable!Empty, Empty
<1>1. Kept = [Kept EXCEPT ![p] = Parsed(disk[p])] /\ Kept[p] = Parsed(disk[p])
  BY DEF Kept
<1>2. CASE disk'[p] = Empty
  <2>1. Parsed(disk[p])' = Empty
    BY <1>2, EmptyIsClean DEF Parsed
  <2>2. Seen' = [Seen EXCEPT ![p] = Empty] /\ Kept' = [Kept EXCEPT ![p] = Empty]
    BY <2>1, ClearEffect, OnePairMoves
  <2> QED BY <2>2, <1>0 DEF Durable!Discard, Seen, Kept
<1>3. CASE disk' = disk
  <2>1. Parsed(disk[p])' = Parsed(disk[p])
    BY <1>3 DEF Parsed
  <2>2. /\ Seen' = [Seen EXCEPT ![p] = Parsed(disk[p])]
        /\ Kept' = [Kept EXCEPT ![p] = Parsed(disk[p])]
    BY <2>1, ClearEffect, OnePairMoves
  <2> QED BY <2>2, <1>1 DEF Durable!Discard, Seen, Kept
<1> QED BY <1>2, <1>3, ClearEffect

LEMMA StoreStepIsDurable ==
    ASSUME StoreInv, [StoreNext]_storeVars
    PROVE  [Durable!Next]_<<Seen, Kept>>
<1>1. ASSUME NEW p \in Pairs, NEW q \in Pairs, LoadFails(p)
      PROVE  Visible(q)' = Visible(q) /\ Parsed(disk[q])' = Parsed(disk[q])
  BY <1>1, LoadFailsEffect
<1>2. ASSUME NEW p \in Pairs, LoadFails(p) \/ ListOK(p)
      PROVE  UNCHANGED <<Seen, Kept>>
  <2>1. \A q \in Pairs : Visible(q)' = Visible(q) /\ Parsed(disk[q])' = Parsed(disk[q])
    BY <1>1, <1>2, ListEffect
  <2> QED BY <2>1 DEF Seen, Kept
<1>3. ASSUME NEW p \in Pairs, NEW k \in Keys, NEW e \in Payloads \ StaleCreates, Stage(p, k, e)
      PROVE  [Durable!Next]_<<Seen, Kept>>
  <2>1. Durable!Write(p, k, e) => Durable!Next
    BY DEF Durable!Next
  <2> QED BY <1>2, <1>3, <2>1, EntryIsWrite DEF Stage, StageOK, StageFails
<1>4. ASSUME NEW p \in Pairs, NEW k \in Keys, Unstage(p, k)
      PROVE  [Durable!Next]_<<Seen, Kept>>
  <2>1. Durable!Write(p, k, None) => Durable!Next
    BY DEF Durable!Next
  <2>2. None \notin StaleCreates
    BY StoreAssumption
  <2> QED BY <1>2, <1>4, <2>1, <2>2, EntryIsWrite DEF Unstage, UnstageOK, UnstageFails
<1>5. ASSUME NEW p \in Pairs, Clear(p) \/ List(p)
      PROVE  [Durable!Next]_<<Seen, Kept>>
  <2>1. Durable!Discard(p) => Durable!Next
    BY DEF Durable!Next
  <2> QED BY <1>2, <1>5, <2>1, ClearIsDiscard DEF List
<1>6. CASE StoreRestart
  <2>1. Seen' = Kept /\ Kept' = Kept
    BY <1>6, RestartEffect DEF Seen, Kept
  <2> QED BY <2>1 DEF Durable!Next, Durable!Restart, Seen, Kept
<1>7. CASE UNCHANGED storeVars
  BY <1>7 DEF storeVars, Seen, Kept, Visible, Parsed
<1> QED BY <1>3, <1>4, <1>5, <1>6, <1>7 DEF StoreNext

(* Every behaviour of the store is one of the durable draft: a write saves *)
(* the whole draft its caller sees, or leaves the saved one as it was.     *)
THEOREM StoreIsDurable == StoreSpec => DurableDrafts
<1>1. StoreInit => Durable!Init
  <2> SUFFICES ASSUME StoreInit PROVE Durable!Init
    OBVIOUS
  <2>1. \A p \in Pairs : Visible(p) = Parsed(disk[p]) /\ Parsed(disk[p]) \in Drafts
    BY ParsedType DEF StoreInit, Visible
  <2> QED BY <2>1 DEF Durable!Init, Durable!Drafts, Drafts
<1>2. StoreInv /\ [StoreNext]_storeVars => StoreInv'
  BY StoreStep
<1>3. StoreInv /\ [StoreNext]_storeVars => [Durable!Next]_<<Seen, Kept>>
  BY StoreStepIsDurable
<1> QED
  BY StoreStart, <1>1, <1>2, <1>3, PTL
  DEF StoreSpec, DurableDrafts, Durable!Spec, Seen, Kept

--------------------------------------------------------------------------------
(* A propose.                                                              *)

SameDrafts ==
    \A q \in Pairs : Visible(q)' = Visible(q) /\ Parsed(disk[q])' = Parsed(disk[q])

(* A step that leaves the store alone, but for the failure it may cost. *)
LEMMA StoreAlone ==
    ASSUME StoreInv, StoreUntouched, Fault \/ UNCHANGED faults
    PROVE  StoreInv' /\ SameDrafts
<1>1. mem' = mem /\ disk' = disk /\ ahead' = ahead
  BY DEF StoreUntouched
<1>2. faults' \in 0..MaxFaults
  BY StoreAssumption DEF StoreInv, StoreTypeOK, Fault
<1>3. \A q \in Pairs : Visible(q)' = Visible(q) /\ Parsed(disk[q])' = Parsed(disk[q])
  BY <1>1 DEF Visible, Parsed
<1> QED
  BY <1>1, <1>2, <1>3
  DEF SameDrafts, StoreInv, StoreTypeOK, MemClean, RestartLosesNothing

LEMMA StoreStill ==
    ASSUME StoreInv, UNCHANGED storeVars
    PROVE  StoreInv' /\ SameDrafts
BY StoreAlone DEF storeVars, StoreUntouched

(* Listing a draft, and a method whose load failed. *)
LEMMA StoreRead ==
    ASSUME StoreInv, NEW p \in Pairs, ListOK(p) \/ LoadFails(p)
    PROVE  StoreInv' /\ SameDrafts
BY ListEffect, LoadFailsEffect DEF SameDrafts

--------------------------------------------------------------------------------
(* Types.                                                                  *)

TypeInv ==
    /\ StoreInv
    /\ StateOK
    /\ \A r \in Requests : pc[r] = "cloned" => snap[r] # Nobody

(* Applying a draft to a tree gives a tree. *)
LEMMA ApplyType ==
    ASSUME NEW t \in Trees, NEW d \in Drafts
    PROVE  Apply(t, d) \in Trees
<1>1. \A f \in Keys : d[f] # None => d[f].val \in Contents
  BY ProposeAssumption DEF Drafts
<1> QED BY <1>1 DEF Apply, Trees

LEMMA CallerType == \A r \in Requests : Caller[r] \in Pairs
BY ProposeAssumption

LEMMA ReturnType ==
    ASSUME TypeInv, NEW r \in Requests, Return(r)
    PROVE  /\ pc' \in [Requests -> PCs]
           /\ items' \in [Requests -> Drafts]
           /\ view' \in [Requests -> Drafts \union {Nobody}]
           /\ snap' \in [Requests -> Trees \union {Nobody}]
           /\ \A s \in Requests : pc'[s] = "cloned" => pc[s] = "cloned" /\ snap'[s] = snap[s]
BY EmptyIsClean DEF TypeInv, StateOK, Return, Goto, PCs

LEMMA DischargeType ==
    ASSUME owed \in [Pairs -> Drafts], NEW p \in Pairs, NEW STATE d, Discharge(p, d)
    PROVE  owed' \in [Pairs -> Drafts]
BY StoreAssumption DEF Discharge, Drafts

LEMMA OnOfferType ==
    ASSUME TypeInv, NEW r \in Requests, OnOffer(r)
    PROVE  pc' \in [Requests -> PCs] /\ owed' \in [Pairs -> Drafts]
           /\ \A s \in Requests : pc'[s] = "cloned" => pc[s] = "cloned"
<1>1. owed' \in [Pairs -> Drafts]
  BY CallerType, DischargeType DEF OnOffer, TypeInv, StateOK
<1> QED BY <1>1 DEF OnOffer, Goto, TypeInv, StateOK, PCs

LEMMA UserType ==
    ASSUME TypeInv, NEW p \in Pairs, User(p)
    PROVE  TypeInv'
<1>1. owed \in [Pairs -> Drafts] /\ Empty \in Drafts /\ None \notin StaleCreates
  BY EmptyIsClean, StoreAssumption DEF TypeInv, StateOK
<1>2. StoreInv' /\ owed' \in [Pairs -> Drafts] /\ UNCHANGED <<reqVars, gitVars>>
  <2>1. ASSUME NEW k \in Keys, NEW e \in Payloads \ StaleCreates, StageEntry(p, k, e)
        PROVE  StoreInv' /\ owed' \in [Pairs -> Drafts] /\ UNCHANGED <<reqVars, gitVars>>
    <3>1. StoreInv'
      BY <2>1, EditedDraft, PersistedEffect, PersistFailsEffect, LoadFailsEffect
      DEF StageEntry, StageOK, StageFails, TypeInv
    <3>2. owed' \in [Pairs -> Drafts]
      BY <2>1, <1>1 DEF StageEntry, Owe, Drafts
    <3> QED BY <3>1, <3>2, <2>1 DEF StageEntry
  <2>2. ASSUME NEW k \in Keys, UnstageEntry(p, k)
        PROVE  StoreInv' /\ owed' \in [Pairs -> Drafts] /\ UNCHANGED <<reqVars, gitVars>>
    <3>1. StoreInv'
      BY <2>2, <1>1, EditedDraft, PersistedEffect, PersistFailsEffect, LoadFailsEffect
      DEF UnstageEntry, UnstageOK, UnstageFails, TypeInv
    <3>2. owed' \in [Pairs -> Drafts]
      BY <2>2, <1>1 DEF UnstageEntry, Owe, Drafts
    <3> QED BY <3>1, <3>2, <2>2 DEF UnstageEntry
  <2>3. CASE Discard(p)
    <3>1. StoreInv'
      BY <2>3, ClearEffect DEF Discard, TypeInv
    <3> QED BY <3>1, <2>3, <1>1 DEF Discard
  <2> QED BY <2>1, <2>2, <2>3 DEF User
<1> QED
  BY <1>2 DEF TypeInv, StateOK, StoreInv, reqVars, gitVars

LEMMA ListType ==
    ASSUME TypeInv, NEW r \in Requests, ProposeList(r)
    PROVE  TypeInv'
<1>1. Caller[r] \in Pairs /\ Visible(Caller[r]) \in Drafts
  BY CallerType, VisibleType DEF TypeInv, StoreInv
<1>2. StoreInv'
  BY <1>1, StoreRead DEF ProposeList, TypeInv
<1>3. /\ pc' \in [Requests -> PCs] /\ items' \in [Requests -> Drafts]
      /\ \A s \in Requests : pc'[s] = "cloned" => pc[s] = "cloned"
  BY <1>1 DEF ProposeList, Goto, TypeInv, StateOK, PCs
<1> QED BY <1>2, <1>3 DEF ProposeList, gitVars, TypeInv, StateOK, StoreInv

LEMMA ReadViewType ==
    ASSUME TypeInv, NEW r \in Requests, ReadView(r)
    PROVE  TypeInv'
<1>1. Caller[r] \in Pairs /\ Visible(Caller[r]) \in Drafts
  BY CallerType, VisibleType DEF TypeInv, StoreInv
<1>2. StoreInv'
  BY <1>1, StoreRead, StoreAlone DEF ReadView, TypeInv
<1>3. /\ pc' \in [Requests -> PCs] /\ view' \in [Requests -> Drafts \union {Nobody}]
      /\ \A s \in Requests : pc'[s] = "cloned" => pc[s] = "cloned"
  BY <1>1 DEF ReadView, Goto, TypeInv, StateOK, PCs
<1> QED BY <1>2, <1>3 DEF ReadView, gitVars, TypeInv, StateOK, StoreInv

(* The steps that end a request without touching git: an unavailable       *)
(* repository, a failed clone, a refused item.                             *)
LEMMA GiveUpType ==
    ASSUME TypeInv, NEW r \in Requests,
           RepoUnavailable(r) \/ CloneFails(r) \/ CommitRefused(r)
    PROVE  TypeInv'
<1>1. StoreInv'
  BY StoreAlone, StoreStill DEF RepoUnavailable, CloneFails, CommitRefused, TypeInv
<1>2. Return(r) /\ UNCHANGED <<gitVars, owed>> /\ wmu' \in {wmu, Nobody}
  BY DEF RepoUnavailable, CloneFails, CommitRefused
<1> QED BY <1>1, <1>2, ReturnType DEF gitVars, TypeInv, StateOK, StoreInv

LEMMA CommitType ==
    ASSUME TypeInv, NEW r \in Requests, BeginCommit(r) \/ NothingToCommit(r)
    PROVE  TypeInv'
<1>1. StoreInv'
  BY StoreStill DEF BeginCommit, NothingToCommit, TypeInv
<1>2. CASE BeginCommit(r)
  <2>1. base \in Trees /\ base # Nobody
    BY ProposeAssumption DEF TypeInv, StateOK, Trees
  <2>2. /\ pc' \in [Requests -> PCs] /\ snap' \in [Requests -> Trees \union {Nobody}]
        /\ \A s \in Requests : pc'[s] = "cloned" => snap'[s] # Nobody
    BY <1>2, <2>1 DEF BeginCommit, Goto, TypeInv, StateOK, PCs
  <2> QED BY <1>1, <1>2, <2>2 DEF BeginCommit, gitVars, TypeInv, StateOK, StoreInv
<1>3. CASE NothingToCommit(r)
  <2>1. /\ pc' \in [Requests -> PCs]
        /\ \A s \in Requests : pc'[s] = "cloned" => pc[s] = "cloned"
    BY <1>3 DEF NothingToCommit, Goto, TypeInv, StateOK, PCs
  <2> QED BY <1>1, <1>3, <2>1 DEF NothingToCommit, gitVars, TypeInv, StateOK, StoreInv
<1> QED BY <1>2, <1>3

LEMMA PushType ==
    ASSUME TypeInv, NEW r \in Requests, Push(r)
    PROVE  TypeInv'
<1>1. StoreInv'
  BY StoreAlone DEF Push, TypeInv
<1>2. Caller[r] \in Pairs /\ snap[r] \in Trees /\ items[r] \in Drafts
  BY CallerType DEF Push, TypeInv, StateOK
<1>3. Commit(r) \in Commits
  BY <1>2, ApplyType DEF Commit, Commits
<1>4. branch' \in [Pairs -> Commits \union {Nobody}]
  BY <1>3 DEF Push, TypeInv, StateOK
<1>5. owed' \in [Pairs -> Drafts]
  BY <1>2, DischargeType DEF Push, TypeInv, StateOK
<1>6. /\ pc' \in [Requests -> PCs]
      /\ items' \in [Requests -> Drafts]
      /\ view' \in [Requests -> Drafts \union {Nobody}]
      /\ snap' \in [Requests -> Trees \union {Nobody}]
      /\ \A s \in Requests : pc'[s] = "cloned" => pc[s] = "cloned" /\ snap'[s] = snap[s]
  BY ReturnType DEF Push, Goto, TypeInv, StateOK, PCs
<1> QED BY <1>1, <1>4, <1>5, <1>6 DEF Push, TypeInv, StateOK, StoreInv

LEMMA PRType ==
    ASSUME TypeInv, NEW r \in Requests, FindPR(r) \/ ReopenPR(r) \/ CreatePR(r)
    PROVE  TypeInv'
<1>1. StoreInv'
  BY StoreAlone DEF FindPR, ReopenPR, CreatePR, TypeInv
<1>2. CASE FindPR(r)
  <2>1. /\ pc' \in [Requests -> PCs] /\ owed' \in [Pairs -> Drafts]
        /\ \A s \in Requests : pc'[s] = "cloned" => pc[s] = "cloned"
    BY <1>2, OnOfferType DEF FindPR, Goto, TypeInv, StateOK, PCs
  <2> QED BY <1>1, <1>2, <2>1 DEF FindPR, gitVars, TypeInv, StateOK, StoreInv
<1>3. CASE ReopenPR(r)
  <2>1. /\ pc' \in [Requests -> PCs] /\ owed' \in [Pairs -> Drafts]
        /\ \A s \in Requests : pc'[s] = "cloned" => pc[s] = "cloned"
    BY <1>3, OnOfferType DEF ReopenPR, Goto, TypeInv, StateOK, PCs
  <2>2. pr' \in [Pairs -> PRs]
    BY <1>3 DEF ReopenPR, TypeInv, StateOK, PRs, PRStates
  <2> QED BY <1>1, <1>3, <2>1, <2>2 DEF ReopenPR, TypeInv, StateOK, StoreInv
<1>4. CASE CreatePR(r)
  <2>1. /\ pc' \in [Requests -> PCs] /\ owed' \in [Pairs -> Drafts]
        /\ items' \in [Requests -> Drafts]
        /\ view' \in [Requests -> Drafts \union {Nobody}]
        /\ snap' \in [Requests -> Trees \union {Nobody}]
        /\ \A s \in Requests : pc'[s] = "cloned" => pc[s] = "cloned" /\ snap'[s] = snap[s]
    BY <1>4, OnOfferType, ReturnType DEF CreatePR, TypeInv, StateOK
  <2>2. pr' \in [Pairs -> PRs]
    <3>1. Caller[r] \in Pairs /\ view[r] \in Drafts \union {Nobody}
      BY CallerType DEF TypeInv, StateOK
    <3>2. [state |-> "open", body |-> view[r]] \in PRs
      BY <3>1 DEF PRs, PRStates
    <3> QED BY <1>4, <3>1, <3>2 DEF CreatePR, TypeInv, StateOK, proposedBranch
  <2> QED BY <1>1, <1>4, <2>1, <2>2 DEF CreatePR, TypeInv, StateOK, StoreInv
<1> QED BY <1>2, <1>3, <1>4

LEMMA ClearType ==
    ASSUME TypeInv, NEW r \in Requests, ClearDraft(r) \/ ClearSatisfied(r)
    PROVE  TypeInv'
<1>1. Caller[r] \in Pairs
  BY CallerType
<1>2. StoreInv'
  BY <1>1, ClearEffect DEF ClearDraft, ClearSatisfied, TypeInv
<1>3. owed' \in [Pairs -> Drafts]
  BY <1>1, DischargeType DEF ClearDraft, ClearSatisfied, TypeInv, StateOK
<1>4. Return(r) /\ UNCHANGED <<wmu, gitVars>>
  BY DEF ClearDraft, ClearSatisfied
<1> QED BY <1>2, <1>3, <1>4, ReturnType DEF gitVars, TypeInv, StateOK, StoreInv

(* A pull request, and a propose past its push, have a branch. *)
BranchInv ==
    /\ \A r \in Requests :
           pc[r] \in {"pushed", "reopen", "create", "clear"} => branch[Caller[r]] # Nobody
    /\ \A p \in Pairs : pr[p].state # "none" => branch[p] # Nobody

LEMMA ForgeType ==
    ASSUME TypeInv, BranchInv, Forge
    PROVE  TypeInv'
<1>1. StoreInv' /\ UNCHANGED <<reqVars, branch, owed>>
  BY StoreStill DEF Forge, Merge, ClosePR, PushToBase, TypeInv
<1>2. ASSUME NEW p \in Pairs, Merge(p)
      PROVE  base' \in Trees /\ pr' \in [Pairs -> PRs] /\ moves' \in 0..MaxMoves
  <2>1. branch[p] \in Commits
    BY <1>2 DEF Merge, BranchInv, TypeInv, StateOK
  <2>2. base' \in Trees
    BY <1>2, <2>1 DEF Merge, Commits, Trees, TypeInv, StateOK
  <2>3. pr' \in [Pairs -> PRs]
    BY <1>2 DEF Merge, TypeInv, StateOK, PRs, PRStates
  <2> QED BY <1>2, <2>2, <2>3 DEF Merge, TypeInv, StateOK
<1>3. ASSUME NEW p \in Pairs, ClosePR(p)
      PROVE  base' \in Trees /\ pr' \in [Pairs -> PRs] /\ moves' \in 0..MaxMoves
  BY <1>3 DEF ClosePR, TypeInv, StateOK, PRs, PRStates
<1>4. ASSUME NEW f \in Keys, NEW c \in Contents \union {Absent}, PushToBase(f, c)
      PROVE  base' \in Trees /\ pr' \in [Pairs -> PRs] /\ moves' \in 0..MaxMoves
  BY <1>4, ProposeAssumption DEF PushToBase, TypeInv, StateOK, Trees
<1>5. base' \in Trees /\ pr' \in [Pairs -> PRs] /\ moves' \in 0..MaxMoves
  BY <1>2, <1>3, <1>4 DEF Forge
<1> QED BY <1>1, <1>5 DEF reqVars, TypeInv, StateOK, StoreInv

LEMMA RestartType ==
    ASSUME TypeInv, Restart
    PROVE  TypeInv'
<1>1. StoreInv'
  BY RestartEffect DEF Restart, TypeInv
<1> QED BY <1>1, EmptyIsClean DEF Restart, gitVars, TypeInv, StateOK, StoreInv, PCs

LEMMA TypeStep ==
    ASSUME TypeInv, BranchInv, [Next]_vars
    PROVE  TypeInv'
<1>1. CASE UNCHANGED vars
  <2>1. StoreInv'
    BY <1>1, StoreStill DEF vars, TypeInv
  <2> QED BY <1>1, <2>1 DEF vars, reqVars, gitVars, TypeInv, StateOK, StoreInv
<1> QED
  BY <1>1, UserType, ListType, ReadViewType, GiveUpType, CommitType, PushType, PRType,
     ClearType, ForgeType, RestartType
  DEF Next, Steps, Continue

(* How a step moves the branches and the pull requests. *)
LEMMA BranchStep ==
    ASSUME TypeInv, BranchInv, [Next]_vars
    PROVE  BranchInv'
<1>1. \A r \in Requests : Commit(r) # Nobody \/ snap[r] = Nobody
  <2> SUFFICES ASSUME NEW r \in Requests, snap[r] # Nobody PROVE Commit(r) # Nobody
    OBVIOUS
  <2>1. snap[r] \in Trees /\ Apply(snap[r], items[r]) \in Trees /\ items[r] \in Drafts
    BY ApplyType DEF TypeInv, StateOK
  <2> QED BY <2>1, ProposeAssumption DEF Commit, Trees
<1>2. ASSUME NEW p \in Pairs, User(p)
      PROVE  BranchInv'
  BY <1>2 DEF User, StageEntry, UnstageEntry, Discard, reqVars, gitVars, BranchInv
<1>3. ASSUME NEW r \in Requests, ProposeList(r)
      PROVE  BranchInv'
  BY <1>3, CallerType DEF ProposeList, Goto, gitVars, BranchInv, TypeInv, StateOK
<1>4. ASSUME NEW r \in Requests, Continue(r)
      PROVE  BranchInv'
  <2>1. CASE RepoUnavailable(r) \/ CloneFails(r) \/ CommitRefused(r) \/ ReadView(r)
             \/ BeginCommit(r) \/ NothingToCommit(r) \/ ClearDraft(r) \/ ClearSatisfied(r)
    BY <2>1
    DEF RepoUnavailable, CloneFails, CommitRefused, ReadView, BeginCommit, NothingToCommit,
        ClearDraft, ClearSatisfied, Return, Goto, gitVars, BranchInv, TypeInv, StateOK
  <2>2. CASE Push(r)
    <3>1. Commit(r) # Nobody
      BY <1>1, <2>2 DEF Push, TypeInv
    <3> QED BY <2>2, <3>1, CallerType
        DEF Push, Return, Goto, proposedBranch, BranchInv, TypeInv, StateOK
  <2>3. CASE FindPR(r)
    BY <2>3 DEF FindPR, OnOffer, Goto, gitVars, BranchInv, TypeInv, StateOK
  <2>4. CASE ReopenPR(r)
    BY <2>4, CallerType DEF ReopenPR, OnOffer, Goto, proposedBranch, BranchInv, TypeInv, StateOK, PRs
  <2>5. CASE CreatePR(r)
    BY <2>5, CallerType
    DEF CreatePR, OnOffer, Return, Goto, proposedBranch, BranchInv, TypeInv, StateOK, PRs
  <2> QED BY <1>4, <2>1, <2>2, <2>3, <2>4, <2>5 DEF Continue
<1>5. CASE Forge
  BY <1>5 DEF Forge, Merge, ClosePR, PushToBase, reqVars, BranchInv, TypeInv, StateOK, PRs
<1>6. CASE Restart
  BY <1>6 DEF Restart, gitVars, BranchInv
<1>7. CASE UNCHANGED vars
  BY <1>7 DEF vars, reqVars, gitVars, BranchInv
<1> QED BY <1>2, <1>3, <1>4, <1>5, <1>6, <1>7 DEF Next, Steps

LEMMA TypeStart == Init => TypeInv /\ BranchInv
<1> SUFFICES ASSUME Init PROVE TypeInv /\ BranchInv
  OBVIOUS
<1>1. StoreInv
  BY EmptyIsClean, StoreAssumption
  DEF Init, StoreInv, StoreTypeOK, MemClean, RestartLosesNothing, Visible, Files
<1> QED
  BY <1>1, EmptyIsClean, ProposeAssumption
  DEF Init, TypeInv, StateOK, BranchInv, StoreInv, PCs, PRs, PRStates, Trees, Drafts, Empty

RacedOK == raced \in [Requests -> SUBSET Keys]

(* The lifecycle's state is well formed whatever the users, the forge, the *)
(* failures and the restarts do.                                           *)
THEOREM TypeCorrect == Spec => []TypeOK
<1>1. TypeInv /\ BranchInv /\ [Next]_vars => TypeInv' /\ BranchInv'
  BY TypeStep, BranchStep
<1>2. Init => RacedOK
  BY DEF Init, RacedOK
<1>3. RacedOK /\ [Next]_vars => RacedOK'
  BY DEF Next, NoteRaces, vars, RacedOK
<1>4. TypeInv /\ RacedOK => TypeOK
  BY DEF TypeInv, TypeOK, RacedOK
<1>5. Spec => [](TypeInv /\ BranchInv)
  BY TypeStart, <1>1, PTL DEF Spec
<1>6. Spec => []RacedOK
  BY <1>2, <1>3, PTL DEF Spec
<1> QED BY <1>4, <1>5, <1>6, PTL

--------------------------------------------------------------------------------
(* The write lock.                                                         *)

LEMMA LockStep ==
    ASSUME TypeInv, LockedInside, [Next]_vars
    PROVE  LockedInside'
<1>1. ASSUME NEW r \in Requests, Continue(r)
      PROVE  LockedInside'
  <2>1. CASE BeginCommit(r)
    BY <2>1 DEF BeginCommit, Goto, LockedInside, TypeInv, StateOK
  <2>2. CASE CommitRefused(r) \/ NothingToCommit(r) \/ Push(r)
    BY <2>2 DEF CommitRefused, NothingToCommit, Push, LockedInside
  <2>3. CASE \/ RepoUnavailable(r) \/ CloneFails(r) \/ ReadView(r) \/ ClearDraft(r)
             \/ ClearSatisfied(r) \/ FindPR(r) \/ ReopenPR(r) \/ CreatePR(r)
    <3>1. pc[r] # "cloned" /\ wmu' = wmu /\ \E l \in PCs : pc' = [pc EXCEPT ![r] = l]
      BY <2>3 DEF RepoUnavailable, CloneFails, ReadView, ClearDraft, ClearSatisfied, FindPR,
                  ReopenPR, CreatePR, OnOffer, Return, Goto, PCs, gitVars
    <3> QED BY <3>1 DEF LockedInside, TypeInv, StateOK
  <2> QED BY <1>1, <2>1, <2>2, <2>3 DEF Continue
<1>2. ASSUME NEW r \in Requests, ProposeList(r)
      PROVE  LockedInside'
  BY <1>2 DEF ProposeList, Goto, LockedInside, TypeInv, StateOK
<1>3. CASE \E p \in Pairs : User(p)
  BY <1>3 DEF User, StageEntry, UnstageEntry, Discard, reqVars, LockedInside
<1>4. CASE Forge \/ UNCHANGED vars
  BY <1>4 DEF Forge, Merge, ClosePR, PushToBase, vars, reqVars, LockedInside
<1>5. CASE Restart
  BY <1>5 DEF Restart, LockedInside
<1> QED BY <1>1, <1>2, <1>3, <1>4, <1>5 DEF Next, Steps

(* A failing clone, commit or push never leaves the repository locked.     *)
THEOREM LockReleased == Spec => []LockedInside
<1>1. Init => LockedInside
  BY DEF Init, LockedInside
<1>2. TypeInv /\ BranchInv /\ LockedInside /\ [Next]_vars
         => TypeInv' /\ BranchInv' /\ LockedInside'
  BY TypeStep, BranchStep, LockStep
<1> QED BY TypeStart, <1>1, <1>2, PTL DEF Spec

--------------------------------------------------------------------------------
(* Nothing staged is lost.  A propose under way holds what its user's      *)
(* draft shows, its push carries the same, and once it is on offer nothing *)
(* is owed: the clear that follows can only drop what a reviewer has.      *)

OwedIsKept ==
    \A p \in Pairs, k \in Keys :
        owed[p][k] # None => /\ Visible(p)[k] = owed[p][k]
                             /\ Parsed(disk[p])[k] = owed[p][k]

OneUnderWay ==
    \A r, s \in Requests :
        pc[r] # "idle" /\ pc[s] # "idle" /\ Caller[r] = Caller[s] => r = s

ListedIsDraft ==
    \A r \in Requests : pc[r] # "idle" => items[r] = Visible(Caller[r])

PushedIsListed ==
    \A r \in Requests :
        pc[r] \in {"pushed", "reopen", "create"} => branch[Caller[r]].items = items[r]

ClearOwesNothing ==
    \A r \in Requests :
        pc[r] = "clear" => /\ owed[Caller[r]] = Empty
                          /\ branch[Caller[r]].items = items[r]

SatisfiedIsBase ==
    \A r \in Requests : pc[r] = "satisfied" => Apply(snap[r], items[r]) = snap[r]

DraftInv == OwedIsKept /\ OneUnderWay /\ ListedIsDraft /\ PushedIsListed /\ ClearOwesNothing

(* Steps that leave the drafts, the branches and what is owed alone, and   *)
(* move no request but to idle or between two steps before its push.       *)
LEMMA QuietStep ==
    ASSUME TypeInv, DraftInv, SameDrafts, UNCHANGED <<branch, owed>>,
           \A r \in Requests :
              \/ pc'[r] = "idle"
              \/ pc'[r] = pc[r] /\ items'[r] = items[r]
              \/ /\ pc[r] # "idle" /\ items'[r] = items[r]
                 /\ pc'[r] \in {"viewed", "cloned", "satisfied"}
              \/ /\ pc[r] = "pushed" /\ items'[r] = items[r]
                 /\ pc'[r] \in {"reopen", "create"}
              \/ /\ pc[r] = "reopen" /\ items'[r] = items[r]
                 /\ pc'[r] = "create"
    PROVE  DraftInv'
<1>1. OwedIsKept'
  BY DEF DraftInv, OwedIsKept, SameDrafts
<1>2. \A r \in Requests : pc'[r] # "idle" => pc[r] # "idle" /\ items'[r] = items[r]
  OBVIOUS
<1>3. OneUnderWay' /\ ListedIsDraft'
  BY <1>2, CallerType DEF DraftInv, OneUnderWay, ListedIsDraft, SameDrafts
<1>4. PushedIsListed' /\ ClearOwesNothing'
  BY DEF DraftInv, PushedIsListed, ClearOwesNothing
<1> QED BY <1>1, <1>3, <1>4 DEF DraftInv

Idle(p) == \A r \in Requests : Caller[r] = p => pc[r] = "idle"

OthersKeep(p) ==
    \A q \in Pairs \ {p} :
        Visible(q)' = Visible(q) /\ disk'[q] = disk[q] /\ owed'[q] = owed[q]

(* A user with no propose under way changes one entry, or discards all. *)
LEMMA UserKeeps ==
    ASSUME Overlap = {}, TypeInv, DraftInv, NEW p \in Pairs, User(p)
    PROVE  DraftInv'
<1>1. None \notin StaleCreates /\ StoreInv
  BY StoreAssumption DEF TypeInv
<1>2. \A q \in Pairs : owed[q] \in Drafts
  BY DEF TypeInv, StateOK
<1>3. Idle(p) /\ UNCHANGED <<reqVars, gitVars>>
  BY DEF User, StageEntry, UnstageEntry, Discard, Quiet, Idle
<1>4. \A q \in Pairs \ {p} : /\ Visible(q)' = Visible(q)
                              /\ Parsed(disk[q])' = Parsed(disk[q])
                              /\ owed'[q] = owed[q]
  <2>1. ASSUME NEW k \in Keys, NEW e \in Payloads \ StaleCreates, StageEntry(p, k, e)
        PROVE  OthersKeep(p)
    BY <2>1, <1>1, EditedDraft, PersistedEffect, PersistFailsEffect, LoadFailsEffect
    DEF StageEntry, StageOK, StageFails, Owe, TypeInv, StateOK, OthersKeep
  <2>2. ASSUME NEW k \in Keys, UnstageEntry(p, k)
        PROVE  OthersKeep(p)
    BY <2>2, <1>1, EditedDraft, PersistedEffect, PersistFailsEffect, LoadFailsEffect
    DEF UnstageEntry, UnstageOK, UnstageFails, Owe, TypeInv, StateOK, OthersKeep
  <2>3. ASSUME Discard(p)
        PROVE  OthersKeep(p)
    <3>1. \A q \in Pairs \ {p} : Visible(q)' = Visible(q) /\ disk'[q] = disk[q]
      BY <2>3, <1>1, ClearEffect DEF Discard
    <3>2. \A q \in Pairs \ {p} : owed'[q] = owed[q]
      BY <2>3 DEF Discard, TypeInv, StateOK
    <3> QED BY <3>1, <3>2 DEF OthersKeep
  <2>4. OthersKeep(p)
    BY <2>1, <2>2, <2>3 DEF User
  <2> QED BY <2>4 DEF OthersKeep, Parsed
<1>5. \A j \in Keys : owed'[p][j] # None =>
         Visible(p)'[j] = owed'[p][j] /\ Parsed(disk[p])'[j] = owed'[p][j]
  <2>1. ASSUME NEW k \in Keys, NEW e \in (Payloads \union {None}) \ StaleCreates,
               NEW o \in Payloads \union {None}, o = e \/ o = None, Owe(p, k, o),
               \/ Persisted(p, [Visible(p) EXCEPT ![k] = e])
               \/ /\ o = None
                  /\ PersistFails(p, [Visible(p) EXCEPT ![k] = e])
        PROVE  \A j \in Keys : owed'[p][j] # None =>
                 Visible(p)'[j] = owed'[p][j] /\ Parsed(disk[p])'[j] = owed'[p][j]
    <3> DEFINE d == [Visible(p) EXCEPT ![k] = e]
    <3>1. d \in Drafts /\ (\A j \in Keys : d[j] \notin StaleCreates) /\ Visible(p) \in Drafts
      BY <1>1, EditedDraft, VisibleType DEF StoreInv
    <3>2. Visible(p)' = d /\ Parsed(disk[p])' \in {d, Parsed(disk[p])}
      BY <2>1, <1>1, <3>1, PersistedEffect, PersistFailsEffect
    <3>3. Parsed(disk[p])' = d \/ o = None
      BY <2>1, <1>1, <3>1, PersistedEffect
    <3>4. owed'[p] = [owed[p] EXCEPT ![k] = o]
      BY <2>1 DEF Owe, TypeInv, StateOK
    <3>5. \A j \in Keys \ {k} : d[j] = Visible(p)[j] /\ owed'[p][j] = owed[p][j]
      BY <3>1, <3>4, <1>2 DEF Drafts
    <3>6. d[k] = e /\ owed'[p][k] = o
      BY <3>1, <3>4, <1>2 DEF Drafts
    <3>7. \A j \in Keys \ {k} : owed[p][j] # None =>
             Visible(p)[j] = owed[p][j] /\ Parsed(disk[p])[j] = owed[p][j]
      BY DEF DraftInv, OwedIsKept
    <3> QED BY <2>1, <3>2, <3>3, <3>5, <3>6, <3>7
  <2>2. ASSUME NEW q \in Pairs, LoadFails(q), UNCHANGED owed
        PROVE  \A j \in Keys : owed'[p][j] # None =>
                 Visible(p)'[j] = owed'[p][j] /\ Parsed(disk[p])'[j] = owed'[p][j]
    BY <2>2, <1>1, LoadFailsEffect DEF DraftInv, OwedIsKept
  <2>3. ASSUME NEW k \in Keys, NEW e \in Payloads \ StaleCreates, StageEntry(p, k, e)
        PROVE  \A j \in Keys : owed'[p][j] # None =>
                 Visible(p)'[j] = owed'[p][j] /\ Parsed(disk[p])'[j] = owed'[p][j]
    BY <2>1, <2>2, <2>3 DEF StageEntry, StageOK, StageFails
  <2>4. ASSUME NEW k \in Keys, UnstageEntry(p, k)
        PROVE  \A j \in Keys : owed'[p][j] # None =>
                 Visible(p)'[j] = owed'[p][j] /\ Parsed(disk[p])'[j] = owed'[p][j]
    BY <1>1, <2>1, <2>2, <2>4 DEF UnstageEntry, UnstageOK, UnstageFails
  <2>5. CASE Discard(p)
    BY <2>5 DEF Discard, Empty, TypeInv, StateOK
  <2> QED BY <2>3, <2>4, <2>5 DEF User
<1>6. OwedIsKept'
  BY <1>4, <1>5 DEF DraftInv, OwedIsKept
<1>7. OneUnderWay' /\ PushedIsListed'
  BY <1>3 DEF DraftInv, OneUnderWay, PushedIsListed, reqVars, gitVars
<1>8. ListedIsDraft' /\ ClearOwesNothing'
  BY <1>3, <1>4, CallerType
  DEF DraftInv, ListedIsDraft, ClearOwesNothing, Idle, reqVars, gitVars
<1> QED BY <1>6, <1>7, <1>8 DEF DraftInv

(* A request lists its user's draft: nothing else of the user was under way. *)
LEMMA ListKeeps ==
    ASSUME Overlap = {}, TypeInv, DraftInv, NEW r \in Requests, ProposeList(r)
    PROVE  DraftInv'
<1>1. Caller[r] \in Pairs /\ StoreInv
  BY CallerType DEF TypeInv
<1>2. SameDrafts
  BY <1>1, StoreRead DEF ProposeList
<1>3. Idle(Caller[r]) /\ pc[r] = "idle" /\ UNCHANGED <<branch, owed>>
  BY DEF ProposeList, Quiet, Idle, gitVars
<1>4. CASE UNCHANGED <<pc, items>>
  BY <1>2, <1>3, <1>4, QuietStep
<1>5. CASE items' = [items EXCEPT ![r] = Visible(Caller[r])] /\ Goto(r, "listed")
  <2>1. /\ pc'[r] = "listed" /\ items'[r] = Visible(Caller[r])
        /\ \A s \in Requests \ {r} : pc'[s] = pc[s] /\ items'[s] = items[s]
    BY <1>5 DEF Goto, TypeInv, StateOK
  <2>2. OwedIsKept'
    BY <1>2, <1>3 DEF DraftInv, OwedIsKept, SameDrafts
  <2>3. OneUnderWay'
    BY <2>1, <1>3 DEF DraftInv, OneUnderWay, Idle
  <2>4. ListedIsDraft'
    BY <2>1, <1>1, <1>2, CallerType DEF DraftInv, ListedIsDraft, SameDrafts
  <2>5. PushedIsListed' /\ ClearOwesNothing'
    BY <2>1, <1>3 DEF DraftInv, PushedIsListed, ClearOwesNothing
  <2> QED BY <2>2, <2>3, <2>4, <2>5 DEF DraftInv
<1> QED BY <1>4, <1>5 DEF ProposeList

(* The steps before the push, and those that end a request. *)
LEMMA EarlyKeeps ==
    ASSUME TypeInv, DraftInv, NEW r \in Requests,
           \/ RepoUnavailable(r) \/ ReadView(r) \/ BeginCommit(r) \/ CloneFails(r)
           \/ CommitRefused(r) \/ NothingToCommit(r)
    PROVE  DraftInv'
<1>1. Caller[r] \in Pairs /\ StoreInv
  BY CallerType DEF TypeInv
<1>2. SameDrafts
  BY <1>1, StoreRead, StoreAlone, StoreStill
  DEF RepoUnavailable, ReadView, BeginCommit, CloneFails, CommitRefused, NothingToCommit
<1>3. UNCHANGED <<branch, owed>>
  BY DEF RepoUnavailable, ReadView, BeginCommit, CloneFails, CommitRefused, NothingToCommit, gitVars
<1>4. \/ Return(r)
      \/ /\ pc[r] # "idle" /\ items' = items
         /\ Goto(r, "viewed") \/ Goto(r, "cloned") \/ Goto(r, "satisfied")
  BY DEF RepoUnavailable, ReadView, BeginCommit, CloneFails, CommitRefused, NothingToCommit
<1> QED BY <1>2, <1>3, <1>4, QuietStep DEF Return, Goto, TypeInv, StateOK

(* What Discharge leaves owed, when the branch carries what the draft shows. *)
LEMMA DischargedDraft ==
    ASSUME TypeInv, DraftInv, NEW r \in Requests, NEW STATE d,
           d = Visible(Caller[r]), Discharge(Caller[r], d)
    PROVE  /\ owed'[Caller[r]] = Empty
           /\ \A q \in Pairs \ {Caller[r]} : owed'[q] = owed[q]
<1>1. Caller[r] \in Pairs
  BY CallerType
<1>2. \A k \in Keys : owed[Caller[r]][k] # None => owed[Caller[r]][k] = d[k]
  BY <1>1 DEF DraftInv, OwedIsKept
<1> QED BY <1>1, <1>2 DEF Discharge, Empty, TypeInv, StateOK, Drafts

(* A request whose branch carries its entries reaches the clear. *)
LEMMA OfferKeeps ==
    ASSUME TypeInv, DraftInv, NEW r \in Requests, pc[r] # "idle", SameDrafts,
           Goto(r, "clear"), Discharge(Caller[r], items[r]), items' = items,
           branch'[Caller[r]].items = items[r],
           \A q \in Pairs \ {Caller[r]} : branch'[q] = branch[q]
    PROVE  DraftInv'
<1>1. Caller[r] \in Pairs /\ items[r] = Visible(Caller[r])
  BY CallerType DEF DraftInv, ListedIsDraft
<1>2. /\ owed'[Caller[r]] = Empty
      /\ \A q \in Pairs \ {Caller[r]} : owed'[q] = owed[q]
  BY <1>1, DischargedDraft
<1>3. pc'[r] = "clear" /\ \A s \in Requests \ {r} : pc'[s] = pc[s]
  BY DEF Goto, TypeInv, StateOK
<1>4. OwedIsKept'
  BY <1>2 DEF DraftInv, OwedIsKept, SameDrafts, Empty
<1>5. OneUnderWay' /\ ListedIsDraft'
  BY <1>1, <1>3, CallerType DEF DraftInv, OneUnderWay, ListedIsDraft, SameDrafts
<1>6. \A s \in Requests \ {r} : pc[s] # "idle" => Caller[s] \in Pairs \ {Caller[r]}
  BY CallerType DEF DraftInv, OneUnderWay
<1>7. PushedIsListed' /\ ClearOwesNothing'
  BY <1>2, <1>3, <1>6 DEF DraftInv, PushedIsListed, ClearOwesNothing
<1> QED BY <1>4, <1>5, <1>7 DEF DraftInv

LEMMA PushKeeps ==
    ASSUME TypeInv, DraftInv, NEW r \in Requests, Push(r)
    PROVE  DraftInv'
<1>1. Caller[r] \in Pairs /\ StoreInv /\ pc[r] = "cloned"
  BY CallerType DEF TypeInv, Push
<1>2. SameDrafts
  BY <1>1, StoreAlone DEF Push
<1>3. Commit(r).items = items[r]
  BY DEF Commit
<1>4. \A s \in Requests \ {r} : pc[s] # "idle" => Caller[s] \in Pairs \ {Caller[r]}
  BY <1>1, CallerType DEF DraftInv, OneUnderWay
<1>5. \A q \in Pairs \ {Caller[r]} : branch'[q] = branch[q]
  BY <1>1 DEF Push, proposedBranch, TypeInv, StateOK
<1>6. CASE Return(r) /\ UNCHANGED owed
  <2>1. pc'[r] = "idle" /\ \A s \in Requests \ {r} : pc'[s] = pc[s] /\ items'[s] = items[s]
    BY <1>6 DEF Return, Goto, TypeInv, StateOK
  <2>2. OwedIsKept'
    BY <1>2, <1>6 DEF DraftInv, OwedIsKept, SameDrafts
  <2>3. OneUnderWay' /\ ListedIsDraft'
    BY <2>1, <1>2, CallerType DEF DraftInv, OneUnderWay, ListedIsDraft, SameDrafts
  <2>4. PushedIsListed' /\ ClearOwesNothing'
    BY <2>1, <1>4, <1>5, <1>6 DEF DraftInv, PushedIsListed, ClearOwesNothing
  <2> QED BY <2>2, <2>3, <2>4 DEF DraftInv
<1>7. CASE branch' = [branch EXCEPT ![Caller[r]] = Commit(r)] /\ items' = items
           /\ Goto(r, "pushed") /\ UNCHANGED owed
  <2>1. pc'[r] = "pushed" /\ \A s \in Requests \ {r} : pc'[s] = pc[s]
    BY <1>7 DEF Goto, TypeInv, StateOK
  <2>2. branch'[Caller[r]].items = items[r]
    BY <1>1, <1>3, <1>7 DEF TypeInv, StateOK
  <2>3. OwedIsKept'
    BY <1>2, <1>7 DEF DraftInv, OwedIsKept, SameDrafts
  <2>4. OneUnderWay' /\ ListedIsDraft'
    BY <2>1, <1>1, <1>2, <1>7, CallerType DEF DraftInv, OneUnderWay, ListedIsDraft, SameDrafts
  <2>5. PushedIsListed' /\ ClearOwesNothing'
    BY <2>1, <2>2, <1>4, <1>5, <1>7 DEF DraftInv, PushedIsListed, ClearOwesNothing
  <2> QED BY <2>3, <2>4, <2>5 DEF DraftInv
<1>8. CASE branch' = [branch EXCEPT ![Caller[r]] = Commit(r)] /\ items' = items
           /\ Goto(r, "clear") /\ Discharge(Caller[r], branch'[Caller[r]].items)
  <2>1. branch'[Caller[r]].items = items[r]
    BY <1>1, <1>3, <1>8 DEF TypeInv, StateOK
  <2>2. Discharge(Caller[r], items[r])
    BY <2>1, <1>8
  <2> QED BY <2>1, <2>2, <1>1, <1>2, <1>5, <1>8, OfferKeeps
<1> QED BY <1>6, <1>7, <1>8 DEF Push, proposedBranch

LEMMA PRKeeps ==
    ASSUME TypeInv, DraftInv, NEW r \in Requests, FindPR(r) \/ ReopenPR(r) \/ CreatePR(r)
    PROVE  DraftInv'
<1>1. Caller[r] \in Pairs /\ StoreInv
  BY CallerType DEF TypeInv
<1>2. SameDrafts
  BY <1>1, StoreAlone DEF FindPR, ReopenPR, CreatePR
<1>3. branch' = branch /\ pc[r] \in {"pushed", "reopen", "create"}
  BY DEF FindPR, ReopenPR, CreatePR, gitVars
<1>4. branch[Caller[r]].items = items[r]
  BY <1>3 DEF DraftInv, PushedIsListed
<1>5. \/ Return(r) /\ UNCHANGED owed
      \/ OnOffer(r) /\ items' = items
      \/ /\ UNCHANGED <<items, owed>>
         /\ \/ pc[r] = "pushed" /\ (Goto(r, "reopen") \/ Goto(r, "create"))
            \/ pc[r] = "reopen" /\ Goto(r, "create")
  BY DEF FindPR, ReopenPR, CreatePR
<1>6. CASE OnOffer(r) /\ items' = items
  <2>1. Goto(r, "clear") /\ Discharge(Caller[r], items[r])
    BY <1>4, <1>6 DEF OnOffer, proposedBranch
  <2> QED BY <2>1, <1>2, <1>3, <1>4, <1>6, OfferKeeps
<1>7. CASE ~(OnOffer(r) /\ items' = items)
  BY <1>2, <1>3, <1>5, <1>7, QuietStep DEF Return, Goto, TypeInv, StateOK
<1> QED BY <1>6, <1>7

(* The clear drops nothing that is owed. *)
LEMMA ClearKeeps ==
    ASSUME TypeInv, DraftInv, SatisfiedIsBase, NEW r \in Requests, ClearDraft(r) \/ ClearSatisfied(r)
    PROVE  DraftInv'
<1>1. Caller[r] \in Pairs /\ StoreInv /\ pc[r] # "idle"
  BY CallerType DEF TypeInv, ClearDraft, ClearSatisfied
<1>2. \A q \in Pairs \ {Caller[r]} : Visible(q)' = Visible(q) /\ Parsed(disk[q])' = Parsed(disk[q])
  <2>1. \A q \in Pairs \ {Caller[r]} : Visible(q)' = Visible(q) /\ disk'[q] = disk[q]
    BY <1>1, ClearEffect DEF ClearDraft, ClearSatisfied
  <2> QED BY <2>1 DEF Parsed
<1>3. /\ owed'[Caller[r]] = Empty
      /\ \A q \in Pairs \ {Caller[r]} : owed'[q] = owed[q]
  <2>1. CASE ClearDraft(r)
    BY <2>1 DEF ClearDraft, DraftInv, ClearOwesNothing
  <2>2. CASE ClearSatisfied(r)
    <3>1. items[r] = Visible(Caller[r]) /\ items[r] \in Drafts
      BY <1>1 DEF DraftInv, ListedIsDraft, TypeInv, StateOK
    <3>2. Apply(snap[r], items[r]) = snap[r]
      BY <2>2 DEF ClearSatisfied, SatisfiedIsBase
    <3>3. Satisfied(r) = items[r]
      BY <3>1, <3>2 DEF Satisfied, Drafts
    <3>4. Discharge(Caller[r], items[r])
      BY <2>2, <3>3 DEF ClearSatisfied
    <3> QED BY <3>1, <3>4, DischargedDraft
  <2> QED BY <2>1, <2>2
<1>4. branch' = branch /\ pc'[r] = "idle"
      /\ \A s \in Requests \ {r} : pc'[s] = pc[s] /\ items'[s] = items[s]
  BY DEF ClearDraft, ClearSatisfied, gitVars, Return, Goto, TypeInv, StateOK
<1>5. \A s \in Requests \ {r} : pc[s] # "idle" => Caller[s] \in Pairs \ {Caller[r]}
  BY <1>1, CallerType DEF DraftInv, OneUnderWay
<1>6. OwedIsKept'
  BY <1>2, <1>3 DEF DraftInv, OwedIsKept, Empty
<1>7. OneUnderWay' /\ ListedIsDraft'
  BY <1>2, <1>4, <1>5 DEF DraftInv, OneUnderWay, ListedIsDraft
<1>8. PushedIsListed' /\ ClearOwesNothing'
  BY <1>3, <1>4, <1>5 DEF DraftInv, PushedIsListed, ClearOwesNothing
<1> QED BY <1>6, <1>7, <1>8 DEF DraftInv

(* A request said to be satisfied was: its clone held all of its entries. *)
LEMMA SatisfiedStep ==
    ASSUME TypeInv, SatisfiedIsBase, [Next]_vars
    PROVE  SatisfiedIsBase'
<1>1. ASSUME NEW s \in Requests,
             pc[s] = "satisfied" /\ items'[s] = items[s] /\ snap'[s] = snap[s]
      PROVE  Apply(snap'[s], items'[s]) = snap'[s]
  BY <1>1 DEF SatisfiedIsBase
<1>2. ASSUME NEW r \in Requests, NothingToCommit(r)
      PROVE  SatisfiedIsBase'
  BY <1>2, <1>1 DEF NothingToCommit, Goto, SatisfiedIsBase, Apply, TypeInv, StateOK
<1>3. ASSUME NEW r \in Requests, ProposeList(r) \/ (Continue(r) /\ ~NothingToCommit(r))
      PROVE  \A s \in Requests : pc'[s] = "satisfied" =>
               pc[s] = "satisfied" /\ items'[s] = items[s] /\ snap'[s] = snap[s]
  BY <1>3
  DEF ProposeList, Continue, RepoUnavailable, ReadView, BeginCommit, CloneFails, CommitRefused,
      Push, FindPR, ReopenPR, CreatePR, ClearDraft, ClearSatisfied, OnOffer, Return, Goto,
      TypeInv, StateOK
<1>4. CASE Restart
  BY <1>4 DEF Restart, SatisfiedIsBase
<1>5. CASE (\E p \in Pairs : User(p)) \/ Forge \/ UNCHANGED vars
  <2>1. UNCHANGED <<pc, items, snap>>
    BY <1>5 DEF User, StageEntry, UnstageEntry, Discard, Forge, Merge, ClosePR, PushToBase,
                vars, reqVars
  <2> QED BY <2>1, <1>1 DEF SatisfiedIsBase, Apply
<1>6. ASSUME NEW r \in Requests, ProposeList(r) \/ (Continue(r) /\ ~NothingToCommit(r))
      PROVE  SatisfiedIsBase'
  BY <1>1, <1>3, <1>6 DEF SatisfiedIsBase, Apply
<1> QED BY <1>2, <1>4, <1>5, <1>6 DEF Next, Steps

LEMMA DraftStep ==
    ASSUME Overlap = {}, TypeInv, DraftInv, SatisfiedIsBase, [Next]_vars
    PROVE  DraftInv'
<1>1. CASE Forge \/ UNCHANGED vars
  <2>1. StoreInv /\ UNCHANGED storeVars /\ UNCHANGED <<pc, items, branch, owed>>
    BY <1>1 DEF Forge, Merge, ClosePR, PushToBase, vars, reqVars, gitVars, TypeInv
  <2> QED BY <2>1, StoreStill, QuietStep
<1>2. CASE Restart
  <2>1. \A q \in Pairs : Visible(q)' = Parsed(disk[q]) /\ Parsed(disk[q])' = Parsed(disk[q])
    BY <1>2, RestartEffect DEF Restart, TypeInv
  <2>2. UNCHANGED <<branch, owed>> /\ \A r \in Requests : pc'[r] = "idle"
    BY <1>2 DEF Restart, gitVars
  <2> QED
    BY <2>1, <2>2
    DEF DraftInv, OwedIsKept, OneUnderWay, ListedIsDraft, PushedIsListed, ClearOwesNothing
<1> QED
  BY <1>1, <1>2, UserKeeps, ListKeeps, EarlyKeeps, PushKeeps, PRKeeps, ClearKeeps
  DEF Next, Steps, Continue

LEMMA DraftStart == Init => DraftInv /\ SatisfiedIsBase
BY DEF Init, DraftInv, SatisfiedIsBase, OwedIsKept, OneUnderWay, ListedIsDraft, PushedIsListed,
       ClearOwesNothing, Empty

(* With one propose of a user at a time, an acknowledged change stays in   *)
(* the draft until it is on offer, already on base, or withdrawn.          *)
THEOREM NothingStagedIsLost == Overlap = {} => (Spec => []StagedUntilProposed)
<1> SUFFICES ASSUME Overlap = {} PROVE Spec => []StagedUntilProposed
  OBVIOUS
<1>1. TypeInv /\ BranchInv /\ DraftInv /\ SatisfiedIsBase /\ [Next]_vars
         => TypeInv' /\ BranchInv' /\ DraftInv' /\ SatisfiedIsBase'
  BY TypeStep, BranchStep, DraftStep, SatisfiedStep
<1>2. DraftInv => StagedUntilProposed
  BY DEF DraftInv, OwedIsKept, StagedUntilProposed
<1> QED BY TypeStart, DraftStart, <1>1, <1>2, PTL DEF Spec

(* And what a propose is about to clear is what its branch offers: users   *)
(* proposing into one repository never take each other's branch.           *)
THEOREM OffersAreOwn == Overlap = {} => (Spec => []OfferIsTheCallersDraft)
<1> SUFFICES ASSUME Overlap = {} PROVE Spec => []OfferIsTheCallersDraft
  OBVIOUS
<1>1. TypeInv /\ BranchInv /\ DraftInv /\ SatisfiedIsBase /\ [Next]_vars
         => TypeInv' /\ BranchInv' /\ DraftInv' /\ SatisfiedIsBase'
  BY TypeStep, BranchStep, DraftStep, SatisfiedStep
<1>2. DraftInv => OfferIsTheCallersDraft
  BY DEF DraftInv, ClearOwesNothing, OfferIsTheCallersDraft, proposedBranch
<1> QED BY TypeStart, DraftStart, <1>1, <1>2, PTL DEF Spec
--------------------------------------------------------------------------------
(* The description.  The draft is listed twice by one propose: for what it *)
(* commits, and for what the pull request says.                            *)

(* Where what a propose has listed is no longer its draft, its view or its *)
(* branch, another tab got between.                                        *)
DiffersOnRaced(r, d) == \A k \in Keys : d[k] # items[r][k] => k \in raced[r]

RacesNoted ==
    \A r \in Requests :
        /\ pc[r] = "listed" => DiffersOnRaced(r, Visible(Caller[r]))
        /\ pc[r] \in {"idle", "listed"} => view[r] = Nobody
        /\ view[r] # Nobody => DiffersOnRaced(r, view[r])
        /\ pc[r] \in {"pushed", "reopen", "create"} => DiffersOnRaced(r, branch[Caller[r]].items)

(* What a step does to a request that it is not the start or a reading of. *)
LEMMA RaceStep ==
    ASSUME TypeInv, RacesNoted, NoteRaces, NEW r \in Requests,
           \/ pc'[r] = "idle" /\ view'[r] = Nobody
           \/ /\ items'[r] = items[r] /\ view'[r] = view[r]
              /\ \/ pc'[r] = pc[r]
                 \/ pc[r] # "idle" /\ pc'[r] \in {"viewed", "cloned", "satisfied", "clear"}
                 \/ /\ pc[r] \in {"pushed", "reopen"} /\ pc'[r] \in {"reopen", "create"}
                    /\ branch' = branch
                 \/ /\ pc'[r] = "pushed" /\ pc[r] = "cloned"
                    /\ branch'[Caller[r]].items = items[r]
    PROVE  /\ pc'[r] = "listed" => DiffersOnRaced(r, Visible(Caller[r]))'
           /\ pc'[r] \in {"idle", "listed"} => view'[r] = Nobody
           /\ view'[r] # Nobody => DiffersOnRaced(r, view[r])'
           /\ pc'[r] \in {"pushed", "reopen", "create"} =>
                 DiffersOnRaced(r, branch[Caller[r]].items)'
<1>1. CASE pc'[r] = "idle" /\ view'[r] = Nobody
  BY <1>1
<1>2. CASE pc'[r] # "idle" /\ items'[r] = items[r] /\ view'[r] = view[r]
  <2>1. raced'[r] = raced[r] \union
            {k \in Keys :
                \/ pc[r] = "listed" /\ Visible(Caller[r])'[k] # Visible(Caller[r])[k]
                \/ /\ pc[r] \in {"pushed", "reopen", "create"} /\ branch'[Caller[r]] # branch[Caller[r]]
                   /\ branch'[Caller[r]].items[k] # items[r][k]}
    BY <1>2 DEF NoteRaces, proposedBranch
  <2>2. view'[r] # Nobody => DiffersOnRaced(r, view[r])'
    BY <1>2, <2>1 DEF RacesNoted, DiffersOnRaced
  <2>3. pc'[r] \in {"idle", "listed"} => view'[r] = Nobody
    BY <1>2 DEF RacesNoted
  <2>4. ASSUME pc'[r] = "listed" PROVE DiffersOnRaced(r, Visible(Caller[r]))'
    <3>1. pc[r] = "listed"
      BY <1>2, <2>4
    <3> QED BY <1>2, <2>1, <3>1 DEF RacesNoted, DiffersOnRaced
  <2>5. ASSUME pc'[r] \in {"pushed", "reopen", "create"}
        PROVE  DiffersOnRaced(r, branch[Caller[r]].items)'
    <3>1. CASE pc[r] \in {"pushed", "reopen", "create"}
      BY <1>2, <2>1, <3>1 DEF RacesNoted, DiffersOnRaced
    <3>2. CASE branch'[Caller[r]].items = items[r]
      BY <1>2, <3>2 DEF DiffersOnRaced
    <3> QED BY <1>2, <2>5, <3>1, <3>2
  <2> QED BY <2>2, <2>3, <2>4, <2>5
<1>3. CASE pc'[r] = "idle" /\ pc[r] = "idle" /\ view'[r] = view[r]
  BY <1>1, <1>3 DEF RacesNoted
<1> QED BY <1>1, <1>2, <1>3

LEMMA RacesStep ==
    ASSUME TypeInv, RacesNoted, [Next]_vars
    PROVE  RacesNoted'
<1> DEFINE Fine(r) ==
        \/ pc'[r] = "idle" /\ view'[r] = Nobody
        \/ /\ items'[r] = items[r] /\ view'[r] = view[r]
           /\ \/ pc'[r] = pc[r]
              \/ pc[r] # "idle" /\ pc'[r] \in {"viewed", "cloned", "satisfied", "clear"}
              \/ /\ pc[r] \in {"pushed", "reopen"} /\ pc'[r] \in {"reopen", "create"}
                 /\ branch' = branch
              \/ /\ pc'[r] = "pushed" /\ pc[r] = "cloned"
                 /\ branch'[Caller[r]].items = items[r]
<1>1. CASE UNCHANGED vars
  <2>1. \A p \in Pairs : Visible(p)' = Visible(p)
    BY <1>1 DEF vars, storeVars, Visible, Parsed
  <2> QED BY <1>1, <2>1, CallerType DEF vars, reqVars, gitVars, RacesNoted, DiffersOnRaced
<1>2. CASE Steps /\ NoteRaces
  <2>1. CASE (\E p \in Pairs : User(p)) \/ Forge
    <3>1. \A r \in Requests : Fine(r)
      BY <2>1 DEF User, StageEntry, UnstageEntry, Discard, Forge, Merge, ClosePR, PushToBase, reqVars
    <3> QED BY <1>2, <3>1, RaceStep DEF RacesNoted
  <2>2. CASE Restart
    <3>1. \A r \in Requests : Fine(r)
      BY <2>2 DEF Restart
    <3> QED BY <1>2, <3>1, RaceStep DEF RacesNoted
  <2>3. ASSUME NEW r \in Requests, ProposeList(r)
        PROVE  RacesNoted'
    <3>1. /\ \A s \in Requests \ {r} : Fine(s)
          /\ view' = view /\ pc[r] = "idle"
          /\ \/ pc'[r] = "idle"
             \/ pc'[r] = "listed" /\ items'[r] = Visible(Caller[r])
      BY <2>3 DEF ProposeList, Goto, TypeInv, StateOK
    <3>2. Visible(Caller[r])' = Visible(Caller[r])
      BY <2>3, StoreRead, CallerType DEF ProposeList, TypeInv, SameDrafts
    <3>3. view'[r] = Nobody
      BY <3>1 DEF RacesNoted
    <3>4. ASSUME pc'[r] = "listed" PROVE DiffersOnRaced(r, Visible(Caller[r]))'
      BY <3>1, <3>2, <3>4 DEF DiffersOnRaced
    <3>5. /\ pc'[r] = "listed" => DiffersOnRaced(r, Visible(Caller[r]))'
          /\ pc'[r] \in {"idle", "listed"} => view'[r] = Nobody
          /\ view'[r] # Nobody => DiffersOnRaced(r, view[r])'
          /\ pc'[r] \in {"pushed", "reopen", "create"} =>
                DiffersOnRaced(r, branch[Caller[r]].items)'
      BY <3>1, <3>3, <3>4
    <3> QED BY <1>2, <3>1, <3>5, RaceStep DEF RacesNoted
  <2>4. ASSUME NEW r \in Requests, ReadView(r)
        PROVE  RacesNoted'
    <3>1. /\ \A s \in Requests \ {r} : Fine(s)
          /\ items' = items /\ pc[r] = "listed" /\ pc'[r] = "viewed"
          /\ view'[r] \in {view[r], Visible(Caller[r])}
      BY <2>4 DEF ReadView, Goto, TypeInv, StateOK
    <3>2. view[r] = Nobody /\ DiffersOnRaced(r, Visible(Caller[r]))
      BY <3>1 DEF RacesNoted
    <3>3. raced[r] \subseteq raced'[r]
      BY <1>2, <3>1 DEF NoteRaces
    <3>4. view'[r] # Nobody => DiffersOnRaced(r, view[r])'
      BY <3>1, <3>2, <3>3 DEF DiffersOnRaced
    <3>5. /\ pc'[r] = "listed" => DiffersOnRaced(r, Visible(Caller[r]))'
          /\ pc'[r] \in {"idle", "listed"} => view'[r] = Nobody
          /\ view'[r] # Nobody => DiffersOnRaced(r, view[r])'
          /\ pc'[r] \in {"pushed", "reopen", "create"} =>
                DiffersOnRaced(r, branch[Caller[r]].items)'
      BY <3>1, <3>4
    <3> QED BY <1>2, <3>1, <3>5, RaceStep DEF RacesNoted
  <2>5. ASSUME NEW r \in Requests,
               \/ RepoUnavailable(r) \/ CloneFails(r) \/ CommitRefused(r) \/ ClearDraft(r)
               \/ ClearSatisfied(r) \/ BeginCommit(r) \/ NothingToCommit(r)
        PROVE  RacesNoted'
    <3>1. \A s \in Requests : Fine(s)
      BY <2>5 DEF RepoUnavailable, CloneFails, CommitRefused, ClearDraft, ClearSatisfied,
                  BeginCommit, NothingToCommit, Return, Goto, TypeInv, StateOK
    <3> QED BY <1>2, <3>1, RaceStep DEF RacesNoted
  <2>6. ASSUME NEW r \in Requests, Push(r)
        PROVE  RacesNoted'
    <3>1. \/ Return(r)
          \/ /\ UNCHANGED <<items, view>>
             /\ Goto(r, "pushed") \/ Goto(r, "clear")
             /\ branch' = [branch EXCEPT ![Caller[r]] = Commit(r)]
      BY <2>6 DEF Push, proposedBranch
    <3>2. pc[r] = "cloned"
      BY <2>6 DEF Push
    <3>3. branch' = [branch EXCEPT ![Caller[r]] = Commit(r)] => branch'[Caller[r]].items = items[r]
      BY CallerType DEF Commit, TypeInv, StateOK
    <3>4. \A s \in Requests : Fine(s)
      BY <3>1, <3>2, <3>3 DEF Return, Goto, TypeInv, StateOK
    <3> QED BY <1>2, <3>4, RaceStep DEF RacesNoted
  <2>7. ASSUME NEW r \in Requests, FindPR(r) \/ ReopenPR(r) \/ CreatePR(r)
        PROVE  RacesNoted'
    <3>1. /\ branch' = branch /\ pc[r] \in {"pushed", "reopen", "create"}
          /\ \/ Return(r)
             \/ UNCHANGED <<items, view>> /\ Goto(r, "clear")
             \/ /\ UNCHANGED <<items, view>> /\ pc[r] \in {"pushed", "reopen"}
                /\ \E l \in {"reopen", "create"} : Goto(r, l)
      BY <2>7 DEF FindPR, ReopenPR, CreatePR, OnOffer, gitVars
    <3>2. \A s \in Requests : Fine(s)
      BY <3>1 DEF Return, Goto, TypeInv, StateOK
    <3> QED BY <1>2, <3>2, RaceStep DEF RacesNoted
  <2> QED BY <1>2, <2>1, <2>2, <2>3, <2>4, <2>5, <2>6, <2>7 DEF Steps, Continue
<1> QED BY <1>1, <1>2 DEF Next

(* A new pull request describes the entries its branch carries, but for    *)
(* what another tab of its user staged between the two readings, or        *)
(* proposed over the branch: wherever a user may act from another tab.     *)
THEOREM DescriptionsAreTrue == Spec => NewPRDescribesBranch
<1>1. TypeInv /\ BranchInv /\ RacesNoted /\ [Next]_vars => TypeInv' /\ BranchInv' /\ RacesNoted'
  BY TypeStep, BranchStep, RacesStep
<1>2. Init => RacesNoted
  BY DEF Init, RacesNoted
<1> DEFINE Told ==
        \A r \in Requests :
            LET b == proposedBranch(Caller[r])
            IN  pc[r] = "create" /\ pc'[r] = "clear" /\ pr'[b].body # Nobody =>
                    \A k \in Keys : pr'[b].body[k] # branch[b].items[k] => k \in raced[r]
<1>3. TypeInv /\ RacesNoted /\ [Next]_vars => [Told]_vars
  <2> SUFFICES ASSUME TypeInv, RacesNoted, Steps, NEW r \in Requests,
                      pc[r] = "create", pc'[r] = "clear", pr'[Caller[r]].body # Nobody,
                      NEW k \in Keys, pr'[Caller[r]].body[k] # branch[Caller[r]].items[k]
               PROVE  k \in raced[r]
    BY DEF Next, proposedBranch
  <2>1. CreatePR(r)
    BY DEF Steps, Continue, User, StageEntry, UnstageEntry, Discard, ProposeList, RepoUnavailable,
           ReadView, BeginCommit, CloneFails, CommitRefused, NothingToCommit, Push, FindPR,
           ReopenPR, CreatePR, ClearDraft, ClearSatisfied, Forge, Merge, ClosePR, PushToBase,
           Restart, OnOffer, Return, Goto, reqVars, TypeInv, StateOK
  <2>2. pr'[Caller[r]].body = view[r]
    BY <2>1, CallerType DEF CreatePR, Return, Goto, proposedBranch, TypeInv, StateOK
  <2>3. DiffersOnRaced(r, view[r]) /\ DiffersOnRaced(r, branch[Caller[r]].items)
    BY <2>2 DEF RacesNoted
  <2> QED BY <2>2, <2>3 DEF DiffersOnRaced
<1>4. Spec => [][Told]_vars
  BY TypeStart, <1>1, <1>2, <1>3, PTL DEF Spec
<1> QED BY <1>4 DEF NewPRDescribesBranch
================================================================================
