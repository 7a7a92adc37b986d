----------------------------- MODULE DurableDraft -----------------------------
(***************************************************************************)
(* What a draft store promises its callers, with no file, cache or lock:   *)
(* every (user, project) pair has the draft its requests see and the draft *)
(* a restart would bring back.  A write changes the first and, unless the  *)
(* disk refused it, makes the second equal to it.                          *)
(***************************************************************************)

CONSTANTS Pairs,     \* the (user, project) pairs
          Keys,      \* the entry keys of a draft
          Payloads,  \* what an entry may hold
          None       \* a key with no entry

VARIABLES draft,     \* what List answers
          saved      \* what List would answer after a restart

Drafts == [Keys -> Payloads \union {None}]
Empty  == [k \in Keys |-> None]

Init == /\ draft \in [Pairs -> Drafts]
        /\ saved = draft

(* One entry set or removed; the whole visible draft is saved, or nothing. *)
Write(p, k, e) ==
    /\ draft' = [draft EXCEPT ![p][k] = e]
    /\ \/ saved' = [saved EXCEPT ![p] = draft'[p]]
       \/ UNCHANGED saved

(* A discard empties both; one the disk refused falls back to the saved. *)
Discard(p) ==
    \/ /\ draft' = [draft EXCEPT ![p] = Empty]
       /\ saved' = [saved EXCEPT ![p] = Empty]
    \/ /\ draft' = [draft EXCEPT ![p] = saved[p]]
       /\ UNCHANGED saved

Restart == /\ draft' = saved
           /\ UNCHANGED saved

Next == \/ \E p \in Pairs, k \in Keys, e \in Payloads \union {None} : Write(p, k, e)
        \/ \E p \in Pairs : Discard(p)
        \/ Restart

Spec == Init /\ [][Next]_<<draft, saved>>
================================================================================
