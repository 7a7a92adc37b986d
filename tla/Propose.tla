------------------------------- MODULE Propose -------------------------------
(***************************************************************************)
(* The draft lifecycle of one project repository: users stage changes into *)
(* their drafts (internal/changeset over internal/draft), propose them     *)
(* (Coordinator.Propose: list, view, commit, push, pull request, clear) and *)
(* reviewers merge or close the pull requests on the forge, while others   *)
(* push to the base branch and the process may restart anywhere.           *)
(*                                                                         *)
(* An entry key names the one file the entry writes (Entry.SourceFile); a  *)
(* tree maps a file to its content.  A payload either sets the whole file  *)
(* (a create, a template edit, a restore), patches it (a VM edit, which    *)
(* needs the file to exist on base) or deletes it.                         *)
(***************************************************************************)
EXTENDS DraftStore

CONSTANTS Contents,   \* what a file may hold
          Absent,     \* a file the tree does not have
          Bases,      \* what the base branch may begin with
          Requests,   \* propose calls that may run at once
          Caller,     \* [Requests -> Pairs]: whose draft a request proposes
          Overlap,    \* the points of a propose at which its user may act from another tab
          HasForge,   \* is a forge configured for the repository
          MaxMoves,   \* bound: direct pushes to the base branch
          Nobody      \* no holder of the write lock; no view; no branch; no snapshot

PCs == {"idle", "listed", "viewed", "cloned", "satisfied", "pushed", "reopen", "create", "clear"}

ASSUME ProposeAssumption ==
    /\ Payloads \subseteq [op : {"put", "patch", "delete"}, val : Contents]
    /\ Absent \notin Contents
    /\ Bases \subseteq [Keys -> Contents \union {Absent}]
    /\ Caller \in [Requests -> Pairs]
    /\ Overlap \subseteq PCs /\ HasForge \in BOOLEAN
    /\ MaxMoves \in Nat
    /\ Nobody \notin Requests \union Drafts
    /\ \A t \in [Keys -> Contents \union {Absent}] : t # Nobody
    /\ \A b \in [from  : [Keys -> Contents \union {Absent}],
                 tree  : [Keys -> Contents \union {Absent}],
                 items : Drafts] : b # Nobody

Trees    == [Keys -> Contents \union {Absent}]
Commits  == [from : Trees, tree : Trees, items : Drafts]
PRStates == {"none", "open", "closed", "merged"}
PRs      == [state : PRStates, body : Drafts \union {Nobody}]

VARIABLES pc,      \* where each propose request is
          items,   \* the entries it listed
          view,    \* the draft view it read for the PR body
          snap,    \* its clone of the base branch
          wmu,     \* WriteRepo.mu: the request committing
          base,    \* the base branch, on the remote
          branch,  \* the pushed working branches
          pr,      \* the newest pull request of each working branch
          owed,    \* history: acknowledged entries not yet on offer to a reviewer
          raced,   \* history: the files on which another tab got between two steps of a request
          moves    \* direct pushes to the base branch still to come

gitVars == <<base, branch, pr, moves>>
reqVars == <<pc, items, view, snap, wmu>>
vars    == <<storeVars, reqVars, gitVars, owed, raced>>

StateOK ==
    /\ StoreTypeOK
    /\ pc \in [Requests -> PCs]
    /\ items \in [Requests -> Drafts]
    /\ view \in [Requests -> Drafts \union {Nobody}]
    /\ snap \in [Requests -> Trees \union {Nobody}]
    /\ wmu \in Requests \union {Nobody}
    /\ base \in Trees
    /\ branch \in [Pairs -> Commits \union {Nobody}]
    /\ pr \in [Pairs -> PRs]
    /\ owed \in [Pairs -> Drafts]
    /\ moves \in 0..MaxMoves

TypeOK == StateOK /\ raced \in [Requests -> SUBSET Keys]

Init ==
    /\ mem = [p \in Pairs |-> NotLoaded]
    /\ disk = [p \in Pairs |-> Empty]
    /\ ahead = {}
    /\ faults = MaxFaults
    /\ pc = [r \in Requests |-> "idle"]
    /\ items = [r \in Requests |-> Empty]
    /\ view = [r \in Requests |-> Nobody]
    /\ snap = [r \in Requests |-> Nobody]
    /\ wmu = Nobody
    /\ base \in Bases
    /\ branch = [p \in Pairs |-> Nobody]
    /\ pr = [p \in Pairs |-> [state |-> "none", body |-> Nobody]]
    /\ owed = [p \in Pairs |-> Empty]
    /\ raced = [r \in Requests |-> {}]
    /\ moves = MaxMoves

--------------------------------------------------------------------------------
(* Staging.  With Overlap the user has another tab, or a second client.    *)

Quiet(p) == \A r \in Requests : Caller[r] = p => pc[r] \in {"idle"} \union Overlap

Owe(p, k, e) == owed' = [owed EXCEPT ![p][k] = e]

(* A write the disk refused was answered with an error: nothing is owed on *)
(* that key, whichever of the two values survives.                         *)
StageEntry(p, k, e) ==
    /\ Quiet(p)
    /\ \/ StageOK(p, k, e) /\ Owe(p, k, e)
       \/ StageFails(p, k, e) /\ Owe(p, k, None)
       \/ LoadFails(p) /\ UNCHANGED owed
    /\ UNCHANGED <<reqVars, gitVars>>

UnstageEntry(p, k) ==
    /\ Quiet(p)
    /\ \/ UnstageOK(p, k) /\ Owe(p, k, None)
       \/ UnstageFails(p, k) /\ Owe(p, k, None)
       \/ LoadFails(p) /\ UNCHANGED owed
    /\ UNCHANGED <<reqVars, gitVars>>

Discard(p) ==
    /\ Quiet(p)
    /\ Clear(p)
    /\ owed' = [owed EXCEPT ![p] = Empty]
    /\ UNCHANGED <<reqVars, gitVars>>

--------------------------------------------------------------------------------
(* A propose request r on the draft of Caller[r].                          *)

\* Mutation: a constant working branch.
OneBranchForAll(p) == CHOOSE q \in Pairs : TRUE

(* The per-(user, project) working branch; its name ends in a hash of the  *)
(* raw identity, so distinct pairs never share one.                        *)
proposedBranch(p) == p

Goto(r, l) == pc' = [pc EXCEPT ![r] = l]

Return(r) ==
    /\ Goto(r, "idle")
    /\ items' = [items EXCEPT ![r] = Empty]
    /\ view' = [view EXCEPT ![r] = Nobody]
    /\ snap' = [snap EXCEPT ![r] = Nobody]

StoreUntouched == UNCHANGED <<mem, disk, ahead>>

(* List; an empty draft is refused. *)
ProposeList(r) ==
    LET p == Caller[r]
    IN  /\ pc[r] = "idle"
        /\ Quiet(p)
        /\ \/ /\ ListOK(p)
              /\ IF Visible(p) = Empty THEN UNCHANGED <<pc, items>>
                 ELSE /\ items' = [items EXCEPT ![r] = Visible(p)]
                      /\ Goto(r, "listed")
           \/ LoadFails(p) /\ UNCHANGED <<pc, items>>
        /\ UNCHANGED <<view, snap, wmu, gitVars, owed>>

(* c.write: the repository pair cannot be opened. *)
RepoUnavailable(r) ==
    /\ pc[r] = "listed"
    /\ Fault
    /\ Return(r)
    /\ StoreUntouched
    /\ UNCHANGED <<wmu, gitVars, owed>>

\* Mutation: every description is the first draft's.
ReadFirstView(r) ==
    /\ pc[r] = "listed"
    /\ Goto(r, "viewed")
    /\ view' = [view EXCEPT ![r] = Visible(CHOOSE q \in Pairs : TRUE)]
    /\ UNCHANGED <<items, snap, wmu, storeVars, gitVars, owed>>

(* c.Get for the PR body lists the draft again; its failure is tolerated. *)
ReadView(r) ==
    /\ pc[r] = "listed"
    /\ Goto(r, "viewed")
    /\ \/ /\ ListOK(Caller[r])
          /\ view' = [view EXCEPT ![r] = Visible(Caller[r])]
       \/ /\ Fault
          /\ StoreUntouched
          /\ UNCHANGED view
    /\ UNCHANGED <<items, snap, wmu, gitVars, owed>>

(* CommitChangeset takes w.mu and clones the base branch. *)
BeginCommit(r) ==
    /\ pc[r] = "viewed"
    /\ wmu = Nobody
    /\ wmu' = r
    /\ snap' = [snap EXCEPT ![r] = base]
    /\ Goto(r, "cloned")
    /\ UNCHANGED <<items, view, storeVars, gitVars, owed>>

\* Mutation: an error return that skips the unlock.
CloneFailsLocked(r) ==
    /\ pc[r] = "viewed"
    /\ wmu = Nobody
    /\ wmu' = r
    /\ Fault
    /\ Return(r)
    /\ StoreUntouched
    /\ UNCHANGED <<gitVars, owed>>

CloneFails(r) ==
    /\ pc[r] = "viewed"
    /\ wmu = Nobody
    /\ Fault
    /\ Return(r)
    /\ StoreUntouched
    /\ UNCHANGED <<wmu, gitVars, owed>>

(* applyItem: a delete of an absent file is satisfied, a patch of one is   *)
(* an error.                                                               *)
Applies(tree, d) ==
    \A f \in Keys : d[f] # None /\ tree[f] = Absent => d[f].op # "patch"

Apply(tree, d) ==
    [f \in Keys |-> IF d[f] = None THEN tree[f]
                    ELSE IF d[f].op = "delete" THEN Absent
                    ELSE d[f].val]

CommitRefused(r) ==
    /\ pc[r] = "cloned"
    /\ ~Applies(snap[r], items[r])
    /\ wmu' = Nobody
    /\ Return(r)
    /\ UNCHANGED <<storeVars, gitVars, owed>>

\* Mutation: an unchanged file is enough to call the changeset empty.
SomethingUnchanged(r) ==
    /\ pc[r] = "cloned"
    /\ Applies(snap[r], items[r])
    /\ \E f \in Keys : items[r][f] # None /\ Apply(snap[r], items[r])[f] = snap[r][f]
    /\ wmu' = Nobody
    /\ Goto(r, "satisfied")
    /\ UNCHANGED <<items, view, snap, storeVars, gitVars, owed>>

NothingToCommit(r) ==
    /\ pc[r] = "cloned"
    /\ Applies(snap[r], items[r])
    /\ Apply(snap[r], items[r]) = snap[r]
    /\ wmu' = Nobody
    /\ Goto(r, "satisfied")
    /\ UNCHANGED <<items, view, snap, storeVars, gitVars, owed>>

Discharge(p, d) ==
    owed' = [owed EXCEPT ![p] = [k \in Keys |-> IF @[k] = d[k] THEN None ELSE @[k]]]

Commit(r) == [from |-> snap[r], tree |-> Apply(snap[r], items[r]), items |-> items[r]]

(* The force-push; one that reports a failure may still have landed.       *)
Push(r) ==
    LET b == proposedBranch(Caller[r])
    IN  /\ pc[r] = "cloned"
        /\ Applies(snap[r], items[r])
        /\ Apply(snap[r], items[r]) # snap[r]
        /\ wmu' = Nobody
        /\ \/ /\ branch' = [branch EXCEPT ![b] = Commit(r)]
              /\ IF HasForge
                 THEN Goto(r, "pushed") /\ UNCHANGED owed
                 ELSE Goto(r, "clear") /\ Discharge(Caller[r], branch'[b].items)
              /\ UNCHANGED <<items, view, snap, faults>>
           \/ /\ branch' \in {branch, [branch EXCEPT ![b] = Commit(r)]}
              /\ Fault
              /\ Return(r)
              /\ UNCHANGED owed
        /\ StoreUntouched
        /\ UNCHANGED <<base, pr, moves>>

(* The entries on the branch are before a reviewer. *)
OnOffer(r) ==
    /\ Goto(r, "clear")
    /\ Discharge(Caller[r], branch[proposedBranch(Caller[r])].items)

(* openOrRecoverPR, call by call. *)
FindPR(r) ==
    LET st == pr[proposedBranch(Caller[r])].state
    IN  /\ pc[r] = "pushed"
        /\ \/ st = "open" /\ OnOffer(r) /\ UNCHANGED faults
           \/ st = "closed" /\ Goto(r, "reopen") /\ UNCHANGED <<faults, owed>>
           \/ st \in {"none", "merged"} /\ Goto(r, "create") /\ UNCHANGED <<faults, owed>>
           \/ Fault /\ Goto(r, "create") /\ UNCHANGED owed
        /\ StoreUntouched
        /\ UNCHANGED <<items, view, snap, wmu, gitVars>>

ReopenPR(r) ==
    LET b == proposedBranch(Caller[r])
    IN  /\ pc[r] = "reopen"
        /\ \/ /\ pr[b].state \in {"open", "closed"}
              /\ pr' = [pr EXCEPT ![b].state = "open"]
              /\ OnOffer(r)
              /\ UNCHANGED faults
           \/ /\ \/ pr[b].state = "merged" /\ UNCHANGED faults
                 \/ Fault
              /\ Goto(r, "create")
              /\ UNCHANGED <<pr, owed>>
        /\ StoreUntouched
        /\ UNCHANGED <<items, view, snap, wmu, base, branch, moves>>

\* Mutation: the draft is cleared although the forge answered with no PR.
CreateOrClear(r) ==
    /\ pc[r] = "create"
    /\ Fault
    /\ Goto(r, "clear")
    /\ StoreUntouched
    /\ UNCHANGED <<items, view, snap, wmu, gitVars, owed>>

(* The forge refuses a second open PR of one branch; a refusal keeps the   *)
(* draft staged and answers with the compare URL.                          *)
CreatePR(r) ==
    LET b == proposedBranch(Caller[r])
    IN  /\ pc[r] = "create"
        /\ \/ /\ pr[b].state # "open"
              /\ pr' = [pr EXCEPT ![b] = [state |-> "open", body |-> view[r]]]
              /\ OnOffer(r)
              /\ UNCHANGED <<items, view, snap, faults>>
           \/ /\ \/ pr[b].state = "open" /\ UNCHANGED faults
                 \/ Fault
              /\ Return(r)
              /\ UNCHANGED <<pr, owed>>
        /\ StoreUntouched
        /\ UNCHANGED <<wmu, base, branch, moves>>

ClearDraft(r) ==
    /\ pc[r] = "clear"
    /\ Clear(Caller[r])
    /\ Return(r)
    /\ UNCHANGED <<wmu, gitVars, owed>>

(* The listed entries that base already holds. *)
Satisfied(r) ==
    [f \in Keys |-> IF Apply(snap[r], items[r])[f] = snap[r][f] THEN items[r][f] ELSE None]

(* ErrNoChanges. *)
ClearSatisfied(r) ==
    /\ pc[r] = "satisfied"
    /\ Clear(Caller[r])
    /\ Discharge(Caller[r], Satisfied(r))
    /\ Return(r)
    /\ UNCHANGED <<wmu, gitVars>>

--------------------------------------------------------------------------------
(* The forge's other users, and the process.                               *)

Mergeable(c) ==
    \A f \in Keys : c.tree[f] # c.from[f] => base[f] \in {c.from[f], c.tree[f]}

Merge(p) ==
    /\ pr[p].state = "open"
    /\ Mergeable(branch[p])
    /\ base' = [f \in Keys |-> IF branch[p].tree[f] # branch[p].from[f]
                               THEN branch[p].tree[f] ELSE base[f]]
    /\ pr' = [pr EXCEPT ![p].state = "merged"]
    /\ UNCHANGED <<storeVars, reqVars, branch, owed, moves>>

ClosePR(p) ==
    /\ pr[p].state = "open"
    /\ pr' = [pr EXCEPT ![p].state = "closed"]
    /\ UNCHANGED <<storeVars, reqVars, base, branch, owed, moves>>

PushToBase(f, c) ==
    /\ moves > 0
    /\ moves' = moves - 1
    /\ base' = [base EXCEPT ![f] = c]
    /\ UNCHANGED <<storeVars, reqVars, branch, pr, owed>>

Restart ==
    /\ StoreRestart
    /\ pc' = [r \in Requests |-> "idle"]
    /\ items' = [r \in Requests |-> Empty]
    /\ view' = [r \in Requests |-> Nobody]
    /\ snap' = [r \in Requests |-> Nobody]
    /\ wmu' = Nobody
    /\ UNCHANGED <<gitVars, owed>>

--------------------------------------------------------------------------------
Continue(r) ==
    \/ RepoUnavailable(r) \/ ReadView(r) \/ BeginCommit(r) \/ CloneFails(r)
    \/ CommitRefused(r) \/ NothingToCommit(r) \/ Push(r)
    \/ FindPR(r) \/ ReopenPR(r) \/ CreatePR(r)
    \/ ClearDraft(r) \/ ClearSatisfied(r)

User(p) ==
    \/ \E k \in Keys, e \in Payloads \ StaleCreates : StageEntry(p, k, e)
    \/ \E k \in Keys : UnstageEntry(p, k)
    \/ Discard(p)

Forge ==
    \/ \E p \in Pairs : Merge(p) \/ ClosePR(p)
    \/ \E f \in Keys, c \in Contents \union {Absent} : PushToBase(f, c)

(* Another tab stages between the two readings of a draft, or its propose  *)
(* pushes over what was pushed.                                            *)
NoteRaces ==
    raced' = [r \in Requests |->
        LET p == Caller[r]
            b == proposedBranch(p)
        IN  IF pc'[r] = "idle" THEN {}
            ELSE raced[r] \union
                 {k \in Keys :
                      \/ pc[r] = "listed" /\ Visible(p)'[k] # Visible(p)[k]
                      \/ /\ pc[r] \in {"pushed", "reopen", "create"} /\ branch'[b] # branch[b]
                         /\ branch'[b].items[k] # items[r][k]}]

Steps ==
    \/ \E p \in Pairs : User(p)
    \/ \E r \in Requests : ProposeList(r) \/ Continue(r)
    \/ Forge
    \/ Restart

Next == Steps /\ NoteRaces

Spec == Init /\ [][Next]_vars

--------------------------------------------------------------------------------
(* A change whose staging was acknowledged stays in the draft until it is  *)
(* on offer to a reviewer, is found already on base, or is withdrawn by    *)
(* its user - whatever fails or restarts on the way.                       *)
StagedUntilProposed ==
    \A p \in Pairs, k \in Keys : owed[p][k] # None => Visible(p)[k] = owed[p][k]

(* When a propose is about to clear a draft, the branch it pushed still    *)
(* carries the entries it listed: no other user's propose took the branch. *)
OfferIsTheCallersDraft ==
    \A r \in Requests :
        pc[r] = "clear" => branch[proposedBranch(Caller[r])].items = items[r]

(* The view read before the commit is what a new pull request says of its  *)
(* branch (propose.go:38-45), though the draft was listed a second time for *)
(* it: but for the files on which another tab of the same user got between. *)
NewPRDescribesBranch ==
    [][\A r \in Requests :
          LET b == proposedBranch(Caller[r])
          IN  pc[r] = "create" /\ pc'[r] = "clear" /\ pr'[b].body # Nobody =>
                  \A k \in Keys : pr'[b].body[k] # branch[b].items[k] => k \in raced[r]]_vars

(* The repository's write lock is held by a request that is inside the     *)
(* commit: whatever fails there, later proposes are not locked out.        *)
LockedInside == wmu # Nobody => pc[wmu] = "cloned"
================================================================================
