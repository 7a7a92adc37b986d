-------------------------------- MODULE History --------------------------------
(***************************************************************************)
(* The history of a project's base branch (internal/git/history.go,        *)
(* internal/changeset/history.go, revert.go): what its rows say, what the  *)
(* review of a commit and of an open pull request shows, and the revert of *)
(* a commit, proposed as a pull request of its own.                        *)
(*                                                                         *)
(* The base branch is followed by first parents: a sequence of trees, each *)
(* a merged pull request or a direct push.  The server reads its mirror, a *)
(* prefix of that sequence; a revert is committed on a fresh clone, and    *)
(* its pull request lands on what the branch has become.  The branch of a  *)
(* revert bears the number of the commit; branch 0 is a draft's.           *)
(***************************************************************************)
EXTENDS Naturals, Sequences, FiniteSets, FiniteSetsExt

CONSTANTS Files, Contents, None,
          Roots,      \* what the branch may begin with
          Misreads,   \* what the mirror may fail to read at a time
          Limit,      \* rows a history lists
          Scan,       \* commits a walk inspects
          MaxCommits, \* bound: commits on the base branch
          MaxPushes   \* bound: branches pushed

\* What the values of the constants satisfy; the instances assume it.
HistoryAssumption ==
    /\ None \notin Contents /\ Roots \subseteq [Files -> Contents \union {None}]
    /\ None \notin [id : Nat, tip : [Files -> Contents \union {None}], fork : Nat]
    /\ {} \in Misreads /\ Misreads \subseteq SUBSET Files
    /\ {Limit, Scan, MaxCommits} \subseteq Nat \ {0} /\ MaxPushes \in Nat

Trees    == [Files -> Contents \union {None}]
Branches == 0..MaxCommits

VARIABLES base,     \* the base branch
          joined,   \* of each of its commits, the commit that it merged, or 0
          seen,     \* how much of it the mirror has
          pushed,   \* the branches: the one commit, its tree, and what it was forked at
          mirrored, \* those in the mirror
          prs,      \* their pull requests: the state, and what the body says
          pushes

vars == <<base, joined, seen, pushed, mirrored, prs, pushes>>

Top     == base[Len(base)]
Mirror  == base[seen]
Current == seen = Len(base)

--------------------------------------------------------------------------------
(* Reading.                                                                *)

\* Mutation: a commit that removed the file does not count.
TouchesPresent(k, f) == base[k][f] # None /\ (k = 1 \/ base[k][f] # base[k - 1][f])

(* touches: against the first parent; the root, against nothing.           *)
Touches(k, f) == base[k][f] # IF k = 1 THEN None ELSE base[k - 1][f]

(* FileHistory, walkHistory: the commits that touched a file, the newest   *)
(* that Scan and Limit leave.                                              *)
FileHistory(f) ==
    LET rows == {k \in 1..seen : k + Scan > seen /\ Touches(k, f)}
    IN  {k \in rows : Cardinality({j \in rows : j > k}) < Limit}

(* firstParentDiff of a commit that is not the root.                       *)
CommitDiff(k) == {f \in Files : Touches(k, f)}

\* Mutation: a file that is gone is passed over.
LaterPresent(k) == {f \in CommitDiff(k) : Mirror[f] \notin {None, base[k][f]}}

(* revertState: what was committed since to the files of a commit.         *)
Later(k) == {f \in CommitDiff(k) : Mirror[f] # base[k][f]}

Reverted(k) == CommitDiff(k) # {} /\ \A f \in CommitDiff(k) : Mirror[f] = base[k - 1][f]

(* What it warns of: of nothing once a file could not be read.             *)
Warning(k, unread) == IF unread \cap CommitDiff(k) # {} \/ Reverted(k) THEN {} ELSE Later(k)

(* RevertItems: each file of the commit as it was before, put on a tree.   *)
Undone(k, tree) == [f \in Files |-> IF f \in CommitDiff(k) THEN base[k - 1][f] ELSE tree[f]]

Delta(from, to) == {<<f, to[f]>> : f \in {x \in Files : from[x] # to[x]}}

(* revertFiles: against the base branch as the mirror has it, where a file *)
(* that cannot be read counts as none.                                     *)
RevertFiles(k, unread) ==
    LET current == [f \in Files |-> IF f \in unread THEN None ELSE Mirror[f]]
    IN  Delta(current, Undone(k, current))

\* Mutation: against the base branch itself.
DiffWithBase(b) == Delta(Mirror, mirrored[b].tip)

(* The last commit that both branches of the mirror have: the branch's own *)
(* once it is merged, or else where it left the base branch.               *)
MergeBase(b) ==
    LET head == mirrored[b]
    IN  IF \E i \in 1..seen : joined[i] = head.id THEN head.tip ELSE base[Min({seen, head.fork})]

BranchDiff(b) == Delta(MergeBase(b), mirrored[b].tip)

--------------------------------------------------------------------------------
(* CommitChangeset pushes one commit on the base branch as it stands, over *)
(* what the branch was.                                                    *)
Pushed(b, tree) ==
    pushed' = [pushed EXCEPT ![b] = [id |-> pushes + 1, tip |-> tree, fork |-> Len(base)]]

(* openOrRecoverPR: an open or a closed one is found again, with the body  *)
(* that it was opened with.  The forge may not answer.                     *)
OpenOrRecover(b, body) ==
    LET found == prs[b] # None /\ prs[b].state # "merged"
    IN  \E answers \in BOOLEAN :
            prs' = [prs EXCEPT ![b] =
                      IF found THEN [state |-> IF answers THEN "open" ELSE @.state, body |-> [@.body EXCEPT !.own = FALSE]]
                      ELSE IF answers THEN [state |-> "open", body |-> body] ELSE @]

(* The body of a revert; that it was written for the push it stands beside, *)
(* what the mirror had then, and that revertState could read it.           *)
RevertBody(k, unread, missed) ==
    [files |-> RevertFiles(k, unread), later |-> Warning(k, missed),
     own |-> TRUE, at |-> seen, whole |-> missed \cap CommitDiff(k) = {}]

Revert(k) ==
    /\ pushes < MaxPushes /\ pushes' = pushes + 1
    /\ k \in 2..seen
    /\ CommitDiff(k) # {} /\ Undone(k, Top) # Top
    /\ Pushed(k, Undone(k, Top))
    /\ \E unread \in Misreads, missed \in Misreads : OpenOrRecover(k, RevertBody(k, unread, missed))
    /\ UNCHANGED <<base, joined, seen, mirrored>>

DraftBody == [files |-> {}, later |-> {}, own |-> FALSE, at |-> 0, whole |-> FALSE]

(* A draft proposed: what it stages is Propose's and Staging's matter.     *)
ProposeDraft(f, v) ==
    /\ pushes < MaxPushes /\ pushes' = pushes + 1
    /\ Top[f] # v
    /\ Pushed(0, [Top EXCEPT ![f] = v])
    /\ OpenOrRecover(0, DraftBody)
    /\ UNCHANGED <<base, joined, seen, mirrored>>

(* refresh: the branches of the mirror move together.                      *)
Fetch ==
    /\ ~Current \/ mirrored # pushed
    /\ seen' = Len(base) /\ mirrored' = pushed
    /\ UNCHANGED <<base, joined, pushed, prs, pushes>>

(* The forge merges three ways, and refuses a file that both sides changed.*)
Forked(b)    == base[pushed[b].fork]
Mergeable(b) ==
    \A f \in Files : pushed[b].tip[f] = Forked(b)[f] \/ Top[f] \in {Forked(b)[f], pushed[b].tip[f]}
Merged(b)    == [f \in Files |-> IF pushed[b].tip[f] = Forked(b)[f] THEN Top[f] ELSE pushed[b].tip[f]]

Open(b) == prs[b] # None /\ prs[b].state = "open"

Land(b) ==
    /\ Len(base) < MaxCommits
    /\ Open(b) /\ Mergeable(b)
    /\ base' = Append(base, Merged(b)) /\ joined' = Append(joined, pushed[b].id)
    /\ prs' = [prs EXCEPT ![b].state = "merged"]
    /\ UNCHANGED <<seen, pushed, mirrored, pushes>>

Close(b) ==
    /\ Open(b)
    /\ prs' = [prs EXCEPT ![b].state = "closed"]
    /\ UNCHANGED <<base, joined, seen, pushed, mirrored, pushes>>

(* Others push to the base branch, or merge what dotvirt has no part in.   *)
OthersPush(tree) ==
    /\ Len(base) < MaxCommits
    /\ tree # Top
    /\ base' = Append(base, tree) /\ joined' = Append(joined, 0)
    /\ UNCHANGED <<seen, pushed, mirrored, prs, pushes>>

Init ==
    /\ base \in {<<t>> : t \in Roots} /\ joined = <<0>>
    /\ seen = 1
    /\ pushed   = [b \in Branches |-> None]
    /\ mirrored = pushed
    /\ prs      = [b \in Branches |-> None]
    /\ pushes = 0

Next ==
    \/ Fetch
    \/ \E k \in Branches : Revert(k) \/ Land(k) \/ Close(k)
    \/ \E f \in Files, v \in Contents \union {None} : ProposeDraft(f, v)
    \/ \E tree \in Trees : OthersPush(tree)

Spec == Init /\ [][Next]_vars

--------------------------------------------------------------------------------
(* The rows of a file's history are its whole past, up to where they end:  *)
(* the newest row made what the branch holds, and each row began where the *)
(* one below it stopped (history.go:23-28).                                *)
HistoryChains ==
    \A f \in Files :
        LET rows == FileHistory(f)
        IN  /\ rows = {} => Mirror[f] = IF seen > Scan THEN base[seen - Scan][f] ELSE None
            /\ rows # {} => Mirror[f] = base[Max(rows)][f]
            /\ \A j, k \in rows :
                   j < k /\ (\A i \in rows : i <= j \/ k <= i) => base[k - 1][f] = base[j][f]

(* A revert whose pull request carries no warning undoes its commit, and    *)
(* of what came later only what others put on the base branch between what  *)
(* the mirror had and the clone the revert was committed on, whatever they  *)
(* push while it is open (history.go:138-141).  Its body is the one written *)
(* for it, from files that could be read.                                   *)
UnwarnedUndoesOnlyIt ==
    [][base' # base => \A k \in Branches \ {0} :
          Open(k) /\ prs[k].body.own /\ prs[k].body.whole /\ prs[k].body.later = {}
          /\ prs'[k].state = "merged" =>
              \A f \in Files : Top[f] # Top'[f] =>
                  /\ Top'[f] = base[k - 1][f]
                  /\ \/ Top[f] = base[k][f]
                     \/ \E j \in (prs[k].body.at + 1)..pushed[k].fork : Touches(j, f)]_vars

(* The review of an open pull request, once the mirror has its branch,     *)
(* lists what landing it changes, and nothing that others changed since it *)
(* was forked, however far behind the base branch the mirror is            *)
(* (history.go:198-200).                                                   *)
ReviewShowsTheMerge ==
    [][base' # base => \A b \in Branches :
          Open(b) /\ mirrored[b] = pushed[b] /\ prs'[b].state = "merged" =>
              \A f \in Files :
                  LET shown == {e[2] : e \in {x \in BranchDiff(b) : x[1] = f}}
                  IN  IF shown = {} THEN Top'[f] = Top[f] ELSE shown = {Top'[f]}]_vars

(* The body of a revert says what merging it does, later changes included  *)
(* (revert.go:17-19): so when it has just been proposed from a mirror that *)
(* had the whole base branch.                                              *)
BodySaysWhatMergingDoes ==
    [][\A k \in Branches \ {0} :
          Current /\ pushed'[k] # pushed[k] /\ prs'[k] # None /\ prs'[k].state = "open" =>
              prs'[k].body.files = Delta(Top, pushed'[k].tip)]_vars
================================================================================
