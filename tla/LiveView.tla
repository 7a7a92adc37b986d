-------------------------------- MODULE LiveView --------------------------------
(***************************************************************************)
(* What the live channel promises a viewer: a sequence of snapshots of the *)
(* sources it may see, each no newer than the world and none of its values *)
(* older than one the viewer was already shown.                            *)
(***************************************************************************)
EXTENDS Naturals

CONSTANTS Viewers, Repos, Live, Levels,
          Sees,    \* [Viewers -> [Levels -> SUBSET Repos]]: what each may see, by the topology
          Hidden,  \* a repository the viewer may not see
          Nothing  \* no snapshot shown yet

VARIABLES world,  \* what each source holds
          shown   \* the snapshot on each viewer's screen

Snapshots == [Repos \union {Live} -> Levels \union {Hidden}]

Init ==
    /\ world = [s \in Repos \union {Live} |-> 0]
    /\ shown = [v \in Viewers |-> Nothing]

Move(s) ==
    /\ world' = [world EXCEPT ![s] = @ + 1]
    /\ UNCHANGED shown

Allowed(v, f) ==
    /\ f[Live] \in Levels
    /\ \A r \in Repos : f[r] # Hidden <=> r \in Sees[v][f[Live]]

NotNewer(f) == \A s \in Repos \union {Live} : f[s] # Hidden => f[s] <= world[s]

NotOlder(f, g) ==
    g # Nothing =>
        \A s \in Repos \union {Live} : f[s] # Hidden /\ g[s] # Hidden => g[s] <= f[s]

Show(v, f) ==
    /\ Allowed(v, f)
    /\ NotNewer(f)
    /\ NotOlder(f, shown[v])
    /\ shown' = [shown EXCEPT ![v] = f]
    /\ UNCHANGED world

Next ==
    \/ \E s \in Repos \union {Live} : Move(s)
    \/ \E v \in Viewers, f \in Snapshots : Show(v, f)

Spec == Init /\ [][Next]_<<world, shown>>
=================================================================================
