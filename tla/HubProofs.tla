------------------------------- MODULE HubProofs -------------------------------
(***************************************************************************)
(* For any connections, identities, repositories, moves and failed builds: *)
(* a frame that the hub takes for current is, and what a client shows is a *)
(* sequence of snapshots as LiveView promises it (FrameHub).               *)
(***************************************************************************)
EXTENDS FrameHub, FiniteSetTheorems, TLAPS

Stamps  == [live : Nat, keys : UNION {[d -> Nat] : d \in SUBSET Repos}]
Works   == [at : WorkSteps, total : [Kinds -> Nat], stamp : Stamps, left : SUBSET Repos,
            frame : Frames]
Entries == [data : Frames, deps : SUBSET Repos, stamp : Stamps]

Types ==
    /\ BusTypeOK
    /\ store \in [Sources -> Levels]
    /\ budget \in Levels
    /\ faults \in 0..MaxFaults
    /\ pc \in {"wait", "target", "conns", "scan", "build", "check"}
    /\ target \in [Kinds -> Nat]
    /\ kick \in BOOLEAN
    /\ byKey \in [Idents -> SUBSET Conns]
    /\ todo \subseteq Idents
    /\ work \in [Idents -> Works \union {NoWork}]
    /\ idents \in [Idents -> Entries \union {None}]
    /\ failed \subseteq Idents
    /\ joined \in [Conns -> {"off", "joining", "on", "gone"}]
    /\ last \in [Conns -> Frames \union {None}]
    /\ out \in [Conns -> Frames \union {None}]
    /\ shown \in [Conns -> Frames \union {None}]

(* The level of a source, as a stamp reads it, and as a stamp holds it.    *)
Level(s)      == IF s = Live THEN Version(Live) ELSE KeyVersion(s)
Stamped(st, s) == IF s = Live THEN st.live ELSE st.keys[s]

(* A source is at its level, but for what is still to be published.        *)
Published ==
    /\ store[Live] = versions[Live] + (IF pub[Live] = "moved" THEN 1 ELSE 0)
    /\ \A r \in Repos : store[r] = KeyVersion(r) + (IF pub[r] \in {"moved", "counted"} THEN 1 ELSE 0)
    /\ \A s \in Sources : store[s] + budget <= MaxMoves

(* The level that the kind's version already tells of: no move of it goes  *)
(* unseen by a reader of Total.                                            *)
Told(s) ==
    IF s = Live THEN versions[Live] ELSE KeyVersion(s) + (IF pub[s] = "counted" THEN 1 ELSE 0)

Shows(f) == {s \in Sources : f[s] # Hidden}

(* What f shows, the stores have held.                                     *)
Held(f) == \A s \in Shows(f) : f[s] <= store[s]

NotOlder(f, g) ==
    g # None => \A s \in Shows(f) \intersect Shows(g) : g[s] <= f[s]

(* No connection of i has anything newer than f.                           *)
Latest(i, f) ==
    \A c \in Conns : IdentOf[c] = i => NotOlder(f, shown[c]) /\ NotOlder(f, out[c])

Allowed(i, f) ==
    /\ f[Live] # Hidden
    /\ \A r \in Repos : f[r] # Hidden <=> r \in Sees[i][f[Live]]

(* A stamp of the sources in S was read before what f shows of them.       *)
Covers(st, S) == DOMAIN st.keys = S /\ \A s \in {Live} \union S : Stamped(st, s) <= Level(s)
Before(st, f)  == \A s \in Shows(f) \intersect ({Live} \union DOMAIN st.keys) : Stamped(st, s) <= f[s]

EntryOK(i) ==
    LET e == idents[i]
    IN  e # None =>
            /\ e.deps = Deps(e.data)
            /\ Allowed(i, e.data) /\ Held(e.data)
            /\ work[i].at = "none" => Latest(i, e.data)
            /\ Covers(e.stamp, e.deps) /\ Before(e.stamp, e.data)

Reading == {"repos", "restamp", "recheck", "built"}

(* What a build has read of the sources; nothing before it comes to them.  *)
FrameOK(i, w) ==
    /\ w.at \in {"due", "stamp", "topology"} => Shows(w.frame) = {}
    /\ w.at \in Reading =>
          /\ w.frame[Live] # Hidden
          /\ w.left \subseteq Sees[i][w.frame[Live]]
          /\ \A r \in Repos : w.frame[r] # Hidden <=> r \in Sees[i][w.frame[Live]] \ w.left
          /\ Held(w.frame) /\ Latest(i, w.frame)
    /\ w.at \in Reading \ {"repos"} => w.left = {}

(* What its stamp says of it: as long as the Total that it began with      *)
(* stands, no source it has read was told of since.                        *)
StampOK(i, w) ==
    /\ w.at \in {"stamp", "topology", "repos", "restamp", "recheck"} =>
          \A k \in Kinds : w.total[k] <= versions[k]
    /\ w.at \in {"repos", "restamp", "recheck"} /\ w.total = versions =>
          \A s \in Shows(w.frame) : Told(s) <= w.frame[s]
    /\ w.at \in {"topology", "repos"} => Covers(w.stamp, DepsOf(i)) /\ Before(w.stamp, w.frame)
    /\ w.at \in {"recheck", "built"} => Covers(w.stamp, Deps(w.frame))
    /\ w.at = "built" \/ (w.at = "recheck" /\ w.total = versions) => Before(w.stamp, w.frame)

WorkOK(i) ==
    LET w == work[i]
    IN  /\ w.at # "none" => w \in Works /\ pc \in {"scan", "build"}
        /\ pc = "scan" => w.at = "none" \/ (w.at = "due" /\ i \notin todo)
        /\ FrameOK(i, w) /\ StampOK(i, w)

ConnOK(c) ==
    /\ shown[c] # None => Held(shown[c])
    /\ out[c] # None => Allowed(IdentOf[c], out[c]) /\ Held(out[c]) /\ NotOlder(out[c], shown[c])

Inv ==
    /\ Types /\ Published
    /\ \A i \in Idents : EntryOK(i) /\ WorkOK(i) /\ \A c \in byKey[i] : IdentOf[c] = i
    /\ \A c \in Conns : ConnOK(c)

--------------------------------------------------------------------------------
(* Counters that only grow have grown if their sum has.                    *)
LEMMA TicksFinite ==
    ASSUME NEW st \in Stamps
    PROVE  IsFiniteSet(Ticks(st))
<1>1. st.live \in Nat /\ DOMAIN st.keys \subseteq Repos /\ \A r \in DOMAIN st.keys : st.keys[r] \in Nat
    BY DEF Stamps
<1> DEFINE column(r) == {r} \X (1..st.keys[r])
           columns   == {column(r) : r \in DOMAIN st.keys}
           of        == [r \in DOMAIN st.keys |-> column(r)]
<1>2. IsFiniteSet({Live} \X (1..st.live))
    <2>1. IsFiniteSet({Live})
        BY FS_Singleton
    <2>2. IsFiniteSet(1..st.live)
        BY <1>1, FS_Interval
    <2> QED
        BY <2>1, <2>2, FS_Product
<1>3. \A T \in columns : IsFiniteSet(T)
    <2> SUFFICES ASSUME NEW r \in DOMAIN st.keys PROVE IsFiniteSet(column(r))
        OBVIOUS
    <2>1. IsFiniteSet({r})
        BY FS_Singleton
    <2>2. IsFiniteSet(1..st.keys[r])
        BY <1>1, FS_Interval
    <2> QED
        BY <2>1, <2>2, FS_Product
<1>4. IsFiniteSet(columns)
    <2>1. IsFiniteSet(DOMAIN st.keys)
        BY <1>1, HubAssumption, FS_Subset
    <2>2. of \in Surjection(DOMAIN st.keys, columns)
        BY DEF Surjection
    <2> QED
        BY <2>1, <2>2, FS_Surjection
<1>5. IsFiniteSet(UNION columns)
    <2> HIDE DEF columns
    <2> QED
        BY <1>3, <1>4, FS_UNION
<1>6. Ticks(st) = ({Live} \X (1..st.live)) \union UNION columns
    BY DEF Ticks
<1> DEFINE left  == {Live} \X (1..st.live)
           right == UNION columns
<1>7. IsFiniteSet(left) /\ IsFiniteSet(right) /\ Ticks(st) = left \union right
    BY <1>2, <1>5, <1>6
<1> HIDE DEF left, right
<1> QED
    BY <1>7, FS_Union

LEMMA SumsTell ==
    ASSUME NEW S \in SUBSET Repos, NEW a \in Stamps, NEW b \in Stamps,
           DOMAIN a.keys = S, DOMAIN b.keys = S,
           \A s \in {Live} \union S : Stamped(a, s) <= Stamped(b, s),
           SumOf(a) = SumOf(b)
    PROVE  \A s \in {Live} \union S : Stamped(a, s) = Stamped(b, s)
<1>1. /\ a.live \in Nat /\ b.live \in Nat /\ Live \notin S
      /\ \A r \in S : a.keys[r] \in Nat /\ b.keys[r] \in Nat
    BY BusAssumption DEF Stamps
<1>2. a.live <= b.live /\ \A r \in S : a.keys[r] <= b.keys[r]
    BY <1>1 DEF Stamped
<1>3. Ticks(a) \subseteq Ticks(b)
    <2>1. {Live} \X (1..a.live) \subseteq {Live} \X (1..b.live)
        BY <1>1, <1>2
    <2>2. \A r \in S : {r} \X (1..a.keys[r]) \subseteq {r} \X (1..b.keys[r])
        BY <1>1, <1>2
    <2> QED
        BY <2>1, <2>2 DEF Ticks
<1>4. Ticks(a) = Ticks(b)
    BY <1>3, TicksFinite, FS_Subset DEF SumOf
<1>5. \A s, n : <<s, n>> \in Ticks(a) <=>
          (s = Live /\ n \in 1..a.live) \/ (s \in S /\ n \in 1..a.keys[s])
    BY DEF Ticks
<1>6. \A s, n : <<s, n>> \in Ticks(b) <=>
          (s = Live /\ n \in 1..b.live) \/ (s \in S /\ n \in 1..b.keys[s])
    BY DEF Ticks
<1>7. a.live = b.live
    <2>1. b.live \in 1..b.live => b.live \in 1..a.live
        BY <1>1, <1>4, <1>5, <1>6
    <2> QED
        BY <1>1, <1>2, <2>1
<1>8. ASSUME NEW r \in S PROVE a.keys[r] = b.keys[r]
    <2>1. b.keys[r] \in 1..b.keys[r] => b.keys[r] \in 1..a.keys[r]
        BY <1>1, <1>4, <1>5, <1>6
    <2> QED
        BY <1>1, <1>2, <2>1
<1> QED
    BY <1>7, <1>8 DEF Stamped

(* The frame that a build starts from shows nothing.                       *)
LEMMA Kindred ==
    /\ Live \in Sources /\ Git \in Kinds /\ Live \in Kinds /\ Hidden \notin Levels
    /\ Repos \subseteq Sources /\ Live \notin Repos
    /\ \A r \in Repos : r # Live
BY BusAssumption, HubAssumption DEF Sources, Kinds

LEMMA StampTypes ==
    ASSUME Types, NEW S \in SUBSET Repos
    PROVE  /\ Stamp(S) \in Stamps /\ DOMAIN Stamp(S).keys = S
           /\ \A s \in {Live} \union S : Stamped(Stamp(S), s) = Level(s)
<1>1. versions[Live] \in Nat /\ \A r \in Repos : KeyVersion(r) \in Nat
    BY Kindred DEF Types, BusTypeOK, KeyVersion
<1>2. [r \in S |-> KeyVersion(r)] \in [S -> Nat]
    BY <1>1
<1>3. Stamp(S) \in Stamps
    BY <1>1, <1>2 DEF Stamps, Stamp, Version
<1> QED
    BY <1>3, Kindred DEF Stamp, Stamped, Level

LEMMA InitInv == Init => Inv
<1> SUFFICES ASSUME Init PROVE Inv
    OBVIOUS
<1>1. BusTypeOK
    BY DEF Init, BusInit, BusTypeOK
<1>2. Types
    <2>1. MaxMoves \in Nat /\ MaxFaults \in Nat
        BY HubAssumption
    <2>2. target \in [Kinds -> Nat]
        BY <1>1 DEF Init, BusTypeOK
    <2>3. kick \in BOOLEAN
        BY DEF Init
    <2> QED
        BY <1>1, <2>1, <2>2, <2>3 DEF Init, Types, Levels
<1>3. Published
    BY Kindred, HubAssumption DEF Init, BusInit, Published, KeyVersion, Levels
<1>4. ASSUME NEW i \in Idents PROVE EntryOK(i) /\ WorkOK(i) /\ \A c \in byKey[i] : IdentOf[c] = i
    <2>1. work[i].at = "none" /\ idents[i] = None /\ byKey[i] = {} /\ pc = "wait"
        BY <1>4 DEF Init, NoWork
    <2> QED
        BY <2>1 DEF EntryOK, WorkOK, FrameOK, StampOK, Reading
<1>5. ASSUME NEW c \in Conns PROVE ConnOK(c)
    BY <1>5 DEF Init, ConnOK
<1> QED
    BY <1>2, <1>3, <1>4, <1>5 DEF Inv

--------------------------------------------------------------------------------
(* The builds and the connections stand while the sources move on: what a  *)
(* frame holds has still been held, what a stamp holds has been the level, *)
(* and a Total that changed does not come back.                            *)
LEMMA Quiet ==
    ASSUME Inv, Types', Published',
           \A s \in Sources : store[s] <= store'[s] /\ Level(s) <= Level(s)',
           \A k \in Kinds : versions[k] <= versions'[k],
           versions' = versions => \A s \in Sources : Told(s)' = Told(s),
           UNCHANGED <<work, out, shown>>,
           \A i \in Idents :
               \/ idents'[i] = idents[i]
               \/ idents'[i] = None /\ work[i].at = "none",
           \A i \in Idents :
               \/ work[i].at = "none"
               \/ pc' \in {"scan", "build"} /\ (pc' = "scan" => pc = "scan" /\ todo' = todo),
           \A i \in Idents : \A c \in byKey'[i] : IdentOf[c] = i
    PROVE  Inv'
<1>0. Types /\ Published
    BY DEF Inv
<1>1. /\ \A s \in Sources : store[s] \in Nat /\ store'[s] \in Nat
      /\ \A s \in Sources : Level(s) \in Nat /\ Level(s)' \in Nat
      /\ \A k \in Kinds : versions[k] \in Nat /\ versions'[k] \in Nat
    <2>1. \A n \in Levels : n \in Nat
        BY HubAssumption DEF Levels
    <2>2. versions \in [Kinds -> Nat] /\ broad \in [Kinds -> Nat] /\ keyed \in [Repos -> Nat]
        BY <1>0 DEF Types, BusTypeOK
    <2>3. (versions \in [Kinds -> Nat] /\ broad \in [Kinds -> Nat] /\ keyed \in [Repos -> Nat])'
        BY DEF Types, BusTypeOK
    <2>4. \A s \in Sources : store[s] \in Nat /\ store'[s] \in Nat
        BY <1>0, <2>1 DEF Types
    <2>5. \A s \in Sources : Level(s) \in Nat
        BY <2>2, Kindred DEF Level, Version, KeyVersion, Sources
    <2>6. \A s \in Sources : Level(s)' \in Nat
        BY <2>3, Kindred DEF Level, Version, KeyVersion, Sources
    <2> QED
        BY <2>2, <2>3, <2>4, <2>5, <2>6
<1>2. \A f \in Frames : Held(f) => Held(f)'
    BY <1>1 DEF Held, Shows, Frames, Levels
<1>3. \A i \in Idents : \A f : Latest(i, f)' = Latest(i, f)
    BY DEF Latest
<1>4. ASSUME NEW st \in Stamps, NEW S \in SUBSET Repos, Covers(st, S)
      PROVE  Covers(st, S)'
    <2> SUFFICES ASSUME NEW s \in {Live} \union S PROVE Stamped(st, s) <= Level(s)'
        BY <1>4 DEF Covers
    <2>1. s \in Sources /\ Stamped(st, s) \in Nat
        BY <1>4, Kindred DEF Covers, Stamped, Stamps
    <2>2. Stamped(st, s) <= Level(s)
        BY <1>4 DEF Covers
    <2> QED
        BY <1>1, <2>1, <2>2
<1>5. ASSUME NEW i \in Idents PROVE EntryOK(i)' /\ WorkOK(i)'
    <2>0. EntryOK(i) /\ WorkOK(i)
        BY DEF Inv
    <2>1. EntryOK(i)'
        <3>1. CASE idents'[i] = None
            BY <3>1 DEF EntryOK
        <3>2. CASE idents'[i] = idents[i] /\ idents[i] # None
            <4>1. idents[i].data \in Frames /\ idents[i].deps \in SUBSET Repos /\ idents[i].stamp \in Stamps
                BY <1>0, <3>2 DEF Types, Entries
            <4> QED
                BY <1>2, <1>3, <1>4, <2>0, <3>2, <4>1 DEF EntryOK
        <3> QED
            BY <3>1, <3>2
    <2>2. CASE work[i].at = "none"
        BY <2>1, <2>2 DEF WorkOK, FrameOK, StampOK, Reading
    <2>3. CASE work[i].at # "none"
        <3> DEFINE w == work[i]
        <3>1. w \in Works /\ pc \in {"scan", "build"} /\ idents'[i] = idents[i]
            BY <2>0, <2>3 DEF WorkOK
        <3>2. w.frame \in Frames /\ w.stamp \in Stamps /\ w.total \in [Kinds -> Nat]
            BY <3>1 DEF Works
        <3>3. FrameOK(i, w)'
            BY <1>2, <1>3, <2>0, <3>2 DEF WorkOK, FrameOK
        <3>4. StampOK(i, w)'
            <4>1. DepsOf(i)' = DepsOf(i) /\ DepsOf(i) \in SUBSET Repos /\ Deps(w.frame) \in SUBSET Repos
                BY <1>0, <3>1 DEF DepsOf, Deps, Types, Entries
            <4>2. w.at \in {"stamp", "topology", "repos", "restamp", "recheck"} =>
                      \A k \in Kinds : w.total[k] <= versions'[k]
                BY <1>1, <2>0, <3>2 DEF WorkOK, StampOK
            <4>3. ASSUME w.at \in {"stamp", "topology", "repos", "restamp", "recheck"}, w.total = versions'
                  PROVE  versions' = versions
                <5>1. \A k \in Kinds : w.total[k] <= versions[k]
                    BY <2>0, <4>3 DEF WorkOK, StampOK
                <5>2. \A k \in Kinds : versions'[k] = versions[k]
                    BY <1>1, <4>3, <5>1
                <5>3. versions \in [Kinds -> Nat] /\ versions' \in [Kinds -> Nat]
                    BY <1>0 DEF Types, BusTypeOK
                <5> QED
                    BY <5>2, <5>3
            <4>4. w.at \in {"repos", "restamp", "recheck"} /\ w.total = versions' =>
                      \A s \in Shows(w.frame) : Told(s)' <= w.frame[s]
                <5>1. Shows(w.frame) \subseteq Sources
                    BY DEF Shows
                <5> QED
                    BY <2>0, <4>3, <5>1 DEF WorkOK, StampOK
            <4>5. w.at = "recheck" /\ w.total = versions' => Before(w.stamp, w.frame)
                BY <2>0, <4>3 DEF WorkOK, StampOK
            <4>6. StampOK(i, w)
                BY <2>0 DEF WorkOK
            <4>7. w' = w
                OBVIOUS
            <4> HIDE DEF w
            <4>8. w.at \in {"topology", "repos"} => Covers(w.stamp, DepsOf(i))' /\ Before(w.stamp, w.frame)
                BY <1>4, <3>2, <4>1, <4>6, <4>7 DEF StampOK
            <4>9. w.at \in {"recheck", "built"} => Covers(w.stamp, Deps(w.frame))'
                BY <1>4, <3>2, <4>1, <4>6, <4>7 DEF StampOK
            <4> QED
                BY <4>1, <4>2, <4>4, <4>5, <4>6, <4>8, <4>9, <4>7 DEF StampOK
        <3> QED
            BY <2>0, <2>1, <2>3, <3>1, <3>3, <3>4 DEF WorkOK
    <2> QED
        BY <2>1, <2>2, <2>3
<1>6. ASSUME NEW c \in Conns PROVE ConnOK(c)'
    <2>1. shown[c] \in Frames \union {None} /\ out[c] \in Frames \union {None}
        BY <1>0 DEF Types
    <2> QED
        BY <1>2, <2>1 DEF Inv, ConnOK
<1> QED
    BY <1>5, <1>6 DEF Inv

(* A store moves, or its move is published: the levels follow.             *)
LEMMA WorldStep ==
    ASSUME Inv, NEW s \in Sources, Move(s) \/ Publish(s)
    PROVE  Inv'
<1>0. Types /\ Published
    BY DEF Inv
<1>1. /\ versions \in [Kinds -> Nat] /\ broad \in [Kinds -> Nat] /\ keyed \in [Repos -> Nat]
      /\ pub \in [Sources -> {"idle", "moved", "counted", "leveled"}]
      /\ store \in [Sources -> Levels] /\ budget \in Levels /\ MaxMoves \in Nat
      /\ Git # Live /\ Live \notin Repos /\ Sources = Repos \union {Live} /\ Kinds = {Git, Live}
    BY <1>0, BusAssumption, HubAssumption DEF Types, BusTypeOK, Sources, Kinds
<1> DEFINE Rest == UNCHANGED <<faults, pc, target, kick, byKey, todo, work, idents, failed,
                               joined, last, out, shown>>
<1>2. CASE Move(s)
    <2>1. /\ budget > 0 /\ budget' = budget - 1 /\ store' = [store EXCEPT ![s] = @ + 1]
          /\ pub[s] = "idle" /\ pub' = [pub EXCEPT ![s] = "moved"]
          /\ UNCHANGED <<versions, broad, keyed, pending>> /\ Rest
        BY <1>2 DEF Move, Due, hubVars, connVars
    <2>2. store[s] + 1 <= MaxMoves
        BY <1>0, <1>1, <2>1 DEF Published, Levels
    <2>3. Types'
        BY <1>0, <1>1, <2>1, <2>2 DEF Types, BusTypeOK, Levels
    <2>4. \A u \in Sources : store[u] <= store'[u] /\ Level(u) <= Level(u)' /\ Told(u)' = Told(u)
        BY <1>1, <2>1 DEF Levels, Level, Told, Version, KeyVersion
    <2>5. Published'
        BY <1>0, <1>1, <2>1 DEF Published, Levels, KeyVersion
    <2>6. \A k \in Kinds : versions[k] <= versions'[k]
        BY <1>1, <2>1
    <2>7. /\ UNCHANGED <<work, out, shown>> /\ idents' = idents /\ pc' = pc /\ todo' = todo
          /\ byKey' = byKey
        BY <2>1
    <2> QED
        BY <2>3, <2>4, <2>5, <2>6, <2>7, Quiet DEF Inv, WorkOK
<1>3. CASE BumpKind(s) /\ UNCHANGED <<store, budget, faults, hubVars, connVars>>
    <2>1. /\ pub[s] = "moved" /\ pub' = [pub EXCEPT ![s] = "counted"]
          /\ versions' = [versions EXCEPT ![KindOf(s)] = @ + 1]
          /\ UNCHANGED <<store, budget, broad, keyed, pending>> /\ Rest
        BY <1>3 DEF BumpKind, hubVars, connVars
    <2>2. KindOf(s) \in Kinds /\ (KindOf(s) = Live <=> s = Live)
        BY <1>1 DEF KindOf
    <2>3. Types'
        BY <1>0, <1>1, <2>1, <2>2 DEF Types, BusTypeOK
    <2>4. \A u \in Sources : store[u] <= store'[u] /\ Level(u) <= Level(u)'
        BY <1>1, <2>1, <2>2 DEF Levels, Level, Version, KeyVersion
    <2>5. Published'
        BY <1>0, <1>1, <2>1, <2>2 DEF Published, KeyVersion
    <2>6. (\A k \in Kinds : versions[k] <= versions'[k]) /\ versions' # versions
        BY <1>1, <2>1, <2>2
    <2>7. /\ UNCHANGED <<work, out, shown>> /\ idents' = idents /\ pc' = pc /\ todo' = todo
          /\ byKey' = byKey
        BY <2>1
    <2> QED
        BY <2>3, <2>4, <2>5, <2>6, <2>7, Quiet DEF Inv, WorkOK
<1>4. CASE (BumpLevel(s) \/ Wake(s)) /\ UNCHANGED <<store, budget, faults, hubVars, connVars>>
    <2>1. /\ \/ /\ pub[s] = "counted" /\ pub' = [pub EXCEPT ![s] = "leveled"]
                /\ \/ s \in Repos /\ keyed' = [keyed EXCEPT ![s] = @ + 1] /\ UNCHANGED broad
                   \/ s = Live /\ broad' = [broad EXCEPT ![Live] = @ + 1] /\ UNCHANGED keyed
             \/ /\ pub[s] = "leveled" /\ pub' = [pub EXCEPT ![s] = "idle"]
                /\ UNCHANGED <<keyed, broad>>
          /\ UNCHANGED <<store, budget, versions>> /\ Rest
          /\ pending' \subseteq Subs
        BY <1>0, <1>1, <1>4 DEF BumpLevel, Wake, hubVars, connVars, Types, BusTypeOK
    <2>2. Types'
        BY <1>0, <1>1, <2>1 DEF Types, BusTypeOK
    <2>3. \A u \in Sources : store[u] <= store'[u] /\ Level(u) <= Level(u)' /\ Told(u)' = Told(u)
        BY <1>1, <2>1 DEF Levels, Level, Told, Version, KeyVersion
    <2>4. Published'
        BY <1>0, <1>1, <2>1 DEF Published, KeyVersion
    <2>5. \A k \in Kinds : versions[k] <= versions'[k]
        BY <1>1, <2>1
    <2>6. /\ UNCHANGED <<work, out, shown>> /\ idents' = idents /\ pc' = pc /\ todo' = todo
          /\ byKey' = byKey
        BY <2>1
    <2> QED
        BY <2>2, <2>3, <2>4, <2>5, <2>6, Quiet DEF Inv, WorkOK
<1> QED
    BY <1>2, <1>3, <1>4 DEF Publish, PublishStep

(* Connections come and go, the hub wakes, reads its target, takes its     *)
(* connections and forgets the identities that left.                       *)
LEMMA IdleStep ==
    ASSUME Inv,
           \/ \E c \in Conns : Connect(c) \/ Kick(c) \/ Leave(c)
           \/ WakeUp \/ ReadTarget \/ TakeConns \/ Scanned \/ CaughtUp
    PROVE  Inv'
<1>0. Types /\ Published /\ \A i \in Idents : WorkOK(i)
    BY DEF Inv
<1>1. /\ UNCHANGED <<versions, broad, keyed, pub, store, budget, work, out, shown, last, faults, failed>>
      /\ pending' \subseteq pending
    BY DEF Connect, Kick, Leave, WakeUp, ReadTarget, TakeConns, Scanned, CaughtUp, TakeWake,
           busVars, hubVars, connVars
<1>2. /\ pc' \in {"wait", "target", "conns", "scan", "build", "check"}
      /\ joined' \in [Conns -> {"off", "joining", "on", "gone"}]
      /\ target' \in [Kinds -> Nat]
      /\ byKey' \in [Idents -> SUBSET Conns] /\ todo' \subseteq Idents
      /\ idents' \in [Idents -> Entries \union {None}]
    <2>1. CASE \E c \in Conns : Connect(c) \/ Kick(c) \/ Leave(c)
        BY <1>0, <2>1 DEF Connect, Kick, Leave, Types, hubVars
    <2>2. CASE WakeUp \/ ReadTarget \/ Scanned \/ CaughtUp
        BY <1>0, <2>2 DEF WakeUp, ReadTarget, Scanned, CaughtUp, Total, Types, BusTypeOK, connVars
    <2>3. CASE TakeConns
        <3> DEFINE taken == [i \in Idents |-> {c \in Conns : InHub(c) /\ IdentOf[c] = i}]
        <3>1. taken \in [Idents -> SUBSET Conns]
            OBVIOUS
        <3>2. /\ pc' = "scan" /\ byKey' = taken /\ UNCHANGED <<target, joined>>
              /\ idents' = [i \in Idents |-> IF taken[i] = {} THEN None ELSE idents[i]]
              /\ todo' = {i \in Idents : taken[i] # {}}
            BY <2>3 DEF TakeConns, connVars
        <3> HIDE DEF taken
        <3> QED
            BY <1>0, <3>1, <3>2 DEF Types
    <2> QED
        BY <2>1, <2>2, <2>3
<1>3. kick' \in BOOLEAN
    BY <1>0 DEF Connect, Kick, Leave, WakeUp, ReadTarget, TakeConns, Scanned, CaughtUp,
                Types, hubVars, connVars
<1>4. Types'
    BY <1>0, <1>1, <1>2, <1>3 DEF Types, BusTypeOK
<1>5. Published'
    BY <1>0, <1>1 DEF Published, KeyVersion
<1>6. \A s \in Sources : store[s] <= store'[s] /\ Level(s) <= Level(s)' /\ Told(s)' = Told(s)
    <2>1. \A s \in Sources : store[s] \in Nat /\ Level(s) \in Nat
        BY <1>0, Kindred, HubAssumption
           DEF Types, BusTypeOK, Levels, Level, Version, KeyVersion, Sources
    <2> QED
        BY <1>1, <2>1 DEF Level, Told, Version, KeyVersion
<1>7. \A k \in Kinds : versions[k] <= versions'[k]
    BY <1>0, <1>1 DEF Types, BusTypeOK
<1>8. /\ \A i \in Idents : \/ idents'[i] = idents[i]
                           \/ idents'[i] = None /\ work[i].at = "none"
      /\ \A i \in Idents :
             \/ work[i].at = "none"
             \/ pc' \in {"scan", "build"} /\ (pc' = "scan" => pc = "scan" /\ todo' = todo)
      /\ \A i \in Idents : \A c \in byKey'[i] : IdentOf[c] = i
    <2>1. CASE \/ \E c \in Conns : Connect(c) \/ Kick(c) \/ Leave(c)
               \/ WakeUp \/ ReadTarget \/ Scanned \/ CaughtUp
        <3>1. /\ idents' = idents /\ byKey' = byKey /\ todo' = todo
              /\ pc' = pc \/ pc \in {"wait", "target", "check"} \/ pc' = "build"
            BY <2>1 DEF Connect, Kick, Leave, WakeUp, ReadTarget, Scanned, CaughtUp, hubVars
        <3> QED
            BY <1>0, <3>1 DEF Inv, WorkOK
    <2>2. CASE TakeConns
        <3>1. pc = "conns" /\ \A i \in Idents : work[i].at = "none"
            BY <1>0, <2>2 DEF TakeConns, WorkOK
        <3>2. \A i \in Idents : /\ idents'[i] = idents[i] \/ idents'[i] = None
                               /\ byKey'[i] = {c \in Conns : InHub(c) /\ IdentOf[c] = i}
            BY <2>2 DEF TakeConns
        <3> QED
            BY <3>1, <3>2
    <2> QED
        BY <2>1, <2>2
<1> QED
    BY <1>1, <1>4, <1>5, <1>6, <1>7, <1>8, Quiet

(* A pending frame reaches the screen: it was not older.                   *)
LEMMA WriteStep ==
    ASSUME Inv, NEW c \in Conns, Write(c)
    PROVE  Inv'
<1>0. Types /\ Published /\ ConnOK(c)
    BY DEF Inv
<1>1. /\ out[c] # None /\ shown' = [shown EXCEPT ![c] = out[c]] /\ out' = [out EXCEPT ![c] = None]
      /\ UNCHANGED <<versions, broad, keyed, pending, pub, store, budget, faults, pc, target, kick,
                     byKey, todo, work, idents, failed, joined, last>>
    BY DEF Write, busVars, hubVars
<1>2. /\ shown'[c] = out[c] /\ out'[c] = None
      /\ \A d \in Conns \ {c} : shown'[d] = shown[d] /\ out'[d] = out[d]
    BY <1>0, <1>1 DEF Types
<1>3. Types' /\ Published'
    <2>1. Types'
        <3>1. kick' \in BOOLEAN
            BY <1>0, <1>1 DEF Types
        <3> QED
            BY <1>0, <1>1, <3>1 DEF Types, BusTypeOK
    <2>2. Published'
        BY <1>0, <1>1 DEF Published, KeyVersion
    <2> QED
        BY <2>1, <2>2
<1>4. \A i \in Idents : \A f : Latest(i, f) => Latest(i, f)'
    BY <1>2 DEF Latest, NotOlder
<1>5. (\A f : Held(f)' = Held(f)) /\ \A st, S : Covers(st, S)' = Covers(st, S)
    BY <1>1 DEF Held, Covers, Level, Version, KeyVersion
<1>6. ASSUME NEW i \in Idents PROVE EntryOK(i)' /\ WorkOK(i)'
    <2>0. EntryOK(i) /\ WorkOK(i)
        BY DEF Inv
    <2>1. EntryOK(i)'
        BY <1>1, <1>4, <1>5, <2>0 DEF EntryOK
    <2>2. FrameOK(i, work[i])'
        BY <1>1, <1>4, <1>5, <2>0 DEF WorkOK, FrameOK
    <2>3. StampOK(i, work[i])'
        <3>1. \A s : Told(s)' = Told(s)
            BY <1>1 DEF Told, KeyVersion
        <3>2. DepsOf(i)' = DepsOf(i)
            BY <1>1 DEF DepsOf
        <3> QED
            BY <1>1, <1>5, <2>0, <3>1, <3>2 DEF WorkOK, StampOK
    <2> QED
        BY <1>1, <2>0, <2>1, <2>2, <2>3 DEF WorkOK
<1>7. ASSUME NEW d \in Conns PROVE ConnOK(d)'
    <2>0. ConnOK(d)
        BY DEF Inv
    <2>1. CASE d = c
        BY <1>0, <1>1, <1>2, <1>5, <2>1 DEF ConnOK
    <2>2. CASE d # c
        BY <1>2, <1>5, <2>0, <2>2 DEF ConnOK
    <2> QED
        BY <2>1, <2>2
<1> QED
    BY <1>1, <1>3, <1>6, <1>7 DEF Inv

(* A frame that is sent is the latest for its identity, before and after.  *)
LEMMA Sending ==
    ASSUME Inv, NEW i \in Idents, NEW f \in Frames, Allowed(i, f), Held(f), Latest(i, f),
           SendLatest(byKey[i], f), UNCHANGED store
    PROVE  /\ last' \in [Conns -> Frames \union {None}] /\ out' \in [Conns -> Frames \union {None}]
           /\ UNCHANGED <<joined, shown>>
           /\ Latest(i, f)'
           /\ \A j \in Idents \ {i} : \A g : Latest(j, g)' = Latest(j, g)
           /\ \A c \in Conns : ConnOK(c)'
<1>0. /\ Types /\ (\A c \in byKey[i] : IdentOf[c] = i) /\ \A c \in Conns : ConnOK(c)
    BY DEF Inv
<1>1. /\ last' = [c \in Conns |-> IF c \in byKey[i] THEN f ELSE last[c]]
      /\ out' = [c \in Conns |-> IF c \in byKey[i] /\ last[c] # f /\ InHub(c) THEN f ELSE out[c]]
      /\ UNCHANGED <<joined, shown>>
    BY DEF SendLatest
<1>2. \A c \in Conns : out'[c] = out[c] \/ (out'[c] = f /\ IdentOf[c] = i)
    BY <1>0, <1>1
<1>3. last' \in [Conns -> Frames \union {None}] /\ out' \in [Conns -> Frames \union {None}]
    BY <1>0, <1>1 DEF Types
<1>4. NotOlder(f, f)
    BY HubAssumption DEF NotOlder, Shows, Frames, Levels
<1>5. Latest(i, f)'
    BY <1>1, <1>2, <1>4 DEF Latest, NotOlder
<1>6. \A j \in Idents \ {i} : \A g : Latest(j, g)' = Latest(j, g)
    BY <1>1, <1>2 DEF Latest, NotOlder
<1>7. ASSUME NEW c \in Conns PROVE ConnOK(c)'
    <2>1. (\A g : Held(g)' = Held(g)) /\ ConnOK(c)
        BY <1>0 DEF Held
    <2>2. CASE out'[c] = out[c]
        BY <1>1, <2>1, <2>2 DEF ConnOK
    <2>3. CASE out'[c] = f /\ IdentOf[c] = i
        <3>1. NotOlder(f, shown[c])
            BY <2>3 DEF Latest
        <3> QED
            BY <1>1, <2>1, <2>3, <3>1 DEF ConnOK
    <2> QED
        BY <1>2, <2>2, <2>3
<1> QED
    BY <1>1, <1>3, <1>5, <1>6, <1>7

(* Frames and builds that the step does not touch stand as they are.       *)
LEMMA Others ==
    ASSUME Inv, NEW j \in Idents, work'[j] = work[j], idents'[j] = idents[j],
           UNCHANGED <<versions, broad, keyed, pub, store, shown, pc>>,
           pc = "scan" => todo' \subseteq todo,
           \A f : Latest(j, f)' = Latest(j, f)
    PROVE  EntryOK(j)' /\ WorkOK(j)'
<1>1. (\A f : Held(f)' = Held(f)) /\ \A st, S : Covers(st, S)' = Covers(st, S)
    BY DEF Held, Covers, Level, Version, KeyVersion
<1>2. (\A s : Told(s)' = Told(s)) /\ DepsOf(j)' = DepsOf(j)
    BY DEF Told, KeyVersion, DepsOf
<1>3. EntryOK(j) /\ WorkOK(j)
    BY DEF Inv
<1>4. EntryOK(j)'
    BY <1>1, <1>3 DEF EntryOK
<1>5. FrameOK(j, work[j])'
    BY <1>1, <1>3 DEF WorkOK, FrameOK
<1>6. StampOK(j, work[j])'
    BY <1>1, <1>2, <1>3 DEF WorkOK, StampOK
<1> QED
    BY <1>3, <1>4, <1>5, <1>6 DEF WorkOK

(* What holds of a frame, a stamp or an identity holds until a source or   *)
(* a connection moves.                                                     *)
LEMMA Steady ==
    ASSUME UNCHANGED <<versions, broad, keyed, pub, store>>
    PROVE  /\ \A f : Held(f)' = Held(f)
           /\ \A st, S : Covers(st, S)' = Covers(st, S)
           /\ \A s : Told(s)' = Told(s)
BY DEF Held, Covers, Level, Version, KeyVersion, Told

(* A connection is scanned: its frame is current and sent, or is due.      *)
LEMMA ScanStep ==
    ASSUME Inv, NEW i \in Idents, Scan(i)
    PROVE  Inv'
<1>0. Types /\ Published /\ EntryOK(i) /\ WorkOK(i)
    BY DEF Inv
<1>1. /\ UNCHANGED <<versions, broad, keyed, pending, pub, store, budget, faults, pc, target, kick,
                      byKey, idents, failed>>
      /\ pc = "scan" /\ i \in todo /\ todo' = todo \ {i}
    BY DEF Scan, busVars
<1>2. work[i].at = "none"
    BY <1>0, <1>1 DEF WorkOK
<1>3. Published' /\ BusTypeOK' /\ \A j \in Idents : \A c \in byKey'[j] : IdentOf[c] = j
    BY <1>0, <1>1 DEF Published, KeyVersion, Types, BusTypeOK, Inv
<1>4. kick' \in BOOLEAN
    BY <1>0, <1>1 DEF Types
<1>5. CASE IsCurrent(i) /\ SendLatest(byKey[i], idents[i].data) /\ UNCHANGED work
    <2>0. PICK f \in Frames : f = idents[i].data
        BY <1>0, <1>5 DEF IsCurrent, Types, Entries
    <2>1. Allowed(i, f) /\ Held(f) /\ Latest(i, f)
        BY <1>0, <1>2, <1>5, <2>0 DEF IsCurrent, EntryOK
    <2>2. UNCHANGED store
        BY <1>1
    <2>3. SendLatest(byKey[i], f)
        BY <1>5, <2>0
    <2>4. /\ last' \in [Conns -> Frames \union {None}] /\ out' \in [Conns -> Frames \union {None}]
          /\ UNCHANGED <<joined, shown>>
          /\ Latest(i, f)'
          /\ \A j \in Idents \ {i} : \A g : Latest(j, g)' = Latest(j, g)
          /\ \A c \in Conns : ConnOK(c)'
        BY <2>1, <2>2, <2>3, Sending
    <2>5. Types'
        BY <1>0, <1>1, <1>3, <1>4, <1>5, <2>4 DEF Types
    <2>6. \A j \in Idents \ {i} : EntryOK(j)' /\ WorkOK(j)'
        BY <1>1, <1>5, <2>4, Others
    <2>7. EntryOK(i)'
        BY <1>0, <1>1, <1>5, <2>0, <2>4, Steady DEF EntryOK
    <2>8. WorkOK(i)'
        BY <1>2, <1>5 DEF WorkOK, FrameOK, StampOK, Reading
    <2> QED
        BY <1>3, <2>4, <2>5, <2>6, <2>7, <2>8 DEF Inv
<1>6. CASE work' = [work EXCEPT ![i] = NewBuild] /\ UNCHANGED connVars
    <2>1. NewBuild \in Works
        <3>1. Stamp({}) \in Stamps
            BY <1>0, StampTypes
        <3>2. [s \in Sources |-> Hidden] \in Frames /\ [k \in Kinds |-> 0] \in [Kinds -> Nat]
            BY DEF Frames
        <3> QED
            BY <3>1, <3>2 DEF NewBuild, Works, WorkSteps
    <2>2. /\ work'[i] = NewBuild /\ \A j \in Idents \ {i} : work'[j] = work[j]
          /\ UNCHANGED <<joined, last, out, shown>>
        BY <1>0, <1>6 DEF Types, connVars
    <2>3. Types'
        BY <1>0, <1>1, <1>3, <1>4, <1>6, <2>1, <2>2 DEF Types
    <2>4. \A j : \A g : Latest(j, g)' = Latest(j, g)
        BY <2>2 DEF Latest
    <2>5. \A j \in Idents \ {i} : EntryOK(j)' /\ WorkOK(j)'
        BY <1>1, <2>2, <2>4, Others
    <2>6. EntryOK(i)'
        BY <1>0, <1>1, <1>2, <2>4, Steady DEF EntryOK
    <2>7. WorkOK(i)'
        <3>1. work'[i].at = "due" /\ Shows(work'[i].frame) = {} /\ work'[i] \in Works
            BY <2>1, <2>2 DEF NewBuild, Shows
        <3>2. pc' = "scan" /\ i \notin todo'
            BY <1>1
        <3> QED
            BY <3>1, <3>2 DEF WorkOK, FrameOK, StampOK, Reading, Shows
    <2>8. \A c \in Conns : ConnOK(c)'
        BY <1>1, <2>2, Steady DEF Inv, ConnOK
    <2> QED
        BY <1>3, <2>3, <2>5, <2>6, <2>7, <2>8 DEF Inv
<1> QED
    BY <1>5, <1>6 DEF Scan

(* A build gets on, alone.                                                 *)
LEMMA Advances ==
    ASSUME Inv, NEW i \in Idents, RunUnchanged, pc = "build", faults' \in 0..MaxFaults,
           work' = [work EXCEPT ![i] = work'[i]], work'[i] \in Works, work'[i].at # "none",
           FrameOK(i, work[i])', StampOK(i, work[i])',
           last' \in [Conns -> Frames \union {None}], out' \in [Conns -> Frames \union {None}],
           UNCHANGED <<joined, shown>>,
           \A j \in Idents \ {i} : \A g : Latest(j, g)' = Latest(j, g),
           \A c \in Conns : ConnOK(c)'
    PROVE  Inv'
<1>0. Types /\ Published /\ EntryOK(i)
    BY DEF Inv
<1>1. UNCHANGED <<versions, broad, keyed, pending, pub, store, budget, pc, target, kick,
                  byKey, todo, idents, failed>>
    BY DEF RunUnchanged, busVars
<1>2. Published' /\ BusTypeOK' /\ \A j \in Idents : \A c \in byKey'[j] : IdentOf[c] = j
    BY <1>0, <1>1 DEF Published, KeyVersion, Types, BusTypeOK, Inv
<1>3. kick' \in BOOLEAN
    BY <1>0, <1>1 DEF Types
<1>4. /\ work' \in [Idents -> Works \union {NoWork}]
      /\ \A j \in Idents \ {i} : work'[j] = work[j]
    BY <1>0 DEF Types
<1>5. Types'
    BY <1>0, <1>1, <1>2, <1>3, <1>4 DEF Types
<1>6. \A j \in Idents \ {i} : EntryOK(j)' /\ WorkOK(j)'
    BY <1>1, <1>4, Others
<1>7. EntryOK(i)'
    BY <1>0, <1>1, Steady DEF EntryOK
<1>8. WorkOK(i)'
    BY <1>1 DEF WorkOK
<1> QED
    BY <1>2, <1>5, <1>6, <1>7, <1>8 DEF Inv

(* A level is behind its store and what Total tells of, by what is still   *)
(* to be published.                                                        *)
LEMMA Levelled ==
    ASSUME Types, Published, NEW s \in Sources
    PROVE  /\ Level(s) \in Nat /\ Told(s) \in Nat /\ store[s] \in Nat
           /\ Level(s) <= Told(s) /\ Told(s) <= store[s]
<1>1. /\ versions[Live] \in Nat /\ store[s] \in Levels /\ MaxMoves \in Nat
      /\ \A r \in Repos : KeyVersion(r) \in Nat
    BY Kindred, HubAssumption DEF Types, BusTypeOK, KeyVersion
<1>2. store[s] \in Nat
    BY <1>1 DEF Levels
<1>3. CASE s = Live
    BY <1>1, <1>2, <1>3 DEF Level, Told, Published, Version
<1>4. CASE s # Live
    <2>1. s \in Repos
        BY <1>4 DEF Sources
    <2> QED
        BY <1>1, <1>2, <1>4, <2>1 DEF Level, Told, Published
<1> QED
    BY <1>3, <1>4

(* A stamp read now. *)
LEMMA Stamping ==
    ASSUME Types, Published, NEW S \in SUBSET Repos
    PROVE  Stamp(S) \in Stamps /\ Covers(Stamp(S), S)
<1>1. \A s \in {Live} \union S : Level(s) \in Nat
    BY Levelled, Kindred
<1> QED
    BY <1>1, StampTypes DEF Covers

ReadInto(f, s) == [f EXCEPT ![s] = store[s]]

(* A source is read: the frame stays held, and nothing newer was sent.     *)
LEMMA Reads ==
    ASSUME Inv, NEW i \in Idents, NEW f \in Frames, Held(f), Latest(i, f), NEW s \in Sources
    PROVE  LET g == ReadInto(f, s)
           IN  /\ g \in Frames /\ g[s] = store[s] /\ \A t \in Sources \ {s} : g[t] = f[t]
               /\ Shows(g) = Shows(f) \union {s}
               /\ Held(g) /\ Latest(i, g) /\ Told(s) <= g[s]
               /\ \A st \in Stamps, S \in SUBSET Repos :
                      Covers(st, S) /\ Before(st, f) => Before(st, g)
<1> DEFINE g == ReadInto(f, s)
<1>0. Types /\ Published
    BY DEF Inv
<1>1. store[s] \in Levels /\ store[s] \in Nat /\ store[s] # Hidden
    BY <1>0, Levelled, Kindred DEF Types
<1>2. g \in Frames /\ g[s] = store[s] /\ \A t \in Sources \ {s} : g[t] = f[t]
    BY <1>1 DEF Frames, ReadInto
<1> HIDE DEF g
<1>3. Shows(g) = Shows(f) \union {s}
    BY <1>1, <1>2 DEF Shows
<1>4. Held(g)
    BY <1>1, <1>2, <1>3 DEF Held, Shows
<1>5. ASSUME NEW h \in Frames \union {None}, h # None => Held(h), NotOlder(f, h)
      PROVE  NotOlder(g, h)
    BY <1>2, <1>3, <1>5 DEF NotOlder, Held, Shows
<1>6. Latest(i, g)
    <2> SUFFICES ASSUME NEW c \in Conns, IdentOf[c] = i
                 PROVE  NotOlder(g, shown[c]) /\ NotOlder(g, out[c])
        BY DEF Latest
    <2>1. /\ shown[c] \in Frames \union {None} /\ out[c] \in Frames \union {None}
          /\ shown[c] # None => Held(shown[c])
          /\ out[c] # None => Held(out[c])
          /\ NotOlder(f, shown[c]) /\ NotOlder(f, out[c])
        BY <1>0 DEF Types, Inv, ConnOK, Latest
    <2> QED
        BY <1>5, <2>1
<1>7. Told(s) <= g[s]
    BY <1>0, <1>2, Levelled
<1>8. ASSUME NEW st \in Stamps, NEW S \in SUBSET Repos, Covers(st, S), Before(st, f)
      PROVE  Before(st, g)
    <2> SUFFICES ASSUME NEW t \in Shows(g) \intersect ({Live} \union S)
                 PROVE  Stamped(st, t) <= g[t]
        BY <1>8 DEF Before, Covers
    <2>1. CASE t = s
        <3>1. Stamped(st, s) <= Level(s) /\ Stamped(st, s) \in Nat
            BY <1>8, <2>1, Kindred DEF Covers, Stamped, Stamps
        <3>2. Level(s) <= Told(s) /\ Level(s) \in Nat /\ Told(s) \in Nat
            BY <1>0, Levelled
        <3> QED
            BY <1>1, <1>2, <1>7, <2>1, <3>1, <3>2
    <2>2. CASE t # s
        BY <1>2, <1>3, <1>8, <2>2 DEF Before, Covers, Shows
    <2> QED
        BY <2>1, <2>2
<1> QED
    BY <1>2, <1>3, <1>4, <1>6, <1>7, <1>8 DEF g

(* The steps of a build but the one that sends its frame.                  *)
LEMMA BuildStep ==
    ASSUME Inv, NEW i \in Idents,
           \/ ReadTotal(i) \/ ReadStamp(i) \/ ReadTopology(i) \/ BuildFails(i)
           \/ \E r \in Repos : ReadRepo(i, r)
           \/ Restamp(i) \/ Recheck(i)
    PROVE  Inv'
<1> DEFINE w == work[i]
<1>0. Types /\ Published /\ WorkOK(i)
    BY DEF Inv
<1>1. /\ RunUnchanged /\ pc = "build" /\ UNCHANGED <<joined, last, out, shown>>
      /\ work' = [work EXCEPT ![i] = work'[i]]
      /\ w.at \in {"due", "stamp", "topology", "repos", "restamp", "recheck"}
    <2>1. /\ RunUnchanged /\ pc = "build" /\ UNCHANGED <<joined, last, out, shown>>
          /\ w.at \in {"due", "stamp", "topology", "repos", "restamp", "recheck"}
          /\ \E x : work' = [work EXCEPT ![i] = x]
        BY DEF ReadTotal, ReadStamp, ReadTopology, BuildFails, ReadRepo, Restamp, Recheck,
               Advance, Step, connVars
    <2> QED
        BY <1>0, <2>1 DEF Types
<1>2. /\ w \in Works /\ w.total \in [Kinds -> Nat] /\ w.stamp \in Stamps
      /\ w.left \in SUBSET Repos /\ w.frame \in Frames /\ w.at \in WorkSteps
    BY <1>0, <1>1 DEF WorkOK, Works
<1>3. FrameOK(i, w) /\ StampOK(i, w)
    BY <1>0 DEF WorkOK
<1>4. UNCHANGED <<versions, broad, keyed, pub, store, idents>> /\ DepsOf(i)' = DepsOf(i)
    BY <1>1 DEF RunUnchanged, busVars, DepsOf
<1>5. /\ \A f : Held(f)' = Held(f)
      /\ \A st, S : Covers(st, S)' = Covers(st, S)
      /\ \A s : Told(s)' = Told(s)
    BY <1>4, Steady
<1>6. \A j, f : Latest(j, f)' = Latest(j, f)
    BY <1>1 DEF Latest
<1>7. \A c \in Conns : ConnOK(c)'
    BY <1>1, <1>5 DEF Inv, ConnOK
<1>8. faults' \in 0..MaxFaults
    <2>1. faults' = faults \/ (faults > 0 /\ faults' = faults - 1)
        BY DEF ReadTotal, ReadStamp, ReadTopology, BuildFails, ReadRepo, Restamp, Recheck
    <2>2. faults \in 0..MaxFaults /\ MaxFaults \in Nat
        BY <1>0, HubAssumption DEF Types
    <2> QED
        BY <2>1, <2>2
<1> SUFFICES work'[i] \in Works /\ work'[i].at # "none" /\ FrameOK(i, work[i])' /\ StampOK(i, work[i])'
    <2>1. last \in [Conns -> Frames \union {None}] /\ out \in [Conns -> Frames \union {None}]
        BY <1>0 DEF Types
    <2> QED
        BY <1>1, <1>6, <1>7, <1>8, <2>1, Advances
<1> DEFINE v == work'[i]
<1>9. CASE ReadTotal(i)
    <2>1. w.at = "due" /\ v = [w EXCEPT !.at = "stamp", !.total = versions]
        BY <1>0, <1>9 DEF ReadTotal, Step, Advance, Total, Types
    <2>2. v.at = "stamp" /\ v.total = versions /\ v.frame = w.frame /\ v \in Works
        BY <1>0, <1>2, <2>1 DEF Works, WorkSteps, Building, Types, BusTypeOK
    <2>3. \A k \in Kinds : versions[k] <= versions[k]
        BY <1>0 DEF Types, BusTypeOK
    <2> QED
        BY <1>3, <1>4, <2>1, <2>2, <2>3 DEF FrameOK, StampOK, Reading
<1>10. CASE ReadStamp(i)
    <2>1. w.at = "stamp" /\ v = [w EXCEPT !.at = "topology", !.stamp = Stamp(DepsOf(i))]
        BY <1>0, <1>10 DEF ReadStamp, Step, Advance, Types
    <2>2. DepsOf(i) \in SUBSET Repos
        BY <1>0 DEF DepsOf, Types, Entries
    <2>3. Stamp(DepsOf(i)) \in Stamps /\ Covers(Stamp(DepsOf(i)), DepsOf(i))
        BY <1>0, <2>2, Stamping
    <2>4. /\ v.at = "topology" /\ v.total = w.total /\ v.frame = w.frame /\ v \in Works
          /\ v.stamp = Stamp(DepsOf(i))
        BY <1>2, <2>1, <2>3 DEF Works, WorkSteps, Building
    <2>5. Shows(w.frame) = {}
        BY <1>3, <2>1 DEF FrameOK
    <2> QED
        BY <1>3, <1>4, <1>5, <2>1, <2>3, <2>4, <2>5 DEF FrameOK, StampOK, Reading, Before
<1>11. CASE ReadTopology(i)
    <2> DEFINE f == ReadInto(w.frame, Live)
    <2>1. /\ w.at = "topology"
          /\ v = [w EXCEPT !.at = "repos", !.frame = f, !.left = Sees[i][store[Live]]]
        BY <1>0, <1>11 DEF ReadTopology, Step, Advance, Types, ReadInto
    <2>2. Sees[i][store[Live]] \in SUBSET Repos
        BY <1>0, Kindred, HubAssumption DEF Types
    <2>3. Shows(w.frame) = {}
        BY <1>3, <2>1 DEF FrameOK
    <2>4. Held(w.frame) /\ Latest(i, w.frame)
        BY <2>3 DEF Held, Latest, NotOlder
    <2>5. /\ f \in Frames /\ f[Live] = store[Live] /\ Shows(f) = {Live}
          /\ Held(f) /\ Latest(i, f) /\ Told(Live) <= f[Live]
          /\ \A st \in Stamps, S \in SUBSET Repos :
                 Covers(st, S) /\ Before(st, w.frame) => Before(st, f)
        BY <1>2, <2>3, <2>4, Kindred, Reads
    <2>6. /\ v.at = "repos" /\ v.total = w.total /\ v.frame = f /\ v \in Works
          /\ v.stamp = w.stamp /\ v.left = Sees[i][f[Live]]
        <3> HIDE DEF f
        <3> QED
            BY <1>2, <2>1, <2>2, <2>5 DEF Works, WorkSteps, Building
    <2>7. f[Live] # Hidden /\ \A r \in Repos : f[r] = Hidden
        BY <1>2, <2>5, Kindred DEF Shows
    <2> HIDE DEF f
    <2>8. DepsOf(i) \in SUBSET Repos
        BY <1>0 DEF DepsOf, Types, Entries
    <2>9. Covers(w.stamp, DepsOf(i)) /\ Before(w.stamp, f)
        BY <1>2, <1>3, <2>1, <2>5, <2>8 DEF StampOK
    <2>10. FrameOK(i, work[i])'
        BY <1>5, <1>6, <2>5, <2>6, <2>7 DEF FrameOK, Reading
    <2>11. StampOK(i, work[i])'
        BY <1>3, <1>4, <1>5, <2>1, <2>5, <2>6, <2>9 DEF StampOK
    <2> QED
        BY <1>4, <2>6, <2>10, <2>11
<1>12. ASSUME NEW r \in Repos, ReadRepo(i, r)
       PROVE  work'[i] \in Works /\ work'[i].at # "none" /\ FrameOK(i, work[i])' /\ StampOK(i, work[i])'
    <2> DEFINE f == ReadInto(w.frame, r)
    <2>1. /\ w.at = "repos" /\ r \in w.left
          /\ v = [w EXCEPT !.frame = f, !.left = w.left \ {r}]
        BY <1>0, <1>12 DEF ReadRepo, Step, Advance, Types, ReadInto
    <2>2. /\ w.frame[Live] # Hidden /\ w.left \subseteq Sees[i][w.frame[Live]]
          /\ \A q \in Repos : w.frame[q] # Hidden <=> q \in Sees[i][w.frame[Live]] \ w.left
          /\ Held(w.frame) /\ Latest(i, w.frame)
        BY <1>3, <2>1 DEF FrameOK, Reading
    <2>3. /\ f \in Frames /\ f[r] = store[r] /\ Shows(f) = Shows(w.frame) \union {r}
          /\ \A s \in Sources \ {r} : f[s] = w.frame[s]
          /\ Held(f) /\ Latest(i, f) /\ Told(r) <= f[r]
          /\ \A st \in Stamps, S \in SUBSET Repos :
                 Covers(st, S) /\ Before(st, w.frame) => Before(st, f)
        <3>1. w.frame \in Frames /\ r \in Sources
            BY <1>2, Kindred
        <3> HIDE DEF w
        <3> QED
            BY <2>2, <3>1, Reads
    <2>4. /\ v.at = "repos" /\ v.total = w.total /\ v.frame = f /\ v \in Works
          /\ v.stamp = w.stamp /\ v.left = w.left \ {r}
        <3> HIDE DEF f
        <3> QED
            BY <1>2, <2>1, <2>3 DEF Works
    <2>5. \A s \in Sources \ {r} : f[s] = w.frame[s]
        BY <2>3
    <2>6. f[Live] = w.frame[Live] /\ f[r] # Hidden
        BY <2>3, <2>5, Kindred DEF Shows
    <2> HIDE DEF f
    <2>7. DepsOf(i) \in SUBSET Repos
        BY <1>0 DEF DepsOf, Types, Entries
    <2>8. Covers(w.stamp, DepsOf(i)) /\ Before(w.stamp, f)
        BY <1>2, <1>3, <2>1, <2>3, <2>7 DEF StampOK
    <2>9. FrameOK(i, work[i])'
        <3>1. \A q \in Repos : f[q] # Hidden <=> q \in Sees[i][f[Live]] \ (w.left \ {r})
            BY <2>1, <2>2, <2>5, <2>6, Kindred
        <3>2. w.left \ {r} \subseteq Sees[i][f[Live]]
            BY <2>2, <2>6
        <3> QED
            BY <1>5, <1>6, <2>2, <2>3, <2>4, <2>6, <3>1, <3>2 DEF FrameOK, Reading
    <2>10. StampOK(i, work[i])'
        <3>1. w.total = versions => \A s \in Shows(f) : Told(s) <= f[s]
            <4>1. w.total = versions => \A s \in Shows(w.frame) : Told(s) <= w.frame[s]
                BY <1>3, <2>1 DEF StampOK
            <4> QED
                BY <2>3, <2>5, <4>1 DEF Shows
        <3> QED
            BY <1>3, <1>4, <1>5, <2>1, <2>4, <2>8, <3>1 DEF StampOK
    <2> QED
        BY <1>4, <2>4, <2>9, <2>10
<1>13. CASE BuildFails(i)
    <2>1. v = [w EXCEPT !.at = "failed"]
        BY <1>0, <1>13 DEF BuildFails, Advance, Types
    <2>2. v.at = "failed" /\ v \in Works
        BY <1>2, <2>1 DEF Works, WorkSteps, BuildDone
    <2> QED
        BY <2>2 DEF FrameOK, StampOK, Reading
<1>14. CASE Restamp(i)
    <2> DEFINE S == Deps(w.frame)
    <2>1. w.at = "restamp" /\ v = [w EXCEPT !.at = "recheck", !.stamp = Stamp(S)]
        BY <1>0, <1>14 DEF Restamp, Step, Advance, Types
    <2>2. /\ S \in SUBSET Repos /\ Stamp(S) \in Stamps /\ DOMAIN Stamp(S).keys = S
          /\ \A s \in {Live} \union S : Stamped(Stamp(S), s) = Level(s)
        <3>1. S \in SUBSET Repos
            BY DEF Deps
        <3> HIDE DEF S
        <3> QED
            BY <1>0, <3>1, StampTypes
    <2>3. Covers(Stamp(S), S)
        BY <1>0, <2>2, Stamping
    <2>4. ASSUME w.total = versions PROVE Before(Stamp(S), w.frame)
        <3>1. \A s \in Shows(w.frame) : Told(s) <= w.frame[s]
            BY <1>3, <2>1, <2>4 DEF StampOK
        <3>2. \A s \in Shows(w.frame) : w.frame[s] \in Nat
            BY <1>2, HubAssumption DEF Shows, Frames, Levels
        <3>3. \A s \in Sources : Level(s) \in Nat /\ Told(s) \in Nat /\ Level(s) <= Told(s)
            BY <1>0, Levelled
        <3> QED
            BY <2>2, <3>1, <3>2, <3>3 DEF Before, Shows
    <2>5. /\ v.at = "recheck" /\ v.total = w.total /\ v.frame = w.frame /\ v \in Works
          /\ v.stamp = Stamp(S) /\ v.left = w.left
        <3> HIDE DEF S
        <3> QED
            BY <1>2, <2>1, <2>2 DEF Works, WorkSteps, Building
    <2>6. FrameOK(i, work[i])'
        BY <1>3, <1>5, <1>6, <2>1, <2>5 DEF FrameOK, Reading
    <2>8. StampOK(i, work[i])'
        <3>1. Covers(work[i].stamp, Deps(work[i].frame))'
            BY <1>5, <2>3, <2>5 DEF Deps
        <3> QED
            BY <1>3, <1>4, <1>5, <2>1, <2>4, <2>5, <3>1 DEF StampOK
    <2> QED
        BY <2>5, <2>6, <2>8
<1>15. CASE Recheck(i)
    <2>1. w.at = "recheck" /\ v = [w EXCEPT !.at = IF versions = w.total THEN "built" ELSE "moved"]
        BY <1>0, <1>15 DEF Recheck, Step, Advance, Total, Types
    <2>2. /\ v.at = "moved" \/ (v.at = "built" /\ versions = w.total)
          /\ v.total = w.total /\ v.frame = w.frame /\ v \in Works
          /\ v.stamp = w.stamp /\ v.left = w.left
        BY <1>2, <2>1 DEF Works, WorkSteps, BuildDone
    <2>3. FrameOK(i, work[i])'
        BY <1>3, <1>5, <1>6, <2>1, <2>2 DEF FrameOK, Reading
    <2>4. StampOK(i, work[i])'
        <3>1. Covers(w.stamp, Deps(w.frame))
            BY <1>3, <2>1 DEF StampOK
        <3>2. Covers(work[i].stamp, Deps(work[i].frame))'
            BY <1>5, <2>2, <3>1 DEF Deps
        <3>3. v.at = "built" => Before(w.stamp, w.frame)
            BY <1>3, <2>1, <2>2 DEF StampOK
        <3> QED
            BY <2>2, <3>2, <3>3 DEF StampOK
    <2> QED
        BY <2>2, <2>3, <2>4
<1> QED
    BY <1>9, <1>10, <1>11, <1>12, <1>13, <1>14, <1>15

(* A frame is read through, and sent.                                      *)
LEMMA DeliverStep ==
    ASSUME Inv, NEW i \in Idents, Deliver(i)
    PROVE  Inv'
<1> DEFINE w == work[i]
<1>0. Types /\ Published /\ WorkOK(i)
    BY DEF Inv
<1>1. /\ RunUnchanged /\ pc = "build" /\ UNCHANGED faults
      /\ w.at = "repos" /\ w.left = {} /\ SendLatest(byKey[i], w.frame)
      /\ work' = [work EXCEPT ![i] = work'[i]]
      /\ work'[i] = [w EXCEPT !.at = IF Deps(w.frame) = DepsOf(i) THEN "built" ELSE "restamp"]
    BY <1>0 DEF Deliver, Advance, Step, Types
<1>2. /\ w \in Works /\ w.total \in [Kinds -> Nat] /\ w.stamp \in Stamps
      /\ w.left \in SUBSET Repos /\ w.frame \in Frames
    BY <1>0, <1>1 DEF WorkOK, Works
<1>3. FrameOK(i, w) /\ StampOK(i, w)
    BY <1>0 DEF WorkOK
<1>4. UNCHANGED <<versions, broad, keyed, pub, store, idents>> /\ DepsOf(i)' = DepsOf(i)
    BY <1>1 DEF RunUnchanged, busVars, DepsOf
<1>5. PICK f \in Frames : f = w.frame
    BY <1>2
<1>6. Allowed(i, f) /\ Held(f) /\ Latest(i, f)
    BY <1>1, <1>3, <1>5 DEF FrameOK, Reading, Allowed
<1>7. SendLatest(byKey[i], f) /\ UNCHANGED store
    BY <1>1, <1>4, <1>5
<1>8. /\ last' \in [Conns -> Frames \union {None}] /\ out' \in [Conns -> Frames \union {None}]
      /\ UNCHANGED <<joined, shown>>
      /\ Latest(i, f)'
      /\ \A j \in Idents \ {i} : \A g : Latest(j, g)' = Latest(j, g)
      /\ \A c \in Conns : ConnOK(c)'
    BY <1>6, <1>7, Sending
<1>9. /\ work'[i] \in Works /\ work'[i].frame = f /\ work'[i].left = {}
      /\ work'[i].total = w.total /\ work'[i].stamp = w.stamp
      /\ \/ work'[i].at = "built" /\ Deps(f) = DepsOf(i)
         \/ work'[i].at = "restamp"
    BY <1>1, <1>2, <1>5 DEF Works, WorkSteps, Building, BuildDone
<1>10. FrameOK(i, work[i])'
    <2>1. Held(f)'
        BY <1>4, <1>6, Steady
    <2> QED
        BY <1>6, <1>8, <1>9, <2>1 DEF FrameOK, Reading, Allowed
<1>11. StampOK(i, work[i])'
    <2>1. /\ \A k \in Kinds : w.total[k] <= versions[k]
          /\ w.total = versions => \A s \in Shows(f) : Told(s) <= f[s]
          /\ Covers(w.stamp, DepsOf(i)) /\ Before(w.stamp, f)
        BY <1>1, <1>3, <1>5 DEF StampOK
    <2>2. (\A st, S : Covers(st, S)' = Covers(st, S)) /\ (\A s : Told(s)' = Told(s))
        BY <1>4, Steady
    <2>3. CASE work'[i].at = "built" /\ Deps(f) = DepsOf(i)
        <3>1. Covers(work[i].stamp, Deps(work[i].frame))'
            BY <1>9, <2>1, <2>2, <2>3 DEF Deps
        <3> QED
            BY <1>9, <2>1, <2>3, <3>1 DEF StampOK
    <2>4. CASE work'[i].at = "restamp"
        BY <1>4, <1>9, <2>1, <2>2, <2>4 DEF StampOK
    <2> QED
        BY <1>9, <2>3, <2>4
<1>12. faults' \in 0..MaxFaults /\ work'[i].at # "none"
    BY <1>0, <1>1, <1>9 DEF Types
<1> QED
    BY <1>1, <1>8, <1>9, <1>10, <1>11, <1>12, Advances

(* The results become the last frames: each is as its build left it.       *)
LEMMA FinishStep ==
    ASSUME Inv, Finish
    PROVE  Inv'
<1>0. Types /\ Published
    BY DEF Inv
<1>1. /\ UNCHANGED <<versions, broad, keyed, pending, pub, store, budget, faults, target, kick,
                      byKey, todo, joined, last, out, shown>>
      /\ \A i \in Idents : work[i].at \in BuildDone
      /\ pc' = "check" /\ failed' \subseteq Idents
      /\ work' = [i \in Idents |-> NoWork]
    BY DEF Finish, busVars, connVars
<1>2. idents' = [i \in Idents |->
          IF work[i].at = "none" THEN idents[i]
          ELSE IF work[i].at = "built"
               THEN [data  |-> work[i].frame,
                     deps  |-> Deps(work[i].frame),
                     stamp |-> work[i].stamp]
               ELSE None]
    BY DEF Finish
<1>3. \A i \in Idents :
          \/ work[i].at = "none" /\ idents'[i] = idents[i]
          \/ /\ work[i].at = "built"
             /\ idents'[i] = [data |-> work[i].frame, deps |-> Deps(work[i].frame),
                              stamp |-> work[i].stamp]
          \/ idents'[i] = None
    BY <1>2
<1>4. ASSUME NEW i \in Idents, work[i].at = "built"
      PROVE  work[i].frame \in Frames /\ Deps(work[i].frame) \in SUBSET Repos
             /\ work[i].stamp \in Stamps
    BY <1>4 DEF Inv, WorkOK, Works, Deps
<1>5. idents' \in [Idents -> Entries \union {None}]
    <2>0. \A i \in Idents : idents[i] \in Entries \union {None}
        BY <1>0 DEF Types
    <2>1. ASSUME NEW i \in Idents PROVE idents'[i] \in Entries \union {None}
        <3>1. work[i].at = "built" =>
                  [data |-> work[i].frame, deps |-> Deps(work[i].frame), stamp |-> work[i].stamp]
                  \in Entries
            BY <1>4 DEF Entries
        <3> QED
            BY <1>3, <2>0, <3>1
    <2> QED
        BY <1>2, <2>1
<1>6. Published' /\ BusTypeOK' /\ \A i \in Idents : \A c \in byKey'[i] : IdentOf[c] = i
    BY <1>0, <1>1 DEF Published, KeyVersion, Types, BusTypeOK, Inv
<1>7. kick' \in BOOLEAN
    BY <1>0, <1>1 DEF Types
<1>8. Types'
    BY <1>0, <1>1, <1>5, <1>6, <1>7 DEF Types
<1>9. /\ \A f : Held(f)' = Held(f)
      /\ \A st, S : Covers(st, S)' = Covers(st, S)
    BY <1>1, Steady
<1>10. \A i, f : Latest(i, f)' = Latest(i, f)
    BY <1>1 DEF Latest
<1>11. ASSUME NEW i \in Idents PROVE EntryOK(i)' /\ WorkOK(i)'
    <2>1. WorkOK(i)'
        BY <1>1 DEF WorkOK, FrameOK, StampOK, Reading, NoWork
    <2>2. EntryOK(i) /\ FrameOK(i, work[i]) /\ StampOK(i, work[i])
        BY DEF Inv, WorkOK
    <2>3. CASE work[i].at = "none" /\ idents'[i] = idents[i]
        BY <1>9, <1>10, <2>1, <2>2, <2>3 DEF EntryOK
    <2>4. CASE /\ work[i].at = "built"
               /\ idents'[i] = [data |-> work[i].frame, deps |-> Deps(work[i].frame),
                                stamp |-> work[i].stamp]
        <3>1. /\ idents'[i].data = work[i].frame /\ idents'[i].deps = Deps(work[i].frame)
              /\ idents'[i].stamp = work[i].stamp
            BY <2>4
        <3>2. /\ Allowed(i, work[i].frame) /\ Held(work[i].frame) /\ Latest(i, work[i].frame)
              /\ Covers(work[i].stamp, Deps(work[i].frame)) /\ Before(work[i].stamp, work[i].frame)
            BY <2>2, <2>4 DEF FrameOK, StampOK, Reading, Allowed
        <3>3. Deps(idents[i].data)' = Deps(work[i].frame)
            BY <3>1 DEF Deps
        <3> QED
            BY <1>9, <1>10, <2>1, <3>1, <3>2, <3>3 DEF EntryOK
    <2>5. CASE idents'[i] = None
        BY <2>1, <2>5 DEF EntryOK
    <2> QED
        BY <1>3, <2>3, <2>4, <2>5
<1>12. \A c \in Conns : ConnOK(c)'
    BY <1>1, <1>9 DEF Inv, ConnOK
<1> QED
    BY <1>6, <1>8, <1>11, <1>12 DEF Inv

LEMMA NextInv == Inv /\ [Next]_vars => Inv'
<1> SUFFICES ASSUME Inv, [Next]_vars PROVE Inv'
    OBVIOUS
<1>1. ASSUME NEW s \in Sources, Move(s) \/ Publish(s) PROVE Inv'
    BY <1>1, WorldStep
<1>2. ASSUME NEW c \in Conns, Connect(c) \/ Kick(c) \/ Leave(c) PROVE Inv'
    BY <1>2, IdleStep
<1>3. ASSUME NEW c \in Conns, Write(c) PROVE Inv'
    BY <1>3, WriteStep
<1>4. CASE WakeUp \/ ReadTarget \/ TakeConns \/ Scanned \/ CaughtUp
    BY <1>4, IdleStep
<1>5. CASE Finish
    BY <1>5, FinishStep
<1>6. ASSUME NEW i \in Idents, Scan(i) PROVE Inv'
    BY <1>6, ScanStep
<1>7. ASSUME NEW i \in Idents, Build(i) \/ BuildFails(i) PROVE Inv'
    <2>1. CASE Deliver(i)
        BY <2>1, DeliverStep
    <2>2. CASE \/ ReadTotal(i) \/ ReadStamp(i) \/ ReadTopology(i) \/ BuildFails(i)
               \/ \E r \in Repos : ReadRepo(i, r)
               \/ Restamp(i) \/ Recheck(i)
        BY <2>2, BuildStep
    <2> QED
        BY <1>7, <2>1, <2>2 DEF Build
<1>8. CASE UNCHANGED vars
    <2>1. UNCHANGED <<versions, broad, keyed, pending, pub, store, budget, faults, pc, target, kick,
                      byKey, todo, work, idents, failed, joined, last, out, shown>>
        BY <1>8 DEF vars, busVars, hubVars, connVars
    <2>2. Types /\ Published
        BY DEF Inv
    <2>3. kick' \in BOOLEAN
        BY <2>1, <2>2 DEF Types
    <2>4. Types'
        BY <2>1, <2>2, <2>3 DEF Types, BusTypeOK
    <2>5. Published' /\ \A i \in Idents : \A c \in byKey'[i] : IdentOf[c] = i
        BY <2>1, <2>2 DEF Published, KeyVersion, Inv
    <2>6. \A i, f : Latest(i, f)' = Latest(i, f)
        BY <2>1 DEF Latest
    <2>7. \A i \in Idents : EntryOK(i)' /\ WorkOK(i)'
        BY <2>1, <2>6, Others
    <2>8. \A c \in Conns : ConnOK(c)'
        BY <2>1, Steady DEF Inv, ConnOK
    <2> QED
        BY <2>4, <2>5, <2>7, <2>8 DEF Inv
<1> QED
    BY <1>1, <1>2, <1>3, <1>4, <1>5, <1>6, <1>7, <1>8 DEF Next, Run

LEMMA SpecInv == Spec => []Inv
BY InitInv, NextInv, PTL DEF Spec

(* Every variable of the hub keeps its type: a build that is under way has *)
(* a stamp, a frame and the Total it began with, and an entry is complete. *)
THEOREM HubTypes == Spec => []TypeOK
<1>1. ASSUME Inv PROVE TypeOK
    <2>1. Types
        BY <1>1 DEF Inv
    <2>2. \A st \in Stamps : IsStamp(st)
        BY DEF Stamps, IsStamp
    <2>3. ASSUME NEW i \in Idents, work[i] # NoWork
          PROVE  /\ work[i].at \in WorkSteps /\ work[i].total \in [Kinds -> Nat]
                 /\ IsStamp(work[i].stamp) /\ work[i].left \subseteq Repos
                 /\ work[i].frame \in Frames
        BY <2>1, <2>2, <2>3 DEF Types, Works
    <2>4. ASSUME NEW i \in Idents, idents[i] # None
          PROVE  /\ idents[i].data \in Frames /\ idents[i].deps \subseteq Repos
                 /\ IsStamp(idents[i].stamp)
        BY <2>1, <2>2, <2>4 DEF Types, Entries
    <2>5. kick \in BOOLEAN
        BY <2>1 DEF Types
    <2> QED
        BY <2>1, <2>3, <2>4, <2>5 DEF TypeOK, Types
<1> QED
    BY <1>1, SpecInv, PTL

(* levels.go compares sums: a frame that the scan takes for current shows  *)
(* every source as its store has it, unless the source's next publish is   *)
(* still to come.  No counter hides another, and no repository that the    *)
(* build read late was stamped early.                                      *)
THEOREM CurrentIsCurrent == Spec => []CurrentMeansCurrent
<1>1. ASSUME Inv PROVE CurrentMeansCurrent
    <2> SUFFICES ASSUME NEW i \in Idents, idents[i] # None,
                        NEW s \in {Live} \union idents[i].deps, pub[s] = "idle", SameLevel(i)
                 PROVE  idents[i].data[s] = store[s]
        BY DEF CurrentMeansCurrent
    <2> DEFINE e == idents[i]
    <2>0. Types /\ Published
        BY <1>1 DEF Inv
    <2>1. /\ e \in Entries /\ e.data \in Frames /\ e.deps \in SUBSET Repos /\ e.stamp \in Stamps
          /\ e.deps = Deps(e.data) /\ Allowed(i, e.data) /\ Held(e.data)
          /\ Covers(e.stamp, e.deps) /\ Before(e.stamp, e.data)
        BY <1>1, <2>0 DEF Inv, EntryOK, Types, Entries
    <2>2. /\ Stamp(e.deps) \in Stamps /\ DOMAIN Stamp(e.deps).keys = e.deps
          /\ \A t \in {Live} \union e.deps : Stamped(Stamp(e.deps), t) = Level(t)
        BY <2>0, <2>1, StampTypes
    <2>3. /\ DOMAIN e.stamp.keys = e.deps
          /\ \A t \in {Live} \union e.deps : Stamped(e.stamp, t) <= Stamped(Stamp(e.deps), t)
        BY <2>1, <2>2 DEF Covers
    <2>4. SumOf(e.stamp) = SumOf(Stamp(e.deps))
        BY DEF SameLevel
    <2>5. Stamped(e.stamp, s) = Level(s)
        <3> HIDE DEF e
        <3>1. s \in {Live} \union e.deps
            BY DEF e
        <3>2. \A t \in {Live} \union e.deps : Stamped(e.stamp, t) = Stamped(Stamp(e.deps), t)
            BY <2>1, <2>2, <2>3, <2>4, SumsTell
        <3> QED
            BY <2>2, <3>1, <3>2
    <2>6. s \in Sources /\ s \in Shows(e.data)
        BY <2>1, Kindred DEF Shows, Deps, Allowed
    <2>7. Stamped(e.stamp, s) <= e.data[s] /\ e.data[s] <= store[s]
        BY <2>1, <2>3, <2>6 DEF Before, Held
    <2>8. store[s] = Level(s)
        <3>1. Level(s) \in Nat /\ store[s] \in Nat
            BY <2>0, <2>6, Levelled
        <3>2. CASE s = Live
            <4>1. versions[Live] \in Nat
                BY <2>0, Kindred DEF Types, BusTypeOK
            <4> QED
                BY <2>0, <3>1, <3>2, <4>1 DEF Published, Level, Version
        <3>3. CASE s # Live
            <4>1. s \in Repos /\ Level(s) = KeyVersion(s)
                BY <2>1, <3>3 DEF Level
            <4>2. store[s] = KeyVersion(s) + 0
                BY <2>0, <4>1 DEF Published
            <4> QED
                BY <3>1, <4>1, <4>2
        <3> QED
            BY <3>2, <3>3
    <2>9. e.data[s] \in Nat /\ store[s] \in Nat
        BY <2>0, <2>1, <2>6, Levelled, HubAssumption DEF Shows, Frames, Levels
    <2> QED
        BY <2>5, <2>7, <2>8, <2>9
<1> QED
    BY <1>1, SpecInv, PTL

(* The hub with its workers, mailboxes and writers implements LiveView: a  *)
(* client is shown snapshots its identity may see, none newer than the     *)
(* stores and none that takes it back in time.                             *)
THEOREM HubShowsHistory == Spec => ShowsHistory
<1>1. Init => View!Init
    BY DEF Init, View!Init, Sources
<1>2. ASSUME Inv, [Next]_vars PROVE [View!Next]_<<store, shown>>
    <2>1. ASSUME NEW s \in Sources, Move(s) PROVE View!Move(s)
        BY <2>1 DEF Move, View!Move, connVars
    <2>2. ASSUME NEW c \in Conns, Write(c) PROVE \E f \in View!Snapshots : View!Show(c, f)
        <3>1. /\ out[c] \in Frames /\ out[c] # None
              /\ shown' = [shown EXCEPT ![c] = out[c]] /\ UNCHANGED store
            BY <1>2, <2>2 DEF Write, Inv, Types
        <3>2. Allowed(IdentOf[c], out[c]) /\ Held(out[c]) /\ NotOlder(out[c], shown[c])
            BY <1>2, <3>1 DEF Inv, ConnOK
        <3>3. out[c] \in View!Snapshots
            BY <3>1 DEF View!Snapshots, Frames, Sources
        <3>4. View!Allowed(c, out[c])
            BY <3>1, <3>2, Kindred DEF View!Allowed, Allowed, Frames
        <3>5. View!NotNewer(out[c]) /\ View!NotOlder(out[c], shown[c])
            BY <3>2 DEF View!NotNewer, View!NotOlder, Held, NotOlder, Shows, Sources
        <3> QED
            BY <3>1, <3>3, <3>4, <3>5 DEF View!Show
    <2>3. CASE \/ \E s \in Sources : Publish(s)
               \/ \E c \in Conns : Connect(c) \/ Kick(c) \/ Leave(c)
               \/ \E i \in Idents : BuildFails(i)
               \/ Run \/ UNCHANGED vars
        BY <2>3 DEF Publish, Connect, Kick, Leave, BuildFails, Run, WakeUp, ReadTarget, TakeConns,
                    Scanned, Finish, CaughtUp, Scan, SendLatest, Build, ReadTotal, ReadStamp,
                    ReadTopology, ReadRepo, Deliver, Restamp, Recheck, Advance, RunUnchanged,
                    connVars, vars
    <2> QED
        BY <1>2, <2>1, <2>2, <2>3 DEF Next, View!Next, Sources
<1> QED
    BY <1>1, <1>2, SpecInv, PTL DEF Spec, ShowsHistory, View!Spec
================================================================================
