----------------------------- MODULE ManifestsProofs -----------------------------
(***************************************************************************)
(* For any values of the constants, what GitParts promises of the tenancy  *)
(* of namespaces (Tenancy), of the history of a branch with its reverts    *)
(* (History), of the drift that frames show (DriftView), and of the edits  *)
(* of a VM's manifest (VmEdit).                                            *)
(***************************************************************************)
EXTENDS GitParts, Integers, Sequences, FiniteSetTheorems, WellFoundedInduction, TLAPS

(* The cardinality that an instance speaks of is the library's.            *)
LEMMA Counts ==
    \A S : /\ Ten!Cardinality(S) = Cardinality(S) /\ Hist!Cardinality(S) = Cardinality(S)
           /\ Drift!Cardinality(S) = Cardinality(S)
BY Zenon DEF Ten!Cardinality, Hist!Cardinality, Drift!Cardinality, Cardinality

--------------------------------------------------------------------------------
(* Tenancy.                                                                *)

(* A file keeps what its namespace carried when it was rendered, had, and  *)
(* asks of one that exists for the primary network that it has.            *)
DocOK(n, d, had) ==
    /\ had \subseteq d.own
    /\ n \notin raced /\ Ten!Exists(n) => d.primary = cluster[n].primary

Fits(n, files, had) == files[n] # None => DocOK(n, files[n], had[n])

TenInv ==
    /\ host \in Hosts
    /\ foreign \in [Namespaces -> SUBSET Keys]
    /\ cluster \in [Namespaces -> Ten!Metadata \union {None}]
    /\ git \in [Namespaces -> Ten!Documents \union {None}]
    /\ draft \in [Namespaces -> Ten!Documents \union {None}]
    /\ \A n \in Namespaces :
          /\ foreign[n] \subseteq Ten!OwnOf(n)
          /\ Fits(n, git, seenGit) /\ Fits(n, draft, seenDraft)

LEMMA Smallest ==
    ASSUME NEW S \in SUBSET Nat, S # {}
    PROVE  \E x \in S : \A y \in S : x <= y
<1> DEFINE R == OpToRel(<, Nat)
<1>1. \A x, y \in Nat : x < y => <<x, y>> \in R
    BY DEF OpToRel
<1>2. IsWellFoundedOn(R, Nat)
    BY NatLessThanWellFounded
<1> HIDE DEF R
<1>3. PICK x \in S : \A y \in S : ~(<<y, x>> \in R)
    BY <1>2, WFMin
<1>4. ASSUME NEW y \in S PROVE x <= y
    <2>1. x \in Nat /\ y \in Nat /\ ~(<<y, x>> \in R)
        BY <1>3
    <2>2. ~(y < x)
        BY <1>1, <2>1, Zenon
    <2> QED
        BY <2>1, <2>2
<1> QED
    BY <1>3, <1>4

(* Induction, as a set of the numbers that a fact holds for.              *)
LEMMA UpTo ==
    ASSUME NEW n \in Nat, NEW S, 0 \in S, \A k \in 0..(n - 1) : k \in S => k + 1 \in S
    PROVE  \A k \in 0..n : k \in S
<1> DEFINE B == {k \in 0..n : k \notin S}
<1>1. SUFFICES B = {}
    OBVIOUS
<1>2. SUFFICES ASSUME B # {} PROVE FALSE
    OBVIOUS
<1>3. PICK m \in B : \A y \in B : m <= y
    <2>1. B \in SUBSET Nat
        OBVIOUS
    <2> QED
        BY <1>2, <2>1, Smallest
<1>4. m \in 0..n /\ m \notin S /\ m # 0
    OBVIOUS
<1>5. m - 1 \in 0..(n - 1) /\ m - 1 \notin B
    BY <1>3, <1>4
<1>6. m - 1 \in S
    BY <1>5
<1> QED
    BY <1>4, <1>5, <1>6

(* A loop of n rounds over values of T, and the values it goes through.    *)
Loop(T, a, n, F) == n \in Nat /\ a \in T /\ F \in [1..n -> [T -> T]]

Runs(T, a, n, F, g) == g \in [0..n -> T] /\ g[0] = a /\ \A k \in 1..n : g[k] = F[k][g[k - 1]]

(* Every loop has its run: what a recursive function over 0..n stands on.  *)
LEMMA Recursion ==
    ASSUME NEW T, NEW a, NEW n, NEW F, Loop(T, a, n, F)
    PROVE  \E g : Runs(T, a, n, F, g)
<1>a. n \in Nat /\ a \in T /\ F \in [1..n -> [T -> T]]
    BY DEF Loop
<1> DEFINE Upto(m, g) == g \in [0..m -> T] /\ g[0] = a /\ \A k \in 1..m : g[k] = F[k][g[k - 1]]
           S == {m \in 0..n : \E g : Upto(m, g)}
<1> USE <1>a
<1>1. 0 \in S
    <2>1. Upto(0, [k \in 0..0 |-> a])
        OBVIOUS
    <2> HIDE DEF Upto
    <2> QED
        BY <2>1
<1>2. ASSUME NEW m \in 0..(n - 1), m \in S PROVE m + 1 \in S
    <2>1. PICK g : Upto(m, g)
        BY <1>2
    <2> DEFINE h == [k \in 0..(m + 1) |-> IF k = m + 1 THEN F[m + 1][g[m]] ELSE g[k]]
    <2>2. F[m + 1] \in [T -> T] /\ g[m] \in T
        BY <2>1
    <2>3. Upto(m + 1, h)
        BY <2>1, <2>2
    <2> HIDE DEF Upto, h
    <2> QED
        BY <2>3
<1>3. n \in S
    <2>1. \A m \in 0..(n - 1) : m \in S => m + 1 \in S
        BY <1>2, Zenon
    <2> HIDE DEF S
    <2>2. \A k \in 0..n : k \in S
        BY <1>1, <2>1, UpTo
    <2> QED
        BY <2>2
<1>4. PICK g : Upto(n, g)
    BY <1>3
<1> QED
    BY <1>4 DEF Runs

(* The lists of a list are joined from the left.                           *)
LEMMA Flatten ==
    ASSUME NEW S, NEW seqs \in Seq(Seq(S))
    PROVE  \E g \in [0..Len(seqs) -> Seq(S)] :
              /\ g[0] = <<>> /\ \A k \in 1..Len(seqs) : g[k] = g[k - 1] \o seqs[k]
              /\ Net!FlattenSeq(seqs) = g[Len(seqs)]
<1> DEFINE n == Len(seqs)
           Lists == Seq(S)
           nil == << >>
           F == [k \in 1..n |-> [s \in Lists |-> s \o seqs[k]]]
           R(f) == f = [i \in 1..n |-> IF i = 1 THEN seqs[i] ELSE f[i - 1] \o seqs[i]]
           rec == CHOOSE f : R(f)
<1>1. n \in Nat /\ \A k \in 1..n : seqs[k] \in Lists
    OBVIOUS
<1>2. nil \in Lists /\ \A s \in Lists : nil \o s = s
    OBVIOUS
<1>3. F \in [1..n -> [Lists -> Lists]]
    BY <1>1
<1>4. \A k \in 1..n : \A s \in Lists : F[k][s] = s \o seqs[k]
    OBVIOUS
<1>5. Net!FlattenSeq(seqs) = IF n = 0 THEN seqs ELSE rec[n]
    BY Zenon DEF Net!FlattenSeq
<1>6. n = 0 => seqs = nil
    OBVIOUS
<1>7. \A f : R(f) => R(rec)
    BY Zenon
<1> HIDE DEF n, F, Lists, nil, rec
<1>8. PICK g \in [0..n -> Lists] : g[0] = nil /\ \A k \in 1..n : g[k] = F[k][g[k - 1]]
    <2>1. Loop(Lists, nil, n, F)
        BY <1>1, <1>2, <1>3 DEF Loop
    <2> QED
        BY <2>1, Recursion DEF Runs
<1>9. \A k \in 1..n : g[k - 1] \in Lists
    BY <1>1, <1>8
<1>10. \A k \in 1..n : g[k] = g[k - 1] \o seqs[k]
    BY <1>4, <1>8, <1>9
<1>11. Net!FlattenSeq(seqs) = g[n]
    <2>1. CASE n = 0
        BY <1>5, <1>6, <1>8, <2>1
    <2>2. CASE n # 0
        <3>1. g[1] = seqs[1]
            <4>1. 1 \in 1..n /\ 1 - 1 = 0
                BY <1>1, <2>2
            <4>2. g[1] = nil \o seqs[1]
                BY <1>8, <1>10, <4>1
            <4> QED
                BY <1>1, <1>2, <4>1, <4>2
        <3> DEFINE h == [i \in 1..n |-> g[i]]
        <3>2. R(h)
            <4>1. \A i \in 1..n : h[i] = IF i = 1 THEN seqs[i] ELSE h[i - 1] \o seqs[i]
                <5>1. ASSUME NEW i \in 1..n, i # 1 PROVE h[i] = h[i - 1] \o seqs[i]
                    <6>1. i - 1 \in 1..n
                        BY <1>1, <5>1
                    <6> QED
                        BY <1>10, <6>1
                <5> QED
                    BY <3>1, <5>1
            <4> QED
                BY <4>1
        <3>3. R(rec)
            BY <1>7, <3>2
        <3>4. \A i \in 1..n : rec[i] = IF i = 1 THEN seqs[i] ELSE rec[i - 1] \o seqs[i]
            BY <3>3
        <3> DEFINE E == {i \in 0..n : i = 0 \/ rec[i] = g[i]}
        <3>5. ASSUME NEW k \in 0..(n - 1), k \in E PROVE k + 1 \in E
            <4>1. k + 1 \in 1..n /\ k + 1 \in 0..n /\ (k + 1) - 1 = k /\ (k + 1 = 1 <=> k = 0)
                BY <1>1
            <4>2. CASE k = 0
                BY <3>1, <3>4, <4>1, <4>2
            <4>3. CASE k # 0
                <5>1. rec[k + 1] = rec[k] \o seqs[k + 1]
                    BY <3>4, <4>1, <4>3
                <5>2. g[k + 1] = g[k] \o seqs[k + 1]
                    BY <1>10, <4>1
                <5> QED
                    BY <3>5, <4>1, <4>3, <5>1, <5>2
            <4> QED
                BY <4>2, <4>3
        <3>6. 0 \in E
            BY <1>1
        <3>7. \A k \in 0..(n - 1) : k \in E => k + 1 \in E
            BY <3>5, Zenon
        <3>8. n \in E
            <4> HIDE DEF E
            <4>1. \A k \in 0..n : k \in E
                BY <1>1, <3>6, <3>7, UpTo
            <4> QED
                BY <1>1, <4>1
        <3> QED
            BY <1>5, <2>2, <3>8
    <2> QED
        BY <2>1, <2>2
<1> QED
    <2>1. g \in [0..Len(seqs) -> Seq(S)] /\ g[0] = << >>
        BY <1>8 DEF n, Lists, nil
    <2>2. \A k \in 1..Len(seqs) : g[k] = g[k - 1] \o seqs[k]
        BY <1>10 DEF n
    <2>3. Net!FlattenSeq(seqs) = g[Len(seqs)]
        BY <1>11 DEF n
    <2> QED
        BY <2>1, <2>2, <2>3

(* What a list holds.                                                      *)
Items(s) == {s[i] : i \in DOMAIN s}

(* Lists joined hold what both hold.                                       *)
LEMMA ItemsJoined ==
    ASSUME NEW S, NEW s \in Seq(S), NEW t \in Seq(S)
    PROVE  Items(s \o t) = Items(s) \union Items(t)
<1> DEFINE c == s \o t
<1>1. \A i \in DOMAIN s : i \in DOMAIN c /\ c[i] = s[i]
    OBVIOUS
<1>2. \A i \in DOMAIN t : i + Len(s) \in DOMAIN c /\ c[i + Len(s)] = t[i]
    OBVIOUS
<1>3. \A i \in DOMAIN c : \/ i \in DOMAIN s /\ c[i] = s[i]
                          \/ i - Len(s) \in DOMAIN t /\ c[i] = t[i - Len(s)]
    OBVIOUS
<1> HIDE DEF c
<1>4. ASSUME NEW x \in Items(c) PROVE x \in Items(s) \union Items(t)
    <2>1. PICK i \in DOMAIN c : x = c[i]
        BY DEF Items
    <2>2. CASE i \in DOMAIN s /\ c[i] = s[i]
        BY <2>1, <2>2, Zenon DEF Items
    <2>3. CASE i - Len(s) \in DOMAIN t /\ c[i] = t[i - Len(s)]
        BY <2>1, <2>3, Zenon DEF Items
    <2> QED
        BY <1>3, <2>1, <2>2, <2>3
<1>5. ASSUME NEW x \in Items(s) PROVE x \in Items(c)
    <2>1. PICK i \in DOMAIN s : x = s[i]
        BY DEF Items
    <2>2. i \in DOMAIN c /\ c[i] = x
        BY <1>1, <2>1
    <2> QED
        BY <2>2, Zenon DEF Items
<1>6. ASSUME NEW x \in Items(t) PROVE x \in Items(c)
    <2>1. PICK i \in DOMAIN t : x = t[i]
        BY DEF Items
    <2>2. i + Len(s) \in DOMAIN c /\ c[i + Len(s)] = x
        BY <1>2, <2>1
    <2> QED
        BY <2>2, Zenon DEF Items
<1> QED
    BY <1>4, <1>5, <1>6 DEF c

(* A list of lists, joined, holds what they hold.                          *)
LEMMA FlatItems ==
    ASSUME NEW S, NEW seqs \in Seq(Seq(S))
    PROVE  /\ Net!FlattenSeq(seqs) \in Seq(S)
           /\ Items(Net!FlattenSeq(seqs)) = UNION {Items(seqs[k]) : k \in DOMAIN seqs}
<1> DEFINE n == Len(seqs)
           T == Seq(S)
           Upto(k) == UNION {Items(seqs[j]) : j \in 1..k}
<1>1. n \in Nat /\ DOMAIN seqs = 1..n /\ \A k \in 1..n : seqs[k] \in T
    OBVIOUS
<1>2. PICK g \in [0..n -> T] :
          /\ g[0] = <<>> /\ \A k \in 1..n : g[k] = g[k - 1] \o seqs[k]
          /\ Net!FlattenSeq(seqs) = g[n]
    BY Flatten
<1>3. \A s, t \in T : Items(s \o t) = Items(s) \union Items(t)
    BY ItemsJoined
<1> HIDE DEF n, T
<1> DEFINE E == {k \in 0..n : Items(g[k]) = Upto(k)}
<1>4. 0 \in E
    <2>1. Items(<< >>) = {}
        BY DEF Items
    <2>2. Upto(0) = {}
        OBVIOUS
    <2>3. 0 \in 0..n /\ g[0] = << >>
        BY <1>1, <1>2
    <2> HIDE DEF Upto
    <2> QED
        BY <2>1, <2>2, <2>3
<1>5. ASSUME NEW k \in 0..(n - 1), k \in E PROVE k + 1 \in E
    <2>1. k + 1 \in 1..n /\ k + 1 \in 0..n /\ (k + 1) - 1 = k /\ k \in 0..n
        BY <1>1
    <2>2. Items(g[k + 1]) = Items(g[k]) \union Items(seqs[k + 1])
        <3>1. g[k] \in T /\ seqs[k + 1] \in T
            BY <1>1, <1>2, <2>1
        <3>2. g[k + 1] = g[k] \o seqs[k + 1]
            BY <1>2, <2>1
        <3> QED
            BY <1>3, <3>1, <3>2
    <2>3. Upto(k + 1) = Upto(k) \union Items(seqs[k + 1])
        <3>1. \A j \in 1..(k + 1) : j \in 1..k \/ j = k + 1
            BY <2>1
        <3>2. \A j \in 1..k : j \in 1..(k + 1)
            BY <2>1
        <3>3. k + 1 \in 1..(k + 1)
            BY <2>1
        <3> DEFINE it(j) == Items(seqs[j])
        <3> HIDE DEF it
        <3>4. UNION {it(j) : j \in 1..(k + 1)} = (UNION {it(j) : j \in 1..k}) \union it(k + 1)
            BY <3>1, <3>2, <3>3
        <3> QED
            BY <3>4 DEF it
    <2> HIDE DEF Upto
    <2> QED
        BY <1>5, <2>1, <2>2, <2>3
<1>6. n \in E
    <2>1. \A k \in 0..(n - 1) : k \in E => k + 1 \in E
        BY <1>5, Zenon
    <2> HIDE DEF E
    <2>2. \A k \in 0..n : k \in E
        BY <1>1, <1>4, <2>1, UpTo
    <2> QED
        BY <1>1, <2>2
<1>7. Items(Net!FlattenSeq(seqs)) = Upto(n)
    BY <1>2, <1>6
<1>8. Net!FlattenSeq(seqs) \in T
    BY <1>1, <1>2
<1> QED
    BY <1>1, <1>7, <1>8 DEF T

LEMMA Least ==
    ASSUME NEW S \in SUBSET Nat, S # {}
    PROVE  Ten!Min(S) \in S
BY Smallest DEF Ten!Min

(* The repository that the namespaces of a project agree on is one of      *)
(* theirs, on the forge as it is now.                                      *)
LEMMA Agreed ==
    ASSUME TenInv, NEW p \in Tenants
    PROVE  Ten!RepoOf(p) \in Ten!References \union {None}
<1> DEFINE wired == {m \in Ten!Members(p) : cluster[m].repo # None}
           refs  == {Ten!ResolveRef(cluster[n].repo) : n \in wired}
<1>1. ASSUME NEW n \in wired PROVE Ten!ResolveRef(cluster[n].repo) \in Ten!References
    <2>1. cluster[n].repo \in Ten!References
        BY <1>1 DEF TenInv, Ten!Members, Ten!Exists, Ten!Metadata
    <2> QED
        BY <2>1 DEF TenInv, Ten!ResolveRef, Ten!References
<1>2. refs \subseteq Ten!References
    BY <1>1
<1>3. Cardinality(refs) = 1 => refs # {}
    BY FS_EmptySet
<1>4. Ten!RepoOf(p) = IF Ten!Cardinality(refs) = 1 THEN CHOOSE r \in refs : TRUE ELSE None
    BY DEF Ten!RepoOf
<1> HIDE DEF refs
<1>5. Ten!Cardinality(refs) = Cardinality(refs)
    BY Counts
<1> QED
    BY <1>2, <1>3, <1>4, <1>5

(* What a request renders for a namespace, which takes a network only if   *)
(* it does not exist.                                                      *)
LEMMA Rendered ==
    ASSUME TenInv, NEW n \in Namespaces, NEW p \in Tenants, NEW ref \in Ten!References,
           NEW net \in BOOLEAN, net => ~Ten!Exists(n)
    PROVE  Ten!NamespaceManifest(n, p, ref, net) \in Ten!Documents
           /\ DocOK(n, Ten!NamespaceManifest(n, p, ref, net), Ten!OwnOf(n))
<1> DEFINE doc == Ten!NamespaceManifest(n, p, ref, net)
<1>1. Ten!Exists(n) => cluster[n].own \in SUBSET Keys /\ cluster[n].primary \in BOOLEAN
    BY DEF TenInv, Ten!Exists, Ten!Metadata
<1>2. /\ doc.project = p /\ doc.repo = ref /\ doc.net = net
      /\ doc.own = Ten!OwnOf(n)
      /\ doc.primary = (net \/ (Ten!Exists(n) /\ cluster[n].primary))
    BY DEF Ten!NamespaceManifest
<1>3. (net \/ (Ten!Exists(n) /\ cluster[n].primary)) \in BOOLEAN
    OBVIOUS
<1>4. doc \in Ten!Documents
    BY <1>1, <1>3 DEF Ten!NamespaceManifest, Ten!Documents, Ten!OwnOf
<1>5. Ten!OwnOf(n) \subseteq doc.own
    BY <1>2
<1>6. Ten!Exists(n) => doc.primary = cluster[n].primary
    BY <1>1, <1>2, Zenon
<1> QED
    BY <1>4, <1>5, <1>6 DEF DocOK

(* A request stages files that are in order: so is the draft.              *)
LEMMA Drafted ==
    ASSUME TenInv, UNCHANGED <<cluster, host, git, foreign, seenGit, raced>>,
           draft' \in [Namespaces -> Ten!Documents \union {None}],
           \A n \in Namespaces : \/ draft'[n] = draft[n] /\ seenDraft'[n] = seenDraft[n]
                                \/ DocOK(n, draft'[n], seenDraft'[n])
    PROVE  TenInv'
BY DEF TenInv, Fits, DocOK, Ten!Exists, Ten!OwnOf

LEMMA StageStep ==
    ASSUME TenInv, Ten!TenancyAssumption,
           NEW nss \in SUBSET Namespaces, nss # {}, NEW doc, NEW owners,
           \A n \in nss : doc[n] \in Ten!Documents /\ DocOK(n, doc[n], Ten!OwnOf(n)),
           Ten!Stage(nss, doc, owners), UNCHANGED <<cluster, host, git, foreign, seenGit, raced>>
    PROVE  TenInv'
<1> DEFINE done == IF owners = "bad" THEN {Ten!Min(nss)} ELSE nss
<1>1. done \subseteq nss
    BY Least DEF Ten!TenancyAssumption
<1>2. /\ draft' = [n \in Namespaces |-> IF n \in done THEN doc[n] ELSE draft[n]]
      /\ seenDraft' = [n \in Namespaces |-> IF n \in done THEN Ten!OwnOf(n) ELSE seenDraft[n]]
    BY DEF Ten!Stage
<1> HIDE DEF done
<1>3. draft' \in [Namespaces -> Ten!Documents \union {None}]
    BY <1>1, <1>2 DEF TenInv
<1>4. \A n \in Namespaces : \/ draft'[n] = draft[n] /\ seenDraft'[n] = seenDraft[n]
                            \/ DocOK(n, draft'[n], seenDraft'[n])
    BY <1>1, <1>2
<1> QED
    BY <1>3, <1>4, Drafted

LEMMA RefusedStep ==
    ASSUME TenInv, NEW kind, Ten!Refuse(kind), UNCHANGED <<cluster, host, git, foreign, seenGit, raced>>
    PROVE  TenInv'
BY Drafted DEF Ten!Refuse, TenInv

LEMMA RequestStep ==
    ASSUME TenInv, Ten!TenancyAssumption, NEW p \in Tenants,
           \/ \E n \in Namespaces, net \in {None, "net", "bad"}, o \in {None, "some", "bad"} :
                 Ten!CreateProject(p, n, net, o)
           \/ \E o \in {None, "some", "bad"} : Ten!AdoptProject(p, o)
           \/ \E n \in Namespaces, net \in {None, "net", "bad"} : Ten!CreateNamespace(n, p, net)
    PROVE  TenInv'
<1>1. UNCHANGED <<cluster, host, git, foreign, seenGit, raced>>
    BY DEF Ten!CreateProject, Ten!AdoptProject, Ten!CreateNamespace
<1>2. CASE \E kind : Ten!Refuse(kind)
    BY <1>1, <1>2, RefusedStep
<1>3. ASSUME NEW n \in Namespaces, NEW net, NEW owners, NEW ref \in Ten!References,
             Ten!MayTakeNetwork(n, net),
             Ten!Stage({n}, [m \in {n} |-> Ten!NamespaceManifest(m, p, ref, net # None)], owners)
      PROVE  TenInv'
    <2> DEFINE doc == [m \in {n} |-> Ten!NamespaceManifest(m, p, ref, net # None)]
    <2>1. net # None => ~Ten!Exists(n)
        BY <1>3 DEF Ten!MayTakeNetwork
    <2>2. (net # None) \in BOOLEAN
        OBVIOUS
    <2>3. /\ Ten!NamespaceManifest(n, p, ref, net # None) \in Ten!Documents
          /\ DocOK(n, Ten!NamespaceManifest(n, p, ref, net # None), Ten!OwnOf(n))
        BY <1>3, <2>1, <2>2, Rendered
    <2>4. \A m \in {n} : doc[m] \in Ten!Documents /\ DocOK(m, doc[m], Ten!OwnOf(m))
        BY <2>3
    <2>5. {n} \in SUBSET Namespaces /\ {n} # {} /\ Ten!Stage({n}, doc, owners)
        BY <1>3
    <2> HIDE DEF doc
    <2> QED
        BY <1>1, <2>4, <2>5, StageStep
<1>4. [host |-> "", path |-> p] \in Ten!References
    BY DEF Ten!References
<1>5. ASSUME NEW n \in Namespaces, NEW net, NEW o, Ten!CreateProject(p, n, net, o)
      PROVE  TenInv'
    <2>1. \/ \E kind : Ten!Refuse(kind)
          \/ /\ Ten!MayTakeNetwork(n, net)
             /\ Ten!Stage({n}, [m \in {n} |->
                               Ten!NamespaceManifest(m, p, [host |-> "", path |-> p], net # None)], o)
        BY <1>5 DEF Ten!CreateProject
    <2> QED
        BY <1>2, <1>3, <1>4, <2>1
<1>6. ASSUME NEW n \in Namespaces, NEW net, Ten!CreateNamespace(n, p, net)
      PROVE  TenInv'
    <2> DEFINE repo == Ten!RepoOf(p)
               ref  == IF Ten!SameForge(repo) THEN Ten!PathRef(repo) ELSE repo
    <2>1. \/ \E kind : Ten!Refuse(kind)
          \/ /\ repo # None /\ Ten!MayTakeNetwork(n, net)
             /\ Ten!Stage({n}, [m \in {n} |-> Ten!NamespaceManifest(m, p, ref, net # None)], None)
        BY <1>6 DEF Ten!CreateNamespace
    <2>2. repo # None => ref \in Ten!References
        BY Agreed DEF Ten!References, Ten!PathRef
    <2> HIDE DEF ref
    <2> QED
        BY <1>2, <1>3, <2>1, <2>2
<1>7. ASSUME NEW o, Ten!AdoptProject(p, o)
      PROVE  TenInv'
    <2> DEFINE repo    == Ten!RepoOf(p)
               rehome  == repo # None /\ ~Ten!SameForge(repo) /\ repos[repo.path] # None
               ref     == IF rehome THEN Ten!PathRef(repo) ELSE [host |-> "", path |-> p]
               written == [n \in Ten!Members(p) |-> Ten!NamespaceManifest(n, p, ref, FALSE)]
    <2>1. /\ Ten!Members(p) # {}
          /\ \/ \E kind : Ten!Refuse(kind)
             \/ Ten!Stage(Ten!Members(p), written, o)
        BY <1>7 DEF Ten!AdoptProject
    <2>2. ref \in Ten!References
        BY Agreed, <1>4 DEF Ten!References, Ten!PathRef
    <2> HIDE DEF ref
    <2>3. Ten!Members(p) \in SUBSET Namespaces
        BY DEF Ten!Members
    <2>4. \A n \in Ten!Members(p) : written[n] \in Ten!Documents /\ DocOK(n, written[n], Ten!OwnOf(n))
        BY <2>2, <2>3, Rendered
    <2> HIDE DEF written
    <2> QED
        BY <1>1, <1>2, <2>1, <2>3, <2>4, StageStep
<1> QED
    BY <1>5, <1>6, <1>7

LEMMA ReleaseStep ==
    ASSUME TenInv, Ten!TenancyAssumption, NEW p \in Tenants, Ten!ReleaseProject(p)
    PROVE  TenInv'
<1>1. PICK staged, done \in SUBSET Namespaces :
          /\ \A n \in staged : git[n] # None
          /\ \A n \in done : Ten!Exists(n)
          /\ draft' = [n \in Namespaces |-> IF n \in staged THEN Ten!Released(git[n]) ELSE draft[n]]
          /\ seenDraft' = [n \in Namespaces |-> IF n \in staged THEN seenGit[n] ELSE seenDraft[n]]
          /\ cluster' = [n \in Namespaces |-> IF n \in done
                            THEN [cluster[n] EXCEPT !.project = None, !.repo = None] ELSE cluster[n]]
    <2> DEFINE declared == {n \in Ten!Members(p) : git[n] # None}
               wired    == {n \in declared : git[n].net}
               staged   == {n \in declared : \A m \in wired : n < m}
    <2>1. staged \in SUBSET Namespaces /\ \A n \in staged : git[n] # None
        BY DEF Ten!Members
    <2>2. /\ draft' = [n \in Namespaces |-> IF n \in staged THEN Ten!Released(git[n]) ELSE draft[n]]
          /\ seenDraft' = [n \in Namespaces |-> IF n \in staged THEN seenGit[n] ELSE seenDraft[n]]
        BY DEF Ten!ReleaseProject
    <2>3. \E done \in SUBSET (Ten!Members(p) \ declared) :
              cluster' = [n \in Namespaces |-> IF n \in done
                            THEN [cluster[n] EXCEPT !.project = None, !.repo = None] ELSE cluster[n]]
        BY DEF Ten!ReleaseProject
    <2> HIDE DEF declared, staged
    <2> QED
        BY <2>1, <2>2, <2>3 DEF Ten!Members
<1>2. UNCHANGED <<host, git, foreign, seenGit, raced>>
    BY DEF Ten!ReleaseProject
<1>3. ASSUME NEW n \in Namespaces
      PROVE  /\ cluster'[n] \in Ten!Metadata \union {None}
             /\ cluster'[n] # None <=> cluster[n] # None
             /\ cluster[n] # None => /\ cluster'[n].own = cluster[n].own
                                     /\ cluster'[n].primary = cluster[n].primary
    <2>0. cluster[n] \in Ten!Metadata \union {None} /\ None \notin Ten!Metadata
        BY DEF TenInv, Ten!TenancyAssumption
    <2>1. CASE n \in done
        <3>1. cluster[n] \in Ten!Metadata
            BY <1>1, <2>0, <2>1 DEF Ten!Exists
        <3>2. /\ [cluster[n] EXCEPT !.project = None, !.repo = None] \in Ten!Metadata
              /\ [cluster[n] EXCEPT !.project = None, !.repo = None].own = cluster[n].own
              /\ [cluster[n] EXCEPT !.project = None, !.repo = None].primary = cluster[n].primary
            BY <3>1 DEF Ten!Metadata
        <3> QED
            BY <1>1, <2>0, <2>1, <3>1, <3>2
    <2>2. CASE n \notin done
        BY <1>1, <2>0, <2>2
    <2> QED
        BY <2>1, <2>2
<1>4. ASSUME NEW n \in Namespaces
      PROVE  draft'[n] \in Ten!Documents \union {None} /\ Fits(n, draft, seenDraft)'
    <2>0. /\ draft[n] \in Ten!Documents \union {None} /\ git[n] \in Ten!Documents \union {None}
          /\ Fits(n, git, seenGit) /\ Fits(n, draft, seenDraft)
        BY DEF TenInv
    <2>1. CASE n \in staged
        <3>1. git[n] \in Ten!Documents /\ DocOK(n, git[n], seenGit[n])
            BY <1>1, <2>0, <2>1 DEF Fits
        <3>2. /\ draft'[n] \in Ten!Documents
              /\ draft'[n].own = git[n].own /\ draft'[n].primary = git[n].primary
              /\ seenDraft'[n] = seenGit[n]
            BY <1>1, <2>1, <3>1 DEF Ten!Released, Ten!Documents
        <3> QED
            BY <1>2, <1>3, <3>1, <3>2 DEF Fits, DocOK, Ten!Exists
    <2>2. CASE n \notin staged
        BY <1>1, <1>2, <1>3, <2>0, <2>2 DEF Fits, DocOK, Ten!Exists
    <2> QED
        BY <2>1, <2>2
<1>5. ASSUME NEW n \in Namespaces
      PROVE  /\ foreign'[n] \subseteq Ten!OwnOf(n)'
             /\ Fits(n, git, seenGit)'
    BY <1>2, <1>3 DEF TenInv, Fits, DocOK, Ten!Exists, Ten!OwnOf
<1>6. /\ cluster' \in [Namespaces -> Ten!Metadata \union {None}]
      /\ draft' \in [Namespaces -> Ten!Documents \union {None}]
    BY <1>1, <1>3, <1>4
<1> QED
    BY <1>2, <1>4, <1>5, <1>6 DEF TenInv

(* The draft lands or goes.                                                *)
LEMMA LandStep ==
    ASSUME TenInv, Ten!Merge \/ Ten!Discard
    PROVE  TenInv'
<1>1. UNCHANGED <<cluster, host, foreign, raced>>
    BY DEF Ten!Merge, Ten!Discard
<1>2. draft' = [n \in Namespaces |-> None]
    BY DEF Ten!Merge, Ten!Discard, Ten!Emptied
<1>3. \/ git' = git /\ seenGit' = seenGit
      \/ /\ git' = [n \in Namespaces |-> IF draft[n] # None THEN draft[n] ELSE git[n]]
         /\ seenGit' = [n \in Namespaces |-> IF draft[n] # None THEN seenDraft[n] ELSE seenGit[n]]
    BY DEF Ten!Merge, Ten!Discard
<1> QED
    BY <1>1, <1>2, <1>3 DEF TenInv, Fits, DocOK, Ten!Exists, Ten!OwnOf

(* The namespace comes to be what its file says: of a draft that was       *)
(* rendered before it existed, nothing more is known.                      *)
LEMMA SyncStep ==
    ASSUME TenInv, Ten!TenancyAssumption, NEW n \in Namespaces, Ten!Sync(n)
    PROVE  TenInv'
<1>1. /\ UNCHANGED <<host, git, draft, seenGit, seenDraft>> /\ git[n] # None
      /\ Ten!Exists(n) => cluster[n].primary = git[n].primary
      /\ raced' = IF draft[n] # None /\ ~Ten!Exists(n) THEN raced \union {n} ELSE raced
    BY DEF Ten!Sync
<1>2. PICK kept \in SUBSET (Ten!OwnOf(n) \ git[n].own) :
          /\ cluster' = [cluster EXCEPT ![n] = Ten!Applied(git[n], kept)]
          /\ foreign' = [foreign EXCEPT ![n] = foreign[n] \intersect (seenGit[n] \union kept)]
    BY DEF Ten!Sync, TenInv
<1>3. git[n] \in Ten!Documents /\ DocOK(n, git[n], seenGit[n])
    BY <1>1 DEF TenInv, Fits
<1>4. kept \subseteq Keys
    BY DEF TenInv, Ten!OwnOf, Ten!Exists, Ten!Metadata
<1>5. /\ Ten!Applied(git[n], kept) \in Ten!Metadata
      /\ Ten!Applied(git[n], kept).own = git[n].own \union kept
      /\ Ten!Applied(git[n], kept).primary = git[n].primary
    BY <1>3, <1>4 DEF Ten!Applied, Ten!Documents, Ten!Metadata
<1>6. /\ cluster' \in [Namespaces -> Ten!Metadata \union {None}]
      /\ cluster'[n] = Ten!Applied(git[n], kept) /\ cluster'[n] # None
      /\ \A m \in Namespaces \ {n} : cluster'[m] = cluster[m]
    BY <1>2, <1>5 DEF TenInv, Ten!TenancyAssumption
<1>7. /\ foreign' \in [Namespaces -> SUBSET Keys]
      /\ foreign'[n] \subseteq seenGit[n] \union kept
      /\ \A m \in Namespaces \ {n} : foreign'[m] = foreign[m]
    BY <1>2 DEF TenInv
<1>8. ASSUME NEW m \in Namespaces
      PROVE  foreign'[m] \subseteq Ten!OwnOf(m)' /\ Fits(m, git, seenGit)' /\ Fits(m, draft, seenDraft)'
    <2>0. /\ foreign[m] \subseteq Ten!OwnOf(m)
          /\ Fits(m, git, seenGit) /\ Fits(m, draft, seenDraft) /\ raced \subseteq raced'
        BY <1>1 DEF TenInv
    <2>1. CASE m = n
        <3>1. foreign'[m] \subseteq Ten!OwnOf(m)'
            BY <1>3, <1>5, <1>6, <1>7, <2>1 DEF DocOK, Ten!Exists, Ten!OwnOf
        <3>2. Fits(m, git, seenGit)'
            BY <1>1, <1>3, <1>5, <1>6, <2>1 DEF Fits, DocOK
        <3>3. Fits(m, draft, seenDraft)'
            BY <1>1, <1>5, <1>6, <2>0, <2>1 DEF Fits, DocOK
        <3> QED
            BY <3>1, <3>2, <3>3
    <2>2. CASE m # n
        BY <1>1, <1>6, <1>7, <2>0, <2>2 DEF Fits, DocOK, Ten!Exists, Ten!OwnOf
    <2> QED
        BY <2>1, <2>2
<1> QED
    BY <1>1, <1>6, <1>7, <1>8 DEF TenInv

(* Others write a namespace: no file of it is any the worse.               *)
LEMMA HandStep ==
    ASSUME TenInv, Ten!TenancyAssumption, NEW n \in Namespaces, NEW meta \in ByHand,
           Ten!HandWrites(n, meta)
    PROVE  TenInv'
<1> DEFINE pending == draft[n] # None \/ git[n] # None
           own     == IF meta = None THEN {} ELSE meta.own
<1>1. /\ UNCHANGED <<host, git, draft, seenGit, seenDraft>>
      /\ Ten!Exists(n) /\ meta # None => meta.primary = cluster[n].primary
      /\ cluster' = [cluster EXCEPT ![n] = meta]
      /\ foreign' = [foreign EXCEPT ![n] = own]
      /\ raced' = IF pending /\ ~Ten!Exists(n) THEN raced \union {n} ELSE raced
    BY DEF Ten!HandWrites
<1>2. meta \in Ten!Metadata \union {None} /\ own \in SUBSET Keys
    BY DEF Ten!TenancyAssumption, Ten!Metadata
<1>3. /\ cluster' \in [Namespaces -> Ten!Metadata \union {None}]
      /\ foreign' \in [Namespaces -> SUBSET Keys]
      /\ cluster'[n] = meta /\ foreign'[n] = own
      /\ \A m \in Namespaces \ {n} : cluster'[m] = cluster[m] /\ foreign'[m] = foreign[m]
    <2> HIDE DEF own, pending
    <2> QED
        BY <1>1, <1>2 DEF TenInv
<1>4. ASSUME NEW m \in Namespaces
      PROVE  foreign'[m] \subseteq Ten!OwnOf(m)' /\ Fits(m, git, seenGit)' /\ Fits(m, draft, seenDraft)'
    <2>0. /\ foreign[m] \subseteq Ten!OwnOf(m)
          /\ Fits(m, git, seenGit) /\ Fits(m, draft, seenDraft) /\ raced \subseteq raced'
        BY <1>1 DEF TenInv
    <2>1. CASE m = n
        <3>1. foreign'[m] \subseteq Ten!OwnOf(m)'
            BY <1>3, <2>1 DEF Ten!OwnOf, Ten!Exists
        <3>2. Fits(m, git, seenGit)'
            BY <1>1, <1>3, <2>0, <2>1 DEF Fits, DocOK, Ten!Exists
        <3>3. Fits(m, draft, seenDraft)'
            BY <1>1, <1>3, <2>0, <2>1 DEF Fits, DocOK, Ten!Exists
        <3> QED
            BY <3>1, <3>2, <3>3
    <2>2. CASE m # n
        BY <1>1, <1>3, <2>0, <2>2 DEF Fits, DocOK, Ten!Exists, Ten!OwnOf
    <2> QED
        BY <2>1, <2>2
<1> QED
    BY <1>1, <1>3, <1>4 DEF TenInv

(* Others drop an annotation, a repository, or the host of the forge.      *)
LEMMA ElsewhereStep ==
    ASSUME TenInv, Ten!TenancyAssumption,
           \/ \E n \in Namespaces : Ten!HandDrops(n)
           \/ \E p \in Tenants : Ten!RepoLost(p)
           \/ \E h \in Hosts : Ten!ForgeMoves(h)
           \/ UNCHANGED Ten!vars
    PROVE  TenInv'
<1>1. CASE \E n \in Namespaces : Ten!HandDrops(n)
    <2>1. PICK n \in Namespaces :
              /\ git[n] # None /\ git' = [git EXCEPT ![n].repo = None]
              /\ UNCHANGED <<cluster, host, draft, foreign, seenGit, seenDraft, raced>>
        BY <1>1 DEF Ten!HandDrops
    <2>2. git[n] \in Ten!Documents /\ DocOK(n, git[n], seenGit[n])
        BY <2>1 DEF TenInv, Fits
    <2>3. /\ git'[n] \in Ten!Documents
          /\ git'[n].own = git[n].own /\ git'[n].primary = git[n].primary
          /\ git' \in [Namespaces -> Ten!Documents \union {None}]
          /\ \A m \in Namespaces \ {n} : git'[m] = git[m]
        BY <2>1, <2>2 DEF TenInv, Ten!Documents
    <2> QED
        BY <2>1, <2>2, <2>3 DEF TenInv, Fits, DocOK, Ten!Exists, Ten!OwnOf
<1>2. CASE \/ \E p \in Tenants : Ten!RepoLost(p)
           \/ \E h \in Hosts : Ten!ForgeMoves(h)
           \/ UNCHANGED Ten!vars
    <2>1. UNCHANGED <<cluster, git, draft, foreign, seenGit, seenDraft, raced>> /\ host' \in Hosts
        BY <1>2 DEF Ten!RepoLost, Ten!ForgeMoves, Ten!vars, TenInv
    <2> QED
        BY <2>1 DEF TenInv, Fits, DocOK, Ten!Exists, Ten!OwnOf
<1> QED
    BY <1>1, <1>2

LEMMA TenInit == Ten!TenancyAssumption /\ Ten!Init => TenInv
<1> SUFFICES ASSUME Ten!TenancyAssumption, Ten!Init PROVE TenInv
    OBVIOUS
<1>1. cluster \in [Namespaces -> Ten!Metadata \union {None}] /\ host \in Hosts
    BY DEF Ten!Init, Ten!TenancyAssumption
<1>2. foreign = [n \in Namespaces |-> Ten!OwnOf(n)]
    BY DEF Ten!Init
<1>3. foreign \in [Namespaces -> SUBSET Keys]
    BY <1>1, <1>2 DEF Ten!Exists, Ten!OwnOf, Ten!Metadata
<1> QED
    BY <1>1, <1>2, <1>3 DEF Ten!Init, TenInv, Fits

LEMMA TenNext == Ten!TenancyAssumption /\ TenInv /\ [Ten!Next]_(Ten!vars) => TenInv'
<1> SUFFICES ASSUME Ten!TenancyAssumption, TenInv, [Ten!Next]_(Ten!vars) PROVE TenInv'
    OBVIOUS
<1>1. ASSUME NEW p \in Tenants, Ten!ReleaseProject(p) PROVE TenInv'
    BY <1>1, ReleaseStep
<1>2. CASE Ten!Request
    BY <1>1, <1>2, RequestStep DEF Ten!Request
<1>3. CASE Ten!Merge \/ Ten!Discard
    BY <1>3, LandStep
<1>4. ASSUME NEW n \in Namespaces, Ten!Sync(n) PROVE TenInv'
    BY <1>4, SyncStep
<1>5. ASSUME NEW n \in Namespaces, NEW meta \in ByHand, Ten!HandWrites(n, meta) PROVE TenInv'
    BY <1>5, HandStep
<1>6. CASE \/ \E n \in Namespaces : Ten!HandDrops(n)
           \/ \E p \in Tenants : Ten!RepoLost(p)
           \/ \E h \in Hosts : Ten!ForgeMoves(h)
           \/ UNCHANGED Ten!vars
    BY <1>6, ElsewhereStep
<1> QED
    BY <1>2, <1>3, <1>4, <1>5, <1>6 DEF Ten!Next

(* The part of GitParts does what the component does.                      *)
LEMMA TenPart ==
    ASSUME Ten!TenancyAssumption
    PROVE  PartsSpec => [](part = "tenancy" => TenInv)
<1>1. PartsInit => (part = "tenancy" => TenInv)
    BY TenInit DEF PartsInit
<1>2. (part = "tenancy" => TenInv) /\ [PartsNext]_partsVars => (part = "tenancy" => TenInv)'
    <2> SUFFICES ASSUME TenInv, [PartsNext]_partsVars, part = "tenancy" PROVE (TenInv)'
        BY DEF PartsNext, partsVars
    <2>1. [Ten!Next]_(Ten!vars)
        BY DEF PartsNext, partsVars, tenVars, Ten!vars
    <2> QED
        BY <2>1, TenNext
<1> QED
    BY <1>1, <1>2, PTL DEF PartsSpec

(* namespace.go:36-39: whatever was staged, landed, synced and released,   *)
(* and whenever others wrote the namespace meanwhile, it carries every key *)
(* that they left on it; a sync alone may take one, and only one that they *)
(* gave after the file that it applies was rendered.                       *)
THEOREM ForeignKeysStay ==
    ASSUME Ten!TenancyAssumption
    PROVE  (Ten!Spec => []Ten!KeepsForeign) /\ (PartsSpec => []KeepsForeign)
<1>1. TenInv => Ten!KeepsForeign
    BY DEF TenInv, Ten!KeepsForeign, Ten!OwnOf
<1>2. Ten!Spec => []Ten!KeepsForeign
    BY <1>1, TenInit, TenNext, PTL DEF Ten!Spec
<1>3. (part = "tenancy" => TenInv) => KeepsForeign
    BY <1>1 DEF KeepsForeign
<1> QED
    BY <1>2, <1>3, TenPart, PTL

(* tenancy.go:29-31: the sync never stops on a primary network that OVN    *)
(* refuses, but for a namespace made between the staging and the sync.     *)
THEOREM SyncNeverStops ==
    ASSUME Ten!TenancyAssumption
    PROVE  (Ten!Spec => []Ten!SyncApplies) /\ (PartsSpec => []SyncApplies)
<1>1. TenInv => Ten!SyncApplies
    BY DEF TenInv, Fits, DocOK, Ten!SyncApplies
<1>2. Ten!Spec => []Ten!SyncApplies
    BY <1>1, TenInit, TenNext, PTL DEF Ten!Spec
<1>3. (part = "tenancy" => TenInv) => SyncApplies
    BY <1>1 DEF SyncApplies
<1> QED
    BY <1>2, <1>3, TenPart, PTL

--------------------------------------------------------------------------------
(* The history of a branch.                                                *)

Pushes == [id : Nat, tip : Hist!Trees, fork : Nat]
PullRequests ==
    [state : {"open", "merged", "closed"},
     body  : [files : SUBSET (Files \X (Contents \union {None})), later : SUBSET Files,
              own : BOOLEAN, at : Nat, whole : BOOLEAN]]

(* From j to k no commit touches the file.                                 *)
Still(f, j, k) == \A i \in (j + 1)..k : ~Hist!Touches(i, f)

(* Where no commit touches a file it stays what it was; and of the commits *)
(* that do there is a last one.                                            *)
Chained(f) ==
    /\ \A j, k \in 1..Len(base) : j <= k /\ Still(f, j, k) => base[k][f] = base[j][f]
    /\ \A k \in 1..Len(base) :
          Still(f, 0, k) \/ \E j \in 1..k : Hist!Touches(j, f) /\ Still(f, j, k)

(* While the body of an open revert is of the push it stands beside, the   *)
(* branch undoes its commit on the base branch as it was then; without a   *)
(* warning, and read whole, no file of the commit had changed where the    *)
(* mirror was, or all were undone already.                                 *)
RevertOK(k) ==
    LET body == prs[k].body
    IN  prs[k] # None /\ prs[k].state = "open" /\ body.own /\ body.whole =>
            /\ k \in 2..Len(base) /\ body.at \in 1..pushed[k].fork
            /\ pushed[k].tip = Hist!Undone(k, base[pushed[k].fork])
            /\ body.later = {} =>
                  \/ \A f \in Hist!CommitDiff(k) : base[body.at][f] = base[k][f]
                  \/ \A f \in Hist!CommitDiff(k) : base[body.at][f] = base[k - 1][f]

(* What the graph of commits keeps: the mirror has where its branches were *)
(* forked, and the commit of a pull request that may still land is its own *)
(* and in no commit of the base branch.                                    *)
Branching ==
    /\ joined \in Seq(Nat) /\ Len(joined) = Len(base) /\ pushes \in Nat
    /\ \A i \in 1..Len(joined) : joined[i] <= pushes
    /\ \A b \in Hist!Branches :
          pushed[b] \in Pushes => pushed[b].fork \in 1..Len(base) /\ pushed[b].id \in 1..pushes
    /\ \A b \in Hist!Branches : mirrored[b] \in Pushes => mirrored[b].fork \in 1..seen
    /\ \A a, b \in Hist!Branches :
          pushed[a] \in Pushes /\ pushed[b] \in Pushes /\ pushed[a].id = pushed[b].id => a = b
    /\ \A b \in Hist!Branches :
          prs[b] # None /\ prs[b].state # "merged" =>
              \A i \in 1..Len(joined) : joined[i] # pushed[b].id

HistInv ==
    /\ base \in Seq(Hist!Trees) /\ seen \in 1..Len(base)
    /\ pushed \in [Hist!Branches -> Pushes \union {None}]
    /\ \A b \in Hist!Branches :
          prs[b] # None => pushed[b] \in Pushes /\ pushed[b].fork \in 1..Len(base)
    /\ prs \in [Hist!Branches -> PullRequests \union {None}]
    /\ Branching
    /\ \A f \in Files : Chained(f)
    /\ \A k \in Hist!Branches \ {0} : RevertOK(k)

LEMMA HistInit == Hist!HistoryAssumption /\ Hist!Init => HistInv
<1> SUFFICES ASSUME Hist!HistoryAssumption, Hist!Init PROVE HistInv
    OBVIOUS
<1>1. PICK t \in Hist!Trees : base = <<t>>
    BY DEF Hist!Init, Hist!HistoryAssumption, Hist!Trees
<1>2. base \in Seq(Hist!Trees) /\ Len(base) = 1 /\ seen = 1
    BY <1>1 DEF Hist!Init
<1>3. /\ pushed = [b \in Hist!Branches |-> None]
      /\ prs = [b \in Hist!Branches |-> None]
    BY DEF Hist!Init
<1>4. ASSUME NEW f \in Files PROVE Chained(f)
    BY <1>2 DEF Chained, Still
<1>5. Branching
    <2>1. joined = <<0>> /\ pushes = 0 /\ mirrored = pushed
        BY DEF Hist!Init
    <2>2. None \notin Pushes
        BY DEF Hist!HistoryAssumption, Pushes, Hist!Trees
    <2>3. \A b \in Hist!Branches : pushed[b] \notin Pushes /\ mirrored[b] \notin Pushes
        BY <1>3, <2>1, <2>2
    <2>4. \A b \in Hist!Branches : prs[b] = None
        BY <1>3
    <2>5. joined \in Seq(Nat) /\ Len(joined) = 1 /\ joined[1] = 0
        BY <2>1
    <2>6. Len(joined) = Len(base) /\ pushes \in Nat /\ \A i \in 1..Len(joined) : joined[i] <= pushes
        BY <1>2, <2>1, <2>5
    <2> QED
        BY <2>3, <2>4, <2>5, <2>6 DEF Branching
<1> QED
    BY <1>2, <1>3, <1>4, <1>5 DEF HistInv, RevertOK

(* The base branch grows: what it was before stays.                        *)
LEMMA Grown ==
    ASSUME HistInv, NEW t \in Hist!Trees, base' = Append(base, t)
    PROVE  /\ base' \in Seq(Hist!Trees) /\ Len(base') = Len(base) + 1 /\ Len(base) \in Nat
           /\ base'[Len(base')] = t /\ \A k \in 1..Len(base) : base'[k] = base[k]
           /\ \A k \in 1..Len(base) : Hist!CommitDiff(k)' = Hist!CommitDiff(k)
           /\ \A f \in Files : Chained(f)'
<1>1. base \in Seq(Hist!Trees) /\ Len(base) \in Nat /\ Len(base) >= 1
    BY DEF HistInv
<1>0. PICK n \in Nat : n = Len(base) /\ n >= 1
    BY <1>1
<1>2. /\ base' \in Seq(Hist!Trees) /\ Len(base') = n + 1
      /\ base'[n + 1] = t /\ \A k \in 1..n : base'[k] = base[k]
    BY <1>0, <1>1
<1>3. \A f : \A k \in 1..n : Hist!Touches(k, f)' <=> Hist!Touches(k, f)
    BY <1>0, <1>1, <1>2 DEF Hist!Touches
<1>4. \A k \in 1..n : Hist!CommitDiff(k)' = Hist!CommitDiff(k)
    BY <1>0, <1>1, <1>2, <1>3 DEF Hist!CommitDiff
<1>5. ASSUME NEW f \in Files PROVE Chained(f)'
    <2>0. Chained(f)
        BY DEF HistInv
    <2>1. Hist!Touches(n + 1, f)' <=> t[f] # base[n][f]
        <3>1. n \in 1..n /\ n + 1 # 1 /\ (n + 1) - 1 = n
            BY <1>0
        <3> QED
            BY <1>2, <3>1 DEF Hist!Touches
    <2>2. \A j \in 0..n : \A k \in 1..n : Still(f, j, k)' <=> Still(f, j, k)
        BY <1>0, <1>1, <1>3 DEF Still
    <2>3. \A j \in 0..n : Still(f, j, n + 1)' <=> Still(f, j, n) /\ t[f] = base[n][f]
        <3> SUFFICES ASSUME NEW j \in 0..n
                     PROVE  Still(f, j, n + 1)' <=> Still(f, j, n) /\ t[f] = base[n][f]
            OBVIOUS
        <3>1. (j + 1)..(n + 1) = ((j + 1)..n) \union {n + 1}
            BY <1>0, <1>1
        <3>2. \A i \in (j + 1)..n : Hist!Touches(i, f)' <=> Hist!Touches(i, f)
            BY <1>0, <1>1, <1>3
        <3> QED
            BY <2>1, <3>1, <3>2 DEF Still
    <2>4. ASSUME NEW j \in 1..(n + 1), NEW k \in 1..(n + 1), j <= k, Still(f, j, k)'
          PROVE  base'[k][f] = base'[j][f]
        <3>1. CASE k <= n
            <4>1. j \in 1..n /\ k \in 1..n
                BY <1>0, <1>1, <2>4, <3>1
            <4>2. Still(f, j, k)
                BY <1>0, <1>1, <2>2, <2>4, <4>1
            <4> QED
                BY <1>0, <1>2, <2>0, <2>4, <4>1, <4>2 DEF Chained
        <3>2. CASE k = n + 1 /\ j <= n
            <4>1. j \in 1..n /\ n \in 1..n /\ j \in 0..n /\ j <= n
                BY <1>0, <1>1, <3>2
            <4>2. Still(f, j, n) /\ t[f] = base[n][f]
                BY <2>3, <2>4, <3>2, <4>1
            <4>3. base[n][f] = base[j][f]
                BY <1>0, <2>0, <4>1, <4>2 DEF Chained
            <4> QED
                BY <1>2, <3>2, <4>1, <4>2, <4>3
        <3> QED
            BY <1>0, <1>1, <2>4, <3>1, <3>2
    <2>5. ASSUME NEW k \in 1..(n + 1)
          PROVE  \/ Still(f, 0, k)'
                 \/ \E j \in 1..k : Hist!Touches(j, f)' /\ Still(f, j, k)'
        <3>1. CASE k <= n
            <4>1. k \in 1..n
                BY <1>0, <1>1, <3>1
            <4>2. CASE Still(f, 0, k)
                BY <1>0, <1>1, <2>2, <4>1, <4>2
            <4>3. ASSUME NEW j \in 1..k, Hist!Touches(j, f), Still(f, j, k)
                  PROVE  Hist!Touches(j, f)' /\ Still(f, j, k)'
                <5>1. j \in 1..n /\ j \in 0..n
                    BY <1>0, <1>1, <4>1
                <5> QED
                    BY <1>3, <2>2, <4>1, <4>3, <5>1
            <4> QED
                BY <1>0, <2>0, <4>1, <4>2, <4>3 DEF Chained
        <3>2. CASE k = n + 1 /\ Hist!Touches(n + 1, f)'
            <4>1. Still(f, k, k)' /\ k \in 1..k
                BY <1>0, <1>1 DEF Still
            <4> QED
                BY <3>2, <4>1
        <3>3. CASE k = n + 1 /\ t[f] = base[n][f]
            <4>1. n \in 1..n /\ 0 \in 0..n
                BY <1>0, <1>1
            <4>2. CASE Still(f, 0, n)
                BY <2>3, <3>3, <4>1, <4>2
            <4>3. ASSUME NEW j \in 1..n, Hist!Touches(j, f), Still(f, j, n)
                  PROVE  j \in 1..k /\ Hist!Touches(j, f)' /\ Still(f, j, k)'
                <5>1. j \in 0..n /\ j \in 1..(n + 1)
                    BY <1>0, <1>1
                <5> QED
                    BY <1>3, <2>3, <3>3, <4>3, <5>1
            <4> QED
                BY <1>0, <2>0, <4>1, <4>2, <4>3 DEF Chained
        <3> QED
            BY <1>0, <1>1, <2>1, <3>1, <3>2, <3>3
    <2> QED
        BY <1>0, <1>2, <2>4, <2>5 DEF Chained
<1> QED
    BY <1>0, <1>1, <1>2, <1>4, <1>5

(* A pull request is opened, or found again with an old body.              *)
LEMMA Opened ==
    ASSUME HistInv, NEW b \in Hist!Branches, NEW body, Hist!OpenOrRecover(b, body),
           [state |-> "open", body |-> body] \in PullRequests
    PROVE  /\ prs' \in [Hist!Branches -> PullRequests \union {None}]
           /\ \A k \in Hist!Branches \ {b} : prs'[k] = prs[k]
           /\ prs'[b] # None /\ prs'[b].state = "open" =>
                 ~prs'[b].body.own \/ prs'[b].body = body
<1> DEFINE found == prs[b] # None /\ prs[b].state # "merged"
           again(s) == [state |-> s, body |-> [prs[b].body EXCEPT !.own = FALSE]]
           opened == [state |-> "open", body |-> body]
<1>1. PICK pr : /\ prs' = [prs EXCEPT ![b] = pr]
                /\ \/ found /\ (pr = again("open") \/ pr = again(prs[b].state))
                   \/ ~found /\ (pr = opened \/ pr = prs[b])
    <2>1. PICK answers \in BOOLEAN :
              prs' = [prs EXCEPT ![b] =
                        IF found THEN again(IF answers THEN "open" ELSE prs[b].state)
                        ELSE IF answers THEN opened ELSE prs[b]]
        BY DEF Hist!OpenOrRecover, HistInv
    <2> HIDE DEF found, again, opened
    <2> QED
        BY <2>1
<1>2. prs \in [Hist!Branches -> PullRequests \union {None}]
    BY DEF HistInv
<1>3. found => /\ again("open") \in PullRequests /\ again(prs[b].state) \in PullRequests
               /\ again("open").body.own = FALSE /\ again(prs[b].state).body.own = FALSE
    BY <1>2 DEF PullRequests
<1>4. pr \in PullRequests \union {None}
    <2> HIDE DEF found, again
    <2> QED
        BY <1>1, <1>2, <1>3
<1>5. prs'[b] = pr /\ \A k \in Hist!Branches \ {b} : prs'[k] = prs[k]
    BY <1>1, <1>2
<1>6. prs' \in [Hist!Branches -> PullRequests \union {None}]
    BY <1>1, <1>2, <1>4
<1>7. pr # None /\ pr.state = "open" => ~pr.body.own \/ pr.body = body
    <2>1. CASE found
        <3> HIDE DEF found, again
        <3> QED
            BY <1>1, <1>3, <2>1
    <2>2. CASE ~found
        BY <1>1, <2>2
    <2> QED
        BY <2>1, <2>2
<1> QED
    BY <1>5, <1>6, <1>7

(* What was pushed before stands, whatever is pushed for another branch.   *)
LEMMA Stands ==
    ASSUME HistInv, NEW k \in Hist!Branches \ {0},
           base' = base \/ \E t \in Hist!Trees : base' = Append(base, t),
           pushed'[k] = pushed[k], prs'[k] = prs[k]
    PROVE  RevertOK(k)'
<1> SUFFICES ASSUME prs[k] # None, prs[k].state = "open", prs[k].body.own, prs[k].body.whole
             PROVE  RevertOK(k)'
    BY DEF RevertOK
<1> DEFINE at == prs[k].body.at
<1>1. /\ Len(base) \in Nat /\ Len(base) <= Len(base')
      /\ \A j \in 1..Len(base) : base'[j] = base[j] /\ Hist!CommitDiff(j)' = Hist!CommitDiff(j)
    <2>1. CASE base' = base
        BY <2>1 DEF HistInv, Hist!CommitDiff, Hist!Touches
    <2>2. CASE \E t \in Hist!Trees : base' = Append(base, t)
        BY <2>2, Grown
    <2> QED
        BY <2>1, <2>2
<1>2. /\ k \in 2..Len(base) /\ pushed[k].fork \in 1..Len(base) /\ at \in 1..pushed[k].fork
      /\ pushed[k].tip = Hist!Undone(k, base[pushed[k].fork])
      /\ prs[k].body.later = {} =>
            \/ \A f \in Hist!CommitDiff(k) : base[at][f] = base[k][f]
            \/ \A f \in Hist!CommitDiff(k) : base[at][f] = base[k - 1][f]
    BY DEF HistInv, RevertOK
<1>3. k \in 1..Len(base) /\ k - 1 \in 1..Len(base) /\ at \in 1..Len(base)
    BY <1>1, <1>2
<1>4. k \in 2..Len(base')
    <2>1. Len(base') \in Nat
        BY <1>1 DEF HistInv, Grown
    <2> QED
        BY <1>1, <1>2, <2>1
<1>5. /\ base'[pushed[k].fork] = base[pushed[k].fork] /\ base'[k] = base[k]
      /\ base'[at] = base[at]
      /\ base'[k - 1] = base[k - 1] /\ Hist!CommitDiff(k)' = Hist!CommitDiff(k)
    BY <1>1, <1>2, <1>3
<1>6. pushed'[k].tip = Hist!Undone(k, base[pushed[k].fork])'
    BY <1>2, <1>5 DEF Hist!Undone
<1> QED
    BY <1>2, <1>4, <1>5, <1>6 DEF RevertOK

(* Where the base branch stays, so does all that is said of its commits.   *)
LEMMA Same ==
    ASSUME base' = base
    PROVE  \A f : Chained(f) => Chained(f)'
<1>1. \A f, k : Hist!Touches(k, f)' <=> Hist!Touches(k, f)
    BY DEF Hist!Touches
<1>2. \A f, j, k : Still(f, j, k)' <=> Still(f, j, k)
    BY <1>1 DEF Still
<1> QED
    BY <1>1, <1>2 DEF Chained

(* A push: its commit is one that no other is.                             *)
LEMMA Anew ==
    ASSUME HistInv, NEW b \in Hist!Branches, NEW push \in Pushes,
           push.id = pushes + 1, push.fork = Len(base), pushed' = [pushed EXCEPT ![b] = push],
           UNCHANGED <<base, joined, seen, mirrored>>, pushes' = pushes + 1,
           \A k \in Hist!Branches \ {b} : prs'[k] = prs[k]
    PROVE  Branching'
<1>1. /\ Branching /\ pushes \in Nat /\ Len(base) \in 1..Len(base)
      /\ \A i \in 1..Len(joined) : joined[i] \in Nat /\ joined[i] <= pushes
    BY DEF HistInv, Branching
<1>2. pushed'[b] = push /\ \A k \in Hist!Branches \ {b} : pushed'[k] = pushed[k]
    BY DEF HistInv
<1>3. ASSUME NEW k \in Hist!Branches, pushed'[k] \in Pushes
      PROVE  pushed'[k].fork \in 1..Len(base) /\ pushed'[k].id \in 1..(pushes + 1)
    <2>1. CASE k = b
        BY <1>1, <1>2, <2>1
    <2>2. CASE k # b
        BY <1>1, <1>2, <1>3, <2>2 DEF Branching
    <2> QED
        BY <2>1, <2>2
<1>4. ASSUME NEW a \in Hist!Branches, NEW c \in Hist!Branches,
             pushed'[a] \in Pushes, pushed'[c] \in Pushes, pushed'[a].id = pushed'[c].id
      PROVE  a = c
    <2>1. \A k \in Hist!Branches \ {b} : pushed[k] \in Pushes => pushed[k].id # pushes + 1
        BY <1>1 DEF Branching
    <2>2. CASE a # b /\ c # b
        BY <1>1, <1>2, <1>4, <2>2 DEF Branching
    <2> QED
        BY <1>2, <1>4, <2>1, <2>2
<1>5. ASSUME NEW k \in Hist!Branches, prs'[k] # None, prs'[k].state # "merged",
             NEW i \in 1..Len(joined)
      PROVE  joined[i] # pushed'[k].id
    <2>1. CASE k = b
        BY <1>1, <1>2, <2>1
    <2>2. CASE k # b
        BY <1>1, <1>2, <1>5, <2>2 DEF Branching
    <2> QED
        BY <2>1, <2>2
<1> QED
    BY <1>1, <1>3, <1>4, <1>5 DEF Branching

(* A commit of the base branch: it merges a pull request that lands, or    *)
(* none that dotvirt knows.                                                *)
LEMMA Joined ==
    ASSUME HistInv, NEW id \in Nat, id <= pushes, joined' = Append(joined, id),
           base' \in Seq(Hist!Trees), Len(base') = Len(base) + 1,
           UNCHANGED <<seen, pushed, mirrored, pushes>>,
           \A k \in Hist!Branches : prs'[k] # None /\ prs'[k].state # "merged" =>
               prs[k] # None /\ prs[k].state # "merged" /\ pushed[k].id # id
    PROVE  Branching'
<1>1. Branching /\ Len(base) \in Nat
    BY DEF HistInv
<1>2. PICK n \in Nat : n = Len(base) /\ n = Len(joined)
    BY <1>1 DEF Branching
<1>3. /\ joined' \in Seq(Nat) /\ Len(joined') = n + 1 /\ Len(base') = n + 1
      /\ joined'[n + 1] = id /\ \A i \in 1..n : joined'[i] = joined[i]
    BY <1>1, <1>2 DEF Branching
<1>4. \A i \in 1..(n + 1) : i \in 1..n \/ i = n + 1
    BY <1>2
<1>5. \A i \in 1..Len(joined') : joined'[i] <= pushes
    BY <1>1, <1>2, <1>3, <1>4 DEF Branching
<1>6. \A b \in Hist!Branches : pushed[b] \in Pushes =>
          pushed[b].fork \in 1..Len(base') /\ pushed[b].id \in 1..pushes
    BY <1>1, <1>2, <1>3 DEF Branching
<1>7. ASSUME NEW b \in Hist!Branches, prs'[b] # None, prs'[b].state # "merged",
             NEW i \in 1..Len(joined')
      PROVE  joined'[i] # pushed[b].id
    BY <1>1, <1>2, <1>3, <1>4, <1>7 DEF Branching
<1> QED
    BY <1>1, <1>2, <1>3, <1>5, <1>6, <1>7 DEF Branching

LEMMA RevertStep ==
    ASSUME Hist!HistoryAssumption, HistInv, NEW k \in Hist!Branches, Hist!Revert(k)
    PROVE  HistInv'
<1>0. /\ base \in Seq(Hist!Trees) /\ seen \in 1..Len(base) /\ Len(base) \in Nat
      /\ base' = base /\ seen' = seen /\ k \in 2..seen /\ pushes \in Nat
    BY DEF HistInv, Branching, Hist!Revert
<1> DEFINE tip == Hist!Undone(k, base[Len(base)])
           push == [id |-> pushes + 1, tip |-> tip, fork |-> Len(base)]
<1>1. /\ k \in 2..Len(base) /\ k - 1 \in 1..Len(base) /\ Len(base) \in 1..Len(base)
      /\ \A j \in 1..Len(base) : base[j] \in Hist!Trees
    BY <1>0
<1>2. /\ tip \in Hist!Trees
      /\ \A t \in Hist!Trees : Hist!Undone(k, t) \in Hist!Trees
    BY <1>0, <1>1 DEF Hist!Undone, Hist!Trees
<1>3. push \in Pushes
    BY <1>0, <1>2 DEF Pushes
<1>4. PICK unread \in Misreads, missed \in Misreads :
          /\ pushed' = [pushed EXCEPT ![k] = push]
          /\ Hist!OpenOrRecover(k, Hist!RevertBody(k, unread, missed))
    BY <1>0 DEF Hist!Revert, Hist!Pushed, Hist!Top
<1> DEFINE body == Hist!RevertBody(k, unread, missed)
<1>13. Hist!OpenOrRecover(k, body)
    BY <1>4
<1>5. pushed' \in [Hist!Branches -> Pushes \union {None}] /\ pushed'[k] = push
      /\ \A b \in Hist!Branches \ {k} : pushed'[b] = pushed[b]
    <2> HIDE DEF push
    <2> QED
        BY <1>3, <1>4 DEF HistInv
<1>6. [state |-> "open", body |-> body] \in PullRequests
    <2> DEFINE current == [f \in Files |-> IF f \in unread THEN None ELSE base[seen][f]]
    <2>1. current \in Hist!Trees
        BY <1>0, <1>1 DEF Hist!Trees
    <2>2. Hist!Undone(k, current) \in Hist!Trees
        BY <1>2, <2>1
    <2>3. Hist!Delta(current, Hist!Undone(k, current)) \subseteq Files \X (Contents \union {None})
        <3> HIDE DEF current
        <3> QED
            BY <2>2 DEF Hist!Delta, Hist!Trees
    <2>4. Hist!RevertFiles(k, unread) = Hist!Delta(current, Hist!Undone(k, current))
        BY DEF Hist!RevertFiles, Hist!Mirror
    <2>5. Hist!Warning(k, missed) \subseteq Files
        BY DEF Hist!Warning, Hist!Later, Hist!CommitDiff
    <2>6. body \in [files : SUBSET (Files \X (Contents \union {None})), later : SUBSET Files,
                    own : BOOLEAN, at : Nat, whole : BOOLEAN]
        <3> HIDE DEF current
        <3> QED
            BY <1>0, <2>3, <2>4, <2>5 DEF Hist!RevertBody
    <2> HIDE DEF body
    <2> QED
        BY <2>6 DEF PullRequests
<1>7. /\ prs' \in [Hist!Branches -> PullRequests \union {None}]
      /\ \A b \in Hist!Branches \ {k} : prs'[b] = prs[b]
      /\ prs'[k] # None /\ prs'[k].state = "open" => ~prs'[k].body.own \/ prs'[k].body = body
    <2> HIDE DEF body
    <2> QED
        BY <1>13, <1>6, Opened
<1>8. \A b \in Hist!Branches :
          prs'[b] # None => pushed'[b] \in Pushes /\ pushed'[b].fork \in 1..Len(base')
    BY <1>0, <1>1, <1>3, <1>5, <1>7 DEF HistInv
<1>9. \A f \in Files : Chained(f)'
    BY <1>0, Same DEF HistInv
<1>10. RevertOK(k)'
    <2> SUFFICES ASSUME prs'[k] # None, prs'[k].state = "open", prs'[k].body.own,
                        prs'[k].body.whole
                 PROVE  RevertOK(k)'
        BY DEF RevertOK
    <2>1. prs'[k].body = body
        BY <1>7
    <2>2. missed \cap Hist!CommitDiff(k) = {} /\ body.later = Hist!Warning(k, missed) /\ body.at = seen
        <3>1. body.whole
            BY <2>1
        <3>2. body.whole = (missed \cap Hist!CommitDiff(k) = {})
            BY Zenon DEF Hist!RevertBody
        <3>3. body.later = Hist!Warning(k, missed) /\ body.at = seen
            BY DEF Hist!RevertBody
        <3> HIDE DEF body
        <3> QED
            BY <3>1, <3>2, <3>3
    <2>3. Hist!Mirror = base[seen]
        BY DEF Hist!Mirror
    <2>4. ASSUME Hist!Warning(k, missed) = {}
          PROVE  \/ \A f \in Hist!CommitDiff(k) : base[seen][f] = base[k][f]
                 \/ \A f \in Hist!CommitDiff(k) : base[seen][f] = base[k - 1][f]
        BY <2>2, <2>3, <2>4 DEF Hist!Warning, Hist!Later, Hist!Reverted
    <2>5. Hist!CommitDiff(k)' = Hist!CommitDiff(k)
        BY <1>0 DEF Hist!CommitDiff, Hist!Touches
    <2>6. \A t : Hist!Undone(k, t)' = Hist!Undone(k, t)
        BY <1>0, <2>5 DEF Hist!Undone
    <2>7. pushed'[k].tip = tip /\ pushed'[k].fork = Len(base)
        BY <1>5
    <2> HIDE DEF body
    <2> QED
        BY <1>0, <1>1, <2>1, <2>2, <2>4, <2>5, <2>6, <2>7 DEF RevertOK
<1>11. ASSUME NEW b \in Hist!Branches \ {0} PROVE RevertOK(b)'
    BY <1>0, <1>5, <1>7, <1>10, Stands
<1>12. Branching'
    <2>1. UNCHANGED <<base, joined, seen, mirrored>> /\ pushes' = pushes + 1
        BY DEF Hist!Revert
    <2>2. push.id = pushes + 1 /\ push.fork = Len(base)
        OBVIOUS
    <2> HIDE DEF push, body
    <2> QED
        BY <1>3, <1>4, <1>7, <2>1, <2>2, Anew
<1> QED
    BY <1>0, <1>5, <1>7, <1>8, <1>9, <1>11, <1>12 DEF HistInv

LEMMA ProposeStep ==
    ASSUME Hist!HistoryAssumption, HistInv,
           NEW f \in Files, NEW v \in Contents \union {None}, Hist!ProposeDraft(f, v)
    PROVE  HistInv'
<1>0. /\ base \in Seq(Hist!Trees) /\ seen \in 1..Len(base) /\ Len(base) \in Nat
      /\ base' = base /\ seen' = seen /\ pushes \in Nat
    BY DEF HistInv, Branching, Hist!ProposeDraft
<1> DEFINE tip == [base[Len(base)] EXCEPT ![f] = v]
           push == [id |-> pushes + 1, tip |-> tip, fork |-> Len(base)]
           body == Hist!DraftBody
<1>1. Len(base) \in 1..Len(base) /\ base[Len(base)] \in Hist!Trees
    BY <1>0
<1>2. tip \in Hist!Trees
    BY <1>1 DEF Hist!Trees
<1>3. push \in Pushes
    BY <1>0, <1>2 DEF Pushes
<1>4. 0 \in Hist!Branches
    BY DEF Hist!Branches, Hist!HistoryAssumption
<1>5. pushed' = [pushed EXCEPT ![0] = push] /\ Hist!OpenOrRecover(0, body)
    BY <1>0 DEF Hist!ProposeDraft, Hist!Pushed, Hist!Top
<1>6. pushed' \in [Hist!Branches -> Pushes \union {None}] /\ pushed'[0] = push
      /\ \A b \in Hist!Branches \ {0} : pushed'[b] = pushed[b]
    <2> HIDE DEF push
    <2> QED
        BY <1>3, <1>4, <1>5 DEF HistInv
<1>7. [state |-> "open", body |-> body] \in PullRequests
    BY DEF PullRequests, Hist!DraftBody
<1>8. /\ prs' \in [Hist!Branches -> PullRequests \union {None}]
      /\ \A b \in Hist!Branches \ {0} : prs'[b] = prs[b]
    <2> HIDE DEF body
    <2> QED
        BY <1>4, <1>5, <1>7, Opened
<1>9. \A b \in Hist!Branches :
          prs'[b] # None => pushed'[b] \in Pushes /\ pushed'[b].fork \in 1..Len(base')
    BY <1>0, <1>1, <1>3, <1>6, <1>8 DEF HistInv
<1>10. \A g \in Files : Chained(g)'
    BY <1>0, Same DEF HistInv
<1>11. ASSUME NEW b \in Hist!Branches \ {0} PROVE RevertOK(b)'
    BY <1>0, <1>6, <1>8, Stands
<1>12. Branching'
    <2>1. UNCHANGED <<base, joined, seen, mirrored>> /\ pushes' = pushes + 1
        BY DEF Hist!ProposeDraft
    <2>2. push.id = pushes + 1 /\ push.fork = Len(base)
        OBVIOUS
    <2> HIDE DEF push, body
    <2> QED
        BY <1>3, <1>4, <1>5, <1>8, <2>1, <2>2, Anew
<1> QED
    BY <1>0, <1>6, <1>8, <1>9, <1>10, <1>11, <1>12 DEF HistInv

LEMMA FetchStep ==
    ASSUME HistInv, Hist!Fetch
    PROVE  HistInv'
<1>1. base' = base /\ pushed' = pushed /\ prs' = prs /\ seen' = Len(base)
    BY DEF Hist!Fetch
<1>2. seen' \in 1..Len(base')
    BY <1>1 DEF HistInv
<1>3. \A f \in Files : Chained(f)'
    BY <1>1, Same DEF HistInv
<1>4. ASSUME NEW b \in Hist!Branches \ {0} PROVE RevertOK(b)'
    BY <1>1, Stands
<1>5. Branching'
    BY <1>1 DEF HistInv, Branching, Hist!Fetch
<1> QED
    BY <1>1, <1>2, <1>3, <1>4, <1>5 DEF HistInv

LEMMA CloseStep ==
    ASSUME HistInv, NEW b \in Hist!Branches, Hist!Close(b)
    PROVE  HistInv'
<1>1. /\ base' = base /\ pushed' = pushed /\ seen' = seen
      /\ prs[b] # None /\ prs' = [prs EXCEPT ![b].state = "closed"]
    BY DEF Hist!Close, Hist!Open
<1>2. /\ prs' \in [Hist!Branches -> PullRequests \union {None}]
      /\ prs'[b].state = "closed" /\ \A k \in Hist!Branches \ {b} : prs'[k] = prs[k]
    BY <1>1 DEF HistInv, PullRequests
<1>3. \A f \in Files : Chained(f)'
    BY <1>1, Same DEF HistInv
<1>4. ASSUME NEW k \in Hist!Branches \ {0} PROVE RevertOK(k)'
    <2>1. CASE k = b
        BY <1>2, <2>1 DEF RevertOK
    <2> QED
        BY <1>1, <1>2, <2>1, Stands
<1>5. Branching'
    <2>1. prs[b].state # "merged" /\ UNCHANGED <<joined, mirrored, pushes>>
        BY DEF Hist!Close, Hist!Open
    <2>2. Branching /\ \A k \in Hist!Branches : prs'[k] # None /\ prs'[k].state # "merged" =>
              prs[k] # None /\ prs[k].state # "merged"
        BY <1>1, <1>2, <2>1 DEF HistInv
    <2> QED
        BY <1>1, <2>1, <2>2 DEF Branching
<1> QED
    BY <1>1, <1>2, <1>3, <1>4, <1>5 DEF HistInv

(* What the forge makes of the base branch and a pull request.             *)
LEMMA Merges ==
    ASSUME HistInv, NEW b \in Hist!Branches, Hist!Open(b)
    PROVE  Hist!Merged(b) \in Hist!Trees
<1>1. pushed[b].tip \in Hist!Trees
    BY DEF HistInv, Hist!Open, Pushes
<1>2. Len(base) \in 1..Len(base) /\ base[Len(base)] \in Hist!Trees
    BY DEF HistInv
<1> QED
    BY <1>1, <1>2 DEF Hist!Merged, Hist!Top, Hist!Trees

LEMMA MergeStep ==
    ASSUME HistInv, NEW b \in Hist!Branches, Hist!Land(b)
    PROVE  HistInv'
<1>1. /\ base' = Append(base, Hist!Merged(b)) /\ pushed' = pushed /\ seen' = seen
      /\ Hist!Open(b) /\ prs[b] # None /\ prs' = [prs EXCEPT ![b].state = "merged"]
    BY DEF Hist!Land, Hist!Open
<1>2. /\ prs' \in [Hist!Branches -> PullRequests \union {None}]
      /\ prs'[b].state = "merged" /\ \A k \in Hist!Branches \ {b} : prs'[k] = prs[k]
    BY <1>1 DEF HistInv, PullRequests
<1>3. /\ base' \in Seq(Hist!Trees) /\ Len(base') = Len(base) + 1 /\ Len(base) \in Nat
      /\ \A f \in Files : Chained(f)'
    BY <1>1, Merges, Grown
<1>4. /\ seen' \in 1..Len(base')
      /\ \A k \in Hist!Branches :
             prs'[k] # None => pushed'[k] \in Pushes /\ pushed'[k].fork \in 1..Len(base')
    BY <1>1, <1>2, <1>3 DEF HistInv
<1>5. ASSUME NEW k \in Hist!Branches \ {0} PROVE RevertOK(k)'
    <2>1. CASE k = b
        BY <1>2, <2>1 DEF RevertOK
    <2>2. CASE k # b
        <3>1. prs'[k] = prs[k] /\ pushed'[k] = pushed[k]
            BY <1>1, <1>2, <2>2
        <3> QED
            BY <1>1, <3>1, Merges, Stands
    <2> QED
        BY <2>1, <2>2
<1>6. Branching'
    <2>1. /\ joined' = Append(joined, pushed[b].id) /\ UNCHANGED <<seen, pushed, mirrored, pushes>>
          /\ prs[b].state # "merged"
        BY DEF Hist!Land, Hist!Open
    <2>2. pushed[b] \in Pushes /\ pushed[b].id \in Nat /\ pushed[b].id <= pushes
        BY <1>1 DEF HistInv, Branching
    <2>3. \A k \in Hist!Branches : prs'[k] # None /\ prs'[k].state # "merged" =>
              prs[k] # None /\ prs[k].state # "merged" /\ pushed[k].id # pushed[b].id
        BY <1>2, <2>2 DEF HistInv, Branching
    <2> QED
        BY <1>3, <2>1, <2>2, <2>3, Joined
<1> QED
    BY <1>1, <1>2, <1>3, <1>4, <1>5, <1>6 DEF HistInv

LEMMA OthersPushStep ==
    ASSUME HistInv, NEW tree \in Hist!Trees, Hist!OthersPush(tree)
    PROVE  HistInv'
<1>1. base' = Append(base, tree) /\ pushed' = pushed /\ seen' = seen /\ prs' = prs
    BY DEF Hist!OthersPush
<1>2. /\ base' \in Seq(Hist!Trees) /\ Len(base') = Len(base) + 1 /\ Len(base) \in Nat
      /\ \A f \in Files : Chained(f)'
    BY <1>1, Grown
<1>3. /\ seen' \in 1..Len(base')
      /\ \A k \in Hist!Branches :
             prs'[k] # None => pushed'[k] \in Pushes /\ pushed'[k].fork \in 1..Len(base')
    BY <1>1, <1>2 DEF HistInv
<1>4. ASSUME NEW k \in Hist!Branches \ {0} PROVE RevertOK(k)'
    BY <1>1, Stands
<1>5. Branching'
    <2>1. joined' = Append(joined, 0) /\ UNCHANGED <<seen, pushed, mirrored, pushes>>
        BY DEF Hist!OthersPush
    <2>2. pushes \in Nat /\ 0 <= pushes
          /\ \A k \in Hist!Branches : prs'[k] # None =>
                 prs[k] # None /\ prs'[k].state = prs[k].state /\ pushed[k].id # 0
        BY <1>1 DEF HistInv, Branching
    <2> QED
        BY <1>2, <2>1, <2>2, Joined
<1> QED
    BY <1>1, <1>2, <1>3, <1>4, <1>5 DEF HistInv

LEMMA HistNext ==
    ASSUME Hist!HistoryAssumption
    PROVE  HistInv /\ [Hist!Next]_(Hist!vars) => HistInv'
<1> SUFFICES ASSUME HistInv, [Hist!Next]_(Hist!vars) PROVE HistInv'
    OBVIOUS
<1>1. CASE Hist!Fetch
    BY <1>1, FetchStep
<1>2. ASSUME NEW k \in Hist!Branches, Hist!Revert(k) \/ Hist!Land(k) \/ Hist!Close(k)
      PROVE  HistInv'
    BY <1>2, RevertStep, MergeStep, CloseStep
<1>3. ASSUME NEW f \in Files, NEW v \in Contents \union {None}, Hist!ProposeDraft(f, v)
      PROVE  HistInv'
    BY <1>3, ProposeStep
<1>4. ASSUME NEW tree \in Hist!Trees, Hist!OthersPush(tree) PROVE HistInv'
    BY <1>4, OthersPushStep
<1>5. CASE UNCHANGED Hist!vars
    <2>1. base' = base /\ pushed' = pushed /\ seen' = seen /\ prs' = prs
        BY <1>5 DEF Hist!vars
    <2>2. \A f \in Files : Chained(f)'
        BY <2>1, Same DEF HistInv
    <2>3. ASSUME NEW k \in Hist!Branches \ {0} PROVE RevertOK(k)'
        BY <2>1, Stands
    <2>4. Branching'
        BY <1>5, <2>1 DEF HistInv, Branching, Hist!vars
    <2> QED
        BY <2>1, <2>2, <2>3, <2>4 DEF HistInv
<1> QED
    BY <1>1, <1>2, <1>3, <1>4, <1>5 DEF Hist!Next

(* A row with nothing newer is listed, whatever the limit; and whatever is *)
(* between two rows that are listed is.                                    *)
LEMMA Listed ==
    ASSUME Hist!HistoryAssumption, HistInv, NEW f \in Files,
           NEW i \in 1..seen, i + Scan > seen, Hist!Touches(i, f),
           \/ Still(f, i, seen)
           \/ \E j \in Hist!FileHistory(f) : j < i
    PROVE  i \in Hist!FileHistory(f)
<1> DEFINE rows == {k \in 1..seen : k + Scan > seen /\ Hist!Touches(k, f)}
           Newer(k) == {j \in rows : j > k}
<1>1. Scan \in Nat /\ Limit \in Nat \ {0} /\ seen \in Nat
    BY DEF Hist!HistoryAssumption, HistInv
<1>2. i \in rows
    OBVIOUS
<1>3. Hist!FileHistory(f) = {k \in rows : Cardinality(Newer(k)) < Limit}
    BY Counts DEF Hist!FileHistory
<1>4. CASE Still(f, i, seen)
    <2>1. Newer(i) = {}
        BY <1>1, <1>4 DEF Still
    <2>2. Cardinality({}) = 0
        BY FS_EmptySet
    <2> HIDE DEF rows, Newer
    <2> QED
        BY <1>1, <1>2, <1>3, <2>1, <2>2
<1>5. ASSUME NEW j \in Hist!FileHistory(f), j < i
      PROVE  i \in Hist!FileHistory(f)
    <2>1. j \in rows /\ Cardinality(Newer(j)) < Limit
        BY <1>3
    <2>2. Newer(i) \subseteq Newer(j)
        BY <1>1, <1>5, <2>1
    <2>3. IsFiniteSet(1..seen) /\ Newer(j) \subseteq 1..seen
        BY <1>1, FS_Interval
    <2>4. IsFiniteSet(Newer(j))
        <3> HIDE DEF rows, Newer
        <3> QED
            BY <2>3, FS_Subset
    <2>5. Cardinality(Newer(i)) <= Cardinality(Newer(j)) /\ IsFiniteSet(Newer(i))
        <3> HIDE DEF rows, Newer
        <3> QED
            BY <2>2, <2>4, FS_Subset
    <2>6. Cardinality(Newer(i)) \in Nat /\ Cardinality(Newer(j)) \in Nat
        <3> HIDE DEF rows, Newer
        <3> QED
            BY <2>4, <2>5, FS_CardinalityType
    <2> HIDE DEF rows, Newer
    <2> QED
        BY <1>1, <1>2, <1>3, <2>1, <2>5, <2>6
<1> QED
    BY <1>4, <1>5

LEMMA Chains ==
    ASSUME Hist!HistoryAssumption, HistInv
    PROVE  Hist!HistoryChains
<1> SUFFICES ASSUME NEW f \in Files
             PROVE  LET rows == Hist!FileHistory(f)
                    IN  /\ rows = {} => Hist!Mirror[f] =
                               IF seen > Scan THEN base[seen - Scan][f] ELSE None
                        /\ rows # {} => Hist!Mirror[f] = base[Hist!Max(rows)][f]
                        /\ \A j, k \in rows :
                               j < k /\ (\A i \in rows : i <= j \/ k <= i) =>
                                   base[k - 1][f] = base[j][f]
    BY Zenon DEF Hist!HistoryChains
<1>1. /\ Scan \in Nat \ {0} /\ seen \in 1..Len(base) /\ Len(base) \in Nat
      /\ Chained(f)
    BY DEF Hist!HistoryAssumption, HistInv
<1>2. \A k \in Hist!FileHistory(f) : k \in 1..seen /\ k + Scan > seen /\ Hist!Touches(k, f)
    BY DEF Hist!FileHistory
<1>3. ASSUME Hist!FileHistory(f) = {}
      PROVE  Hist!Mirror[f] = IF seen > Scan THEN base[seen - Scan][f] ELSE None
    <2>1. \/ Still(f, 0, seen)
          \/ \E j \in 1..seen : Hist!Touches(j, f) /\ Still(f, j, seen) /\ j + Scan <= seen
        BY <1>1, <1>3, Listed DEF Chained
    <2>2. CASE seen > Scan
        <3>1. Still(f, seen - Scan, seen)
            BY <1>1, <2>1, <2>2 DEF Still
        <3>2. seen - Scan \in 1..Len(base) /\ seen \in 1..Len(base) /\ seen - Scan <= seen
            BY <1>1, <2>2
        <3> QED
            BY <1>1, <2>2, <3>1, <3>2 DEF Chained, Hist!Mirror
    <2>3. CASE ~(seen > Scan)
        <3>1. Still(f, 0, seen) /\ 1 \in 1..seen
            BY <1>1, <2>1, <2>3
        <3>2. ~Hist!Touches(1, f) /\ Still(f, 1, seen)
            BY <1>1, <3>1 DEF Still
        <3>3. base[1][f] = None
            BY <3>2 DEF Hist!Touches
        <3> QED
            BY <1>1, <2>3, <3>2, <3>3 DEF Chained, Hist!Mirror
    <2> QED
        BY <2>2, <2>3
<1>4. ASSUME Hist!FileHistory(f) # {}
      PROVE  Hist!Mirror[f] = base[Hist!Max(Hist!FileHistory(f))][f]
    <2>1. PICK r \in 1..seen : r + Scan > seen /\ Hist!Touches(r, f)
        BY <1>2, <1>4
    <2>2. PICK m \in 1..seen : Hist!Touches(m, f) /\ Still(f, m, seen)
        BY <1>1, <2>1 DEF Chained, Still
    <2>3. m >= r
        BY <1>1, <2>1, <2>2 DEF Still
    <2>4. m \in Hist!FileHistory(f)
        BY <1>1, <2>1, <2>2, <2>3, Listed
    <2>5. \A k \in Hist!FileHistory(f) : m >= k
        BY <1>1, <1>2, <2>2 DEF Still
    <2>6. Hist!Max(Hist!FileHistory(f)) = m
        <3>1. \A k \in Hist!FileHistory(f) : k \in Nat
            BY <1>1, <1>2
        <3>2. /\ Hist!Max(Hist!FileHistory(f)) \in Hist!FileHistory(f)
              /\ \A k \in Hist!FileHistory(f) : Hist!Max(Hist!FileHistory(f)) >= k
            BY <2>4, <2>5, Zenon DEF Hist!Max
        <3>3. m >= Hist!Max(Hist!FileHistory(f)) /\ Hist!Max(Hist!FileHistory(f)) >= m
            BY <2>4, <2>5, <3>2
        <3>4. m \in Nat /\ Hist!Max(Hist!FileHistory(f)) \in Nat
            BY <2>4, <3>1, <3>2
        <3> HIDE DEF Hist!Max, Hist!FileHistory
        <3> QED
            BY <3>3, <3>4
    <2> QED
        BY <1>1, <2>2, <2>6 DEF Chained, Hist!Mirror
<1>5. ASSUME NEW j \in Hist!FileHistory(f), NEW k \in Hist!FileHistory(f), j < k,
             \A i \in Hist!FileHistory(f) : i <= j \/ k <= i
      PROVE  base[k - 1][f] = base[j][f]
    <2>1. j \in 1..seen /\ k \in 1..seen /\ j + Scan > seen
        BY <1>2
    <2>2. Still(f, j, k - 1)
        <3> SUFFICES ASSUME NEW i \in (j + 1)..(k - 1), Hist!Touches(i, f) PROVE FALSE
            BY DEF Still
        <3>1. i \in 1..seen /\ i + Scan > seen /\ j < i /\ i < k
            BY <1>1, <2>1
        <3>2. i \in Hist!FileHistory(f)
            BY <1>5, <3>1, Listed
        <3> QED
            BY <1>1, <1>5, <2>1, <3>1, <3>2
    <2>3. j \in 1..Len(base) /\ k - 1 \in 1..Len(base) /\ j <= k - 1
        BY <1>1, <1>5, <2>1
    <2> QED
        BY <1>1, <2>2, <2>3 DEF Chained
<1> QED
    BY <1>3, <1>4, <1>5

(* The part of GitParts does what the component does.                      *)
LEMMA HistPart ==
    ASSUME Hist!HistoryAssumption
    PROVE  PartsSpec => [](part = "history" => HistInv)
<1>1. PartsInit => (part = "history" => HistInv)
    BY HistInit DEF PartsInit
<1>2. (part = "history" => HistInv) /\ [PartsNext]_partsVars => (part = "history" => HistInv)'
    <2> SUFFICES ASSUME HistInv, [PartsNext]_partsVars, part = "history" PROVE (HistInv)'
        BY DEF PartsNext, partsVars
    <2>1. [Hist!Next]_(Hist!vars)
        BY DEF PartsNext, partsVars, histVars, Hist!vars
    <2> QED
        BY <2>1, HistNext
<1> QED
    BY <1>1, <1>2, PTL DEF PartsSpec

(* The rows of a file's history are its whole past, up to where they end   *)
(* (FileHistory and walkHistory, history.go).                              *)
THEOREM RowsChain ==
    ASSUME Hist!HistoryAssumption
    PROVE  (Hist!Spec => []Hist!HistoryChains) /\ (PartsSpec => []HistoryChains)
<1>1. HistInv => Hist!HistoryChains
    BY Chains
<1>2. Hist!Spec => []Hist!HistoryChains
    BY <1>1, HistInit, HistNext, PTL DEF Hist!Spec
<1>3. (part = "history" => HistInv) => HistoryChains
    BY <1>1 DEF HistoryChains
<1> QED
    BY <1>2, <1>3, HistPart, PTL

(* Only a landing merges a pull request.                                   *)
LEMMA Landed ==
    ASSUME HistInv, Hist!Next, base' # base, NEW b \in Hist!Branches, Hist!Open(b),
           prs'[b].state = "merged"
    PROVE  Hist!Mergeable(b) /\ Hist!Top' = Hist!Merged(b)
<1>1. prs[b] # None /\ prs[b].state = "open"
    BY DEF Hist!Open
<1>2. ASSUME NEW k \in Hist!Branches, Hist!Land(k) PROVE k = b
    <2>1. prs' = [prs EXCEPT ![k].state = "merged"]
        BY <1>2 DEF Hist!Land
    <2> QED
        BY <1>1, <2>1 DEF HistInv
<1>3. ASSUME NEW tree \in Hist!Trees, Hist!OthersPush(tree) PROVE FALSE
    BY <1>1, <1>3 DEF Hist!OthersPush
<1>4. Hist!Land(b)
    BY <1>2, <1>3 DEF Hist!Next, Hist!Fetch, Hist!Revert, Hist!Close, Hist!ProposeDraft
<1>5. Hist!Mergeable(b) /\ base' = Append(base, Hist!Merged(b))
    BY <1>4 DEF Hist!Land
<1> QED
    BY <1>5, Merges, Grown DEF Hist!Top

(* Of a branch that it has and that has not landed, the mirror takes for   *)
(* the merge base the commit it was forked at, wherever its base branch    *)
(* is.                                                                     *)
LEMMA MergeBaseIsFork ==
    ASSUME HistInv, NEW b \in Hist!Branches, Hist!Open(b), mirrored[b] = pushed[b]
    PROVE  Hist!MergeBase(b) = Hist!Forked(b)
<1>1. /\ pushed[b] \in Pushes /\ mirrored[b].fork \in 1..seen /\ seen \in 1..Len(joined)
      /\ seen \in Nat /\ \A i \in 1..Len(joined) : joined[i] # pushed[b].id
    <2>1. prs[b] # None /\ prs[b].state # "merged"
        BY DEF Hist!Open
    <2>2. pushed[b] \in Pushes /\ seen \in 1..Len(base) /\ Len(base) \in Nat /\ Branching
        BY <2>1 DEF HistInv
    <2>3. mirrored[b].fork \in 1..seen /\ Len(joined) = Len(base)
        BY <2>2 DEF Branching
    <2>4. \A i \in 1..Len(joined) : joined[i] # pushed[b].id
        BY <2>1, <2>2 DEF Branching
    <2> QED
        BY <2>2, <2>3, <2>4
<1>2. ~ \E i \in 1..seen : joined[i] = mirrored[b].id
    BY <1>1
<1>3. Hist!Min({seen, mirrored[b].fork}) = mirrored[b].fork
    <2>1. /\ mirrored[b].fork \in {seen, mirrored[b].fork}
          /\ \A y \in {seen, mirrored[b].fork} : mirrored[b].fork =< y
        BY <1>1
    <2>2. /\ Hist!Min({seen, mirrored[b].fork}) \in {seen, mirrored[b].fork}
          /\ \A y \in {seen, mirrored[b].fork} : Hist!Min({seen, mirrored[b].fork}) =< y
        BY <2>1, Zenon DEF Hist!Min
    <2> HIDE DEF Hist!Min
    <2> QED
        BY <1>1, <2>1, <2>2
<1> HIDE DEF Hist!Min
<1> QED
    BY <1>2, <1>3 DEF Hist!MergeBase, Hist!Forked

(* The review of an open pull request, once the mirror has its branch,     *)
(* lists what landing it changes and nothing that others changed since it  *)
(* was forked, however far behind the mirror is and whatever landed and    *)
(* was pushed again before (BranchDiff, history.go).                       *)
THEOREM ReviewsTellTheMerge ==
    ASSUME Hist!HistoryAssumption
    PROVE  (Hist!Spec => Hist!ReviewShowsTheMerge) /\ (PartsSpec => ReviewShowsTheMerge)
<1> DEFINE Tells ==
        base' # base => \A b \in Hist!Branches :
            Hist!Open(b) /\ mirrored[b] = pushed[b] /\ prs'[b].state = "merged" =>
                \A f \in Files :
                    LET shown == {e[2] : e \in {x \in Hist!BranchDiff(b) : x[1] = f}}
                    IN  IF shown = {} THEN Hist!Top'[f] = Hist!Top[f]
                        ELSE shown = {Hist!Top'[f]}
<1>1. HistInv /\ [Hist!Next]_(Hist!vars) => Tells
    <2> SUFFICES ASSUME HistInv, Hist!Next, base' # base, NEW b \in Hist!Branches,
                        Hist!Open(b), mirrored[b] = pushed[b], prs'[b].state = "merged",
                        NEW f \in Files
                 PROVE  LET shown == {e[2] : e \in {x \in Hist!BranchDiff(b) : x[1] = f}}
                        IN  IF shown = {} THEN Hist!Top'[f] = Hist!Top[f]
                            ELSE shown = {Hist!Top'[f]}
        BY DEF Hist!vars
    <2> DEFINE shown == {e[2] : e \in {x \in Hist!BranchDiff(b) : x[1] = f}}
               from == Hist!Forked(b)
               tip == pushed[b].tip
    <2>1. Hist!BranchDiff(b) = {<<g, tip[g]>> : g \in {x \in Files : from[x] # tip[x]}}
        BY MergeBaseIsFork DEF Hist!BranchDiff, Hist!Delta
    <2>2. Hist!Top'[f] = IF tip[f] = from[f] THEN Hist!Top[f] ELSE tip[f]
        BY Landed DEF Hist!Merged
    <2> HIDE DEF from, tip
    <2>3. CASE tip[f] = from[f]
        <3>1. shown = {}
            BY <2>1, <2>3
        <3> QED
            BY <2>2, <2>3, <3>1
    <2>4. CASE tip[f] # from[f]
        <3>1. <<f, tip[f]>> \in {x \in Hist!BranchDiff(b) : x[1] = f}
            BY <2>1, <2>4
        <3>2. \A e \in {x \in Hist!BranchDiff(b) : x[1] = f} : e[2] = tip[f]
            BY <2>1
        <3>3. shown = {tip[f]}
            BY <3>1, <3>2
        <3> QED
            BY <2>2, <2>4, <3>3
    <2> QED
        BY <2>3, <2>4
<1>2. Tells => [Tells]_(Hist!vars)
    OBVIOUS
<1>3. Hist!Spec => [][Tells]_(Hist!vars)
    BY <1>1, HistInit, HistNext, PTL DEF Hist!Spec
<1>4. (part = "history" => HistInv) /\ [PartsNext]_partsVars => [Tells]_(Hist!vars)
    <2> SUFFICES ASSUME part = "history" => HistInv, [PartsNext]_partsVars PROVE [Tells]_(Hist!vars)
        OBVIOUS
    <2>1. (part = "history" /\ [Hist!Next]_(Hist!vars)) \/ UNCHANGED Hist!vars
        BY DEF PartsNext, partsVars, histVars, Hist!vars
    <2> HIDE DEF Tells
    <2> QED
        BY <1>1, <2>1
<1>5. PartsSpec => [][Tells]_(Hist!vars)
    BY <1>4, HistPart, PTL DEF PartsSpec
<1> QED
    BY <1>3, <1>5 DEF Hist!ReviewShowsTheMerge, ReviewShowsTheMerge

(* A revert whose pull request carries no warning undoes its commit, and   *)
(* of what came later only what others put on the base branch between the  *)
(* mirror and the clone it was committed on, whatever they push while it   *)
(* is open (revertState, history.go; revertFiles, revert.go).              *)
THEOREM QuietRevertsAreExact ==
    ASSUME Hist!HistoryAssumption
    PROVE  (Hist!Spec => Hist!UnwarnedUndoesOnlyIt) /\ (PartsSpec => UnwarnedUndoesOnlyIt)
<1> DEFINE Exact ==
        base' # base => \A k \in Hist!Branches \ {0} :
            Hist!Open(k) /\ prs[k].body.own /\ prs[k].body.whole /\ prs[k].body.later = {}
            /\ prs'[k].state = "merged" =>
                \A f \in Files : Hist!Top[f] # Hist!Top'[f] =>
                    /\ Hist!Top'[f] = base[k - 1][f]
                    /\ \/ Hist!Top[f] = base[k][f]
                       \/ \E j \in (prs[k].body.at + 1)..pushed[k].fork : Hist!Touches(j, f)
<1>1. HistInv /\ [Hist!Next]_(Hist!vars) => Exact
    <2> SUFFICES ASSUME HistInv, Hist!Next, base' # base, NEW k \in Hist!Branches \ {0},
                        Hist!Open(k), prs[k].body.own, prs[k].body.whole,
                        prs[k].body.later = {}, prs'[k].state = "merged",
                        NEW f \in Files, Hist!Top[f] # Hist!Top'[f]
                 PROVE  /\ Hist!Top'[f] = base[k - 1][f]
                        /\ \/ Hist!Top[f] = base[k][f]
                           \/ \E j \in (prs[k].body.at + 1)..pushed[k].fork : Hist!Touches(j, f)
        BY DEF Hist!vars
    <2> DEFINE at == prs[k].body.at
               fork == pushed[k].fork
    <2>1. prs[k] # None /\ prs[k].state = "open"
        BY DEF Hist!Open
    <2>2. Hist!Mergeable(k) /\ Hist!Top' = Hist!Merged(k)
        BY Landed
    <2>3. /\ fork \in 1..Len(base) /\ at \in 1..fork /\ Len(base) \in Nat
          /\ pushed[k].tip = Hist!Undone(k, Hist!Forked(k))
          /\ \/ \A g \in Hist!CommitDiff(k) : base[at][g] = base[k][g]
             \/ \A g \in Hist!CommitDiff(k) : base[at][g] = base[k - 1][g]
        BY <2>1 DEF HistInv, RevertOK, Hist!Forked
    <2>4. pushed[k].tip[f] # Hist!Forked(k)[f] /\ Hist!Merged(k)[f] = pushed[k].tip[f]
        BY <2>2 DEF Hist!Merged
    <2>5. f \in Hist!CommitDiff(k) /\ pushed[k].tip[f] = base[k - 1][f]
        BY <2>3, <2>4 DEF Hist!Undone
    <2>6. Hist!Top[f] = base[fork][f]
        BY <2>2, <2>4 DEF Hist!Mergeable, Hist!Forked
    <2>7. CASE Still(f, at, fork)
        <3>1. at \in 1..Len(base) /\ at <= fork
            BY <2>3
        <3>2. base[fork][f] = base[at][f]
            BY <2>3, <2>7, <3>1 DEF HistInv, Chained
        <3> QED
            BY <2>2, <2>3, <2>4, <2>5, <2>6, <3>2 DEF Hist!Forked
    <2>8. CASE ~Still(f, at, fork)
        BY <2>2, <2>4, <2>5, <2>8 DEF Still
    <2> QED
        BY <2>7, <2>8
<1>2. Exact => [Exact]_(Hist!vars)
    OBVIOUS
<1>3. Hist!Spec => [][Exact]_(Hist!vars)
    BY <1>1, HistInit, HistNext, PTL DEF Hist!Spec
<1>4. (part = "history" => HistInv) /\ [PartsNext]_partsVars => [Exact]_(Hist!vars)
    <2> SUFFICES ASSUME part = "history" => HistInv, [PartsNext]_partsVars PROVE [Exact]_(Hist!vars)
        OBVIOUS
    <2>1. (part = "history" /\ [Hist!Next]_(Hist!vars)) \/ UNCHANGED Hist!vars
        BY DEF PartsNext, partsVars, histVars, Hist!vars
    <2> HIDE DEF Exact
    <2> QED
        BY <1>1, <2>1
<1>5. PartsSpec => [][Exact]_(Hist!vars)
    BY <1>4, HistPart, PTL DEF PartsSpec
<1> QED
    BY <1>3, <1>5 DEF Hist!UnwarnedUndoesOnlyIt, UnwarnedUndoesOnlyIt

--------------------------------------------------------------------------------
(* The drift of Argo CD's Applications.                                    *)

Names  == Drift!Range(AppOrder)
Events == [name : Names, app : AppStates \union {None}]

(* After n of the events in the queue the store has a as app.              *)
Holds(n, a, app) ==
    \/ \E i \in 1..n : /\ queue[i].name = a /\ queue[i].app = app
                       /\ \A j \in (i + 1)..n : queue[j].name # a
    \/ (\A i \in 1..n : queue[i].name # a) /\ a \in DOMAIN store /\ store[a] = app

Covers(app, x) == x \in DOMAIN app.rows \/ (app.repos # <<>> /\ x = Head(app.repos))

(* What had an Application all along has one in the store, now and after   *)
(* each of the events that are on their way.                               *)
Covered(n) == \A x \in always : \E a \in Names, app \in AppStates : Holds(n, a, app) /\ Covers(app, x)

(* The watch: the events lead from the store to the cluster.               *)
WatchInv ==
    /\ apps \in Drift!AppSets /\ store \in Drift!AppSets
    /\ queue \in Seq(Events) /\ (watch = "list" => queue = <<>>)
    /\ watch # "list" =>
          \A a \in Names : \A app \in AppStates :
              Holds(Len(queue), a, app) <=> a \in DOMAIN apps /\ apps[a] = app
    /\ \A x \in always : \E a \in DOMAIN apps : Covers(apps[a], x)
    /\ synced \/ watch # "list" => \A n \in 0..Len(queue) : Covered(n)

(* The rows of the VMs that Argo CD managed all along, each with a status  *)
(* of Argo CD's own.                                                       *)
RowsOK(rows) ==
    /\ always \intersect VMs \subseteq DOMAIN rows
    /\ \A v \in DOMAIN rows : rows[v].sync \notin {"NotTracked", "Pending"}

MapsOK(m) ==
    /\ RowsOK(m.rows)
    /\ Platform \in always => Platform \in DOMAIN m.rollups
    /\ \A repo \in DOMAIN m.rollups : m.rollups[repo].error # "missing"

ReaderOK(f) ==
    /\ f = [read |-> f.read, step |-> f.step, drift |-> f.drift, rollup |-> f.rollup,
            platform |-> f.platform, gen |-> f.gen]
    /\ f.step # "enter" => synced /\ f.read \in {"drift", "rollup", "gen"}
    /\ f.drift # None => RowsOK(f.drift)
    /\ f.platform # None /\ Platform \in always => f.platform.error # "missing"

FrameOK(f) ==
    /\ ~f.error => \A v \in Declared \intersect always : f.vms[v] \notin {"NotTracked", "Pending"}
    /\ Platform \in always => f.platform = None \/ f.platform.error # "missing"

DriftInv ==
    /\ WatchInv
    /\ maps # None => MapsOK(maps)
    /\ reader = [r \in Readers |-> reader[r]] /\ \A r \in Readers : ReaderOK(reader[r])
    /\ frame = [r \in Readers |-> frame[r]] /\ \A r \in Readers : frame[r] # None => FrameOK(frame[r])

(* The list of the store has what the store has.                           *)
LEMMA ListsAll ==
    ASSUME NEW S, NEW list \in Drift!Bijection(1..Cardinality(S), S)
    PROVE  Drift!Range(list) = S
<1>1. list \in Drift!Surjection(1..Cardinality(S), S)
    BY Zenon DEF Drift!Bijection
<1> QED
    BY <1>1 DEF Drift!Surjection, Drift!Range

LEMMA Greatest ==
    ASSUME NEW k \in Nat, NEW S \in SUBSET (1..k), S # {}
    PROVE  Drift!Max(S) \in S
<1> DEFINE T == {k - i : i \in S}
<1>1. T \in SUBSET Nat /\ T # {}
    <2>1. \A i \in S : k - i \in Nat
        OBVIOUS
    <2> QED
        BY <2>1
<1>2. PICK x \in T : \A y \in T : x <= y
    <2> HIDE DEF T
    <2> QED
        BY <1>1, Smallest
<1>3. PICK m \in S : x = k - m
    OBVIOUS
<1>4. ASSUME NEW i \in S PROVE m >= i
    <2>1. k - i \in T
        OBVIOUS
    <2>2. x <= k - i
        BY <1>2, <2>1
    <2>3. i \in Int /\ m \in Int /\ k \in Int
        OBVIOUS
    <2> HIDE DEF T
    <2> QED
        BY <1>3, <2>2, <2>3
<1> QED
    BY <1>3, <1>4 DEF Drift!Max

(* Maps that are built of a store are sound where the store covers what    *)
(* had an Application all along.                                           *)
LEMMA BuiltOK ==
    ASSUME Drift!DriftAssumption, store \in Drift!AppSets, Covered(0)
    PROVE  MapsOK(Drift!BuildMaps(Drift!Places(DOMAIN store)))
<1> DEFINE places == Drift!Places(DOMAIN store)
           scan   == [i \in places |-> store[AppOrder[i]]]
           At(o)  == {i \in DOMAIN scan : o \in DOMAIN scan[i].rows}
<1>1. PICK k \in Nat : DOMAIN AppOrder = 1..k
    BY DEF Drift!DriftAssumption
<1>2. \A i \in places : i \in 1..k /\ scan[i] \in AppStates
    BY <1>1 DEF Drift!Places, Drift!AppSets
<1>3. ASSUME NEW x \in always PROVE \E i \in places : Covers(scan[i], x)
    <2>1. PICK a \in Names, app \in AppStates : Holds(0, a, app) /\ Covers(app, x)
        BY DEF Covered
    <2>2. a \in DOMAIN store /\ store[a] = app
        BY <2>1 DEF Holds
    <2>3. PICK i \in DOMAIN AppOrder : AppOrder[i] = a
        BY DEF Names, Drift!Range
    <2>4. i \in places /\ scan[i] = app
        BY <2>2, <2>3 DEF Drift!Places
    <2> QED
        BY <2>1, <2>4
<1>4. /\ Drift!BuildMaps(places).rows = Drift!ResourceDrift(scan)
      /\ Drift!BuildMaps(places).rollups = Drift!AppSync(scan)
    BY DEF Drift!BuildMaps
<1>5. DOMAIN scan = places
    OBVIOUS
<1>6. ASSUME NEW o \in DOMAIN Drift!ResourceDrift(scan)
      PROVE  Drift!ResourceDrift(scan)[o].sync \notin {"NotTracked", "Pending"}
    <2>1. At(o) # {} /\ At(o) \in SUBSET (1..k)
        BY <1>2, <1>5, <1>6 DEF Drift!ResourceDrift
    <2>2. Drift!Max(At(o)) \in At(o)
        <3> HIDE DEF At
        <3> QED
            BY <2>1, Greatest
    <2>3. PICK i \in places : i = Drift!Max(At(o)) /\ o \in DOMAIN scan[i].rows
        BY <2>2
    <2>4. Drift!ResourceDrift(scan)[o].sync = scan[i].rows[o].sync
        <3> HIDE DEF scan
        <3> QED
            BY <1>6, <2>3 DEF Drift!ResourceDrift, Drift!Reported
    <2> QED
        BY <1>2, <2>3, <2>4 DEF Drift!DriftAssumption
<1>7. always \intersect VMs \subseteq DOMAIN Drift!ResourceDrift(scan)
    <2> SUFFICES ASSUME NEW v \in always \intersect VMs
                 PROVE  \E i \in places : v \in DOMAIN scan[i].rows
        BY <1>5 DEF Drift!ResourceDrift
    <2> QED
        BY <1>2, <1>3 DEF Covers, Drift!DriftAssumption
<1>8. Platform \in always => Platform \in DOMAIN Drift!AppSync(scan)
    <2> SUFFICES ASSUME Platform \in always
                 PROVE  \E i \in places : scan[i].repos # <<>> /\ Head(scan[i].repos) = Platform
        BY <1>5 DEF Drift!AppSync, Drift!Sourcing
    <2> QED
        BY <1>2, <1>3 DEF Covers, Drift!DriftAssumption
<1>9. \A repo \in DOMAIN Drift!AppSync(scan) : Drift!AppSync(scan)[repo].error # "missing"
    <2>1. \A app : Drift!ProjectSync(app).error \in {"operation", "condition", None}
        BY DEF Drift!ProjectSync
    <2>2. \A repo \in DOMAIN Drift!AppSync(scan) : \E app :
              Drift!AppSync(scan)[repo] = Drift!ProjectSync(app)
        BY DEF Drift!AppSync
    <2> QED
        BY <2>1, <2>2 DEF Drift!DriftAssumption
<1> QED
    BY <1>4, <1>6, <1>7, <1>8, <1>9 DEF MapsOK, RowsOK

LEMMA ManagedCovers ==
    ASSUME NEW m, NEW x
    PROVE  x \in Drift!Managed(m) <=> \E a \in DOMAIN m : Covers(m[a], x)
BY DEF Drift!Managed, Covers

(* An event more.                                                          *)
LEMMA Enqueued ==
    ASSUME queue \in Seq(Events), NEW e \in Events, queue' = Append(queue, e), store' = store,
           NEW k \in Nat, k = Len(queue)
    PROVE  /\ queue' \in Seq(Events) /\ Len(queue') = k + 1
           /\ \A n \in 0..k : \A a, app : Holds(n, a, app)' <=> Holds(n, a, app)
           /\ \A a, app : Holds(k + 1, a, app)' <=>
                  IF a = e.name THEN app = e.app ELSE Holds(k, a, app)
<1>1. /\ queue' \in Seq(Events) /\ Len(queue') = k + 1 /\ queue'[k + 1] = e
      /\ \A i \in 1..k : queue'[i] = queue[i]
    OBVIOUS
<1>2. \A n \in 0..k : \A a, app : Holds(n, a, app)' <=> Holds(n, a, app)
    BY <1>1 DEF Holds
<1>3. ASSUME NEW a, NEW app
      PROVE  Holds(k + 1, a, app)' <=> IF a = e.name THEN app = e.app ELSE Holds(k, a, app)
    <2>1. CASE a = e.name
        <3>1. k + 1 \in 1..(k + 1)
            OBVIOUS
        <3>2. ASSUME app = e.app PROVE Holds(k + 1, a, app)'
            <4>1. \A j \in (k + 1 + 1)..(k + 1) : queue'[j].name # a
                OBVIOUS
            <4> QED
                BY <1>1, <2>1, <3>1, <3>2, <4>1 DEF Holds
        <3>3. ASSUME Holds(k + 1, a, app)' PROVE app = e.app
            <4>1. PICK i \in 1..(k + 1) : /\ queue'[i].name = a /\ queue'[i].app = app
                                          /\ \A j \in (i + 1)..(k + 1) : queue'[j].name # a
                BY <1>1, <2>1, <3>1, <3>3 DEF Holds
            <4>2. i = k + 1
                <5>1. k + 1 \in (i + 1)..(k + 1) \/ i = k + 1
                    OBVIOUS
                <5> QED
                    BY <1>1, <2>1, <4>1, <5>1
            <4> QED
                BY <1>1, <4>1, <4>2
        <3> QED
            BY <2>1, <3>2, <3>3
    <2>2. CASE a # e.name
        <3>1. 1..(k + 1) = (1..k) \union {k + 1} /\ queue'[k + 1].name # a
            BY <1>1, <2>2
        <3>2. \A i \in 1..k : (i + 1)..(k + 1) = ((i + 1)..k) \union {k + 1}
            OBVIOUS
        <3>3. \A i \in 1..k : (\A j \in (i + 1)..(k + 1) : queue'[j].name # a) <=>
                              (\A j \in (i + 1)..k : queue[j].name # a)
            BY <1>1, <3>1, <3>2
        <3>4. (\A i \in 1..(k + 1) : queue'[i].name # a) <=> (\A i \in 1..k : queue[i].name # a)
            BY <1>1, <3>1
        <3>5. (\E i \in 1..(k + 1) : /\ queue'[i].name = a /\ queue'[i].app = app
                                     /\ \A j \in (i + 1)..(k + 1) : queue'[j].name # a) <=>
              (\E i \in 1..k : /\ queue[i].name = a /\ queue[i].app = app
                               /\ \A j \in (i + 1)..k : queue[j].name # a)
            BY <1>1, <3>1, <3>3
        <3> QED
            BY <2>2, <3>4, <3>5 DEF Holds
    <2> QED
        BY <2>1, <2>2
<1> QED
    BY <1>1, <1>2, <1>3

(* An event stored.                                                        *)
LEMMA Stored ==
    ASSUME Drift!DriftAssumption, queue \in Seq(Events), queue # <<>>, queue' = Tail(queue),
           store' = IF Head(queue).app = None THEN Drift!Without(store, Head(queue).name)
                    ELSE Drift!Put(store, Head(queue).name, Head(queue).app)
    PROVE  /\ queue' \in Seq(Events) /\ Len(queue') = Len(queue) - 1 /\ Len(queue) \in Nat \ {0}
           /\ \A n \in 0..Len(queue') : \A a : \A app \in AppStates :
                  Holds(n, a, app)' <=> Holds(n + 1, a, app)
<1>0. PICK k \in Nat : k + 1 = Len(queue)
    <2>1. Len(queue) \in Nat /\ Len(queue) # 0
        OBVIOUS
    <2>2. Len(queue) - 1 \in Nat /\ (Len(queue) - 1) + 1 = Len(queue)
        BY <2>1
    <2> QED
        BY <2>2
<1>1. /\ queue' \in Seq(Events) /\ Len(queue') = k /\ Head(queue) = queue[1]
      /\ \A i \in 1..k : queue'[i] = queue[i + 1]
    BY <1>0
<1>2. ASSUME NEW n \in 0..k, NEW a, NEW app \in AppStates
      PROVE  Holds(n, a, app)' <=> Holds(n + 1, a, app)
    <2> DEFINE Bare(l)  == \A i \in 1..l : queue[i].name # a
               Bare1(l) == \A i \in 1..l : queue'[i].name # a
    <2>1. Bare(n + 1) <=> queue[1].name # a /\ Bare1(n)
        <3>1. \A i \in 2..(n + 1) : i - 1 \in 1..n /\ queue'[i - 1] = queue[i]
            BY <1>1
        <3>2. \A i \in 1..n : i + 1 \in 1..(n + 1) /\ queue'[i] = queue[i + 1]
            BY <1>1
        <3>3. 1..(n + 1) = {1} \union 2..(n + 1)
            OBVIOUS
        <3>4. ASSUME Bare(n + 1) PROVE queue[1].name # a /\ Bare1(n)
            <4>1. 1 \in 1..(n + 1)
                OBVIOUS
            <4> QED
                BY <3>2, <3>4, <4>1
        <3>5. ASSUME queue[1].name # a, Bare1(n) PROVE Bare(n + 1)
            <4>1. \A i \in 2..(n + 1) : queue[i].name # a
                BY <3>1, <3>5
            <4> QED
                BY <3>3, <3>5, <4>1
        <3> QED
            BY <3>4, <3>5, Zenon
    <2>2. \A i \in 1..n : (\A j \in (i + 1)..n : queue'[j].name # a) <=>
                          (\A j \in (i + 2)..(n + 1) : queue[j].name # a)
        <3>1. \A i \in 1..n : \A j \in (i + 2)..(n + 1) :
                  j - 1 \in (i + 1)..n /\ queue'[j - 1] = queue[j]
            BY <1>1
        <3>2. \A i \in 1..n : \A j \in (i + 1)..n :
                  j + 1 \in (i + 2)..(n + 1) /\ queue'[j] = queue[j + 1]
            BY <1>1
        <3> SUFFICES ASSUME NEW i \in 1..n
                     PROVE  (\A j \in (i + 1)..n : queue'[j].name # a) <=>
                            (\A j \in (i + 2)..(n + 1) : queue[j].name # a)
            OBVIOUS
        <3>3. ASSUME \A j \in (i + 1)..n : queue'[j].name # a, NEW j \in (i + 2)..(n + 1)
              PROVE  queue[j].name # a
            BY <3>1, <3>3
        <3>4. ASSUME \A j \in (i + 2)..(n + 1) : queue[j].name # a, NEW j \in (i + 1)..n
              PROVE  queue'[j].name # a
            BY <3>2, <3>4
        <3> QED
            BY <3>3, <3>4
    <2>3. (a \in DOMAIN store' /\ store'[a] = app) <=>
              IF queue[1].name = a THEN queue[1].app = app ELSE a \in DOMAIN store /\ store[a] = app
        <3>1. app # None
            BY DEF Drift!DriftAssumption
        <3> QED
            BY <1>1, <3>1 DEF Drift!Put, Drift!Without
    <2>4. ASSUME Holds(n, a, app)' PROVE Holds(n + 1, a, app)
        <3>1. CASE \E i \in 1..n : /\ queue'[i].name = a /\ queue'[i].app = app
                                   /\ \A j \in (i + 1)..n : queue'[j].name # a
            <4>1. PICK i \in 1..n : /\ queue'[i].name = a /\ queue'[i].app = app
                                    /\ \A j \in (i + 1)..n : queue'[j].name # a
                BY <3>1
            <4>2. i + 1 \in 1..(n + 1) /\ queue[i + 1].name = a /\ queue[i + 1].app = app
                BY <1>1, <4>1
            <4>3. \A j \in (i + 1 + 1)..(n + 1) : queue[j].name # a
                <5>1. i + 1 + 1 = i + 2
                    OBVIOUS
                <5> QED
                    BY <2>2, <4>1, <5>1
            <4> QED
                BY <4>2, <4>3 DEF Holds
        <3>2. CASE Bare1(n) /\ a \in DOMAIN store' /\ store'[a] = app
            <4>1. CASE queue[1].name = a
                <5>1. 1 \in 1..(n + 1) /\ queue[1].app = app
                    BY <2>3, <3>2, <4>1
                <5>2. \A j \in (1 + 1)..(n + 1) : queue[j].name # a
                    <6>1. \A j \in (1 + 1)..(n + 1) : j - 1 \in 1..n /\ queue'[j - 1] = queue[j]
                        BY <1>1
                    <6> QED
                        BY <3>2, <6>1
                <5> QED
                    BY <4>1, <5>1, <5>2 DEF Holds
            <4>2. CASE queue[1].name # a
                BY <2>1, <2>3, <3>2, <4>2 DEF Holds
            <4> QED
                BY <4>1, <4>2
        <3> QED
            BY <2>4, <3>1, <3>2 DEF Holds
    <2>5. ASSUME Holds(n + 1, a, app) PROVE Holds(n, a, app)'
        <3>1. CASE \E i \in 1..(n + 1) : /\ queue[i].name = a /\ queue[i].app = app
                                         /\ \A j \in (i + 1)..(n + 1) : queue[j].name # a
            <4>1. PICK i \in 1..(n + 1) : /\ queue[i].name = a /\ queue[i].app = app
                                          /\ \A j \in (i + 1)..(n + 1) : queue[j].name # a
                BY <3>1
            <4>2. CASE i = 1
                <5>1. Bare1(n)
                    <6>1. \A j \in 1..n : j + 1 \in (1 + 1)..(n + 1) /\ queue'[j] = queue[j + 1]
                        BY <1>1
                    <6> QED
                        BY <4>1, <4>2, <6>1
                <5> QED
                    BY <2>3, <4>1, <4>2, <5>1 DEF Holds
            <4>3. CASE i # 1
                <5>1. PICK l \in 1..n : l + 1 = i
                    <6>1. i - 1 \in 1..n /\ (i - 1) + 1 = i
                        BY <4>3
                    <6> QED
                        BY <6>1
                <5>2. queue'[l].name = a /\ queue'[l].app = app
                    BY <1>1, <4>1, <5>1
                <5>3. \A j \in (l + 1)..n : queue'[j].name # a
                    <6>1. (l + 2)..(n + 1) = (i + 1)..(n + 1)
                        BY <5>1
                    <6> QED
                        BY <2>2, <4>1, <6>1
                <5> QED
                    BY <5>2, <5>3 DEF Holds
            <4> QED
                BY <4>2, <4>3
        <3>2. CASE Bare(n + 1) /\ a \in DOMAIN store /\ store[a] = app
            BY <2>1, <2>3, <3>2 DEF Holds
        <3> QED
            BY <2>5, <3>1, <3>2 DEF Holds
    <2> QED
        BY <2>4, <2>5
<1> QED
    BY <1>0, <1>1, <1>2

(* Where the events and the store stay, what is covered stays covered.     *)
LEMMA StillCovered ==
    ASSUME queue' = queue, store' = store, always' \subseteq always
    PROVE  \A n : Covered(n) => Covered(n)'
<1>1. \A n, a, app : Holds(n, a, app)' <=> Holds(n, a, app)
    BY DEF Holds
<1> QED
    BY <1>1 DEF Covered

LEMMA ArgoStep ==
    ASSUME Drift!DriftAssumption, WatchInv, NEW a \in Names, Drift!ArgoMoves(a)
    PROVE  WatchInv'
<1>0. /\ store' = store /\ watch' = watch /\ synced' = synced
      /\ always' = always \intersect Drift!Managed(apps')
      /\ queue \in Seq(Events) /\ apps \in Drift!AppSets /\ store \in Drift!AppSets
    BY DEF WatchInv, Drift!ArgoMoves
<1>1. \/ \E s \in AppStates : apps' = Drift!Put(apps, a, s)
      \/ apps' = Drift!Without(apps, a)
    BY DEF Drift!ArgoMoves
<1>2. apps' \in Drift!AppSets
    BY <1>0, <1>1 DEF Drift!AppSets, Drift!Put, Drift!Without, Names
<1>3. /\ always' \subseteq always
      /\ \A x \in always' : \E b \in DOMAIN apps' : Covers(apps'[b], x)
    BY <1>0, ManagedCovers
<1>4. \A n : Covered(n) /\ queue' = queue => Covered(n)'
    BY <1>0, <1>3, StillCovered
<1>5. CASE watch = "list"
    <2>1. queue' = queue
        BY <1>5 DEF Drift!ArgoMoves
    <2> QED
        BY <1>0, <1>2, <1>3, <1>4, <1>5, <2>1 DEF WatchInv
<1>6. CASE watch # "list"
    <2> DEFINE e == [name |-> a, app |-> IF a \in DOMAIN apps' THEN apps'[a] ELSE None]
    <2>0. PICK k \in Nat : k = Len(queue)
        BY <1>0
    <2>1. e \in Events /\ queue' = Append(queue, e)
        BY <1>2, <1>6 DEF Events, Drift!ArgoMoves, Drift!AppSets
    <2>2. e.name = a /\ e.app = IF a \in DOMAIN apps' THEN apps'[a] ELSE None
        OBVIOUS
    <2>3. /\ queue' \in Seq(Events) /\ Len(queue') = k + 1
          /\ \A n \in 0..k : \A b, app : Holds(n, b, app)' <=> Holds(n, b, app)
          /\ \A b, app : Holds(k + 1, b, app)' <=> IF b = a THEN app = e.app ELSE Holds(k, b, app)
        <3> HIDE DEF e
        <3> QED
            BY <1>0, <2>0, <2>1, <2>2, Enqueued
    <2>4. ASSUME NEW b \in Names, NEW app \in AppStates
          PROVE  Holds(k + 1, b, app)' <=> b \in DOMAIN apps' /\ apps'[b] = app
        <3>1. CASE b = a
            <4>1. app # None
                BY DEF Drift!DriftAssumption
            <4> QED
                BY <2>2, <2>3, <3>1, <4>1
        <3>2. CASE b # a
            <4>1. Holds(k, b, app) <=> b \in DOMAIN apps /\ apps[b] = app
                BY <1>6, <2>0 DEF WatchInv
            <4>2. (b \in DOMAIN apps <=> b \in DOMAIN apps') /\ (b \in DOMAIN apps => apps'[b] = apps[b])
                BY <1>1, <3>2 DEF Drift!Put, Drift!Without
            <4> QED
                BY <2>3, <3>2, <4>1, <4>2
        <3> QED
            BY <3>1, <3>2
    <2>5. ASSUME NEW n \in 0..k PROVE Covered(n)'
        <3>1. Covered(n)
            BY <1>6, <2>0 DEF WatchInv
        <3> QED
            BY <1>3, <2>3, <3>1 DEF Covered
    <2>6. Covered(k + 1)'
        <3> SUFFICES ASSUME NEW x \in always'
                     PROVE  \E b \in Names, app \in AppStates : Holds(k + 1, b, app)' /\ Covers(app, x)
            BY DEF Covered
        <3>1. PICK b \in DOMAIN apps' : Covers(apps'[b], x)
            BY <1>3
        <3>2. b \in Names /\ apps'[b] \in AppStates
            BY <1>2 DEF Drift!AppSets, Names
        <3> QED
            BY <2>4, <3>1, <3>2
    <2>7. ASSUME NEW n \in 0..Len(queue') PROVE Covered(n)'
        <3>1. n \in 0..k \/ n = k + 1
            BY <2>3
        <3> QED
            BY <2>5, <2>6, <3>1
    <2>8. \A b \in Names : \A app \in AppStates :
              Holds(Len(queue), b, app)' <=> b \in DOMAIN apps' /\ apps'[b] = app
        BY <2>3, <2>4
    <2> QED
        BY <1>0, <1>2, <1>3, <1>6, <2>3, <2>7, <2>8 DEF WatchInv
<1> QED
    BY <1>5, <1>6

LEMMA ListStep ==
    ASSUME WatchInv, Drift!Listed
    PROVE  WatchInv'
<1>1. /\ queue = <<>> /\ queue' = <<>> /\ Len(queue') = 0 /\ apps' = apps /\ store' = apps
      /\ always' = always /\ apps \in Drift!AppSets
    BY DEF WatchInv, Drift!Listed
<1>2. \A a, app : Holds(0, a, app)' <=> a \in DOMAIN apps /\ apps[a] = app
    BY <1>1 DEF Holds
<1>3. Covered(0)'
    <2> SUFFICES ASSUME NEW x \in always
                 PROVE  \E a \in Names, app \in AppStates : Holds(0, a, app)' /\ Covers(app, x)
        BY <1>1 DEF Covered
    <2>1. PICK a \in DOMAIN apps : Covers(apps[a], x)
        BY DEF WatchInv
    <2>2. a \in Names /\ apps[a] \in AppStates
        BY <1>1 DEF Drift!AppSets, Names
    <2> QED
        BY <1>2, <2>1, <2>2
<1>4. \A a, app : Holds(Len(queue), a, app)' <=> a \in DOMAIN apps' /\ apps'[a] = app
    BY <1>1, <1>2
<1>5. ASSUME NEW n \in 0..Len(queue') PROVE Covered(n)'
    <2>1. n = 0
        BY <1>1
    <2> QED
        BY <1>3, <2>1
<1>6. watch' # "list"
    BY DEF Drift!Listed
<1>7. queue' \in Seq(Events) /\ \A x \in always' : \E a \in DOMAIN apps' : Covers(apps'[a], x)
    BY <1>1 DEF WatchInv
<1> QED
    BY <1>1, <1>4, <1>5, <1>6, <1>7 DEF WatchInv

LEMMA DeliverStep ==
    ASSUME Drift!DriftAssumption, WatchInv, Drift!Delivered
    PROVE  WatchInv'
<1>1. /\ queue \in Seq(Events) /\ queue # <<>> /\ queue' = Tail(queue) /\ watch # "list"
      /\ store' = IF Head(queue).app = None THEN Drift!Without(store, Head(queue).name)
                  ELSE Drift!Put(store, Head(queue).name, Head(queue).app)
      /\ apps' = apps /\ always' = always /\ watch' = "signal"
      /\ store \in Drift!AppSets /\ apps \in Drift!AppSets
    BY DEF WatchInv, Drift!Delivered
<1>2. Head(queue) \in Events
    BY <1>1
<1>3. store' \in Drift!AppSets
    <2>1. PICK A \in SUBSET Names : store \in [A -> AppStates]
        BY <1>1 DEF Names, Drift!AppSets
    <2>2. PICK e \in Events : e = Head(queue)
        BY <1>2
    <2>3. CASE e.app = None
        <3>1. store' \in [A \ {e.name} -> AppStates]
            BY <1>1, <2>1, <2>2, <2>3 DEF Drift!Without
        <3> QED
            BY <3>1 DEF Names, Drift!AppSets
    <2>4. CASE e.app # None
        <3>1. e.app \in AppStates /\ e.name \in Names
            BY <2>4 DEF Events
        <3>2. store' \in [A \union {e.name} -> AppStates]
            BY <1>1, <2>1, <2>2, <2>4, <3>1 DEF Drift!Put
        <3> QED
            BY <3>1, <3>2 DEF Names, Drift!AppSets
    <2> QED
        BY <2>3, <2>4
<1>4. /\ queue' \in Seq(Events) /\ Len(queue') = Len(queue) - 1 /\ Len(queue) \in Nat \ {0}
      /\ \A n \in 0..Len(queue') : \A a : \A app \in AppStates :
             Holds(n, a, app)' <=> Holds(n + 1, a, app)
    BY <1>1, Stored
<1>5. \A a \in Names : \A app \in AppStates :
          Holds(Len(queue), a, app)' <=> a \in DOMAIN apps' /\ apps'[a] = app
    <2>1. PICK k \in Nat : k = Len(queue') /\ k + 1 = Len(queue) /\ k \in 0..Len(queue')
        BY <1>4
    <2>2. \A a \in Names : \A app \in AppStates :
              Holds(k + 1, a, app) <=> a \in DOMAIN apps /\ apps[a] = app
        BY <1>1, <2>1 DEF WatchInv
    <2>3. \A a \in Names : \A app \in AppStates :
              Holds(k, a, app)' <=> a \in DOMAIN apps' /\ apps'[a] = app
        BY <1>1, <1>4, <2>1, <2>2
    <2> QED
        BY <2>1, <2>3
<1>6. ASSUME NEW n \in 0..Len(queue') PROVE Covered(n)'
    <2>1. n + 1 \in 0..Len(queue)
        BY <1>4
    <2>2. Covered(n + 1)
        BY <1>1, <2>1 DEF WatchInv
    <2> QED
        BY <1>1, <1>4, <2>2 DEF Covered
<1>7. \A x \in always' : \E a \in DOMAIN apps' : Covers(apps'[a], x)
    BY <1>1 DEF WatchInv
<1> QED
    BY <1>1, <1>3, <1>4, <1>5, <1>6, <1>7 DEF WatchInv

LEMMA DropStep ==
    ASSUME WatchInv, Drift!Dropped
    PROVE  WatchInv'
<1>1. /\ queue' = <<>> /\ Len(queue') = 0 /\ watch = "deliver" /\ watch' = "list" /\ synced' = synced
      /\ apps' = apps /\ store' = store /\ always' = always /\ Len(queue) \in Nat
    BY DEF WatchInv, Drift!Dropped
<1>2. Covered(0)
    BY <1>1 DEF WatchInv
<1>3. \A a, app : Holds(0, a, app)' <=> Holds(0, a, app)
    BY <1>1 DEF Holds
<1>4. ASSUME NEW n \in 0..Len(queue') PROVE Covered(n)'
    <2>1. n = 0
        BY <1>1
    <2> QED
        BY <1>1, <1>2, <1>3, <2>1 DEF Covered
<1>5. /\ queue' \in Seq(Events) /\ apps' \in Drift!AppSets /\ store' \in Drift!AppSets
      /\ \A x \in always' : \E a \in DOMAIN apps' : Covers(apps'[a], x)
    BY <1>1 DEF WatchInv
<1> QED
    BY <1>1, <1>4, <1>5 DEF WatchInv

(* The steps that move no Application.                                     *)
LEMMA WatchStays ==
    ASSUME WatchInv, UNCHANGED <<apps, queue, store, always>>,
           (synced' = synced /\ watch' = watch) \/ (watch # "list" /\ watch' # "list")
    PROVE  WatchInv'
<1>1. \A n, a, app : Holds(n, a, app)' <=> Holds(n, a, app)
    BY DEF Holds
<1>2. \A n : Covered(n)' <=> Covered(n)
    BY <1>1 DEF Covered
<1>3. \A a, app : Holds(Len(queue), a, app)' <=> Holds(Len(queue), a, app)
    BY <1>1
<1> QED
    BY <1>2, <1>3 DEF WatchInv

(* The readers and the maps, where nothing but the watch moves.            *)
LEMMA ReadersStay ==
    ASSUME DriftInv, always' \subseteq always, synced => synced',
           UNCHANGED <<maps, reader, frame>>
    PROVE  /\ maps' # None => MapsOK(maps)'
           /\ reader' = [r \in Readers |-> reader'[r]] /\ \A r \in Readers : ReaderOK(reader[r])'
           /\ frame' = [r \in Readers |-> frame'[r]]
           /\ \A r \in Readers : frame'[r] # None => FrameOK(frame[r])'
<1>1. maps' # None => MapsOK(maps)'
    BY DEF DriftInv, MapsOK, RowsOK
<1>2. ASSUME NEW r \in Readers PROVE ReaderOK(reader[r])'
    BY DEF DriftInv, ReaderOK, RowsOK
<1>3. ASSUME NEW r \in Readers, frame'[r] # None PROVE FrameOK(frame[r])'
    BY <1>3 DEF DriftInv, FrameOK
<1> QED
    BY <1>1, <1>2, <1>3 DEF DriftInv

(* One reader moves on, and nothing else that the invariant speaks of.     *)
LEMMA ReaderMoves ==
    ASSUME DriftInv, NEW r \in Readers, NEW f, reader' = [reader EXCEPT ![r] = f],
           UNCHANGED <<apps, queue, store, watch, always, synced>>,
           maps' # None => MapsOK(maps)', ReaderOK(f),
           frame' = [q \in Readers |-> frame'[q]],
           \A q \in Readers : frame'[q] # None => FrameOK(frame'[q])
    PROVE  DriftInv'
<1>1. WatchInv'
    BY WatchStays DEF DriftInv
<1>2. /\ reader' = [q \in Readers |-> reader'[q]]
      /\ \A q \in Readers : reader'[q] = IF q = r THEN f ELSE reader[q]
    BY DEF DriftInv
<1>3. ASSUME NEW q \in Readers PROVE ReaderOK(reader[q])'
    <2>1. PICK g : g = reader'[q] /\ ReaderOK(g)
        BY <1>2 DEF DriftInv
    <2> QED
        BY <2>1 DEF ReaderOK, RowsOK
<1>4. ASSUME NEW q \in Readers, frame'[q] # None PROVE FrameOK(frame[q])'
    BY <1>4 DEF FrameOK
<1> QED
    BY <1>1, <1>2, <1>3, <1>4 DEF DriftInv

LEMMA DriftInit == Drift!DriftAssumption /\ Drift!Init => DriftInv
<1> SUFFICES ASSUME Drift!DriftAssumption, Drift!Init PROVE DriftInv
    OBVIOUS
<1>1. /\ apps \in Drift!AppSets /\ queue = <<>> /\ store = Drift!Absent /\ watch = "list"
      /\ synced = FALSE /\ maps = None /\ always = Drift!Managed(apps)
      /\ reader = [r \in Readers |-> Drift!Resting] /\ frame = [r \in Readers |-> None]
    BY DEF Drift!Init
<1>2. store \in Drift!AppSets
    <2>1. store \in [{} -> AppStates]
        BY <1>1 DEF Drift!Absent
    <2> QED
        BY <2>1 DEF Drift!AppSets
<1>3. \A x \in always : \E a \in DOMAIN apps : Covers(apps[a], x)
    BY <1>1, ManagedCovers
<1>4. WatchInv
    BY <1>1, <1>2, <1>3 DEF WatchInv
<1>5. ReaderOK(Drift!Resting)
    BY DEF ReaderOK, Drift!Resting
<1> QED
    BY <1>1, <1>4, <1>5 DEF DriftInv

(* What a call returns of sound maps is sound.                             *)
LEMMA ReturnedOK ==
    ASSUME Drift!DriftAssumption, DriftInv, NEW r \in Readers, NEW m, NEW g, MapsOK(m),
           reader[r].read \in {"drift", "rollup", "gen"}
    PROVE  ReaderOK(Drift!Returned(r, m, g))
<1>1. ReaderOK(reader[r])
    BY DEF DriftInv
<1> DEFINE f == reader[r]
<1>2. CASE f.read = "drift"
    <2> DEFINE d == Drift!VmView(m.rows)
    <2>1. Drift!Returned(r, m, g) =
              [read |-> "rollup", step |-> "enter", drift |-> d, rollup |-> f.rollup,
               platform |-> f.platform, gen |-> f.gen]
        <3> HIDE DEF d
        <3>1. Drift!Returned(r, m, g) = Drift!Step(r, [f EXCEPT !.drift = d])
            BY <1>2 DEF Drift!Returned, d
        <3> QED
            BY <1>1, <1>2, <3>1 DEF ReaderOK, Drift!Step, Drift!NextRead
    <2>2. RowsOK(d)
        BY DEF MapsOK, RowsOK, Drift!VmView
    <2> HIDE DEF d
    <2> QED
        BY <1>1, <2>1, <2>2 DEF ReaderOK
<1>3. CASE f.read = "rollup"
    <2> DEFINE own == IF Repo \in DOMAIN m.rollups THEN m.rollups[Repo] ELSE None
               p == Drift!PlatformRollup(m.rollups)
    <2>1. Drift!Returned(r, m, g) =
              [read |-> "gen", step |-> "enter", drift |-> f.drift, rollup |-> own,
               platform |-> p, gen |-> f.gen]
        <3>1. Drift!Returned(r, m, g) = Drift!Step(r, [f EXCEPT !.rollup = own, !.platform = p])
            BY <1>3 DEF Drift!Returned
        <3> HIDE DEF own, p
        <3> QED
            BY <1>1, <1>3, <3>1 DEF ReaderOK, Drift!Step, Drift!NextRead
    <2>2. Platform \in always => p.error # "missing"
        BY DEF MapsOK, Drift!PlatformRollup
    <2> HIDE DEF own, p
    <2> QED
        BY <1>1, <2>1, <2>2 DEF ReaderOK
<1>4. CASE f.read = "gen"
    <2>1. Drift!Returned(r, m, g) =
              [read |-> "done", step |-> "enter", drift |-> f.drift, rollup |-> f.rollup,
               platform |-> f.platform, gen |-> g]
        <3>1. Drift!Returned(r, m, g) = Drift!Step(r, [f EXCEPT !.gen = g])
            BY <1>4 DEF Drift!Returned
        <3> QED
            BY <1>1, <1>4, <3>1 DEF ReaderOK, Drift!Step, Drift!NextRead
    <2> QED
        BY <1>1, <2>1 DEF ReaderOK
<1> QED
    BY <1>2, <1>3, <1>4

LEMMA BeginStep ==
    ASSUME DriftInv, NEW r \in Readers, Drift!BeginFrame(r)
    PROVE  DriftInv'
<1> DEFINE f == [Drift!Resting EXCEPT !.read = "drift"]
<1>1. /\ reader' = [reader EXCEPT ![r] = f] /\ frame' = [frame EXCEPT ![r] = None]
      /\ UNCHANGED <<apps, queue, store, watch, always, synced, maps>>
    BY DEF Drift!BeginFrame, Drift!watchVars
<1>2. ReaderOK(f)
    BY DEF ReaderOK, Drift!Resting
<1>3. /\ frame' = [q \in Readers |-> frame'[q]]
      /\ \A q \in Readers : frame'[q] # None => FrameOK(frame'[q])
    BY <1>1 DEF DriftInv
<1>4. maps' # None => MapsOK(maps)'
    BY <1>1 DEF DriftInv, MapsOK, RowsOK
<1> HIDE DEF f
<1> QED
    BY <1>1, <1>2, <1>3, <1>4, ReaderMoves

(* A reader that goes on with the same frame and maps.                     *)
LEMMA GoesOn ==
    ASSUME DriftInv, NEW r \in Readers, NEW read, NEW step, NEW f,
           f = [reader[r] EXCEPT !.read = read, !.step = step], reader' = [reader EXCEPT ![r] = f],
           step # "enter" => synced /\ read \in {"drift", "rollup", "gen"},
           UNCHANGED <<apps, queue, store, watch, always, synced, maps, frame>>
    PROVE  DriftInv'
<1>1. ReaderOK(f)
    <2>1. ReaderOK(reader[r])
        BY DEF DriftInv
    <2>2. PICK g : g = [reader[r] EXCEPT !.read = read] /\ f = [g EXCEPT !.step = step]
        OBVIOUS
    <2>3. g = [read |-> read, step |-> reader[r].step, drift |-> reader[r].drift,
               rollup |-> reader[r].rollup, platform |-> reader[r].platform, gen |-> reader[r].gen]
        BY <2>1, <2>2 DEF ReaderOK
    <2>4. f = [read |-> read, step |-> step, drift |-> reader[r].drift, rollup |-> reader[r].rollup,
               platform |-> reader[r].platform, gen |-> reader[r].gen]
        BY <2>2, <2>3
    <2> QED
        BY <2>1, <2>4 DEF ReaderOK
<1>2. /\ frame' = [q \in Readers |-> frame'[q]]
      /\ \A q \in Readers : frame'[q] # None => FrameOK(frame'[q])
    BY DEF DriftInv
<1>3. maps' # None => MapsOK(maps)'
    BY DEF DriftInv, MapsOK, RowsOK
<1> QED
    BY <1>1, <1>2, <1>3, ReaderMoves

(* A field of a reader's that changes is a reader that goes on.            *)
LEMMA Fields ==
    ASSUME DriftInv, NEW r \in Readers, NEW v
    PROVE  /\ [reader EXCEPT ![r].read = v] =
                  [reader EXCEPT ![r] = [reader[r] EXCEPT !.read = v, !.step = reader[r].step]]
           /\ [reader EXCEPT ![r].step = v] =
                  [reader EXCEPT ![r] = [reader[r] EXCEPT !.read = reader[r].read, !.step = v]]
<1>1. \A g : g = [read |-> g.read, step |-> g.step, drift |-> g.drift, rollup |-> g.rollup,
                  platform |-> g.platform, gen |-> g.gen] =>
          /\ [g EXCEPT !.read = v] = [g EXCEPT !.read = v, !.step = g.step]
          /\ [g EXCEPT !.step = v] = [g EXCEPT !.read = g.read, !.step = v]
    OBVIOUS
<1>2. /\ [reader[r] EXCEPT !.read = v] = [reader[r] EXCEPT !.read = v, !.step = reader[r].step]
      /\ [reader[r] EXCEPT !.step = v] = [reader[r] EXCEPT !.read = reader[r].read, !.step = v]
    <2>1. ReaderOK(reader[r])
        BY DEF DriftInv
    <2> QED
        BY <1>1, <2>1, Zenon DEF ReaderOK
<1> QED
    BY <1>2, Zenon

LEMMA EnterSteps ==
    ASSUME DriftInv, NEW r \in Readers, Drift!NotSynced(r) \/ Drift!Enter(r) \/ Drift!Rebuild(r)
    PROVE  DriftInv'
<1>1. CASE Drift!NotSynced(r)
    <2>1. reader[r].step = "enter" /\ UNCHANGED <<apps, queue, store, watch, always, synced, maps, frame>>
        BY <1>1 DEF Drift!NotSynced, Drift!watchVars
    <2>2. PICK v : reader' = [reader EXCEPT ![r].read = v]
        BY <1>1 DEF Drift!NotSynced
    <2>3. PICK f : f = [reader[r] EXCEPT !.read = v, !.step = reader[r].step]
        OBVIOUS
    <2>4. reader' = [reader EXCEPT ![r] = f]
        BY <2>2, <2>3, Fields
    <2> QED
        BY <2>1, <2>3, <2>4, GoesOn
<1>2. CASE Drift!Enter(r) \/ Drift!Rebuild(r)
    <2>1. /\ synced /\ reader[r].read \in {"drift", "rollup", "gen"}
          /\ UNCHANGED <<apps, queue, store, watch, always, synced, maps, frame>>
        BY <1>2 DEF Drift!Enter, Drift!Rebuild, Drift!watchVars, DriftInv, ReaderOK
    <2>2. PICK v : reader' = [reader EXCEPT ![r].step = v]
        BY <1>2 DEF Drift!Enter, Drift!Rebuild
    <2>3. PICK f : f = [reader[r] EXCEPT !.read = reader[r].read, !.step = v]
        OBVIOUS
    <2>4. reader' = [reader EXCEPT ![r] = f]
        BY <2>2, <2>3, Fields
    <2> QED
        BY <2>1, <2>3, <2>4, GoesOn
<1> QED
    BY <1>1, <1>2

LEMMA ReadStep ==
    ASSUME Drift!DriftAssumption, DriftInv, NEW r \in Readers, Drift!ReadMaps(r)
    PROVE  DriftInv'
<1>1. /\ reader' = [reader EXCEPT ![r] = Drift!Returned(r, maps, gen)]
      /\ UNCHANGED <<apps, queue, store, watch, always, synced, maps, frame>>
      /\ maps # None /\ reader[r].step = "lock"
    BY DEF Drift!ReadMaps, Drift!watchVars
<1>2. MapsOK(maps) /\ ReaderOK(reader[r])
    BY <1>1 DEF DriftInv
<1>3. reader[r].read \in {"drift", "rollup", "gen"}
    BY <1>1, <1>2 DEF ReaderOK
<1>4. ReaderOK(Drift!Returned(r, maps, gen))
    BY <1>2, <1>3, ReturnedOK
<1>5. /\ frame' = [q \in Readers |-> frame'[q]]
      /\ \A q \in Readers : frame'[q] # None => FrameOK(frame'[q])
    BY <1>1 DEF DriftInv
<1>6. MapsOK(maps)'
    BY <1>1, <1>2 DEF MapsOK, RowsOK
<1> QED
    BY <1>1, <1>4, <1>5, <1>6, ReaderMoves

LEMMA ScanStep ==
    ASSUME Drift!DriftAssumption, DriftInv, NEW r \in Readers, Drift!ScanStore(r)
    PROVE  DriftInv' /\ maps' = Drift!BuildMaps(Drift!Places(DOMAIN store))
<1>1. PICK list \in Drift!Bijection(1..Cardinality(DOMAIN store), DOMAIN store) : maps' = Drift!BuildMaps(Drift!Sorted(list))
    BY Counts, Zenon DEF Drift!ScanStore
<1>2. /\ reader' = [reader EXCEPT ![r] = Drift!Returned(r, maps', gen')]
      /\ UNCHANGED <<apps, queue, store, watch, always, synced, frame>>
      /\ reader[r].step = "scan"
    BY DEF Drift!ScanStore, Drift!watchVars
<1>3. store \in Drift!AppSets /\ ReaderOK(reader[r])
    BY DEF DriftInv, WatchInv
<1>4. maps' = Drift!BuildMaps(Drift!Places(DOMAIN store))
    BY <1>1, <1>3, ListsAll DEF Drift!Sorted
<1>5. synced /\ reader[r].read \in {"drift", "rollup", "gen"}
    BY <1>2, <1>3 DEF ReaderOK
<1>6. Covered(0)
    <2>1. Len(queue) \in Nat
        BY DEF DriftInv, WatchInv
    <2> QED
        BY <1>5, <2>1 DEF DriftInv, WatchInv
<1>7. PICK m : m = maps' /\ MapsOK(m)
    BY <1>3, <1>4, <1>6, BuiltOK
<1>8. PICK g : g = gen'
    OBVIOUS
<1>9. ReaderOK(Drift!Returned(r, m, g))
    BY <1>5, <1>7, ReturnedOK
<1>10. /\ frame' = [q \in Readers |-> frame'[q]]
       /\ \A q \in Readers : frame'[q] # None => FrameOK(frame'[q])
    BY <1>2 DEF DriftInv
<1>11. MapsOK(maps)'
    BY <1>2, <1>7 DEF MapsOK, RowsOK
<1>12. DriftInv'
    BY <1>2, <1>7, <1>8, <1>9, <1>10, <1>11, ReaderMoves
<1> QED
    BY <1>4, <1>12

LEMMA FrameStep ==
    ASSUME Drift!DriftAssumption, DriftInv, NEW r \in Readers, Drift!BuildInventory(r)
    PROVE  DriftInv'
<1>1. PICK readable \in BOOLEAN :
          frame' = [frame EXCEPT ![r] =
              [vms |-> Drift!VmRows(reader[r], readable), error |-> ~readable,
               rollup |-> reader[r].rollup,
               platform |-> IF reader[r].drift = None THEN None ELSE reader[r].platform,
               gen |-> reader[r].gen]]
    BY DEF Drift!BuildInventory
<1>2. /\ reader' = [reader EXCEPT ![r] = Drift!Resting]
      /\ UNCHANGED <<apps, queue, store, watch, always, synced, maps>>
    BY DEF Drift!BuildInventory, Drift!watchVars
<1> DEFINE f == [vms |-> Drift!VmRows(reader[r], readable), error |-> ~readable,
                 rollup |-> reader[r].rollup,
                 platform |-> IF reader[r].drift = None THEN None ELSE reader[r].platform,
                 gen |-> reader[r].gen]
<1>3. ReaderOK(reader[r]) /\ ReaderOK(Drift!Resting)
    BY DEF DriftInv, ReaderOK, Drift!Resting
<1>4. FrameOK(f)
    <2>1. ASSUME readable, NEW v \in Declared \intersect always
          PROVE  f.vms[v] \notin {"NotTracked", "Pending"}
        <3>1. f.vms[v] = Drift!Enrich(v, reader[r].drift)
            BY <2>1 DEF Drift!VmRows
        <3>2. v \in always \intersect VMs
            BY DEF Drift!DriftAssumption
        <3> QED
            BY <1>3, <3>1, <3>2 DEF ReaderOK, RowsOK, Drift!Enrich, Drift!DriftAssumption
    <2>2. ~f.error => readable
        OBVIOUS
    <2>3. Platform \in always => f.platform = None \/ f.platform.error # "missing"
        BY <1>3 DEF ReaderOK
    <2> HIDE DEF f
    <2> QED
        BY <2>1, <2>2, <2>3 DEF FrameOK
<1>5. /\ frame' = [q \in Readers |-> frame'[q]]
      /\ \A q \in Readers : frame'[q] # None => FrameOK(frame'[q])
    <2>1. frame' = [frame EXCEPT ![r] = f]
        BY <1>1
    <2> HIDE DEF f
    <2> QED
        BY <1>4, <2>1 DEF DriftInv
<1>6. maps' # None => MapsOK(maps)'
    BY <1>2 DEF DriftInv, MapsOK, RowsOK
<1> QED
    BY <1>2, <1>3, <1>5, <1>6, ReaderMoves

(* The steps of the watch, with the readers where they were.               *)
LEMMA WatchStep ==
    ASSUME Drift!DriftAssumption, DriftInv,
           \/ \E a \in Names : Drift!ArgoMoves(a)
           \/ Drift!Listed \/ Drift!Marked \/ Drift!Delivered \/ Drift!Dropped \/ Drift!Signalled
           \/ UNCHANGED Drift!vars
    PROVE  DriftInv' /\ UNCHANGED <<maps, owner>>
<1>0. synced => synced'
    <2>1. synced' = TRUE \/ synced' = synced
        BY Zenon DEF Drift!ArgoMoves, Drift!Listed, Drift!Marked, Drift!Delivered,
           Drift!Dropped, Drift!Signalled, Drift!readVars, Drift!vars
    <2> QED
        BY <2>1, Zenon
<1>1. always' \subseteq always /\ UNCHANGED <<maps, reader, frame, owner>>
    BY DEF Drift!ArgoMoves, Drift!Listed, Drift!Marked, Drift!Delivered, Drift!Dropped,
           Drift!Signalled, Drift!readVars, Drift!vars
<1>2. WatchInv'
    <2>1. CASE \E a \in Names : Drift!ArgoMoves(a)
        BY <2>1, ArgoStep DEF DriftInv
    <2>2. CASE Drift!Listed
        BY <2>2, ListStep DEF DriftInv
    <2>3. CASE Drift!Delivered
        BY <2>3, DeliverStep DEF DriftInv
    <2>4. CASE Drift!Dropped
        BY <2>4, DropStep DEF DriftInv
    <2>5. CASE Drift!Marked \/ Drift!Signalled \/ UNCHANGED Drift!vars
        <3>1. /\ UNCHANGED <<apps, queue, store, always>>
              /\ (synced' = synced /\ watch' = watch) \/ (watch # "list" /\ watch' # "list")
            BY <2>5 DEF Drift!Marked, Drift!Signalled, Drift!vars
        <3> QED
            BY <3>1, WatchStays DEF DriftInv
    <2> QED
        BY <2>1, <2>2, <2>3, <2>4, <2>5
<1> QED
    BY <1>0, <1>1, <1>2, ReadersStay DEF DriftInv

(* The maps that nothing says to rebuild are those of the store.           *)
LEMMA DriftStep ==
    ASSUME Drift!DriftAssumption, DriftInv, Drift!MapsCurrent, [Drift!Next]_(Drift!vars)
    PROVE  DriftInv' /\ Drift!MapsCurrent'
<1>0. store' = store => Drift!BuildMaps(Drift!Places(DOMAIN store))' =
                        Drift!BuildMaps(Drift!Places(DOMAIN store))
    BY DEF Drift!BuildMaps, Drift!Places
<1>1. ASSUME \/ \E a \in Names : Drift!ArgoMoves(a)
             \/ Drift!Listed \/ Drift!Marked \/ Drift!Delivered \/ Drift!Dropped \/ Drift!Signalled
             \/ UNCHANGED Drift!vars
      PROVE  DriftInv' /\ Drift!MapsCurrent'
    <2>1. DriftInv' /\ UNCHANGED <<maps, owner>>
        BY <1>1, WatchStep
    <2>2. Drift!Settled' => Drift!Settled /\ store' = store
        BY <1>1, <2>1 DEF Drift!Settled, Drift!ArgoMoves, Drift!Listed, Drift!Marked,
           Drift!Delivered, Drift!Dropped, Drift!Signalled, Drift!readVars, Drift!vars
    <2> QED
        BY <1>0, <2>1, <2>2 DEF Drift!MapsCurrent
<1>2. ASSUME NEW r \in Readers,
             \/ Drift!BeginFrame(r) \/ Drift!NotSynced(r) \/ Drift!Enter(r) \/ Drift!ReadMaps(r)
             \/ Drift!Rebuild(r) \/ Drift!BuildInventory(r)
      PROVE  DriftInv' /\ Drift!MapsCurrent'
    <2>1. DriftInv'
        BY <1>2, BeginStep, EnterSteps, ReadStep, FrameStep
    <2>2. Drift!Settled' => Drift!Settled /\ store' = store /\ maps' = maps
        BY <1>2 DEF Drift!Settled, Drift!BeginFrame, Drift!NotSynced, Drift!Enter, Drift!ReadMaps,
           Drift!Rebuild, Drift!BuildInventory, Drift!watchVars, Drift!DriftAssumption
    <2> QED
        BY <1>0, <2>1, <2>2 DEF Drift!MapsCurrent
<1>3. ASSUME NEW r \in Readers, Drift!ScanStore(r)
      PROVE  DriftInv' /\ Drift!MapsCurrent'
    <2>1. DriftInv' /\ maps' = Drift!BuildMaps(Drift!Places(DOMAIN store))
        BY <1>3, ScanStep
    <2>2. store' = store
        BY <1>3 DEF Drift!ScanStore, Drift!watchVars
    <2> QED
        BY <1>0, <2>1, <2>2 DEF Drift!MapsCurrent
<1> QED
    BY <1>1, <1>2, <1>3 DEF Drift!Next, Names

LEMMA DriftRuns ==
    ASSUME Drift!DriftAssumption
    PROVE  Drift!Spec => [](DriftInv /\ Drift!MapsCurrent)
<1>1. Drift!Init => Drift!MapsCurrent
    BY DEF Drift!Init, Drift!MapsCurrent, Drift!Settled
<1>2. DriftInv /\ Drift!MapsCurrent /\ [Drift!Next]_(Drift!vars) => (DriftInv /\ Drift!MapsCurrent)'
    BY DriftStep
<1> QED
    BY <1>1, <1>2, DriftInit, PTL DEF Drift!Spec

(* The part of GitParts does what the component does.                      *)
LEMMA DriftPart ==
    ASSUME Drift!DriftAssumption
    PROVE  PartsSpec => [](part = "drift" => DriftInv /\ Drift!MapsCurrent)
<1>0. Drift!Init => Drift!MapsCurrent
    BY DEF Drift!Init, Drift!MapsCurrent, Drift!Settled
<1>1. PartsInit => (part = "drift" => DriftInv /\ Drift!MapsCurrent)
    BY DriftInit, <1>0 DEF PartsInit
<1>2. (part = "drift" => DriftInv /\ Drift!MapsCurrent) /\ [PartsNext]_partsVars => (part = "drift" => DriftInv /\ Drift!MapsCurrent)'
    <2> SUFFICES ASSUME DriftInv /\ Drift!MapsCurrent, [PartsNext]_partsVars, part = "drift" PROVE (DriftInv /\ Drift!MapsCurrent)'
        BY DEF PartsNext, partsVars
    <2>1. [Drift!Next]_(Drift!vars)
        BY DEF PartsNext, partsVars, driftVars, Drift!vars
    <2> QED
        BY <2>1, DriftStep
<1> QED
    BY <1>1, <1>2, PTL DEF PartsSpec

(* Maps that no mark says to rebuild are those of the store, however       *)
(* events and readers interleaved (rebuildLocked and Run, snapshot.go).    *)
THEOREM MemoIsCurrent ==
    ASSUME Drift!DriftAssumption
    PROVE  (Drift!Spec => []Drift!MapsCurrent) /\ (PartsSpec => []MapsCurrent)
<1>1. Drift!Spec => []Drift!MapsCurrent
    BY DriftRuns, PTL
<1>2. (part = "drift" => DriftInv /\ Drift!MapsCurrent) => MapsCurrent
    BY DEF MapsCurrent
<1> QED
    BY <1>1, <1>2, DriftPart, PTL

(* A VM of git that Argo CD has managed all along is shown as such, or     *)
(* with no status, and a platform Application that was there all along is  *)
(* never missing: through re-lists, events that lag, and maps read one     *)
(* call after the other (handlers_inventory.go).                           *)
THEOREM ManagedIsShown ==
    ASSUME Drift!DriftAssumption
    PROVE  (Drift!Spec => []Drift!ManagedShown) /\ (PartsSpec => []ManagedShown)
<1>1. DriftInv => Drift!ManagedShown
    BY DEF DriftInv, FrameOK, Drift!ManagedShown
<1>2. Drift!Spec => []Drift!ManagedShown
    BY <1>1, DriftRuns, PTL
<1>3. (part = "drift" => DriftInv /\ Drift!MapsCurrent) => ManagedShown
    BY <1>1 DEF ManagedShown
<1> QED
    BY <1>2, <1>3, DriftPart, PTL

--------------------------------------------------------------------------------
(* The edits of a VM's manifest.                                           *)

(* Of the manifest that w was made from, w keeps the size.                 *)
SameSize(m, w) ==
    /\ DOMAIN w = Vm!Fields
    /\ w.instancetype = m.instancetype /\ w.cpu = m.cpu
    /\ w.guest = m.guest /\ w.requests = m.requests

OneSize(m) ==
    \/ m.instancetype = None
    \/ m.cpu = [cores |-> 0, sockets |-> 0, threads |-> 0] /\ m.guest = None /\ m.requests = None

(* What the edit of a manifest m may leave of its size, in w: one          *)
(* representation, or an empty instance type that was given to none.       *)
SizedFrom(m, w) == OneSize(w) \/ (m.instancetype = None /\ w.instancetype = Vm!Ref(""))

(* What git holds, and what runs, the API server has admitted.             *)
VmInv == Vm!Admitted(vm) /\ Vm!Admitted(live)

(* Sized leaves one representation of the size, but for that.              *)
LEMMA SizedOnce ==
    ASSUME NEW m, NEW e, DOMAIN m = Vm!Fields
    PROVE  DOMAIN Vm!Sized(m, e) = Vm!Fields /\ SizedFrom(m, Vm!Sized(m, e))
<1> DEFINE chosen == Vm!WithInstancetype(m, e)
           none == [m EXCEPT !.instancetype = None]
           wins == m.instancetype # None \/ e.instancetype \notin {None, ""}
<1>1. /\ DOMAIN chosen = Vm!Fields /\ DOMAIN none = Vm!Fields /\ none.instancetype = None
      /\ chosen.instancetype = IF e.instancetype = None THEN m.instancetype ELSE Vm!Ref(e.instancetype)
    BY DEF Vm!WithInstancetype, Vm!Fields
<1>2. ASSUME NEW w, DOMAIN w = Vm!Fields
      PROVE  DOMAIN Vm!Inline(w, e) = Vm!Fields /\ Vm!Inline(w, e).instancetype = w.instancetype
    <2> DEFINE v == Vm!WithCpu(w, e.cpu)
    <2>1. DOMAIN v = Vm!Fields /\ v.instancetype = w.instancetype
        BY <1>2 DEF Vm!WithCpu, Vm!Fields
    <2> HIDE DEF v
    <2>2. /\ DOMAIN Vm!WithMemory(v, e.memory) = Vm!Fields
          /\ Vm!WithMemory(v, e.memory).instancetype = v.instancetype
        BY <2>1 DEF Vm!WithMemory, Vm!Fields
    <2> QED
        BY <2>1, <2>2 DEF Vm!Inline, v
<1>3. DOMAIN Vm!StripInline(chosen) = Vm!Fields /\ OneSize(Vm!StripInline(chosen))
    BY <1>1 DEF Vm!StripInline, OneSize, Vm!Fields
<1>4. Vm!Sized(m, e) = IF e.sizing = "custom" THEN Vm!Inline(none, e)
                       ELSE IF e.sizing = "instancetype" \/ wins THEN Vm!StripInline(chosen)
                       ELSE Vm!Inline(chosen, e)
    BY Zenon DEF Vm!Sized
<1>5. ~wins => chosen.instancetype = None \/ (m.instancetype = None /\ chosen.instancetype = Vm!Ref(""))
    BY <1>1
<1> HIDE DEF chosen, none, wins
<1>6. CASE e.sizing = "custom"
    BY <1>1, <1>2, <1>4, <1>6 DEF OneSize, SizedFrom
<1>7. CASE e.sizing # "custom" /\ (e.sizing = "instancetype" \/ wins)
    BY <1>3, <1>4, <1>7 DEF SizedFrom
<1>8. CASE e.sizing # "custom" /\ e.sizing # "instancetype" /\ ~wins
    BY <1>1, <1>2, <1>4, <1>5, <1>8 DEF OneSize, SizedFrom
<1> QED
    BY <1>6, <1>7, <1>8

(* The appliers before it keep the fields, those after it the size.        *)
LEMMA EditedOnce ==
    ASSUME NEW m, NEW e, DOMAIN m = Vm!Fields
    PROVE  DOMAIN Vm!ApplyEdit(m, e) = Vm!Fields /\ SizedFrom(m, Vm!ApplyEdit(m, e))
<1> DEFINE sized     == Vm!Sized(Vm!Powered(m, e), e)
           preferred == Vm!Preferred(sized, e)
           labelled  == Vm!Labelled(preferred, e)
           placed    == Vm!Placed(labelled, e)
           marked    == Vm!Marked(placed, e)
           disked    == Vm!WithDisks(marked, e)
           netted    == Vm!WithNets(disked, e)
<1>1. DOMAIN Vm!Powered(m, e) = Vm!Fields /\ Vm!Powered(m, e).instancetype = m.instancetype
    BY DEF Vm!Powered, Vm!Fields
<1>2. DOMAIN sized = Vm!Fields /\ SizedFrom(m, sized)
    BY <1>1, SizedOnce DEF SizedFrom
<1> HIDE DEF sized
<1>3. SameSize(sized, preferred)
    BY <1>2 DEF Vm!Preferred, SameSize, Vm!Fields
<1> HIDE DEF preferred
<1>4. SameSize(sized, labelled)
    BY <1>3 DEF Vm!Labelled, SameSize, Vm!Fields
<1> HIDE DEF labelled
<1>5. SameSize(sized, placed)
    BY <1>4 DEF Vm!Placed, SameSize, Vm!Fields
<1> HIDE DEF placed
<1>6. SameSize(sized, marked)
    BY <1>5 DEF Vm!Marked, SameSize, Vm!Fields
<1> HIDE DEF marked
<1>7. SameSize(sized, disked)
    BY <1>6 DEF Vm!WithDisks, SameSize, Vm!Fields
<1> HIDE DEF disked
<1>8. SameSize(sized, netted)
    BY <1>7 DEF Vm!WithNets, SameSize, Vm!Fields
<1> HIDE DEF netted
<1>9. SameSize(sized, Vm!Migrated(m, netted, e))
    BY <1>8 DEF Vm!Migrated, SameSize, Vm!Fields
<1>10. Vm!ApplyEdit(m, e) = Vm!Migrated(m, netted, e)
    BY DEF Vm!ApplyEdit, Vm!Appliers, netted, disked, marked, placed, labelled, preferred, sized
<1> QED
    BY <1>2, <1>9, <1>10 DEF SameSize, OneSize, SizedFrom

(* Two manifests that differ in some fields only.                        *)
SameBut(m, w, F) == DOMAIN w = Vm!Fields /\ \A f \in Vm!Fields \ F : w[f] = m[f]

LEMMA PoweredSame ==
    ASSUME NEW m, NEW e, DOMAIN m = Vm!Fields
    PROVE  SameBut(m, Vm!Powered(m, e), {"running", "strategy"})
BY DEF SameBut, Vm!Powered, Vm!Fields

LEMMA SizedSame ==
    ASSUME NEW m, NEW e, DOMAIN m = Vm!Fields
    PROVE  SameBut(m, Vm!Sized(m, e), {"instancetype", "cpu", "guest", "requests"})
<1> DEFINE F == {"instancetype", "cpu", "guest", "requests"}
           chosen == Vm!WithInstancetype(m, e)
           none == [m EXCEPT !.instancetype = None]
<1>1. SameBut(m, chosen, F)
    BY DEF SameBut, Vm!WithInstancetype, Vm!Fields
<1>2. SameBut(m, none, F)
    BY DEF SameBut, Vm!Fields
<1>3. ASSUME NEW w, SameBut(m, w, F) PROVE SameBut(m, Vm!Inline(w, e), F)
    <2> DEFINE v == Vm!WithCpu(w, e.cpu)
    <2>1. SameBut(m, v, F)
        BY <1>3 DEF SameBut, Vm!WithCpu
    <2> HIDE DEF v
    <2>2. SameBut(m, Vm!WithMemory(v, e.memory), F)
        BY <2>1 DEF SameBut, Vm!WithMemory
    <2> QED
        BY <2>2 DEF Vm!Inline, v
<1>4. ASSUME NEW w, SameBut(m, w, F) PROVE SameBut(m, Vm!StripInline(w), F)
    BY <1>4 DEF SameBut, Vm!StripInline
<1> HIDE DEF chosen, none
<1>5. Vm!Sized(m, e) \in {Vm!Inline(none, e), Vm!StripInline(chosen), Vm!Inline(chosen, e)}
    BY DEF Vm!Sized, chosen, none
<1> HIDE DEF F
<1>6. SameBut(m, Vm!Sized(m, e), F)
    BY <1>1, <1>2, <1>3, <1>4, <1>5
<1> QED
    BY <1>6 DEF F

LEMMA PlacedSame ==
    ASSUME NEW m, NEW e, DOMAIN m = Vm!Fields
    PROVE  SameBut(m, Vm!Placed(m, e), {"selector", "affinity", "groups"})
BY DEF SameBut, Vm!Placed, Vm!Fields

LEMMA DisksSame ==
    ASSUME NEW m, NEW e, DOMAIN m = Vm!Fields
    PROVE  SameBut(m, Vm!WithDisks(m, e), {"disks", "volumes", "templates"})
BY DEF SameBut, Vm!WithDisks, Vm!Fields

LEMMA NetsSame ==
    ASSUME NEW m, NEW e, DOMAIN m = Vm!Fields
    PROVE  SameBut(m, Vm!WithNets(m, e), {"nics", "nets"})
BY DEF SameBut, Vm!WithNets, Vm!Fields

LEMMA MigratedSame ==
    ASSUME NEW m, NEW w, NEW e, DOMAIN w = Vm!Fields
    PROVE  SameBut(w, Vm!Migrated(m, w, e), {"templates", "volumes", "updates"})
BY DEF SameBut, Vm!Migrated, Vm!Fields

(* The manifest before its lists of devices change.                      *)
Scalared(m, e) == Vm!Marked(Vm!Placed(Vm!Labelled(Vm!Preferred(Vm!Sized(Vm!Powered(m, e), e), e), e), e), e)

LEMMA ScalaredIs ==
    ASSUME NEW m, NEW e, DOMAIN m = Vm!Fields
    PROVE  LET w == Scalared(m, e)
               p == Vm!Powered(m, e)
               s == Vm!Sized(p, e)
           IN  /\ DOMAIN w = Vm!Fields
               /\ w.running = p.running /\ w.strategy = p.strategy
               /\ w.instancetype = s.instancetype /\ w.cpu = s.cpu
               /\ w.guest = s.guest /\ w.requests = s.requests
               /\ w.preference = IF e.preference = None THEN m.preference ELSE Vm!Ref(e.preference)
               /\ w.labels = Vm!MapEdited(m.labels, e.labels, e.dropLabels)
               /\ w.excluded = IF e.excluded = None THEN m.excluded ELSE e.excluded
               /\ w.eviction = IF e.eviction = None THEN m.eviction ELSE e.eviction
               /\ \A f \in {"disks", "volumes", "templates", "nics", "nets", "autoattach", "updates"} : w[f] = m[f]
<1> DEFINE p == Vm!Powered(m, e)
           s == Vm!Sized(p, e)
           pref == Vm!Preferred(s, e)
           lab == Vm!Labelled(pref, e)
           pl == Vm!Placed(lab, e)
           mk == Vm!Marked(pl, e)
<1>1. SameBut(m, p, {"running", "strategy"})
    BY PoweredSame
<1> HIDE DEF p
<1>2. SameBut(p, s, {"instancetype", "cpu", "guest", "requests"})
    BY <1>1, SizedSame DEF SameBut
<1> HIDE DEF s
<1>3. /\ SameBut(s, pref, {"preference"})
      /\ pref.preference = IF e.preference = None THEN s.preference ELSE Vm!Ref(e.preference)
    BY <1>2 DEF SameBut, Vm!Preferred, Vm!Fields
<1> HIDE DEF pref
<1>4. /\ SameBut(pref, lab, {"labels"})
      /\ lab.labels = Vm!MapEdited(pref.labels, e.labels, e.dropLabels)
    BY <1>3 DEF SameBut, Vm!Labelled, Vm!Fields
<1> HIDE DEF lab
<1>5. SameBut(lab, pl, {"selector", "affinity", "groups"})
    BY <1>4, PlacedSame DEF SameBut
<1> HIDE DEF pl
<1>6. /\ SameBut(pl, mk, {"excluded", "eviction"})
      /\ mk.excluded = IF e.excluded = None THEN pl.excluded ELSE e.excluded
      /\ mk.eviction = IF e.eviction = None THEN pl.eviction ELSE e.eviction
    BY <1>5 DEF SameBut, Vm!Marked, Vm!Fields
<1> HIDE DEF mk
<1>7. Scalared(m, e) = mk
    BY DEF Scalared, mk, pl, lab, pref, s, p
<1>8. mk.running = p.running /\ mk.strategy = p.strategy
    BY <1>2, <1>3, <1>4, <1>5, <1>6 DEF SameBut, Vm!Fields
<1>9. /\ mk.instancetype = s.instancetype /\ mk.cpu = s.cpu
      /\ mk.guest = s.guest /\ mk.requests = s.requests
    BY <1>3, <1>4, <1>5, <1>6 DEF SameBut, Vm!Fields
<1>10. mk.preference = IF e.preference = None THEN m.preference ELSE Vm!Ref(e.preference)
    BY <1>1, <1>2, <1>3, <1>4, <1>5, <1>6 DEF SameBut, Vm!Fields
<1>11. mk.labels = Vm!MapEdited(m.labels, e.labels, e.dropLabels)
    BY <1>1, <1>2, <1>3, <1>4, <1>5, <1>6 DEF SameBut, Vm!Fields
<1>12. /\ mk.excluded = IF e.excluded = None THEN m.excluded ELSE e.excluded
       /\ mk.eviction = IF e.eviction = None THEN m.eviction ELSE e.eviction
    BY <1>1, <1>2, <1>3, <1>4, <1>5, <1>6 DEF SameBut, Vm!Fields
<1>13. \A f \in {"disks", "volumes", "templates", "nics", "nets", "autoattach", "updates"} : mk[f] = m[f]
    BY <1>1, <1>2, <1>3, <1>4, <1>5, <1>6 DEF SameBut, Vm!Fields
<1> QED
    BY <1>6, <1>7, <1>8, <1>9, <1>10, <1>11, <1>12, <1>13 DEF SameBut, p, s

(* What an edit leaves in each field, of the manifest that was read.     *)
LEMMA Applied ==
    ASSUME NEW m, NEW e, DOMAIN m = Vm!Fields
    PROVE  LET w == Vm!Appliers(m, e)
           IN  /\ SameBut(Scalared(m, e), w, {"disks", "volumes", "templates", "nics", "nets"})
               /\ w.disks = Vm!WithDisks(m, e).disks /\ w.volumes = Vm!WithDisks(m, e).volumes
               /\ w.templates = Vm!WithDisks(m, e).templates
               /\ w.nics = Vm!WithNets(m, e).nics /\ w.nets = Vm!WithNets(m, e).nets
<1> DEFINE mk == Scalared(m, e)
           dk == Vm!WithDisks(mk, e)
           nt == Vm!WithNets(dk, e)
<1>1. Vm!Appliers(m, e) = nt
    BY DEF Vm!Appliers, Scalared
<1>2. /\ DOMAIN mk = Vm!Fields
      /\ \A f \in {"disks", "volumes", "templates", "nics", "nets"} : mk[f] = m[f]
    BY ScalaredIs
<1> HIDE DEF mk
<1>3. SameBut(mk, dk, {"disks", "volumes", "templates"})
    BY <1>2, DisksSame
<1>4. dk.disks = Vm!WithDisks(m, e).disks /\ dk.volumes = Vm!WithDisks(m, e).volumes
    BY <1>2 DEF Vm!WithDisks, Vm!Fields
<1>5. dk.templates = Vm!WithDisks(m, e).templates
    <2>1. mk.volumes = m.volumes /\ mk.templates = m.templates
        BY <1>2
    <2>2. Vm!DvsOf(mk, e.dropDisks) = Vm!DvsOf(m, e.dropDisks)
        BY <2>1, Zenon DEF Vm!DvsOf
    <2> QED
        BY <1>2, <2>1, <2>2 DEF Vm!WithDisks, Vm!Fields
<1> HIDE DEF dk
<1>6. nt.nics = Vm!WithNets(m, e).nics /\ nt.nets = Vm!WithNets(m, e).nets
    BY <1>2, <1>3 DEF SameBut, Vm!WithNets, Vm!Fields
<1>7. SameBut(dk, nt, {"nics", "nets"})
    BY <1>3, NetsSame DEF SameBut
<1> HIDE DEF nt
<1> QED
    BY <1>1, <1>3, <1>4, <1>5, <1>6, <1>7 DEF SameBut, Vm!Fields, mk

LEMMA SameFlatten == \A s : Vm!FlattenSeq(s) = Net!FlattenSeq(s)
BY Zenon DEF Vm!FlattenSeq, Net!FlattenSeq

LEMMA SameCount == \A S : Vm!Cardinality(S) = Cardinality(S) /\ (Vm!IsFiniteSet(S) <=> IsFiniteSet(S))
BY Zenon DEF Vm!Cardinality, Cardinality, Vm!IsFiniteSet, IsFiniteSet

LEMMA ListIn ==
    ASSUME NEW s, Vm!IsList(s)
    PROVE  s \in Seq(Items(s))
BY DEF Vm!IsList, Items

LEMMA IsListOf ==
    ASSUME NEW S, NEW s \in Seq(S)
    PROVE  Vm!IsList(s)
BY DEF Vm!IsList

(* What is left of a list.                                               *)
Gone(s, names, i) == s[i].name \in names /\ \A j \in 1..(i - 1) : s[j].name # s[i].name

LEMMA WithoutItems ==
    ASSUME NEW S, NEW s \in Seq(S), NEW names
    PROVE  /\ Vm!Without(s, names) \in Seq(S)
           /\ Items(Vm!Without(s, names)) = {s[i] : i \in {j \in DOMAIN s : ~Gone(s, names, j)}}
<1> DEFINE n == Len(s)
           piece(i) == IF Gone(s, names, i) THEN << >> ELSE <<s[i]>>
           seqs == [i \in DOMAIN s |-> piece(i)]
<1>1. n \in Nat /\ DOMAIN s = 1..n /\ \A i \in DOMAIN s : s[i] \in S
    OBVIOUS
<1>2. Vm!Without(s, names) = Net!FlattenSeq(seqs)
    <2>1. Vm!Without(s, names) = Vm!FlattenSeq(seqs)
        BY Zenon DEF Vm!Without, Gone
    <2> QED
        BY <2>1, SameFlatten, Zenon
<1> HIDE DEF n
<1>3. \A i \in DOMAIN s : piece(i) \in Seq(S)
    <2>1. << >> \in Seq(S) /\ \A r \in S : <<r>> \in Seq(S)
        OBVIOUS
    <2> QED
        BY <1>1, <2>1
<1>4. \A i \in DOMAIN s : Items(piece(i)) = IF Gone(s, names, i) THEN {} ELSE {s[i]}
    <2>1. Items(<< >>) = {}
        BY DEF Items
    <2>2. \A r : Items(<<r>>) = {r}
        BY DEF Items
    <2> QED
        BY <2>1, <2>2
<1> HIDE DEF piece
<1>5. DOMAIN seqs = DOMAIN s /\ \A i \in DOMAIN s : seqs[i] = piece(i)
    OBVIOUS
<1>6. seqs \in Seq(Seq(S))
    BY <1>1, <1>3
<1> HIDE DEF seqs
<1>7. Net!FlattenSeq(seqs) \in Seq(S)
    BY <1>6, FlatItems
<1>8. Items(Net!FlattenSeq(seqs)) = UNION {Items(seqs[k]) : k \in DOMAIN seqs}
    BY <1>6, FlatItems
<1>9. UNION {Items(seqs[k]) : k \in DOMAIN seqs} = {s[i] : i \in {j \in DOMAIN s : ~Gone(s, names, j)}}
    <2>1. \A k \in DOMAIN seqs : Items(seqs[k]) = IF Gone(s, names, k) THEN {} ELSE {s[k]}
        BY <1>4, <1>5
    <2> DEFINE gone(k) == Gone(s, names, k)
    <2> HIDE DEF gone
    <2>2. \A k \in DOMAIN seqs : Items(seqs[k]) = IF gone(k) THEN {} ELSE {s[k]}
        BY <2>1 DEF gone
    <2>3. UNION {Items(seqs[k]) : k \in DOMAIN seqs} = {s[i] : i \in {j \in DOMAIN seqs : ~gone(j)}}
        BY <2>2
    <2> QED
        BY <1>5, <2>3 DEF gone
<1> QED
    BY <1>2, <1>7, <1>8, <1>9

LEMMA NamesOfItems ==
    ASSUME NEW s
    PROVE  Vm!NamesOf(s) = {x.name : x \in Items(s)}
BY DEF Vm!NamesOf, Items

(* No two items of one name.                                             *)
LEMMA NamedOnce ==
    ASSUME NEW s, Vm!IsList(s), Vm!Distinct(s)
    PROVE  \A i, j \in DOMAIN s : s[i].name = s[j].name => i = j
<1> DEFINE n == Len(s)
           names == Vm!NamesOf(s)
           f == [i \in 1..n |-> s[i].name]
<1>1. n \in Nat /\ DOMAIN s = 1..n
    BY DEF Vm!IsList
<1>2. Cardinality(names) = n
    BY SameCount, Zenon DEF Vm!Distinct
<1>3. f \in Surjection(1..n, names)
    BY <1>1 DEF Surjection, Vm!NamesOf
<1> HIDE DEF n, names, f
<1>4. IsFiniteSet(1..n) /\ Cardinality(1..n) = n
    BY <1>1, FS_Interval
<1>5. f \in Injection(1..n, names)
    BY <1>2, <1>3, <1>4, FS_SurjSameCardinalityImpliesInj
<1> QED
    BY <1>1, <1>5 DEF f, Injection, IsInjective

LEMMA WithoutNames ==
    ASSUME NEW s, Vm!IsList(s), Vm!Distinct(s), NEW names
    PROVE  Vm!NamesOf(Vm!Without(s, names)) = Vm!NamesOf(s) \ names
<1>1. \A i, j \in DOMAIN s : s[i].name = s[j].name => i = j
    BY NamedOnce
<1>2. Items(Vm!Without(s, names)) = {s[i] : i \in {j \in DOMAIN s : ~Gone(s, names, j)}}
    BY ListIn, WithoutItems
<1>3. \A i \in DOMAIN s : Gone(s, names, i) <=> s[i].name \in names
    <2>1. \A i \in DOMAIN s : \A j \in 1..(i - 1) : j \in DOMAIN s /\ j # i
        BY DEF Vm!IsList
    <2> QED
        BY <1>1, <2>1 DEF Gone
<1>4. Vm!NamesOf(Vm!Without(s, names)) = {x.name : x \in {s[i] : i \in {j \in DOMAIN s : s[j].name \notin names}}}
    BY <1>2, <1>3, NamesOfItems
<1>5. Vm!NamesOf(s) = {s[i].name : i \in DOMAIN s}
    BY DEF Vm!NamesOf
<1> QED
    BY <1>4, <1>5

(* A set as a list.                                                      *)
LEMMA SetList ==
    ASSUME NEW S, Vm!IsFiniteSet(S)
    PROVE  Vm!SetToSeq(S) \in Seq(S) /\ Items(Vm!SetToSeq(S)) = S
<1> DEFINE n == Cardinality(S)
           f == Vm!SetToSeq(S)
<1>1. IsFiniteSet(S)
    BY SameCount
<1>2. n \in Nat /\ ExistsBijection(1..n, S)
    BY <1>1, FS_CardinalityType
<1>3. f = CHOOSE g \in [1..n -> S] : \A a, b \in DOMAIN g : g[a] = g[b] => a = b
    BY SameCount, Zenon DEF Vm!SetToSeq, Vm!IsInjective
<1>4. \E g \in [1..n -> S] : \A a, b \in DOMAIN g : g[a] = g[b] => a = b
    BY <1>2 DEF ExistsBijection, Bijection, Injection, IsInjective
<1>5. f \in Injection(1..n, S)
    BY <1>3, <1>4 DEF Injection, IsInjective
<1>6. IsFiniteSet(1..n) /\ Cardinality(1..n) = n
    BY <1>2, FS_Interval
<1> HIDE DEF n, f
<1>7. f \in Surjection(1..n, S)
    BY <1>1, <1>5, <1>6, FS_Injection DEF n
<1>8. f \in [1..n -> S] /\ \A x \in S : \E i \in 1..n : f[i] = x
    BY <1>7 DEF Surjection
<1> QED
    BY <1>2, <1>8 DEF f, Items

LEMMA ChangedList ==
    ASSUME NEW s, Vm!IsList(s), NEW names, NEW A, NEW added \in Seq(A)
    PROVE  Vm!IsList(Vm!Changed(s, names, added))
<1> DEFINE S == Items(s) \union A
           left_ == Vm!Without(s, names)
           more == IF s = << >> THEN << >> ELSE added
<1>1. s \in Seq(S) /\ added \in Seq(S) /\ << >> \in Seq(S)
    BY ListIn
<1> HIDE DEF S
<1>2. left_ \in Seq(S)
    BY <1>1, WithoutItems
<1>3. more \in Seq(S)
    BY <1>1
<1> HIDE DEF left_, more
<1>4. left_ \o more \in Seq(S)
    BY <1>2, <1>3
<1>5. Vm!Changed(s, names, added) = left_ \o more
    BY DEF Vm!Changed, left_, more
<1> QED
    BY <1>4, <1>5, IsListOf

LEMMA ChangedNames ==
    ASSUME NEW s, Vm!IsList(s), s # <<>>, Vm!Distinct(s), NEW names, NEW A, NEW added \in Seq(A)
    PROVE  Vm!NamesOf(Vm!Changed(s, names, added)) = (Vm!NamesOf(s) \ names) \union Vm!NamesOf(added)
<1> DEFINE S == Items(s) \union A
           left_ == Vm!Without(s, names)
<1>1. s \in Seq(S) /\ added \in Seq(S)
    BY ListIn
<1> HIDE DEF S
<1>2. left_ \in Seq(S)
    BY <1>1, WithoutItems
<1>3. Vm!NamesOf(left_) = Vm!NamesOf(s) \ names
    BY WithoutNames
<1>4. Vm!Changed(s, names, added) = left_ \o added
    BY DEF Vm!Changed
<1> HIDE DEF left_
<1>5. Items(left_ \o added) = Items(left_) \union Items(added)
    BY <1>1, <1>2, ItemsJoined
<1>6. Vm!NamesOf(left_ \o added) = Vm!NamesOf(left_) \union Vm!NamesOf(added)
    <2> DEFINE name(x) == x.name
    <2>1. \A t : Vm!NamesOf(t) = {name(x) : x \in Items(t)}
        BY NamesOfItems
    <2> HIDE DEF name
    <2> QED
        BY <1>5, <2>1
<1> QED
    BY <1>3, <1>4, <1>6

(* The items that a set of things to add becomes.                        *)
LEMMA AddedList ==
    ASSUME NEW S, Vm!IsFiniteSet(S), NEW F(_)
    PROVE  LET added == Vm!SetToSeq(S)
               items == [i \in DOMAIN added |-> F(added[i])]
           IN  items \in Seq({F(x) : x \in S}) /\ Items(items) = {F(x) : x \in S}
<1> DEFINE added == Vm!SetToSeq(S)
           items == [i \in DOMAIN added |-> F(added[i])]
<1>1. added \in Seq(S) /\ Items(added) = S
    BY SetList
<1> HIDE DEF added
<1>2. Len(added) \in Nat /\ DOMAIN added = 1..Len(added) /\ \A i \in DOMAIN added : added[i] \in S
    BY <1>1
<1>3. items \in Seq({F(x) : x \in S})
    BY <1>2
<1>4. Items(items) = {F(x) : x \in S}
    <2>1. Items(items) = {F(added[i]) : i \in DOMAIN added}
        BY DEF Items
    <2>2. S = {added[i] : i \in DOMAIN added}
        BY <1>1 DEF Items
    <2> QED
        BY <2>1, <2>2
<1> QED
    BY <1>3, <1>4 DEF added

(* The size that an edit leaves.                                         *)
LEMMA SizedCpu ==
    ASSUME NEW m, NEW e, DOMAIN m = Vm!Fields, m.cpu \in [cores : Nat, sockets : Nat, threads : Nat],
           e.cpu \in Nat \union {None}
    PROVE  Vm!Sized(m, e).cpu \in [cores : Nat, sockets : Nat, threads : Nat]
<1> DEFINE Axes == [cores : Nat, sockets : Nat, threads : Nat]
           chosen == Vm!WithInstancetype(m, e)
           none == [m EXCEPT !.instancetype = None]
<1>1. /\ DOMAIN chosen = Vm!Fields /\ chosen.cpu \in Axes
      /\ DOMAIN none = Vm!Fields /\ none.cpu \in Axes
    BY DEF Vm!WithInstancetype, Vm!Fields
<1>2. ASSUME NEW w, DOMAIN w = Vm!Fields, w.cpu \in Axes PROVE Vm!Inline(w, e).cpu \in Axes
    <2> DEFINE v == Vm!WithCpu(w, e.cpu)
    <2>1. DOMAIN v = Vm!Fields
        BY <1>2 DEF Vm!WithCpu
    <2>2. v.cpu \in Axes
        BY <1>2 DEF Vm!WithCpu, Vm!Fields
    <2> HIDE DEF v
    <2> QED
        BY <2>1, <2>2 DEF Vm!Inline, Vm!WithMemory, Vm!Fields, v
<1>3. ASSUME NEW w, DOMAIN w = Vm!Fields PROVE Vm!StripInline(w).cpu \in Axes
    BY <1>3 DEF Vm!StripInline, Vm!Fields
<1> HIDE DEF chosen, none
<1>4. Vm!Sized(m, e) \in {Vm!Inline(none, e), Vm!StripInline(chosen), Vm!Inline(chosen, e)}
    BY DEF Vm!Sized, chosen, none
<1> QED
    BY <1>1, <1>2, <1>3, <1>4

LEMMA SizedRef ==
    ASSUME NEW m, NEW e, DOMAIN m = Vm!Fields
    PROVE  Vm!Sized(m, e).instancetype \in
              {None, m.instancetype} \union {Vm!Ref(n) : n \in {e.instancetype} \ {None}}
<1> DEFINE chosen == Vm!WithInstancetype(m, e)
           none == [m EXCEPT !.instancetype = None]
           refs == {None, m.instancetype} \union {Vm!Ref(n) : n \in {e.instancetype} \ {None}}
<1>1. /\ DOMAIN chosen = Vm!Fields /\ chosen.instancetype \in refs
      /\ DOMAIN none = Vm!Fields /\ none.instancetype \in refs
    BY DEF Vm!WithInstancetype, Vm!Fields
<1> HIDE DEF refs
<1>2. ASSUME NEW w, DOMAIN w = Vm!Fields PROVE Vm!Inline(w, e).instancetype = w.instancetype
    <2> DEFINE v == Vm!WithCpu(w, e.cpu)
    <2>1. DOMAIN v = Vm!Fields /\ v.instancetype = w.instancetype
        BY <1>2 DEF Vm!WithCpu, Vm!Fields
    <2> HIDE DEF v
    <2> QED
        BY <2>1 DEF Vm!Inline, Vm!WithMemory, Vm!Fields, v
<1>3. ASSUME NEW w, DOMAIN w = Vm!Fields PROVE Vm!StripInline(w).instancetype = w.instancetype
    BY <1>3 DEF Vm!StripInline, Vm!Fields
<1> HIDE DEF chosen, none
<1>4. Vm!Sized(m, e) \in {Vm!Inline(none, e), Vm!StripInline(chosen), Vm!Inline(chosen, e)}
    BY DEF Vm!Sized, chosen, none
<1> QED
    BY <1>1, <1>2, <1>3, <1>4 DEF refs

(* What a reference may be.                                              *)
RefOK(ref) == ref # None => None \notin {ref.name, Vm!Ref(ref.name)}

LEMMA NewRefOK ==
    ASSUME NEW name, name # None, Vm!Ref(name) # None
    PROVE  RefOK(Vm!Ref(name)) /\ Vm!Ref(name).name = name
BY DEF RefOK, Vm!Ref

LEMMA DisksAreLists ==
    ASSUME NEW m, Vm!Admitted(m), NEW e, Vm!Requested(e)
    PROVE  LET w == Vm!WithDisks(m, e)
           IN  /\ Vm!IsList(w.disks) /\ Vm!IsList(w.volumes)
               /\ m.templates # None \/ w.templates # None => Vm!IsList(w.templates)
<1> DEFINE w == Vm!WithDisks(m, e)
           added == Vm!SetToSeq(e.addDisks)
           bares == [i \in DOMAIN added |-> [name |-> added[i].name]]
           vols == [i \in DOMAIN added |-> Vm!VolumeOf(added[i])]
           new == [i \in DOMAIN added |-> Vm!Blank(added[i])]
<1>1. added \in Seq(e.addDisks)
    BY SetList DEF Vm!Requested
<1>2. /\ bares \in Seq({[name |-> d.name] : d \in e.addDisks})
      /\ vols \in Seq({Vm!VolumeOf(d) : d \in e.addDisks})
      /\ new \in Seq({Vm!Blank(d) : d \in e.addDisks})
    <2>1. Len(added) \in Nat /\ DOMAIN added = 1..Len(added) /\ \A i \in DOMAIN added : added[i] \in e.addDisks
        BY <1>1
    <2> HIDE DEF added
    <2> QED
        BY <2>1
<1>3. /\ w.disks = Vm!Changed(m.disks, e.dropDisks, bares)
      /\ w.volumes = Vm!Changed(m.volumes, e.dropDisks, vols)
      /\ w.templates = IF m.templates # None THEN Vm!Changed(m.templates, Vm!DvsOf(m, e.dropDisks), new)
                       ELSE IF new = << >> THEN None ELSE new
    <2> HIDE DEF bares, vols, new
    <2>1. w = [m EXCEPT !.disks = Vm!Changed(@, e.dropDisks, bares),
                        !.volumes = Vm!Changed(@, e.dropDisks, vols),
                        !.templates = IF @ # None THEN Vm!Changed(@, Vm!DvsOf(m, e.dropDisks), new)
                                      ELSE IF new = << >> THEN None ELSE new]
        BY Zenon DEF Vm!WithDisks, bares, vols, new
    <2>2. {"disks", "volumes", "templates"} \subseteq DOMAIN m
        BY DEF Vm!Admitted, Vm!Fields
    <2> HIDE DEF w
    <2> QED
        BY <2>1, <2>2
<1> HIDE DEF added, bares, vols, new, w
<1>4. Vm!IsList(w.disks) /\ Vm!IsList(w.volumes)
    BY <1>2, <1>3, ChangedList DEF Vm!Admitted
<1>5. CASE m.templates # None
    BY <1>2, <1>3, <1>4, <1>5, ChangedList DEF Vm!Admitted, w
<1>6. CASE m.templates = None
    <2>1. Vm!IsList(new)
        BY <1>2, IsListOf
    <2> QED
        BY <1>3, <1>4, <1>6, <2>1 DEF w
<1> QED
    BY <1>5, <1>6

LEMMA NetsAreLists ==
    ASSUME NEW m, Vm!Admitted(m), NEW e, Vm!Requested(e)
    PROVE  Vm!IsList(Vm!WithNets(m, e).nics) /\ Vm!IsList(Vm!WithNets(m, e).nets)
<1> DEFINE w == Vm!WithNets(m, e)
           added == Vm!SetToSeq(e.addNets)
           bares == [i \in DOMAIN added |-> [name |-> Vm!InterfaceName(added[i])]]
           links == [i \in DOMAIN added |-> [name |-> Vm!InterfaceName(added[i]), net |-> added[i]]]
<1>1. added \in Seq(e.addNets)
    BY SetList DEF Vm!Requested
<1>2. /\ bares \in Seq({[name |-> Vm!InterfaceName(d)] : d \in e.addNets})
      /\ links \in Seq({[name |-> Vm!InterfaceName(d), net |-> d] : d \in e.addNets})
    <2>1. Len(added) \in Nat /\ DOMAIN added = 1..Len(added) /\ \A i \in DOMAIN added : added[i] \in e.addNets
        BY <1>1
    <2> HIDE DEF added
    <2> QED
        BY <2>1
<1>3. /\ w.nics = Vm!Changed(m.nics, e.dropNets, bares)
      /\ w.nets = Vm!Changed(m.nets, e.dropNets, links)
    <2> HIDE DEF bares, links
    <2>1. w = [m EXCEPT !.nics = Vm!Changed(@, e.dropNets, bares), !.nets = Vm!Changed(@, e.dropNets, links)]
        BY Zenon DEF Vm!WithNets, bares, links
    <2>2. {"nics", "nets"} \subseteq DOMAIN m
        BY DEF Vm!Admitted, Vm!Fields
    <2> HIDE DEF w
    <2> QED
        BY <2>1, <2>2
<1> HIDE DEF added, bares, links, w
<1> QED
    BY <1>2, <1>3, ChangedList DEF Vm!Admitted, w

LEMMA MigratedLists ==
    ASSUME NEW m, NEW w, NEW e, DOMAIN w = Vm!Fields, Vm!IsList(w.volumes), w.templates # None => Vm!IsList(w.templates),
           m.templates # None => Vm!IsList(w.templates)
    PROVE  LET v == Vm!Migrated(m, w, e)
           IN  Vm!IsList(v.volumes) /\ (v.templates # None => Vm!IsList(v.templates))
<1> DEFINE moves == {v \in e.migrate : Vm!Movable(m, v.name)}
           res == Vm!Migrated(m, w, e)
<1>1. CASE moves = {}
    <2>1. res = w
        BY <1>1, Zenon DEF Vm!Migrated
    <2> HIDE DEF res, moves
    <2> QED
        BY <2>1 DEF res
<1>2. CASE moves # {}
    <2>1. m.templates # None
        BY <1>2 DEF Vm!Movable
    <2>2. \E F, G : res = [w EXCEPT !.templates = [i \in DOMAIN w.templates |-> F[i]],
                                    !.volumes = [i \in DOMAIN w.volumes |-> G[i]], !.updates = "Migration"]
        <3> DEFINE dvOf(v) == Vm!Named(m.volumes, v.name).dv
                   moved(dv) == {v \in moves : dvOf(v) = dv}
                   class(dv) == (CHOOSE v \in moved(dv) : TRUE).class
                   template(x) == IF moved(x.name) = {} THEN x
                       ELSE [x EXCEPT !.name = Vm!NextDv(m, x.name), !.class = class(x.name), !.blank = TRUE]
                   volume(x) == IF moved(x.dv) = {} THEN x ELSE [x EXCEPT !.dv = Vm!NextDv(m, x.dv)]
                   F == [i \in DOMAIN w.templates |-> template(w.templates[i])]
                   G == [i \in DOMAIN w.volumes |-> volume(w.volumes[i])]
        <3>1. res = [w EXCEPT !.templates = [i \in DOMAIN w.templates |-> template(w.templates[i])],
                              !.volumes = [i \in DOMAIN w.volumes |-> volume(w.volumes[i])],
                              !.updates = "Migration"]
            BY <1>2, Zenon DEF Vm!Migrated
        <3> HIDE DEF template, volume, res
        <3>2. res = [w EXCEPT !.templates = [i \in DOMAIN w.templates |-> F[i]],
                              !.volumes = [i \in DOMAIN w.volumes |-> G[i]], !.updates = "Migration"]
            BY <3>1
        <3> HIDE DEF F, G
        <3> QED
            BY <3>2
    <2> HIDE DEF res, moves
    <2>3. PICK F, G : res = [w EXCEPT !.templates = [i \in DOMAIN w.templates |-> F[i]],
                                      !.volumes = [i \in DOMAIN w.volumes |-> G[i]], !.updates = "Migration"]
        BY <2>2
    <2>4. /\ res.templates = [i \in DOMAIN w.templates |-> F[i]]
          /\ res.volumes = [i \in DOMAIN w.volumes |-> G[i]]
        BY <2>3 DEF Vm!Fields
    <2>5. ASSUME NEW s, Vm!IsList(s), NEW H PROVE Vm!IsList([i \in DOMAIN s |-> H[i]])
        BY <2>5 DEF Vm!IsList
    <2> QED
        BY <2>1, <2>4, <2>5 DEF res
<1> QED
    BY <1>1, <1>2

(* The placement is edited as it was read.                                 *)
LEMMA PlacedAsRead ==
    ASSUME NEW m, NEW e, DOMAIN m = Vm!Fields, NEW f \in {"selector", "affinity", "groups"}
    PROVE  Scalared(m, e)[f] = Vm!Placed(m, e)[f]
<1> DEFINE p == Vm!Powered(m, e)
           s == Vm!Sized(p, e)
           pref == Vm!Preferred(s, e)
           lab == Vm!Labelled(pref, e)
           pl == Vm!Placed(lab, e)
           mk == Vm!Marked(pl, e)
           F == {"selector", "affinity", "groups"}
<1>1. SameBut(m, p, {"running", "strategy"})
    BY PoweredSame
<1> HIDE DEF p
<1>2. SameBut(p, s, {"instancetype", "cpu", "guest", "requests"})
    BY <1>1, SizedSame DEF SameBut
<1> HIDE DEF s
<1>3. SameBut(s, pref, {"preference"})
    BY <1>2 DEF SameBut, Vm!Preferred, Vm!Fields
<1> HIDE DEF pref
<1>4. SameBut(pref, lab, {"labels"})
    BY <1>3 DEF SameBut, Vm!Labelled, Vm!Fields
<1> HIDE DEF lab
<1>5. \A x \in F : lab[x] = m[x]
    BY <1>1, <1>2, <1>3, <1>4 DEF SameBut, Vm!Fields
<1>6. lab.selector = m.selector /\ lab.affinity = m.affinity /\ lab.groups = m.groups
    BY <1>5
<1>7. Vm!Scheduling(lab) = Vm!Scheduling(m) /\ Vm!PinKept(lab) = Vm!PinKept(m)
    <2>1. Vm!Scheduling(lab) = Vm!Scheduling(m)
        BY <1>6, Zenon DEF Vm!Scheduling
    <2>2. Vm!PinInSelector(lab) <=> Vm!PinInSelector(m)
        BY <1>6, Zenon DEF Vm!PinInSelector
    <2> QED
        BY <2>1, <2>2, Zenon DEF Vm!PinKept
<1>8. \A x \in F : pl[x] = Vm!Placed(m, e)[x]
    <2> DEFINE now == Vm!Scheduling(m)
               groups == [g \in Groups |-> IF g \in e.dropGroups THEN None
                                           ELSE IF g \in DOMAIN e.groups THEN e.groups[g]
                                           ELSE now.groups[g]]
               pin == IF e.pin # None THEN e.pin ELSE Vm!PinKept(m)
               aff == IF pin = {} /\ \A g \in Groups : groups[g] = None THEN None
                      ELSE [pin |-> pin, terms |-> groups]
               wanted == [g \in DOMAIN e.groups |-> e.groups[g].mode]
               edited(x) == IF ~Vm!PlacementEdit(e) THEN x
                            ELSE [x EXCEPT !.selector = IF e.pin # None THEN None ELSE @,
                                           !.affinity = aff,
                                           !.groups = Vm!MapEdited(@, wanted, e.dropGroups)]
    <2>1. Vm!Placed(m, e) = edited(m)
        BY Zenon DEF Vm!Placed
    <2>2. pl = edited(lab)
        BY <1>7, Zenon DEF Vm!Placed
    <2> HIDE DEF pl, aff, wanted
    <2>3. DOMAIN lab = Vm!Fields
        BY <1>4 DEF SameBut
    <2>4. /\ edited(lab).selector = edited(m).selector /\ edited(lab).affinity = edited(m).affinity
          /\ edited(lab).groups = edited(m).groups
        BY <1>6, <2>3 DEF Vm!Fields
    <2> HIDE DEF edited
    <2> QED
        BY <2>1, <2>2, <2>4
<1>9. \A x \in F : mk[x] = pl[x]
    <2>1. DOMAIN pl = Vm!Fields
        BY <1>4, PlacedSame DEF SameBut
    <2> HIDE DEF pl
    <2> QED
        BY <2>1 DEF Vm!Marked, Vm!Fields
<1>10. Scalared(m, e) = mk
    BY DEF Scalared, lab, pref, s, p
<1> HIDE DEF pl, mk
<1> QED
    BY <1>8, <1>9, <1>10

LEMMA PlacedGroups ==
    ASSUME NEW m, NEW e, DOMAIN m = Vm!Fields, DOMAIN m.groups = Groups
    PROVE  DOMAIN Scalared(m, e).groups = Groups
<1> DEFINE pl == Vm!Placed(m, e)
           wanted == [g \in DOMAIN e.groups |-> e.groups[g].mode]
<1>1. pl.groups \in {m.groups, Vm!MapEdited(m.groups, wanted, e.dropGroups)}
    <2>1. CASE ~Vm!PlacementEdit(e)
        BY <2>1, Zenon DEF Vm!Placed
    <2>2. CASE Vm!PlacementEdit(e)
        <3>1. PICK x : pl = [m EXCEPT !.selector = IF e.pin # None THEN None ELSE @,
                                      !.affinity = x,
                                      !.groups = Vm!MapEdited(@, wanted, e.dropGroups)]
            BY <2>2, Zenon DEF Vm!Placed
        <3> HIDE DEF wanted, pl
        <3> QED
            BY <3>1 DEF Vm!Fields
    <2> QED
        BY <2>1, <2>2
<1>2. DOMAIN Vm!MapEdited(m.groups, wanted, e.dropGroups) = Groups
    BY DEF Vm!MapEdited
<1>3. Scalared(m, e)["groups"] = pl["groups"]
    BY PlacedAsRead
<1> HIDE DEF pl, wanted
<1> QED
    BY <1>1, <1>2, <1>3

(* An edit leaves a manifest that the API server admits.                   *)
LEMMA AdmittedKept ==
    ASSUME Vm!EditAssumption, NEW m, Vm!Admitted(m), NEW e, Vm!Requested(e)
    PROVE  Vm!Admitted(Vm!ApplyEdit(m, e))
<1> DEFINE p == Vm!Powered(m, e)
           s == Vm!Sized(p, e)
           mk == Scalared(m, e)
           w == Vm!Appliers(m, e)
           v == Vm!Migrated(m, w, e)
           axes == [cores : Nat, sockets : Nat, threads : Nat]
<1>1. DOMAIN m = Vm!Fields
    BY DEF Vm!Admitted
<1>2. /\ p.running \in BOOLEAN \union {None} /\ (p.running = None \/ p.strategy = None)
      /\ DOMAIN p = Vm!Fields /\ p.cpu = m.cpu /\ p.instancetype = m.instancetype
    <2>1. DOMAIN p = Vm!Fields /\ p.cpu = m.cpu /\ p.instancetype = m.instancetype
        BY <1>1 DEF Vm!Powered, Vm!Fields
    <2>2. CASE e.power = None
        BY <2>1, <2>2 DEF Vm!Powered, Vm!Admitted
    <2>3. CASE e.power # None /\ m.running # None
        <3>1. p = [m EXCEPT !.running = e.power = "On"]
            BY <2>3 DEF Vm!Powered
        <3>2. p.running = (e.power = "On") /\ p.strategy = m.strategy
            BY <1>1, <3>1, Zenon DEF Vm!Fields
        <3> QED
            BY <2>1, <2>3, <3>2 DEF Vm!Admitted
    <2>4. CASE e.power # None /\ m.running = None
        <3>1. p.running = None
            BY <1>1, <2>4 DEF Vm!Powered, Vm!Fields
        <3> QED
            BY <2>1, <3>1
    <2> QED
        BY <2>2, <2>3, <2>4
<1>3. s.cpu \in axes
    BY <1>2, SizedCpu DEF Vm!Admitted, Vm!Requested
<1>4. RefOK(s.instancetype)
    <2>1. s.instancetype \in {None, m.instancetype} \union {Vm!Ref(n) : n \in {e.instancetype} \ {None}}
        BY <1>2, SizedRef
    <2>2. \A n \in {e.instancetype} \ {None} : RefOK(Vm!Ref(n))
        BY NewRefOK DEF Vm!Requested
    <2>3. RefOK(None) /\ RefOK(m.instancetype)
        BY DEF RefOK, Vm!Admitted
    <2> QED
        BY <2>1, <2>2, <2>3
<1> HIDE DEF s, p
<1>5. /\ DOMAIN mk = Vm!Fields /\ mk.running = p.running /\ mk.strategy = p.strategy
      /\ mk.instancetype = s.instancetype /\ mk.cpu = s.cpu
      /\ mk.preference = IF e.preference = None THEN m.preference ELSE Vm!Ref(e.preference)
      /\ mk.labels = Vm!MapEdited(m.labels, e.labels, e.dropLabels) /\ mk.autoattach = m.autoattach
    BY <1>1, ScalaredIs DEF p, s
<1>6. RefOK(mk.preference)
    BY <1>5, NewRefOK DEF RefOK, Vm!Admitted, Vm!Requested
<1>7. mk.labels = [l \in Labels |-> mk.labels[l]] /\ DOMAIN mk.groups = Groups
    <2>1. DOMAIN m.labels = Labels /\ DOMAIN m.groups = Groups
        BY DEF Vm!Admitted
    <2>2. DOMAIN mk.groups = Groups
        BY <1>1, <2>1, PlacedGroups
    <2> HIDE DEF mk
    <2> QED
        BY <1>5, <2>1, <2>2 DEF Vm!MapEdited
<1> HIDE DEF mk, w
<1>8. /\ SameBut(mk, w, {"disks", "volumes", "templates", "nics", "nets"})
      /\ w.disks = Vm!WithDisks(m, e).disks /\ w.volumes = Vm!WithDisks(m, e).volumes
      /\ w.templates = Vm!WithDisks(m, e).templates
      /\ w.nics = Vm!WithNets(m, e).nics /\ w.nets = Vm!WithNets(m, e).nets
    BY <1>1, Applied DEF mk, w
<1>9. /\ Vm!IsList(w.disks) /\ Vm!IsList(w.volumes) /\ Vm!IsList(w.nics) /\ Vm!IsList(w.nets)
      /\ m.templates # None \/ w.templates # None => Vm!IsList(w.templates)
    BY <1>8, DisksAreLists, NetsAreLists
<1>10. SameBut(w, v, {"templates", "volumes", "updates"})
    BY <1>8, MigratedSame DEF SameBut
<1>11. Vm!IsList(v.volumes) /\ (v.templates # None => Vm!IsList(v.templates))
    BY <1>8, <1>9, MigratedLists DEF SameBut
<1> HIDE DEF v
<1>12. DOMAIN v = Vm!Fields /\ \A f \in Vm!Fields \ {"disks", "volumes", "templates", "nics", "nets", "updates"} : v[f] = mk[f]
    BY <1>8, <1>10 DEF SameBut
<1>13. v.disks = w.disks /\ v.nics = w.nics /\ v.nets = w.nets
    BY <1>10 DEF SameBut, Vm!Fields
<1>14. /\ v.running = mk.running /\ v.strategy = mk.strategy /\ v.cpu = mk.cpu
       /\ v.instancetype = mk.instancetype /\ v.preference = mk.preference /\ v.labels = mk.labels
       /\ v.groups = mk.groups /\ v.autoattach = mk.autoattach
    BY <1>12 DEF Vm!Fields
<1>15. Vm!ApplyEdit(m, e) = v
    BY DEF Vm!ApplyEdit, v, w
<1>16. \A ref \in {v.instancetype, v.preference} : ref # None => None \notin {ref.name, Vm!Ref(ref.name)}
    BY <1>4, <1>5, <1>6, <1>14 DEF RefOK
<1> QED
    BY <1>2, <1>3, <1>5, <1>7, <1>9, <1>11, <1>12, <1>13, <1>14, <1>15, <1>16 DEF Vm!Admitted

(* The edit that adopts what runs, l, in the manifest m, and its outcome.   *)
Adopting(m, l) == Vm!EditToMatch(Vm!Parsed(m), Vm!Parsed(l))

Adopted(m, l) == Vm!ApplyEdit(m, Adopting(m, l))

(* A scalar moves when it differs and the VM reports it.                   *)
Moved(a, b, unset) == IF a # b /\ b # unset THEN b ELSE None

LEMMA AdoptingScalars ==
    ASSUME NEW m, NEW l
    PROVE  LET e == Adopting(m, l)
               from == Vm!Parsed(m)
               to == Vm!Parsed(l)
           IN  /\ e.power = Moved(from.power, to.power, "Unknown")
               /\ e.cpu = Moved(from.cpu, to.cpu, 0)
               /\ e.memory = Moved(from.memory, to.memory, "")
               /\ e.instancetype = Moved(from.instancetype, to.instancetype, "")
               /\ e.preference = Moved(from.preference, to.preference, "")
               /\ e.excluded = Moved(from.excluded, to.excluded, None)
               /\ e.eviction = Moved(from.eviction, to.eviction, None)
               /\ e.sizing = None /\ e.migrate = {}
<1> DEFINE from == Vm!Parsed(m)
           to == Vm!Parsed(l)
<1> HIDE DEF from, to
<1> QED
    BY DEF Adopting, from, to, Vm!EditToMatch, Vm!NoEdit, Vm!Unset, Moved

LEMMA AdoptingLabels ==
    ASSUME NEW m, NEW l
    PROVE  /\ Adopting(m, l).labels =
                [k \in {x \in Labels : Vm!Parsed(l).labels[x] \notin {None, Vm!Text(Vm!Parsed(m).labels[x])}} |->
                    Vm!Parsed(l).labels[k]]
           /\ Adopting(m, l).dropLabels = Vm!DroppedLabels(Vm!Parsed(m), Vm!Parsed(l))
<1> DEFINE from == Vm!Parsed(m)
           to == Vm!Parsed(l)
<1> HIDE DEF from, to
<1> QED
    BY DEF Adopting, from, to, Vm!EditToMatch, Vm!NoEdit

LEMMA AdoptingLists ==
    ASSUME NEW m, NEW l
    PROVE  LET e == Adopting(m, l)
               from == Vm!Parsed(m)
               to == Vm!Parsed(l)
           IN  /\ e.addDisks = {[d EXCEPT !.class = None] : d \in {x \in to.disks : x.name \notin Vm!DiskNames(from)}}
               /\ e.dropDisks = Vm!DiskNames(from) \ Vm!DiskNames(to)
               /\ e.addNets = {n.net : n \in {x \in to.nics : x.name \notin Vm!NicNames(from)}}
               /\ e.dropNets = Vm!NicNames(from) \ Vm!NicNames(to)
<1> DEFINE from == Vm!Parsed(m)
           to == Vm!Parsed(l)
<1> HIDE DEF from, to
<1> QED
    BY DEF Adopting, from, to, Vm!EditToMatch, Vm!NoEdit

LEMMA AdoptingGroups ==
    ASSUME NEW m, NEW l
    PROVE  Adopting(m, l).groups = [g \in {} |-> None]
<1> DEFINE from == Vm!Parsed(m)
           to == Vm!Parsed(l)
           none == [g \in {} |-> None]
<1> HIDE DEF from, to
<1>1. Vm!NoEdit.groups = none /\ {"groups"} \subseteq DOMAIN Vm!NoEdit
    BY DEF Vm!NoEdit
<1> HIDE DEF none
<1>2. Vm!EditToMatch(from, to).groups = none
    BY <1>1 DEF Vm!EditToMatch
<1> QED
    BY <1>2 DEF Adopting, from, to, none

LEMMA ParsedIs ==
    ASSUME NEW m
    PROVE  LET p == Vm!Parsed(m)
           IN  /\ p.power = Vm!PowerOf(m) /\ p.cpu = Vm!Vcpus(m.cpu)
               /\ p.memory = Vm!MemoryOf(m)
               /\ p.instancetype = Vm!NameOf(m.instancetype) /\ p.preference = Vm!NameOf(m.preference)
               /\ p.labels = m.labels /\ p.excluded = m.excluded /\ p.eviction = m.eviction
               /\ p.scheduling = Vm!Scheduling(m)
               /\ p.disks = {Vm!DiskOf(m, n) : n \in Vm!NamesOf(m.disks)} /\ p.nics = Vm!NicsOf(m)
<1> DEFINE sched == Vm!Scheduling(m)
           ds == {Vm!DiskOf(m, n) : n \in Vm!NamesOf(m.disks)}
           ns == Vm!NicsOf(m)
           po == Vm!PowerOf(m)
           vc == Vm!Vcpus(m.cpu)
           it == Vm!NameOf(m.instancetype)
           pr == Vm!NameOf(m.preference)
           me == Vm!MemoryOf(m)
<1>1. Vm!Parsed(m) = [power |-> po, cpu |-> vc, memory |-> me, instancetype |-> it, preference |-> pr,
                      labels |-> m.labels, excluded |-> m.excluded, eviction |-> m.eviction,
                      scheduling |-> sched, disks |-> ds, nics |-> ns]
    BY Zenon DEF Vm!Parsed
<1> HIDE DEF sched, ds, ns, po, vc, it, pr, me
<1>2. LET p == Vm!Parsed(m)
      IN  /\ p.power = po /\ p.cpu = vc /\ p.memory = me /\ p.instancetype = it /\ p.preference = pr
          /\ p.labels = m.labels /\ p.excluded = m.excluded /\ p.eviction = m.eviction
          /\ p.scheduling = sched /\ p.disks = ds /\ p.nics = ns
    BY <1>1
<1> QED
    BY <1>2 DEF sched, ds, ns, po, vc, it, pr, me

(* The scalars that an adoption moves, by what the two manifests hold.     *)
LEMMA AdoptingFrom ==
    ASSUME NEW m, NEW l
    PROVE  LET e == Adopting(m, l)
           IN  /\ e.power = Moved(Vm!PowerOf(m), Vm!PowerOf(l), "Unknown")
               /\ e.cpu = Moved(Vm!Vcpus(m.cpu), Vm!Vcpus(l.cpu), 0)
               /\ e.memory = Moved(Vm!MemoryOf(m), Vm!MemoryOf(l), "")
               /\ e.instancetype = Moved(Vm!NameOf(m.instancetype), Vm!NameOf(l.instancetype), "")
               /\ e.preference = Moved(Vm!NameOf(m.preference), Vm!NameOf(l.preference), "")
               /\ e.excluded = Moved(m.excluded, l.excluded, None)
               /\ e.eviction = Moved(m.eviction, l.eviction, None)
<1> DEFINE e == Adopting(m, l)
           from == Vm!Parsed(m)
           to == Vm!Parsed(l)
<1>1. /\ e.power = Moved(from.power, to.power, "Unknown")
      /\ e.cpu = Moved(from.cpu, to.cpu, 0)
      /\ e.memory = Moved(from.memory, to.memory, "")
      /\ e.instancetype = Moved(from.instancetype, to.instancetype, "")
      /\ e.preference = Moved(from.preference, to.preference, "")
      /\ e.excluded = Moved(from.excluded, to.excluded, None)
      /\ e.eviction = Moved(from.eviction, to.eviction, None)
    BY AdoptingScalars, Zenon
<1>2. /\ from.power = Vm!PowerOf(m) /\ from.cpu = Vm!Vcpus(m.cpu) /\ from.memory = Vm!MemoryOf(m)
      /\ from.instancetype = Vm!NameOf(m.instancetype) /\ from.preference = Vm!NameOf(m.preference)
      /\ from.excluded = m.excluded /\ from.eviction = m.eviction
    BY ParsedIs, Zenon
<1>3. /\ to.power = Vm!PowerOf(l) /\ to.cpu = Vm!Vcpus(l.cpu) /\ to.memory = Vm!MemoryOf(l)
      /\ to.instancetype = Vm!NameOf(l.instancetype) /\ to.preference = Vm!NameOf(l.preference)
      /\ to.excluded = l.excluded /\ to.eviction = l.eviction
    BY ParsedIs, Zenon
<1> HIDE DEF e, from, to
<1>4. e.power = Moved(Vm!PowerOf(m), Vm!PowerOf(l), "Unknown") /\ e.cpu = Moved(Vm!Vcpus(m.cpu), Vm!Vcpus(l.cpu), 0)
    BY <1>1, <1>2, <1>3, Zenon
<1>5. /\ e.memory = Moved(Vm!MemoryOf(m), Vm!MemoryOf(l), "")
      /\ e.instancetype = Moved(Vm!NameOf(m.instancetype), Vm!NameOf(l.instancetype), "")
    BY <1>1, <1>2, <1>3, Zenon
<1>6. /\ e.preference = Moved(Vm!NameOf(m.preference), Vm!NameOf(l.preference), "")
      /\ e.excluded = Moved(m.excluded, l.excluded, None) /\ e.eviction = Moved(m.eviction, l.eviction, None)
    BY <1>1, <1>2, <1>3, Zenon
<1> QED
    BY <1>4, <1>5, <1>6 DEF e

(* The names of what a manifest has.                                       *)
LEMMA DiskNamesAre ==
    ASSUME NEW m
    PROVE  Vm!DiskNames(Vm!Parsed(m)) = Vm!NamesOf(m.disks)
<1>1. Vm!Parsed(m).disks = {Vm!DiskOf(m, n) : n \in Vm!NamesOf(m.disks)}
    BY ParsedIs
<1>2. \A n : Vm!DiskOf(m, n).name = n
    BY DEF Vm!DiskOf
<1>3. Vm!DiskNames(Vm!Parsed(m)) = {Vm!DiskOf(m, n).name : n \in Vm!NamesOf(m.disks)}
    BY <1>1 DEF Vm!DiskNames
<1> QED
    BY <1>2, <1>3

LEMMA NicNamesAre ==
    ASSUME NEW m
    PROVE  Vm!NicNames(Vm!Parsed(m)) = IF m.nics = <<>> /\ m.autoattach THEN {"default"} ELSE Vm!NamesOf(m.nics)
<1>1. Vm!Parsed(m).nics = Vm!NicsOf(m)
    BY ParsedIs
<1>2. CASE m.nics = <<>> /\ m.autoattach
    <2>1. Vm!NicsOf(m) = {[name |-> "default", net |-> Vm!Pod]}
        BY <1>2, Zenon DEF Vm!NicsOf
    <2> QED
        BY <1>1, <1>2, <2>1 DEF Vm!NicNames
<1>3. CASE ~(m.nics = <<>> /\ m.autoattach)
    <2> DEFINE net(name) == IF name \in Vm!NamesOf(m.nets) THEN Vm!Named(m.nets, name).net ELSE None
               nic(n) == [name |-> n, net |-> net(n)]
               N == Vm!NamesOf(m.nics)
    <2>1. Vm!NicsOf(m) = {nic(n) : n \in N}
        BY <1>3, Zenon DEF Vm!NicsOf
    <2>2. Vm!NicNames(Vm!Parsed(m)) = {x.name : x \in {nic(n) : n \in N}}
        BY <1>1, <2>1, Zenon DEF Vm!NicNames
    <2>3. \A n : nic(n).name = n
        OBVIOUS
    <2> HIDE DEF nic, N
    <2>4. {x.name : x \in {nic(n) : n \in N}} = N
        BY <2>3
    <2> QED
        BY <1>3, <2>2, <2>4 DEF N
<1> QED
    BY <1>2, <1>3

LEMMA CountedCpus ==
    ASSUME NEW m, Vm!Admitted(m)
    PROVE  Vm!Vcpus(m.cpu) \in Nat
<1>1. PICK a, b, c \in Nat : m.cpu = [cores |-> a, sockets |-> b, threads |-> c]
    BY DEF Vm!Admitted
<1> DEFINE axis(n) == IF n = 0 THEN 1 ELSE n
<1>2. Vm!Vcpus(m.cpu) = IF a + b + c = 0 THEN 0 ELSE axis(a) * axis(b) * axis(c)
    BY <1>1 DEF Vm!Vcpus
<1>3. axis(a) \in Nat /\ axis(b) \in Nat /\ axis(c) \in Nat
    BY <1>1
<1> HIDE DEF axis
<1>4. \A x, y \in Nat : x * y \in Nat
    OBVIOUS
<1> QED
    BY <1>2, <1>3, <1>4

(* The image of a finite set is finite.                                    *)
LEMMA FiniteImage ==
    ASSUME NEW S, NEW F, IsFiniteSet(S)
    PROVE  IsFiniteSet({F[x] : x \in S})
<1> DEFINE f == [x \in S |-> F[x]]
           T == {F[x] : x \in S}
<1>1. f \in Surjection(S, T)
    BY DEF Surjection
<1> HIDE DEF f, T
<1>2. IsFiniteSet(T)
    BY <1>1, FS_Surjection
<1> QED
    BY <1>2 DEF T

LEMMA FiniteNames ==
    ASSUME NEW s, Vm!IsList(s)
    PROVE  IsFiniteSet(Vm!NamesOf(s))
<1> DEFINE n == Len(s)
           I == 1..n
           name == [i \in I |-> s[i].name]
<1>1. n \in Nat /\ DOMAIN s = I
    BY DEF Vm!IsList
<1>2. Vm!NamesOf(s) = {name[i] : i \in I}
    BY <1>1 DEF Vm!NamesOf
<1> HIDE DEF n, name
<1>3. IsFiniteSet(I)
    BY <1>1, FS_Interval
<1> HIDE DEF I
<1> QED
    BY <1>2, <1>3, FiniteImage

(* It asks for what a request can hold.                                    *)
LEMMA AdoptingRequested ==
    ASSUME Vm!EditAssumption, NEW m, Vm!Admitted(m), NEW l, Vm!Admitted(l)
    PROVE  Vm!Requested(Adopting(m, l))
<1> DEFINE e == Adopting(m, l)
           to == Vm!Parsed(l)
<1>1. e.cpu \in Nat \union {None}
    <2>1. e.cpu \in {Vm!Vcpus(l.cpu), None}
        BY AdoptingFrom, Zenon DEF Moved
    <2>2. Vm!Vcpus(l.cpu) \in Nat
        BY CountedCpus
    <2> QED
        BY <2>1, <2>2
<1>2. IsFiniteSet(to.disks)
    <2> DEFINE names == Vm!NamesOf(l.disks)
               disk == [n \in names |-> Vm!DiskOf(l, n)]
    <2>1. IsFiniteSet(names)
        BY FiniteNames DEF Vm!Admitted
    <2>2. to.disks = {disk[n] : n \in names}
        BY ParsedIs
    <2> HIDE DEF disk, names, to
    <2> QED
        BY <2>1, <2>2, FiniteImage
<1>3. IsFiniteSet(to.nics)
    <2>1. CASE l.nics = <<>> /\ l.autoattach
        <3>1. to.nics = {[name |-> "default", net |-> Vm!Pod]}
            BY <2>1, ParsedIs, Zenon DEF Vm!NicsOf
        <3> QED
            BY <3>1, FS_Singleton
    <2>2. CASE ~(l.nics = <<>> /\ l.autoattach)
        <3> DEFINE names == Vm!NamesOf(l.nics)
                   net(name) == IF name \in Vm!NamesOf(l.nets) THEN Vm!Named(l.nets, name).net ELSE None
                   nic == [n \in names |-> [name |-> n, net |-> net(n)]]
        <3>1. IsFiniteSet(names)
            BY FiniteNames DEF Vm!Admitted
        <3>2. to.nics = {[name |-> n, net |-> net(n)] : n \in names}
            <4>1. Vm!NicsOf(l) = {[name |-> n, net |-> net(n)] : n \in names}
                BY <2>2, Zenon DEF Vm!NicsOf
            <4> QED
                BY <4>1, ParsedIs
        <3> HIDE DEF net, names, to
        <3>3. to.nics = {nic[n] : n \in names}
            BY <3>2
        <3> HIDE DEF nic
        <3> QED
            BY <3>1, <3>3, FiniteImage
    <2> QED
        BY <2>1, <2>2
<1>4. IsFiniteSet(e.addDisks)
    <2> DEFINE new == {x \in to.disks : x.name \notin Vm!DiskNames(Vm!Parsed(m))}
               bare == [d \in new |-> [d EXCEPT !.class = None]]
    <2>1. e.addDisks = {[d EXCEPT !.class = None] : d \in new}
        BY AdoptingLists, Zenon
    <2>2. IsFiniteSet(new)
        BY <1>2, FS_Subset
    <2> HIDE DEF new, e
    <2>3. e.addDisks = {bare[d] : d \in new}
        BY <2>1
    <2> HIDE DEF bare
    <2> QED
        BY <2>2, <2>3, FiniteImage
<1>5. IsFiniteSet(e.addNets)
    <2> DEFINE new == {x \in to.nics : x.name \notin Vm!NicNames(Vm!Parsed(m))}
               net == [n \in new |-> n.net]
    <2>1. e.addNets = {n.net : n \in new}
        BY AdoptingLists, Zenon
    <2>2. IsFiniteSet(new)
        BY <1>3, FS_Subset
    <2> HIDE DEF new, e
    <2>3. e.addNets = {net[n] : n \in new}
        BY <2>1
    <2> HIDE DEF net
    <2> QED
        BY <2>2, <2>3, FiniteImage
<1>6. \A name \in {e.instancetype, e.preference} \ {None} : Vm!Ref(name) # None
    <2>1. \A ref \in {l.instancetype, l.preference} : Vm!NameOf(ref) # "" => Vm!Ref(Vm!NameOf(ref)) # None
        BY DEF Vm!Admitted, Vm!NameOf
    <2>2. /\ e.instancetype \in {None, Vm!NameOf(l.instancetype)} \ {""}
          /\ e.preference \in {None, Vm!NameOf(l.preference)} \ {""}
        <3>1. /\ e.instancetype = Moved(Vm!NameOf(m.instancetype), Vm!NameOf(l.instancetype), "")
              /\ e.preference = Moved(Vm!NameOf(m.preference), Vm!NameOf(l.preference), "")
            BY AdoptingFrom, Zenon
        <3> HIDE DEF e
        <3> QED
            BY <3>1 DEF Moved, Vm!EditAssumption
    <2> QED
        BY <2>1, <2>2
<1>7. e.power \in {None, "On", "Off"} /\ DOMAIN e.groups = {}
    <2>1. Vm!PowerOf(l) \in {"On", "Off", "Unknown"}
        BY DEF Vm!PowerOf
    <2>2. e.power = None \/ (e.power = Vm!PowerOf(l) /\ Vm!PowerOf(l) # "Unknown")
        <3>1. e.power = Moved(Vm!Parsed(m).power, Vm!Parsed(l).power, "Unknown")
            BY AdoptingScalars
        <3>2. Vm!Parsed(l).power = Vm!PowerOf(l)
            BY ParsedIs
        <3> HIDE DEF e
        <3> QED
            BY <3>1, <3>2, Zenon DEF Moved
    <2>3. e.groups = [g \in {} |-> None]
        BY AdoptingGroups
    <2> HIDE DEF e
    <2> QED
        BY <2>1, <2>2, <2>3
<1> HIDE DEF e
<1>8. Vm!IsFiniteSet(e.addDisks) /\ Vm!IsFiniteSet(e.addNets)
    BY <1>4, <1>5, SameCount
<1> QED
    BY <1>1, <1>6, <1>7, <1>8 DEF Vm!Requested, e

(* A manifest and a VM that runs, and the fields of the edit's outcome.    *)
Adopts(m, l) == Vm!EditAssumption /\ Vm!Admitted(m) /\ Vm!Admitted(l)

LEMMA AdoptedIs ==
    ASSUME NEW m, NEW l, Adopts(m, l)
    PROVE  LET e == Adopting(m, l)
               w == Adopted(m, l)
               p == Vm!Powered(m, e)
               s == Vm!Sized(p, e)
           IN  /\ w.running = p.running /\ w.strategy = p.strategy
               /\ w.instancetype = s.instancetype /\ w.cpu = s.cpu
               /\ w.guest = s.guest /\ w.requests = s.requests
               /\ w.preference = IF e.preference = None THEN m.preference ELSE Vm!Ref(e.preference)
               /\ w.labels = Vm!MapEdited(m.labels, e.labels, e.dropLabels)
               /\ w.excluded = IF e.excluded = None THEN m.excluded ELSE e.excluded
               /\ w.eviction = IF e.eviction = None THEN m.eviction ELSE e.eviction
               /\ w.disks = Vm!WithDisks(m, e).disks /\ w.nics = Vm!WithNets(m, e).nics
               /\ w.autoattach = m.autoattach
<1> DEFINE e == Adopting(m, l)
           w == Adopted(m, l)
           mk == Scalared(m, e)
<1>1. DOMAIN m = Vm!Fields
    BY DEF Adopts, Vm!Admitted
<1>2. e.migrate = {}
    BY AdoptingScalars
<1>3. w = Vm!Appliers(m, e)
    <2>1. w = Vm!Migrated(m, Vm!Appliers(m, e), e)
        BY DEF Adopted, Vm!ApplyEdit
    <2>2. {v \in e.migrate : Vm!Movable(m, v.name)} = {}
        BY <1>2
    <2> QED
        BY <2>1, <2>2, Zenon DEF Vm!Migrated
<1> HIDE DEF e, w
<1>4. /\ SameBut(mk, w, {"disks", "volumes", "templates", "nics", "nets"})
      /\ w.disks = Vm!WithDisks(m, e).disks /\ w.nics = Vm!WithNets(m, e).nics
    BY <1>1, <1>3, Applied
<1> DEFINE p == Vm!Powered(m, e)
           s == Vm!Sized(p, e)
<1>5. /\ mk.running = p.running /\ mk.strategy = p.strategy
      /\ mk.instancetype = s.instancetype /\ mk.cpu = s.cpu
      /\ mk.guest = s.guest /\ mk.requests = s.requests
      /\ mk.preference = IF e.preference = None THEN m.preference ELSE Vm!Ref(e.preference)
      /\ mk.labels = Vm!MapEdited(m.labels, e.labels, e.dropLabels)
      /\ mk.excluded = IF e.excluded = None THEN m.excluded ELSE e.excluded
      /\ mk.eviction = IF e.eviction = None THEN m.eviction ELSE e.eviction
      /\ mk.autoattach = m.autoattach
    BY <1>1, ScalaredIs
<1> HIDE DEF mk, p, s
<1>6. /\ w.running = mk.running /\ w.strategy = mk.strategy /\ w.instancetype = mk.instancetype
      /\ w.cpu = mk.cpu /\ w.guest = mk.guest /\ w.requests = mk.requests /\ w.preference = mk.preference
      /\ w.labels = mk.labels /\ w.excluded = mk.excluded /\ w.eviction = mk.eviction
      /\ w.autoattach = mk.autoattach
    BY <1>4 DEF SameBut, Vm!Fields
<1> QED
    BY <1>4, <1>5, <1>6 DEF p, s, e, w

(* A reference is read as its name.                                        *)
LEMMA NameOfRef ==
    ASSUME NEW x, Vm!Ref(x) # None
    PROVE  Vm!NameOf(Vm!Ref(x)) = x
<1>1. Vm!Ref(x).name = x
    BY DEF Vm!Ref
<1> QED
    BY <1>1, Zenon DEF Vm!NameOf

LEMMA AdoptedPower ==
    ASSUME NEW m, NEW l, Adopts(m, l), Vm!Parsed(l).power # "Unknown"
    PROVE  Vm!Parsed(Adopted(m, l)).power = Vm!Parsed(l).power
<1> DEFINE e == Adopting(m, l)
           w == Adopted(m, l)
           p == Vm!Powered(m, e)
           on == Vm!Parsed(l).power
<1>1. /\ DOMAIN m = Vm!Fields /\ m.running \in BOOLEAN \union {None} /\ (m.running = None \/ m.strategy = None)
      /\ None \notin BOOLEAN
      /\ None \notin {"On", "Off", "Always", "RerunOnFailure", "Halted", "Manual", "Once"}
    BY DEF Adopts, Vm!Admitted, Vm!EditAssumption
<1>2. /\ w.running = p.running /\ w.strategy = p.strategy
    BY AdoptedIs
<1>3. Vm!PowerOf(w) = Vm!PowerOf(p)
    BY <1>2 DEF Vm!PowerOf
<1>4. on \in {"On", "Off"}
    <2>1. on = Vm!PowerOf(l)
        BY ParsedIs
    <2> QED
        BY <2>1 DEF Vm!PowerOf
<1>5. e.power = IF Vm!PowerOf(m) # on THEN on ELSE None
    <2>1. e.power = Moved(Vm!PowerOf(m), Vm!PowerOf(l), "Unknown") /\ on = Vm!PowerOf(l)
        BY AdoptingFrom, ParsedIs, Zenon
    <2> HIDE DEF e, on
    <2> QED
        BY <1>4, <2>1 DEF Moved
<1> HIDE DEF e, w, on
<1>6. CASE e.power = None
    <2>1. p = m
        BY <1>6 DEF Vm!Powered
    <2> QED
        BY <1>1, <1>3, <1>4, <1>5, <1>6, <2>1, ParsedIs DEF on, w
<1>7. CASE e.power # None /\ m.running # None
    <2>1. p = [m EXCEPT !.running = e.power = "On"]
        BY <1>7 DEF Vm!Powered
    <2>2. p.running = (e.power = "On") /\ p.strategy = m.strategy
        BY <1>1, <2>1, Zenon DEF Vm!Fields
    <2>3. p.strategy = None /\ p.running # None
        BY <1>1, <1>7, <2>2
    <2>4. Vm!PowerOf(p) = IF p.running THEN "On" ELSE "Off"
        BY <1>1, <2>3 DEF Vm!PowerOf
    <2>5. Vm!PowerOf(p) = IF e.power = "On" THEN "On" ELSE "Off"
        BY <2>2, <2>4
    <2>6. Vm!PowerOf(p) = on
        BY <1>4, <1>5, <1>7, <2>5
    <2> QED
        BY <1>3, <2>6, ParsedIs DEF on, w
<1>8. CASE e.power # None /\ m.running = None
    <2>1. p.strategy = IF e.power = "On" THEN "Always" ELSE "Halted"
        BY <1>1, <1>8 DEF Vm!Powered, Vm!Fields
    <2>2. Vm!PowerOf(p) = on
        BY <1>4, <1>5, <1>8, <2>1 DEF Vm!PowerOf
    <2> QED
        BY <1>3, <2>2, ParsedIs DEF on, w
<1> QED
    BY <1>6, <1>7, <1>8

(* The size: an instance type that is adopted takes its place.             *)
LEMMA AdoptedSize ==
    ASSUME NEW m, NEW l, Adopts(m, l)
    PROVE  LET w == Adopted(m, l)
               to == Vm!Parsed(l)
           IN  /\ to.instancetype # "" => Vm!Parsed(w).instancetype = to.instancetype
               /\ w.instancetype = None =>
                     /\ to.cpu # 0 => Vm!Parsed(w).cpu = to.cpu
                     /\ to.memory # "" => Vm!Parsed(w).memory = to.memory
<1> DEFINE e == Adopting(m, l)
           w == Adopted(m, l)
           to == Vm!Parsed(l)
           p == Vm!Powered(m, e)
           s == Vm!Sized(p, e)
           chosen == Vm!WithInstancetype(p, e)
           v == Vm!WithCpu(chosen, e.cpu)
           wins == m.instancetype # None \/ e.instancetype \notin {None, ""}
<1>1. /\ DOMAIN p = Vm!Fields /\ p.cpu = m.cpu /\ p.instancetype = m.instancetype
      /\ p.guest = m.guest /\ p.requests = m.requests
    BY DEF Vm!Powered, Vm!Fields, Adopts, Vm!Admitted
<1>2. /\ w.instancetype = s.instancetype /\ w.cpu = s.cpu /\ w.guest = s.guest /\ w.requests = s.requests
    BY AdoptedIs
<1>3. e.sizing = None /\ None \notin {"instancetype", ""}
    BY AdoptingScalars DEF Adopts, Vm!EditAssumption
<1>4. /\ e.cpu = Moved(Vm!Vcpus(m.cpu), to.cpu, 0)
      /\ e.memory = Moved(Vm!MemoryOf(m), to.memory, "")
      /\ e.instancetype = Moved(Vm!NameOf(m.instancetype), to.instancetype, "")
    <2>1. /\ e.cpu = Moved(Vm!Vcpus(m.cpu), Vm!Vcpus(l.cpu), 0)
          /\ e.memory = Moved(Vm!MemoryOf(m), Vm!MemoryOf(l), "")
          /\ e.instancetype = Moved(Vm!NameOf(m.instancetype), Vm!NameOf(l.instancetype), "")
        BY AdoptingFrom, Zenon
    <2>2. to.cpu = Vm!Vcpus(l.cpu) /\ to.memory = Vm!MemoryOf(l) /\ to.instancetype = Vm!NameOf(l.instancetype)
        BY ParsedIs, Zenon
    <2> HIDE DEF e, to
    <2> QED
        BY <2>1, <2>2, Zenon
<1>5. /\ to.cpu = Vm!Vcpus(l.cpu) /\ to.instancetype = Vm!NameOf(l.instancetype)
      /\ Vm!Parsed(w).cpu = Vm!Vcpus(w.cpu) /\ Vm!Parsed(w).instancetype = Vm!NameOf(w.instancetype)
      /\ Vm!Parsed(w).memory = Vm!MemoryOf(w) /\ to.memory = Vm!MemoryOf(l)
    BY ParsedIs
<1>6. Vm!Requested(e)
    BY AdoptingRequested DEF Adopts
<1> HIDE DEF e, w, to, p, s
<1>7. /\ DOMAIN chosen = Vm!Fields /\ chosen.cpu = m.cpu /\ chosen.guest = m.guest /\ chosen.requests = m.requests
      /\ chosen.instancetype = IF e.instancetype = None THEN m.instancetype ELSE Vm!Ref(e.instancetype)
    BY <1>1 DEF Vm!WithInstancetype, Vm!Fields
<1>11. s = IF e.sizing = "custom" THEN Vm!Inline([p EXCEPT !.instancetype = None], e)
           ELSE IF e.sizing = "instancetype" \/ wins THEN Vm!StripInline(chosen)
           ELSE Vm!Inline(chosen, e)
    BY <1>1, Zenon DEF s, Vm!Sized, chosen
<1>12. e.instancetype # "" /\ (e.instancetype # None => Vm!Ref(e.instancetype) # None)
    BY <1>3, <1>4, <1>6 DEF Moved, Vm!Requested
<1> HIDE DEF chosen
<1>8. CASE e.sizing = "custom"
    <2>1. FALSE
        BY <1>3, <1>8 DEF Adopts, Vm!EditAssumption
    <2> QED
        BY <2>1
<1>9. CASE e.sizing # "custom" /\ wins
    <2>1. s = Vm!StripInline(chosen)
        BY <1>9, <1>11
    <2>2. w.instancetype = chosen.instancetype /\ chosen.instancetype # None
        BY <1>2, <1>7, <1>9, <1>12, <2>1 DEF Vm!StripInline, Vm!Fields
    <2>3. to.instancetype # "" => Vm!NameOf(w.instancetype) = to.instancetype
        <3>1. CASE e.instancetype = None
            <4>1. to.instancetype # None
                BY <1>3, <1>5 DEF Vm!NameOf, Adopts, Vm!Admitted
            <4> QED
                BY <1>4, <1>7, <2>2, <3>1, <4>1 DEF Moved
        <3>2. CASE e.instancetype # None
            <4>1. e.instancetype = to.instancetype
                BY <1>4, <3>2, Zenon DEF Moved
            <4>2. w.instancetype = Vm!Ref(e.instancetype) /\ w.instancetype # None
                BY <1>7, <2>2, <3>2
            <4>3. Vm!NameOf(w.instancetype) = e.instancetype
                BY <4>2, NameOfRef, Zenon
            <4> QED
                BY <4>1, <4>3
        <3> QED
            BY <3>1, <3>2
    <2> QED
        BY <1>5, <2>2, <2>3 DEF w, to
<1>10. CASE e.sizing # "custom" /\ ~wins
    <2>1. s = Vm!Inline(chosen, e) /\ chosen.instancetype = None
        BY <1>3, <1>7, <1>10, <1>11, <1>12
    <2>2. /\ DOMAIN v = Vm!Fields /\ v.guest = m.guest /\ v.requests = m.requests /\ v.instancetype = None
          /\ v.cpu = IF e.cpu = None THEN m.cpu
                     ELSE IF m.cpu.cores # 0 /\ m.cpu.sockets = 0 /\ m.cpu.threads = 0
                          THEN [m.cpu EXCEPT !.cores = e.cpu]
                          ELSE [cores |-> 0, sockets |-> e.cpu, threads |-> 0]
        BY <1>7, <2>1 DEF Vm!WithCpu, Vm!Fields
    <2>3. s = Vm!WithMemory(v, e.memory)
        BY <2>1 DEF Vm!Inline
    <2> HIDE DEF v
    <2>4. s.cpu = v.cpu /\ s.instancetype = None
        BY <2>2, <2>3 DEF Vm!WithMemory, Vm!Fields
    <2>5. to.instancetype = ""
        <3>1. e.instancetype = None /\ m.instancetype = None
            BY <1>10, <1>12
        <3>2. to.instancetype # None
            BY <1>3, <1>5 DEF Vm!NameOf, Adopts, Vm!Admitted
        <3> QED
            BY <1>4, <3>1, <3>2 DEF Moved, Vm!NameOf
    <2>6. to.cpu # 0 => Vm!Vcpus(w.cpu) = to.cpu
        <3>1. SUFFICES ASSUME to.cpu # 0 PROVE Vm!Vcpus(w.cpu) = to.cpu
            OBVIOUS
        <3>2. e.cpu = IF Vm!Vcpus(m.cpu) # to.cpu THEN to.cpu ELSE None
            BY <1>4, <3>1 DEF Moved
        <3>3. CASE e.cpu = None
            <4>1. to.cpu # None
                BY <1>5, CountedCpus DEF Adopts, Vm!EditAssumption
            <4>2. Vm!Vcpus(m.cpu) = to.cpu
                BY <3>2, <3>3, <4>1
            <4> QED
                BY <1>2, <2>2, <2>4, <3>3, <4>2
        <3>4. CASE e.cpu # None
            <4>1. e.cpu = to.cpu /\ e.cpu \in Nat
                BY <1>6, <3>2, <3>4 DEF Vm!Requested
            <4>2. PICK a, b, c \in Nat : m.cpu = [cores |-> a, sockets |-> b, threads |-> c]
                BY DEF Adopts, Vm!Admitted
            <4>3. w.cpu \in {[cores |-> e.cpu, sockets |-> 0, threads |-> 0],
                             [cores |-> 0, sockets |-> e.cpu, threads |-> 0]}
                BY <1>2, <2>2, <2>4, <3>4, <4>2
            <4> QED
                BY <3>1, <4>1, <4>3 DEF Vm!Vcpus
        <3> QED
            BY <3>3, <3>4
    <2>7. to.memory # "" => Vm!MemoryOf(w) = to.memory
        <3>1. SUFFICES ASSUME to.memory # "" PROVE Vm!MemoryOf(s) = to.memory
            BY <1>2, Zenon DEF Vm!MemoryOf
        <3>2. to.memory # None
            BY <1>3, <1>5 DEF Vm!MemoryOf, Vm!Text
        <3>3. CASE e.memory = None
            <4>1. s = v
                BY <2>3, <3>3 DEF Vm!WithMemory
            <4>2. Vm!MemoryOf(m) = to.memory
                BY <1>4, <3>1, <3>2, <3>3 DEF Moved
            <4> QED
                BY <2>2, <4>1, <4>2, Zenon DEF Vm!MemoryOf
        <3>4. CASE e.memory # None
            <4>1. e.memory = to.memory
                BY <1>4, <3>4 DEF Moved
            <4> QED
                BY <1>3, <2>2, <2>3, <3>1, <3>4, <4>1 DEF Vm!WithMemory, Vm!Fields, Vm!MemoryOf, Vm!Text
        <3> QED
            BY <3>3, <3>4
    <2> QED
        BY <1>5, <2>5, <2>6, <2>7 DEF w, to
<1> QED
    BY <1>8, <1>9, <1>10

LEMMA AdoptedMarks ==
    ASSUME NEW m, NEW l, Adopts(m, l)
    PROVE  LET after == Vm!Parsed(Adopted(m, l))
               to == Vm!Parsed(l)
           IN  /\ to.preference # "" => after.preference = to.preference
               /\ to.excluded # None => after.excluded = to.excluded
               /\ to.eviction # None => after.eviction = to.eviction
<1> DEFINE e == Adopting(m, l)
           w == Adopted(m, l)
           to == Vm!Parsed(l)
<1>1. /\ w.preference = IF e.preference = None THEN m.preference ELSE Vm!Ref(e.preference)
      /\ w.excluded = IF e.excluded = None THEN m.excluded ELSE e.excluded
      /\ w.eviction = IF e.eviction = None THEN m.eviction ELSE e.eviction
    BY AdoptedIs
<1>2. /\ e.preference = Moved(Vm!NameOf(m.preference), to.preference, "")
      /\ e.excluded = Moved(m.excluded, to.excluded, None)
      /\ e.eviction = Moved(m.eviction, to.eviction, None)
    <2>1. /\ e.preference = Moved(Vm!NameOf(m.preference), Vm!NameOf(l.preference), "")
          /\ e.excluded = Moved(m.excluded, l.excluded, None)
          /\ e.eviction = Moved(m.eviction, l.eviction, None)
        BY AdoptingFrom, Zenon
    <2>2. to.preference = Vm!NameOf(l.preference) /\ to.excluded = l.excluded /\ to.eviction = l.eviction
        BY ParsedIs, Zenon
    <2> HIDE DEF e, to
    <2> QED
        BY <2>1, <2>2, Zenon
<1>3. /\ Vm!Parsed(w).preference = Vm!NameOf(w.preference)
      /\ Vm!Parsed(w).excluded = w.excluded /\ Vm!Parsed(w).eviction = w.eviction
    BY ParsedIs
<1>4. Vm!Requested(e)
    BY AdoptingRequested DEF Adopts
<1> HIDE DEF e, w, to
<1>5. to.excluded # None => w.excluded = to.excluded
    BY <1>1, <1>2 DEF Moved
<1>6. to.eviction # None => w.eviction = to.eviction
    BY <1>1, <1>2 DEF Moved
<1>7. to.preference # "" => Vm!NameOf(w.preference) = to.preference
    <2>1. CASE e.preference = None
        <3>1. to.preference # None
            BY ParsedIs DEF to, Vm!NameOf, Adopts, Vm!Admitted, Vm!EditAssumption
        <3> QED
            BY <1>1, <1>2, <2>1, <3>1 DEF Moved
    <2>2. CASE e.preference # None
        <3>1. Vm!Ref(e.preference) # None
            BY <1>4, <2>2 DEF Vm!Requested
        <3> QED
            <4>1. e.preference = to.preference
                BY <1>2, <2>2, Zenon DEF Moved
            <4>2. w.preference = Vm!Ref(e.preference) /\ w.preference # None
                BY <1>1, <2>2, <3>1
            <4>3. Vm!NameOf(w.preference) = e.preference
                BY <4>2, NameOfRef, Zenon
            <4> QED
                BY <4>1, <4>3
    <2> QED
        BY <2>1, <2>2
<1> QED
    BY <1>3, <1>5, <1>6, <1>7 DEF w, to

LEMMA AdoptedLabels ==
    ASSUME NEW m, NEW l, Adopts(m, l)
    PROVE  LET after == Vm!Parsed(Adopted(m, l)).labels
               to == Vm!Parsed(l).labels
           IN  \A k \in Labels : after[k] # to[k] => m.labels[k] = None /\ to[k] = ""
<1> DEFINE e == Adopting(m, l)
           w == Adopted(m, l)
<1>1. w.labels = Vm!MapEdited(m.labels, e.labels, e.dropLabels)
    BY AdoptedIs
<1>2. Vm!Parsed(w).labels = w.labels /\ Vm!Parsed(l).labels = l.labels /\ Vm!Parsed(m).labels = m.labels
    BY ParsedIs
<1>3. /\ e.labels = [k \in {x \in Labels : l.labels[x] \notin {None, Vm!Text(m.labels[x])}} |-> l.labels[k]]
      /\ e.dropLabels = {k \in Labels : m.labels[k] # None /\ l.labels[k] = None}
    <2> DEFINE from == Vm!Parsed(m)
               to == Vm!Parsed(l)
    <2>1. /\ e.labels = [k \in {x \in Labels : to.labels[x] \notin {None, Vm!Text(from.labels[x])}} |-> to.labels[k]]
          /\ e.dropLabels = Vm!DroppedLabels(from, to)
        BY AdoptingLabels
    <2>2. to.labels = l.labels /\ from.labels = m.labels
        BY <1>2
    <2> HIDE DEF e, from, to
    <2> QED
        BY <2>1, <2>2 DEF Vm!DroppedLabels
<1>4. l.labels = [k \in Labels |-> l.labels[k]] /\ DOMAIN m.labels = Labels
    BY DEF Adopts, Vm!Admitted
<1> HIDE DEF e, w
<1>5. ASSUME NEW k \in Labels PROVE w.labels[k] # l.labels[k] => m.labels[k] = None /\ l.labels[k] = ""
    <2>1. w.labels[k] =
              IF k \in e.dropLabels /\ (m.labels[k] # None \/ k \notin DOMAIN e.labels) THEN None
              ELSE IF k \in DOMAIN e.labels THEN e.labels[k] ELSE m.labels[k]
        BY <1>1, <1>4 DEF Vm!MapEdited
    <2> QED
        BY <1>3, <2>1 DEF Vm!Text
<1> QED
    BY <1>2, <1>5 DEF w

LEMMA AdoptedDisks ==
    ASSUME NEW m, NEW l, Adopts(m, l), m.disks # <<>>, Vm!Distinct(m.disks)
    PROVE  Vm!DiskNames(Vm!Parsed(Adopted(m, l))) = Vm!DiskNames(Vm!Parsed(l))
<1> DEFINE e == Adopting(m, l)
           w == Adopted(m, l)
           from == Vm!Parsed(m)
           to == Vm!Parsed(l)
           added == Vm!SetToSeq(e.addDisks)
           bares == [i \in DOMAIN added |-> [name |-> added[i].name]]
<1>1. Vm!Requested(e) /\ Vm!IsList(m.disks) /\ "disks" \in DOMAIN m
    BY AdoptingRequested DEF Adopts, Vm!Admitted, Vm!Fields
<1>2. added \in Seq(e.addDisks) /\ Items(added) = e.addDisks
    BY <1>1, SetList DEF Vm!Requested
<1>3. w.disks = Vm!Changed(m.disks, e.dropDisks, bares)
    <2>1. w.disks = Vm!WithDisks(m, e).disks
        BY AdoptedIs
    <2> DEFINE vols == Vm!Changed(m.volumes, e.dropDisks, [i \in DOMAIN added |-> Vm!VolumeOf(added[i])])
               new == [i \in DOMAIN added |-> Vm!Blank(added[i])]
               tpls == IF m.templates # None THEN Vm!Changed(m.templates, Vm!DvsOf(m, e.dropDisks), new)
                       ELSE IF new = << >> THEN None ELSE new
    <2>2. Vm!WithDisks(m, e) = [m EXCEPT !.disks = Vm!Changed(m.disks, e.dropDisks, bares),
                                         !.volumes = vols, !.templates = tpls]
        BY Zenon DEF Vm!WithDisks
    <2> HIDE DEF vols, tpls, bares, e, w
    <2> QED
        BY <1>1, <2>1, <2>2
<1>4. Vm!NamesOf(bares) = {d.name : d \in e.addDisks} /\ bares \in Seq({[name |-> d.name] : d \in e.addDisks})
    <2> HIDE DEF added, e
    <2>1. Len(added) \in Nat /\ DOMAIN added = 1..Len(added) /\ \A i \in DOMAIN added : added[i] \in e.addDisks
        BY <1>2
    <2>2. Vm!NamesOf(bares) = {added[i].name : i \in DOMAIN added}
        BY DEF Vm!NamesOf
    <2>3. e.addDisks = {added[i] : i \in DOMAIN added}
        BY <1>2 DEF Items
    <2>4. bares \in Seq({[name |-> d.name] : d \in e.addDisks})
        BY <2>1
    <2> HIDE DEF bares
    <2> QED
        BY <2>2, <2>3, <2>4
<1> DEFINE old == Vm!NamesOf(m.disks)
           run == Vm!NamesOf(l.disks)
<1>5. Vm!DiskNames(from) = old /\ Vm!DiskNames(to) = run /\ Vm!DiskNames(Vm!Parsed(w)) = Vm!NamesOf(w.disks)
    BY DiskNamesAre
<1>6. /\ e.addDisks = {[d EXCEPT !.class = None] : d \in {x \in to.disks : x.name \notin old}}
      /\ e.dropDisks = old \ run
    <2>1. /\ e.addDisks = {[d EXCEPT !.class = None] : d \in {x \in to.disks : x.name \notin Vm!DiskNames(from)}}
          /\ e.dropDisks = Vm!DiskNames(from) \ Vm!DiskNames(to)
        BY AdoptingLists, Zenon
    <2> QED
        BY <1>5, <2>1, Zenon
<1>7. {d.name : d \in e.addDisks} = run \ old
    <2>1. to.disks = {Vm!DiskOf(l, n) : n \in run}
        BY ParsedIs
    <2>2. \A n : \E s, c : Vm!DiskOf(l, n) = [name |-> n, size |-> s, class |-> c]
        BY DEF Vm!DiskOf
    <2> DEFINE disk(n) == Vm!DiskOf(l, n)
               bare(d) == [d EXCEPT !.class = None]
    <2>3. \A n : disk(n).name = n /\ bare(disk(n)).name = n
        BY <2>2
    <2>4. to.disks = {disk(n) : n \in run} /\ e.addDisks = {bare(d) : d \in {x \in to.disks : x.name \notin old}}
        BY <1>6, <2>1, Zenon
    <2> HIDE DEF disk, bare, old, run, e, to
    <2>5. {x \in to.disks : x.name \notin old} = {disk(n) : n \in run \ old}
        BY <2>3, <2>4
    <2>6. e.addDisks = {bare(disk(n)) : n \in run \ old}
        BY <2>4, <2>5
    <2> QED
        BY <2>3, <2>6
<1>8. Vm!NamesOf(w.disks) = (old \ e.dropDisks) \union {d.name : d \in e.addDisks}
    <2> HIDE DEF e, w, bares
    <2> QED
        BY <1>1, <1>3, <1>4, ChangedNames
<1> HIDE DEF old, run, e, w, from, to
<1>9. Vm!NamesOf(w.disks) = run
    BY <1>6, <1>7, <1>8
<1> QED
    BY <1>5, <1>9 DEF w, to

LEMMA AdoptedNics ==
    ASSUME NEW m, NEW l, Adopts(m, l), m.nics # <<>>, Vm!Distinct(m.nics),
           Vm!Parsed(l).nics = {} => ~m.autoattach,
           \A n \in Vm!Parsed(l).nics : n.name \in Vm!NicNames(Vm!Parsed(m)) \union {n.net.nad}
    PROVE  Vm!NicNames(Vm!Parsed(Adopted(m, l))) = Vm!NicNames(Vm!Parsed(l))
<1> DEFINE e == Adopting(m, l)
           w == Adopted(m, l)
           from == Vm!Parsed(m)
           to == Vm!Parsed(l)
           added == Vm!SetToSeq(e.addNets)
           bares == [i \in DOMAIN added |-> [name |-> Vm!InterfaceName(added[i])]]
<1>1. Vm!Requested(e) /\ Vm!IsList(m.nics) /\ "nics" \in DOMAIN m
    BY AdoptingRequested DEF Adopts, Vm!Admitted, Vm!Fields
<1>2. added \in Seq(e.addNets) /\ Items(added) = e.addNets
    BY <1>1, SetList DEF Vm!Requested
<1>3. w.nics = Vm!Changed(m.nics, e.dropNets, bares)
    <2>1. w.nics = Vm!WithNets(m, e).nics
        BY AdoptedIs
    <2> DEFINE links == Vm!Changed(m.nets, e.dropNets,
                            [i \in DOMAIN added |-> [name |-> Vm!InterfaceName(added[i]), net |-> added[i]]])
    <2>2. Vm!WithNets(m, e) = [m EXCEPT !.nics = Vm!Changed(m.nics, e.dropNets, bares), !.nets = links]
        BY Zenon DEF Vm!WithNets
    <2> HIDE DEF links, bares, e, w
    <2> QED
        BY <1>1, <2>1, <2>2
<1>4. Vm!NamesOf(bares) = {n.nad : n \in e.addNets} /\ bares \in Seq({[name |-> n.nad] : n \in e.addNets})
    <2> HIDE DEF added, e
    <2>1. Len(added) \in Nat /\ DOMAIN added = 1..Len(added) /\ \A i \in DOMAIN added : added[i] \in e.addNets
        BY <1>2
    <2>2. Vm!NamesOf(bares) = {added[i].nad : i \in DOMAIN added}
        BY DEF Vm!NamesOf, Vm!InterfaceName
    <2>3. e.addNets = {added[i] : i \in DOMAIN added}
        BY <1>2 DEF Items
    <2> QED
        BY <2>1, <2>2, <2>3 DEF Vm!InterfaceName
<1> DEFINE old == Vm!NicNames(from)
           run == Vm!NicNames(to)
<1>5. /\ e.addNets = {n.net : n \in {x \in to.nics : x.name \notin old}}
      /\ e.dropNets = old \ run
    BY AdoptingLists
<1>6. run = {n.name : n \in to.nics}
    BY DEF Vm!NicNames
<1>7. old = Vm!NamesOf(m.nics)
    BY NicNamesAre
<1>8. Vm!NicNames(Vm!Parsed(w)) = IF w.nics = <<>> /\ w.autoattach THEN {"default"} ELSE Vm!NamesOf(w.nics)
    BY NicNamesAre
<1>9. w.autoattach = m.autoattach
    BY AdoptedIs
<1>10. Vm!NamesOf(w.nics) = (old \ e.dropNets) \union {n.nad : n \in e.addNets}
    <2> HIDE DEF e, w, bares
    <2> QED
        BY <1>1, <1>3, <1>4, <1>7, ChangedNames
<1>11. \A n \in to.nics : n.name \in old \union {n.net.nad}
    OBVIOUS
<1> HIDE DEF old, run, e, w, from, to
<1>12. {n.nad : n \in e.addNets} = run \ old
    <2>1. {n.nad : n \in e.addNets} = {x.net.nad : x \in {y \in to.nics : y.name \notin old}}
        BY <1>5
    <2>2. \A y \in to.nics : y.name \notin old => y.net.nad = y.name
        BY <1>11
    <2> QED
        BY <1>6, <2>1, <2>2
<1>13. Vm!NamesOf(w.nics) = run
    BY <1>5, <1>10, <1>12
<1>14. w.nics = <<>> => ~w.autoattach
    <2>1. Vm!NamesOf(<<>>) = {}
        BY DEF Vm!NamesOf
    <2>2. w.nics = <<>> => to.nics = {}
        BY <1>6, <1>13, <2>1
    <2> QED
        BY <1>9, <2>2 DEF to
<1> QED
    BY <1>8, <1>13, <1>14 DEF w, run, to

LEMMA VmNext ==
    ASSUME Vm!EditAssumption, VmInv, [Vm!Next]_(Vm!vars)
    PROVE  VmInv' /\ (vm' # vm => SizedFrom(vm, vm'))
<1>1. ASSUME NEW e, Vm!Requested(e), Vm!Land(e) PROVE VmInv' /\ SizedFrom(vm, vm')
    <2>1. vm' = Vm!ApplyEdit(vm, e) /\ live' = live
        BY <1>1 DEF Vm!Land
    <2>2. DOMAIN vm = Vm!Fields
        BY DEF VmInv, Vm!Admitted
    <2>3. SizedFrom(vm, vm')
        BY <2>1, <2>2, EditedOnce
    <2>4. Vm!Admitted(vm')
        BY <1>1, <2>1, AdmittedKept DEF VmInv
    <2>5. Vm!Admitted(live')
        BY <2>1 DEF VmInv
    <2> QED
        BY <2>3, <2>4, <2>5 DEF VmInv
<1>2. CASE Vm!StageEdit
    <2>1. PICK e \in Edits : Vm!Land(e)
        BY <1>2 DEF Vm!StageEdit
    <2> QED
        BY <1>1, <2>1 DEF Vm!EditAssumption
<1>3. CASE Vm!Adopt
    <2>1. Vm!Land(Adopting(vm, live))
        BY <1>3 DEF Vm!Adopt, Adopting
    <2>2. Vm!Requested(Adopting(vm, live))
        BY AdoptingRequested DEF VmInv
    <2> QED
        BY <1>1, <2>1, <2>2
<1>4. CASE UNCHANGED Vm!vars
    <2>1. vm' = vm /\ live' = live
        BY <1>4 DEF Vm!vars
    <2> QED
        BY <2>1 DEF VmInv
<1> QED
    BY <1>2, <1>3, <1>4 DEF Vm!Next

(* Adopting what runs leaves no difference that the edit can close.        *)
LEMMA Closes ==
    ASSUME NEW m, NEW l, Adopts(m, l)
    PROVE  LET from  == Vm!Parsed(m)
               to    == Vm!Parsed(l)
               after == Vm!Parsed(Adopted(m, l))
               unset == {f \in Vm!Scalars : to[f] = Vm!Unset[f]}
               sized == IF Adopted(m, l).instancetype = None THEN {} ELSE {"cpu", "memory"}
           IN  \A f \in Vm!Scalars \ (unset \union sized) : after[f] = to[f]
<1> DEFINE to == Vm!Parsed(l)
           w == Adopted(m, l)
           after == Vm!Parsed(w)
<1>1. to.power # "Unknown" => after.power = to.power
    BY AdoptedPower
<1>2. to.preference # "" => after.preference = to.preference
    BY AdoptedMarks
<1>3. to.excluded # None => after.excluded = to.excluded
    BY AdoptedMarks
<1>4. to.eviction # None => after.eviction = to.eviction
    BY AdoptedMarks
<1>5. to.instancetype # "" => after.instancetype = to.instancetype
    BY AdoptedSize
<1>6. w.instancetype = None => /\ to.cpu # 0 => after.cpu = to.cpu
                               /\ to.memory # "" => after.memory = to.memory
    BY AdoptedSize
<1>8. /\ Vm!Unset["power"] = "Unknown" /\ Vm!Unset["cpu"] = 0
      /\ \A f \in {"memory", "instancetype", "preference"} : Vm!Unset[f] = ""
      /\ \A f \in {"excluded", "eviction"} : Vm!Unset[f] = None
    BY DEF Vm!Unset
<1> HIDE DEF to, w, after
<1>9. \A f \in Vm!Scalars : \/ f \in {"power", "preference", "excluded", "eviction", "instancetype"}
                            \/ f \in {"cpu", "memory"}
    BY DEF Vm!Scalars
<1> QED
    BY <1>1, <1>2, <1>3, <1>4, <1>5, <1>6, <1>8, <1>9 DEF to, w, after

LEMMA AdoptedClosed ==
    ASSUME Vm!EditAssumption, VmInv
    PROVE  Vm!AdoptionCloses
<1>1. Adopts(vm, live)
    BY DEF Adopts, VmInv
<1> DEFINE from  == Vm!Parsed(vm)
           to    == Vm!Parsed(live)
           made  == Vm!ApplyEdit(vm, Vm!EditToMatch(from, to))
           after == Vm!Parsed(made)
           unset == {f \in Vm!Scalars : to[f] = Vm!Unset[f]}
           sized == IF made.instancetype = None THEN {} ELSE {"cpu", "memory"}
<1>2. after = Vm!Parsed(Adopted(vm, live))
    BY Zenon DEF Adopted, Adopting
<1>3. \A f \in Vm!Scalars \ (unset \union sized) : after[f] = to[f]
    BY <1>1, Closes DEF Adopted, Adopting
<1>4. \A k \in Labels : after.labels[k] # to.labels[k] => vm.labels[k] = None /\ to.labels[k] = ""
    <2>1. \A k \in Labels : Vm!Parsed(Adopted(vm, live)).labels[k] # Vm!Parsed(live).labels[k] =>
                                vm.labels[k] = None /\ Vm!Parsed(live).labels[k] = ""
        BY <1>1, AdoptedLabels, Zenon
    <2> HIDE DEF after
    <2> QED
        BY <1>2, <2>1, Zenon
<1>5. vm.disks # <<>> /\ Vm!Distinct(vm.disks) => Vm!DiskNames(after) = Vm!DiskNames(to)
    BY <1>1, <1>2, AdoptedDisks
<1>6. (/\ vm.nics # <<>> /\ Vm!Distinct(vm.nics) /\ (to.nics = {} => ~vm.autoattach)
       /\ \A n \in to.nics : n.name \in Vm!NicNames(from) \union {n.net.nad}) =>
          Vm!NicNames(after) = Vm!NicNames(to)
    BY <1>1, <1>2, AdoptedNics
<1> QED
    BY <1>3, <1>4, <1>5, <1>6, Zenon DEF Vm!AdoptionCloses

(* The first item of a name in a list.                                     *)
AtFront(s, name, x) ==
    \E i \in DOMAIN s : /\ s[i] = x /\ x.name = name
                        /\ \A j \in 1..(i - 1) : s[j].name # name

LEMMA NamedFirst ==
    ASSUME NEW s, Vm!IsList(s), NEW name, NEW x, AtFront(s, name, x)
    PROVE  Vm!Named(s, name) = x /\ name \in Vm!NamesOf(s)
<1> DEFINE R(i) == s[i].name = name /\ \A j \in 1..(i - 1) : s[j].name # name
           c == CHOOSE i \in DOMAIN s : R(i)
<1>1. Len(s) \in Nat /\ DOMAIN s = 1..Len(s)
    BY DEF Vm!IsList
<1>2. PICK i \in DOMAIN s : s[i] = x /\ x.name = name /\ \A j \in 1..(i - 1) : s[j].name # name
    BY DEF AtFront
<1>3. R(i)
    BY <1>2
<1>4. c \in DOMAIN s /\ R(c)
    BY <1>3
<1>5. Vm!Named(s, name) = s[c]
    BY Zenon DEF Vm!Named
<1> HIDE DEF c
<1>6. c = i
    BY <1>1, <1>3, <1>4
<1> QED
    BY <1>2, <1>5, <1>6 DEF Vm!NamesOf

LEMMA FirstNamed ==
    ASSUME NEW s, Vm!IsList(s), NEW name \in Vm!NamesOf(s)
    PROVE  AtFront(s, name, Vm!Named(s, name))
<1> DEFINE I == {i \in DOMAIN s : s[i].name = name}
<1>1. Len(s) \in Nat /\ DOMAIN s = 1..Len(s)
    BY DEF Vm!IsList
<1>2. I # {} /\ I \in SUBSET Nat
    BY <1>1 DEF Vm!NamesOf
<1>3. PICK i \in I : \A j \in I : i <= j
    <2> HIDE DEF I
    <2> QED
        BY <1>2, Smallest
<1>4. \A j \in 1..(i - 1) : s[j].name # name
    BY <1>1, <1>3
<1>5. AtFront(s, name, s[i])
    BY <1>3, <1>4 DEF AtFront
<1>6. Vm!Named(s, name) = s[i]
    BY <1>5, NamedFirst
<1> QED
    BY <1>5, <1>6

LEMMA FirstJoined ==
    ASSUME NEW S, NEW s \in Seq(S), NEW t \in Seq(S), NEW name, NEW x
    PROVE  /\ AtFront(s, name, x) => AtFront(s \o t, name, x)
           /\ name \notin Vm!NamesOf(s) /\ AtFront(t, name, x) => AtFront(s \o t, name, x)
<1> DEFINE c == s \o t
<1>1. Len(s) \in Nat /\ DOMAIN s = 1..Len(s) /\ Len(t) \in Nat /\ DOMAIN t = 1..Len(t)
    OBVIOUS
<1>2. \A i \in DOMAIN s : i \in DOMAIN c /\ c[i] = s[i]
    OBVIOUS
<1>3. \A i \in DOMAIN t : i + Len(s) \in DOMAIN c /\ c[i + Len(s)] = t[i]
    OBVIOUS
<1> HIDE DEF c
<1>4. ASSUME AtFront(s, name, x) PROVE AtFront(c, name, x)
    <2>1. PICK i \in DOMAIN s : s[i] = x /\ x.name = name /\ \A j \in 1..(i - 1) : s[j].name # name
        BY <1>4 DEF AtFront
    <2>2. \A j \in 1..(i - 1) : j \in DOMAIN s
        BY <1>1
    <2>3. \A j \in 1..(i - 1) : c[j].name # name
        BY <1>2, <2>1, <2>2
    <2> QED
        BY <1>2, <2>1, <2>3 DEF AtFront
<1>5. ASSUME name \notin Vm!NamesOf(s), AtFront(t, name, x) PROVE AtFront(c, name, x)
    <2>1. PICK i \in DOMAIN t : t[i] = x /\ x.name = name /\ \A j \in 1..(i - 1) : t[j].name # name
        BY <1>5 DEF AtFront
    <2>2. \A j \in DOMAIN s : s[j].name # name
        BY <1>5 DEF Vm!NamesOf
    <2>3. ASSUME NEW j \in 1..((i + Len(s)) - 1) PROVE c[j].name # name
        <3>1. CASE j \in DOMAIN s
            BY <1>2, <2>2, <3>1
        <3>2. CASE j \notin DOMAIN s
            <4>1. j - Len(s) \in 1..(i - 1) /\ j - Len(s) \in DOMAIN t /\ (j - Len(s)) + Len(s) = j
                BY <1>1, <3>2
            <4> QED
                BY <1>3, <2>1, <4>1
        <3> QED
            BY <3>1, <3>2
    <2> QED
        BY <1>3, <2>1, <2>3 DEF AtFront
<1> QED
    BY <1>4, <1>5 DEF c

(* What is left of a list has the same first items of the names that stay. *)
LEMMA WithoutFirst ==
    ASSUME NEW s, Vm!IsList(s), NEW names, NEW name, name \notin names, NEW x, AtFront(s, name, x)
    PROVE  AtFront(Vm!Without(s, names), name, x)
<1> DEFINE S == Items(s)
           n == Len(s)
           piece(i) == IF Gone(s, names, i) THEN << >> ELSE <<s[i]>>
           seqs == [i \in DOMAIN s |-> piece(i)]
<1>1. n \in Nat /\ DOMAIN s = 1..n /\ \A i \in DOMAIN s : s[i] \in S
    BY DEF Vm!IsList, Items
<1>2. Vm!Without(s, names) = Net!FlattenSeq(seqs)
    <2>1. Vm!Without(s, names) = Vm!FlattenSeq(seqs)
        BY Zenon DEF Vm!Without, Gone
    <2> QED
        BY <2>1, SameFlatten, Zenon
<1>3. PICK a \in DOMAIN s : s[a] = x /\ x.name = name /\ \A j \in 1..(a - 1) : s[j].name # name
    BY DEF AtFront
<1> HIDE DEF n, S
<1>4. \A i \in DOMAIN s : piece(i) \in Seq(S)
    <2>1. << >> \in Seq(S) /\ \A r \in S : <<r>> \in Seq(S)
        OBVIOUS
    <2> QED
        BY <1>1, <2>1
<1>5. \A i \in DOMAIN s : s[i].name # name => name \notin Vm!NamesOf(piece(i))
    <2>1. Vm!NamesOf(<< >>) = {}
        BY DEF Vm!NamesOf
    <2>2. \A r : Vm!NamesOf(<<r>>) = {r.name}
        BY DEF Vm!NamesOf
    <2> QED
        BY <2>1, <2>2
<1>6. AtFront(piece(a), name, x)
    <2>1. piece(a) = <<x>>
        BY <1>3 DEF Gone
    <2>2. AtFront(<<x>>, name, x)
        BY <1>3 DEF AtFront
    <2> QED
        BY <2>1, <2>2
<1> HIDE DEF piece
<1>7. DOMAIN seqs = DOMAIN s /\ \A i \in DOMAIN s : seqs[i] = piece(i)
    OBVIOUS
<1>8. seqs \in Seq(Seq(S)) /\ Len(seqs) = n
    BY <1>1, <1>4
<1> HIDE DEF seqs
<1>9. PICK g \in [0..n -> Seq(S)] :
          /\ g[0] = <<>> /\ \A k \in 1..n : g[k] = g[k - 1] \o seqs[k]
          /\ Net!FlattenSeq(seqs) = g[n]
    <2>1. \E g \in [0..Len(seqs) -> Seq(S)] :
              /\ g[0] = <<>> /\ \A k \in 1..Len(seqs) : g[k] = g[k - 1] \o seqs[k]
              /\ Net!FlattenSeq(seqs) = g[Len(seqs)]
        BY <1>8, Flatten
    <2> QED
        BY <1>8, <2>1
<1> DEFINE E == {k \in 0..n : /\ k < a => name \notin Vm!NamesOf(g[k])
                              /\ k >= a => AtFront(g[k], name, x)}
<1>10. 0 \in E
    <2>1. Vm!NamesOf(<< >>) = {}
        BY DEF Vm!NamesOf
    <2>2. a \in 1..n /\ 0 \in 0..n /\ ~(0 >= a)
        BY <1>1
    <2> QED
        BY <1>9, <2>1, <2>2
<1>11. ASSUME NEW k \in 0..(n - 1), k \in E PROVE k + 1 \in E
    <2>1. /\ k + 1 \in 1..n /\ k + 1 \in 0..n /\ (k + 1) - 1 = k /\ k \in 0..n
          /\ a \in 1..n /\ k \in Nat
        BY <1>1
    <2>2. g[k] \in Seq(S) /\ seqs[k + 1] \in Seq(S) /\ seqs[k + 1] = piece(k + 1) /\ g[k + 1] = g[k] \o seqs[k + 1]
        BY <1>1, <1>4, <1>7, <1>9, <2>1
    <2>3. CASE k + 1 < a
        <3>1. name \notin Vm!NamesOf(g[k])
            BY <1>11, <2>1, <2>3
        <3>2. s[k + 1].name # name
            <4>1. k + 1 \in 1..(a - 1)
                BY <2>1, <2>3
            <4> QED
                BY <1>3, <4>1
        <3>3. name \notin Vm!NamesOf(seqs[k + 1])
            BY <1>1, <1>5, <2>1, <2>2, <3>2
        <3>4. Items(g[k + 1]) = Items(g[k]) \union Items(seqs[k + 1])
            BY <2>2, ItemsJoined
        <3>5. name \notin Vm!NamesOf(g[k + 1])
            BY <3>1, <3>3, <3>4, NamesOfItems
        <3> QED
            BY <2>1, <2>3, <3>5
    <2>4. CASE k + 1 = a
        <3>1. name \notin Vm!NamesOf(g[k])
            BY <1>11, <2>1, <2>4
        <3>2. AtFront(seqs[k + 1], name, x)
            BY <1>6, <2>2, <2>4
        <3>3. AtFront(g[k + 1], name, x)
            BY <2>2, <3>1, <3>2, FirstJoined
        <3> QED
            BY <2>1, <2>4, <3>3
    <2>5. CASE k + 1 > a
        <3>1. AtFront(g[k], name, x)
            BY <1>11, <2>1, <2>5
        <3>2. AtFront(g[k + 1], name, x)
            BY <2>2, <3>1, FirstJoined
        <3> QED
            BY <2>1, <2>5, <3>2
    <2> QED
        BY <2>1, <2>3, <2>4, <2>5
<1>12. n \in E
    <2>1. \A k \in 0..(n - 1) : k \in E => k + 1 \in E
        BY <1>11, Zenon
    <2> HIDE DEF E
    <2>2. \A k \in 0..n : k \in E
        BY <1>1, <1>10, <2>1, UpTo
    <2> QED
        BY <1>1, <2>2
<1>13. n >= a
    BY <1>1
<1> QED
    BY <1>2, <1>9, <1>12, <1>13

(* A change adds no name but those it adds, and drops none but those it drops. *)
LEMMA ChangedAmong ==
    ASSUME NEW s, Vm!IsList(s), NEW names, NEW A, NEW added \in Seq(A)
    PROVE  Vm!NamesOf(Vm!Changed(s, names, added)) \subseteq Vm!NamesOf(s) \union Vm!NamesOf(added)
<1> DEFINE S == Items(s) \union A
           left_ == Vm!Without(s, names)
           more == IF s = << >> THEN << >> ELSE added
<1>1. s \in Seq(S) /\ added \in Seq(S) /\ << >> \in Seq(S)
    BY ListIn
<1> HIDE DEF S
<1>2. left_ \in Seq(S) /\ Items(left_) = {s[i] : i \in {j \in DOMAIN s : ~Gone(s, names, j)}}
    BY <1>1, WithoutItems
<1>3. more \in Seq(S)
    BY <1>1
<1>4. Vm!Changed(s, names, added) = left_ \o more
    BY DEF Vm!Changed
<1>5. Vm!NamesOf(more) \subseteq Vm!NamesOf(added)
    <2>1. Vm!NamesOf(<< >>) = {}
        BY DEF Vm!NamesOf
    <2> QED
        BY <2>1
<1> HIDE DEF left_, more
<1>6. Vm!NamesOf(left_) \subseteq Vm!NamesOf(s)
    <2>1. Items(left_) \subseteq Items(s)
        BY <1>2 DEF Items
    <2> QED
        BY <2>1, NamesOfItems
<1>7. Items(left_ \o more) = Items(left_) \union Items(more)
    BY <1>2, <1>3, ItemsJoined
<1> QED
    BY <1>4, <1>5, <1>6, <1>7, NamesOfItems

(* A change of a list, for a name that it does not drop.                   *)
LEMMA ChangedKeeps ==
    ASSUME NEW s, Vm!IsList(s), NEW names, NEW A, NEW added \in Seq(A), NEW name \in Vm!NamesOf(s), name \notin names
    PROVE  /\ name \in Vm!NamesOf(Vm!Changed(s, names, added))
           /\ Vm!Named(Vm!Changed(s, names, added), name) = Vm!Named(s, name)
<1> DEFINE S == Items(s) \union A
           left_ == Vm!Without(s, names)
           more == IF s = << >> THEN << >> ELSE added
           c == Vm!Changed(s, names, added)
           x == Vm!Named(s, name)
<1>1. s \in Seq(S) /\ added \in Seq(S) /\ << >> \in Seq(S)
    BY ListIn
<1> HIDE DEF S
<1>2. left_ \in Seq(S)
    BY <1>1, WithoutItems
<1>3. more \in Seq(S)
    BY <1>1
<1>4. c = left_ \o more
    BY DEF Vm!Changed
<1>5. Vm!IsList(c)
    BY ChangedList
<1>6. AtFront(s, name, x)
    BY FirstNamed
<1> HIDE DEF more, c, x
<1>7. AtFront(left_, name, x)
    BY <1>6, WithoutFirst
<1> HIDE DEF left_
<1>8. AtFront(c, name, x)
    BY <1>2, <1>3, <1>4, <1>7, FirstJoined
<1> QED
    BY <1>5, <1>8, NamedFirst DEF c, x

(* An edit that is staged with its preview, of a manifest.                 *)
Previews(m, e) ==
    /\ Vm!EditAssumption /\ Vm!NoneIsApart
    /\ Vm!Admitted(m) /\ Vm!Owned(m) /\ Vm!Requested(e) /\ Vm!Accepted(m, e)

(* An instance type that reads as one.                                     *)
NamedSize(m) == m.instancetype = None \/ Vm!NameOf(m.instancetype) # ""

Previewed(m, e) == Vm!ChangesForEdit(Vm!Parsed(m), e)

Edited(m, e) == Vm!Parsed(Vm!ApplyEdit(m, e))

(* What an edit leaves in the fields that are not lists of devices.        *)
LEMMA EditedIs ==
    ASSUME NEW m, NEW e, DOMAIN m = Vm!Fields
    PROVE  LET w == Vm!ApplyEdit(m, e)
               mk == Scalared(m, e)
           IN  /\ DOMAIN w = Vm!Fields
               /\ w.running = mk.running /\ w.strategy = mk.strategy
               /\ w.instancetype = mk.instancetype /\ w.cpu = mk.cpu
               /\ w.guest = mk.guest /\ w.requests = mk.requests
               /\ w.preference = mk.preference /\ w.labels = mk.labels
               /\ w.excluded = mk.excluded /\ w.eviction = mk.eviction
               /\ w.selector = mk.selector /\ w.affinity = mk.affinity /\ w.groups = mk.groups
               /\ w.disks = Vm!WithDisks(m, e).disks
               /\ w.nics = Vm!WithNets(m, e).nics /\ w.nets = Vm!WithNets(m, e).nets
               /\ w.autoattach = mk.autoattach
<1> DEFINE w == Vm!ApplyEdit(m, e)
           mk == Scalared(m, e)
           a == Vm!Appliers(m, e)
<1>1. w = Vm!Migrated(m, a, e)
    BY DEF Vm!ApplyEdit
<1>2. /\ SameBut(mk, a, {"disks", "volumes", "templates", "nics", "nets"})
      /\ a.disks = Vm!WithDisks(m, e).disks
      /\ a.nics = Vm!WithNets(m, e).nics /\ a.nets = Vm!WithNets(m, e).nets
    BY Applied
<1> HIDE DEF a, mk
<1>3. SameBut(a, w, {"templates", "volumes", "updates"})
    BY <1>1, <1>2, MigratedSame DEF SameBut
<1> HIDE DEF w
<1>4. /\ w.running = mk.running /\ w.strategy = mk.strategy
      /\ w.instancetype = mk.instancetype /\ w.cpu = mk.cpu
      /\ w.guest = mk.guest /\ w.requests = mk.requests
      /\ w.preference = mk.preference /\ w.labels = mk.labels
    BY <1>2, <1>3 DEF SameBut, Vm!Fields
<1>5. /\ w.excluded = mk.excluded /\ w.eviction = mk.eviction
      /\ w.selector = mk.selector /\ w.affinity = mk.affinity /\ w.groups = mk.groups
      /\ w.disks = a.disks /\ w.nics = a.nics /\ w.nets = a.nets /\ w.autoattach = mk.autoattach
    BY <1>2, <1>3 DEF SameBut, Vm!Fields
<1> QED
    BY <1>2, <1>3, <1>4, <1>5 DEF SameBut, w, mk

LEMMA ToldIs ==
    ASSUME NEW m, NEW e
    PROVE  LET cur == Vm!Parsed(m)
               c == Previewed(m, e)
           IN  /\ \A f \in {"power", "preference", "excluded", "eviction"} : e[f] \notin {None, cur[f]} => <<f>> \in c
               /\ Vm!SizingChanges(cur, e) \subseteq c /\ Vm!SchedulingChanges(cur, e) \subseteq c
               /\ \A k \in DOMAIN e.labels : e.labels[k] # cur.labels[k] => <<"label", k>> \in c
               /\ \A k \in e.dropLabels : cur.labels[k] # None => <<"label", k>> \in c
               /\ \A d \in e.addDisks : <<"disk", d.name>> \in c
               /\ \A n \in e.dropDisks : <<"disk", n>> \in c
               /\ \A n \in e.addNets : <<"network", n.nad>> \in c
               /\ \A n \in e.dropNets : <<"network", n>> \in c
<1> DEFINE cur == Vm!Parsed(m)
           sz == Vm!SizingChanges(cur, e)
           sc == Vm!SchedulingChanges(cur, e)
<1> HIDE DEF cur
<1>1. Previewed(m, e) = Vm!ChangesForEdit(cur, e)
    BY DEF Previewed, cur
<1> HIDE DEF sz, sc
<1>2. Vm!ChangesForEdit(cur, e) =
    {<<f>> : f \in {g \in {"power", "preference", "excluded", "eviction"} : e[g] \notin {None, cur[g]}}}
    \union sz
    \union {<<"label", k>> : k \in {l \in DOMAIN e.labels : e.labels[l] # cur.labels[l]}}
    \union {<<"label", k>> : k \in {l \in e.dropLabels : cur.labels[l] # None}}
    \union sc
    \union {<<"disk", d.name>> : d \in e.addDisks} \union {<<"disk", n>> : n \in e.dropDisks}
    \union {<<"network", n.nad>> : n \in e.addNets} \union {<<"network", n>> : n \in e.dropNets}
    \union {<<"storage", v.name>> : v \in e.migrate}
    BY Zenon DEF Vm!ChangesForEdit, sz, sc
<1>3. /\ sz \subseteq Previewed(m, e) /\ sc \subseteq Previewed(m, e)
      /\ \A f \in {"power", "preference", "excluded", "eviction"} : e[f] \notin {None, cur[f]} => <<f>> \in Previewed(m, e)
    BY <1>1, <1>2
<1>4. /\ \A k \in DOMAIN e.labels : e.labels[k] # cur.labels[k] => <<"label", k>> \in Previewed(m, e)
      /\ \A k \in e.dropLabels : cur.labels[k] # None => <<"label", k>> \in Previewed(m, e)
    BY <1>1, <1>2
<1>5. /\ \A d \in e.addDisks : <<"disk", d.name>> \in Previewed(m, e)
      /\ \A n \in e.dropDisks : <<"disk", n>> \in Previewed(m, e)
      /\ \A n \in e.addNets : <<"network", n.nad>> \in Previewed(m, e)
      /\ \A n \in e.dropNets : <<"network", n>> \in Previewed(m, e)
    BY <1>1, <1>2
<1> QED
    BY <1>3, <1>4, <1>5 DEF cur, sz, sc

LEMMA ToldPower ==
    ASSUME NEW m, NEW e, Previews(m, e), Edited(m, e).power # Vm!Parsed(m).power
    PROVE  <<"power">> \in Previewed(m, e)
<1> DEFINE p == Vm!Powered(m, e)
           w == Vm!ApplyEdit(m, e)
<1>1. /\ DOMAIN m = Vm!Fields /\ m.running \in BOOLEAN \union {None} /\ (m.running = None \/ m.strategy = None)
      /\ None \notin BOOLEAN /\ e.power \in {None, "On", "Off"}
      /\ None \notin {"On", "Off", "Always", "RerunOnFailure", "Halted", "Manual", "Once"}
    BY DEF Previews, Vm!Admitted, Vm!EditAssumption, Vm!Requested
<1>2. w.running = p.running /\ w.strategy = p.strategy
    BY <1>1, EditedIs, ScalaredIs
<1>3. Edited(m, e).power = Vm!PowerOf(p) /\ Vm!Parsed(m).power = Vm!PowerOf(m)
    BY <1>2, ParsedIs DEF Vm!PowerOf, Edited
<1> HIDE DEF w
<1>4. e.power # None
    <2>1. e.power = None => p = m
        BY DEF Vm!Powered
    <2> QED
        BY <1>3, <2>1
<1>5. CASE m.running # None
    <2>1. p = [m EXCEPT !.running = e.power = "On"]
        BY <1>4, <1>5 DEF Vm!Powered
    <2>2. p.running = (e.power = "On") /\ p.strategy = m.strategy
        BY <1>1, <2>1, Zenon DEF Vm!Fields
    <2>3. p.strategy = None /\ p.running # None
        BY <1>1, <1>5, <2>2
    <2>4. Vm!PowerOf(p) = IF p.running THEN "On" ELSE "Off"
        BY <1>1, <2>3 DEF Vm!PowerOf
    <2>5. Vm!PowerOf(p) = e.power
        BY <1>1, <1>4, <2>2, <2>4
    <2> QED
        BY <1>3, <1>4, <2>5, ToldIs
<1>6. CASE m.running = None
    <2>1. p.strategy = IF e.power = "On" THEN "Always" ELSE "Halted"
        BY <1>1, <1>4, <1>6 DEF Vm!Powered, Vm!Fields
    <2>2. Vm!PowerOf(p) = e.power
        BY <1>1, <1>4, <2>1 DEF Vm!PowerOf
    <2> QED
        BY <1>3, <1>4, <2>2, ToldIs
<1> QED
    BY <1>5, <1>6

LEMMA ToldMarks ==
    ASSUME NEW m, NEW e, Previews(m, e),
           NEW f \in {"preference", "excluded", "eviction"}, Edited(m, e)[f] # Vm!Parsed(m)[f]
    PROVE  <<f>> \in Previewed(m, e)
<1> DEFINE w == Vm!ApplyEdit(m, e)
           mk == Scalared(m, e)
<1>1. DOMAIN m = Vm!Fields
    BY DEF Previews, Vm!Admitted
<1>2. /\ w.preference = mk.preference /\ w.excluded = mk.excluded /\ w.eviction = mk.eviction
    BY <1>1, EditedIs
<1>3. /\ mk.preference = IF e.preference = None THEN m.preference ELSE Vm!Ref(e.preference)
      /\ mk.excluded = IF e.excluded = None THEN m.excluded ELSE e.excluded
      /\ mk.eviction = IF e.eviction = None THEN m.eviction ELSE e.eviction
    BY <1>1, ScalaredIs
<1> HIDE DEF w, mk
<1>4. /\ Vm!Parsed(w).preference = Vm!NameOf(w.preference) /\ Vm!Parsed(m).preference = Vm!NameOf(m.preference)
      /\ Vm!Parsed(w).excluded = w.excluded /\ Vm!Parsed(m).excluded = m.excluded
      /\ Vm!Parsed(w).eviction = w.eviction /\ Vm!Parsed(m).eviction = m.eviction
    BY ParsedIs
<1>5. e.preference # None => Vm!NameOf(Vm!Ref(e.preference)) = e.preference
    BY NewRefOK DEF Previews, Vm!Requested, Vm!NameOf
<1>6. e[f] \notin {None, Vm!Parsed(m)[f]}
    BY <1>2, <1>3, <1>4, <1>5 DEF Edited, w
<1> QED
    BY <1>6, ToldIs

LEMMA ToldLabels ==
    ASSUME NEW m, NEW e, Previews(m, e), NEW k \in Labels, Edited(m, e).labels[k] # Vm!Parsed(m).labels[k]
    PROVE  <<"label", k>> \in Previewed(m, e)
<1> DEFINE w == Vm!ApplyEdit(m, e)
<1>1. DOMAIN m = Vm!Fields /\ DOMAIN m.labels = Labels
    BY DEF Previews, Vm!Admitted
<1>2. w.labels = Vm!MapEdited(m.labels, e.labels, e.dropLabels)
    BY <1>1, EditedIs, ScalaredIs
<1> HIDE DEF w
<1>3. w.labels[k] # m.labels[k] /\ Vm!Parsed(m).labels = m.labels
    BY ParsedIs DEF Edited, w
<1>4. w.labels[k] = IF k \in e.dropLabels /\ (m.labels[k] # None \/ k \notin DOMAIN e.labels) THEN None
                    ELSE IF k \in DOMAIN e.labels THEN e.labels[k]
                    ELSE m.labels[k]
    BY <1>1, <1>2 DEF Vm!MapEdited
<1>5. \/ k \in e.dropLabels /\ m.labels[k] # None
      \/ k \in DOMAIN e.labels /\ e.labels[k] # m.labels[k]
    BY <1>3, <1>4
<1> QED
    BY <1>3, <1>5, ToldIs

(* A size that is set inline is the one that was wanted for.                *)
LEMMA InlineIs ==
    ASSUME NEW m, NEW e, DOMAIN m = Vm!Fields, m.cpu \in [cores : Nat, sockets : Nat, threads : Nat],
           e.cpu \in Nat \union {None}
    PROVE  LET w == Vm!Inline(m, e)
           IN  /\ w.instancetype = m.instancetype
               /\ Vm!Vcpus(w.cpu) = IF e.cpu = None THEN Vm!Vcpus(m.cpu) ELSE e.cpu
               /\ e.memory \in {None, Vm!MemoryOf(m)} => Vm!MemoryOf(w) = Vm!MemoryOf(m)
<1> DEFINE v == Vm!WithCpu(m, e.cpu)
           w == Vm!WithMemory(v, e.memory)
<1>1. PICK a, b, c \in Nat : m.cpu = [cores |-> a, sockets |-> b, threads |-> c]
    OBVIOUS
<1>2. /\ DOMAIN v = Vm!Fields /\ v.guest = m.guest /\ v.requests = m.requests /\ v.instancetype = m.instancetype
      /\ v.cpu = IF e.cpu = None THEN m.cpu
                 ELSE IF a # 0 /\ b = 0 /\ c = 0 THEN [cores |-> e.cpu, sockets |-> 0, threads |-> 0]
                 ELSE [cores |-> 0, sockets |-> e.cpu, threads |-> 0]
    BY <1>1 DEF Vm!WithCpu, Vm!Fields
<1> HIDE DEF v
<1>3. Vm!Vcpus(v.cpu) = IF e.cpu = None THEN Vm!Vcpus(m.cpu) ELSE e.cpu
    <2>1. CASE e.cpu = None
        BY <1>2, <2>1
    <2>2. CASE e.cpu # None
        <3>1. e.cpu \in Nat
            BY <2>2
        <3>2. v.cpu \in {[cores |-> e.cpu, sockets |-> 0, threads |-> 0],
                         [cores |-> 0, sockets |-> e.cpu, threads |-> 0]}
            BY <1>2, <2>2
        <3> QED
            BY <2>2, <3>1, <3>2 DEF Vm!Vcpus
    <2> QED
        BY <2>1, <2>2
<1>4. w.cpu = v.cpu /\ w.instancetype = v.instancetype
    BY <1>2 DEF Vm!WithMemory, Vm!Fields
<1>5. e.memory \in {None, Vm!MemoryOf(m)} => Vm!MemoryOf(w) = Vm!MemoryOf(m)
    <2>1. CASE e.memory = None
        BY <1>2, <2>1, Zenon DEF Vm!WithMemory, Vm!MemoryOf
    <2>2. CASE e.memory # None
        BY <1>2, <2>2 DEF Vm!WithMemory, Vm!MemoryOf, Vm!Text, Vm!Fields
    <2> QED
        BY <2>1, <2>2
<1>6. Vm!Inline(m, e) = w
    BY DEF Vm!Inline, v
<1> HIDE DEF w
<1> QED
    BY <1>2, <1>3, <1>4, <1>5, <1>6

LEMMA ToldSizing ==
    ASSUME NEW m, NEW e, Previews(m, e), NamedSize(m),
           NEW f \in {"cpu", "memory", "instancetype"}, Edited(m, e)[f] # Vm!Parsed(m)[f]
    PROVE  <<f>> \in Previewed(m, e)
<1> DEFINE cur == Vm!Parsed(m)
           w == Vm!ApplyEdit(m, e)
           p == Vm!Powered(m, e)
           s == Vm!Sized(p, e)
           chosen == Vm!WithInstancetype(p, e)
           none == [p EXCEPT !.instancetype = None]
           axes == [cores : Nat, sockets : Nat, threads : Nat]
           wins == m.instancetype # None \/ e.instancetype \notin {None, ""}
<1>1. /\ DOMAIN m = Vm!Fields /\ m.cpu \in axes /\ e.cpu \in Nat \union {None} /\ RefOK(m.instancetype)
      /\ e.instancetype # None => Vm!Ref(e.instancetype) # None
    BY DEF Previews, Vm!Admitted, Vm!Requested, RefOK
<1>2. /\ DOMAIN p = Vm!Fields /\ p.cpu = m.cpu /\ p.instancetype = m.instancetype
      /\ p.guest = m.guest /\ p.requests = m.requests
    BY <1>1 DEF Vm!Powered, Vm!Fields
<1>3. w.instancetype = s.instancetype /\ w.cpu = s.cpu /\ w.guest = s.guest /\ w.requests = s.requests
    BY <1>1, EditedIs, ScalaredIs
<1>4. /\ cur.cpu = Vm!Vcpus(m.cpu) /\ cur.memory = Vm!MemoryOf(m) /\ cur.instancetype = Vm!NameOf(m.instancetype)
    BY ParsedIs
<1>5. /\ Edited(m, e).cpu = Vm!Vcpus(s.cpu) /\ Edited(m, e).memory = Vm!MemoryOf(s)
      /\ Edited(m, e).instancetype = Vm!NameOf(s.instancetype)
    <2>1. /\ Edited(m, e).cpu = Vm!Vcpus(w.cpu) /\ Edited(m, e).memory = Vm!MemoryOf(w)
          /\ Edited(m, e).instancetype = Vm!NameOf(w.instancetype)
        BY ParsedIs DEF Edited
    <2> HIDE DEF w, s
    <2> QED
        BY <1>3, <2>1, Zenon DEF Vm!MemoryOf
<1> DEFINE wanted(g) == e[g] \notin {None, cur[g]}
           byInstance == CASE e.sizing = "custom"       -> FALSE
                           [] e.sizing = "instancetype" -> TRUE
                           [] OTHER                     -> cur.instancetype # "" \/ e.instancetype \notin {None, ""}
           shown(g)   == CASE g = "instancetype" -> IF byInstance THEN wanted(g) ELSE cur[g] # ""
                           [] g = "cpu"          -> IF byInstance THEN cur[g] # 0 ELSE wanted(g)
                           [] OTHER              -> IF byInstance THEN cur[g] # "" ELSE wanted(g)
<1>6. ASSUME shown(f) PROVE <<f>> \in Previewed(m, e)
    <2>1. Vm!SizingChanges(cur, e) = {<<h>> : h \in {g \in {"cpu", "memory", "instancetype"} : shown(g)}}
        BY Zenon DEF Vm!SizingChanges
    <2> HIDE DEF shown
    <2>2. <<f>> \in Vm!SizingChanges(cur, e)
        BY <1>6, <2>1
    <2> HIDE DEF cur
    <2> QED
        BY <2>2, ToldIs DEF cur
<1>7. /\ DOMAIN chosen = Vm!Fields /\ chosen.cpu = m.cpu /\ chosen.guest = m.guest /\ chosen.requests = m.requests
      /\ chosen.instancetype = IF e.instancetype = None THEN m.instancetype ELSE Vm!Ref(e.instancetype)
    BY <1>2 DEF Vm!WithInstancetype, Vm!Fields
<1>8. /\ DOMAIN none = Vm!Fields /\ none.cpu = m.cpu /\ none.guest = m.guest /\ none.requests = m.requests
      /\ none.instancetype = None
    BY <1>2 DEF Vm!Fields
<1>9. s = IF e.sizing = "custom" THEN Vm!Inline(none, e)
          ELSE IF e.sizing = "instancetype" \/ wins THEN Vm!StripInline(chosen)
          ELSE Vm!Inline(chosen, e)
    BY <1>2, Zenon DEF Vm!Sized
<1> DEFINE after == Edited(m, e)
<1> HIDE DEF w, p, s, chosen, none, after
<1>10. ASSUME NEW x, s = Vm!Inline(x, e), DOMAIN x = Vm!Fields, Vm!NameOf(x.instancetype) = "",
              x.cpu = m.cpu, x.guest = m.guest, x.requests = m.requests
       PROVE  /\ after.instancetype = "" /\ after.cpu = IF e.cpu = None THEN cur.cpu ELSE e.cpu
              /\ e.memory \in {None, cur.memory} => after.memory = cur.memory
    <2>1. /\ Vm!Inline(x, e).instancetype = x.instancetype
          /\ Vm!Vcpus(Vm!Inline(x, e).cpu) = IF e.cpu = None THEN Vm!Vcpus(x.cpu) ELSE e.cpu
          /\ e.memory \in {None, Vm!MemoryOf(x)} => Vm!MemoryOf(Vm!Inline(x, e)) = Vm!MemoryOf(x)
        BY <1>1, <1>10, InlineIs
    <2>2. Vm!MemoryOf(x) = Vm!MemoryOf(m)
        BY <1>10, Zenon DEF Vm!MemoryOf
    <2> HIDE DEF cur
    <2> QED
        BY <1>4, <1>5, <1>10, <2>1, <2>2 DEF after
<1>11. ASSUME s = Vm!StripInline(chosen)
       PROVE  /\ after.cpu = 0 /\ after.memory = ""
              /\ after.instancetype = IF e.instancetype = None THEN cur.instancetype ELSE e.instancetype
    <2>1. /\ s.cpu = [cores |-> 0, sockets |-> 0, threads |-> 0] /\ s.guest = None /\ s.requests = None
          /\ s.instancetype = chosen.instancetype
        BY <1>7, <1>11 DEF Vm!StripInline, Vm!Fields
    <2>2. Vm!Vcpus(s.cpu) = 0 /\ Vm!MemoryOf(s) = ""
        BY <2>1 DEF Vm!Vcpus, Vm!MemoryOf, Vm!Text
    <2>3. Vm!NameOf(chosen.instancetype) = IF e.instancetype = None THEN Vm!NameOf(m.instancetype) ELSE e.instancetype
        BY <1>1, <1>7, NewRefOK DEF Vm!NameOf
    <2> QED
        BY <1>4, <1>5, <2>1, <2>2, <2>3 DEF after
<1>12. /\ wins <=> cur.instancetype # "" \/ e.instancetype \notin {None, ""}
       /\ ~wins => Vm!NameOf(chosen.instancetype) = ""
       /\ Vm!NameOf(none.instancetype) = ""
    BY <1>1, <1>4, <1>7, <1>8, NewRefOK DEF NamedSize, Vm!NameOf
<1>13. after[f] # cur[f] /\ f \in {"cpu", "memory", "instancetype"}
    BY DEF after
<1> HIDE DEF cur, wins
<1>14. CASE e.sizing = "custom"
    <2>1. ~byInstance
        BY <1>14
    <2>2. /\ after.instancetype = "" /\ after.cpu = IF e.cpu = None THEN cur.cpu ELSE e.cpu
          /\ e.memory \in {None, cur.memory} => after.memory = cur.memory
        BY <1>8, <1>9, <1>10, <1>12, <1>14
    <2> HIDE DEF byInstance
    <2>3. shown(f)
        BY <1>13, <2>1, <2>2
    <2> QED
        BY <1>6, <2>3
<1>15. CASE e.sizing # "custom" /\ (e.sizing = "instancetype" \/ wins)
    <2>1. byInstance
        BY <1>12, <1>15
    <2>2. /\ after.cpu = 0 /\ after.memory = ""
          /\ after.instancetype = IF e.instancetype = None THEN cur.instancetype ELSE e.instancetype
        BY <1>9, <1>11, <1>15
    <2> HIDE DEF byInstance
    <2>3. shown(f)
        BY <1>13, <2>1, <2>2
    <2> QED
        BY <1>6, <2>3
<1>16. CASE e.sizing # "custom" /\ e.sizing # "instancetype" /\ ~wins
    <2>1. ~byInstance
        BY <1>12, <1>16
    <2>2. /\ after.instancetype = "" /\ after.cpu = IF e.cpu = None THEN cur.cpu ELSE e.cpu
          /\ e.memory \in {None, cur.memory} => after.memory = cur.memory
        BY <1>7, <1>9, <1>10, <1>12, <1>16
    <2> HIDE DEF byInstance
    <2>3. shown(f)
        BY <1>13, <2>1, <2>2
    <2> QED
        BY <1>6, <2>3
<1> QED
    BY <1>14, <1>15, <1>16

(* Where a manifest is pinned, and its groups.                             *)
Written(m) == m.affinity \notin {None, HandWritten}

LEMMA SchedulingIs ==
    ASSUME NEW m
    PROVE  LET s == Vm!Scheduling(m)
               term(g) == IF Written(m) THEN m.affinity.terms[g] ELSE None
           IN  /\ s.custom = (m.affinity = HandWritten \/ (Written(m) /\ m.selector # None /\ m.affinity.pin # {}))
               /\ s.pin = IF Written(m) /\ m.affinity.pin # {} THEN m.affinity.pin
                          ELSE IF m.selector = None THEN {} ELSE {m.selector}
               /\ \A g \in Groups : s.groups[g] =
                      IF term(g) # None THEN term(g)
                      ELSE IF m.groups[g] # None THEN [mode |-> m.groups[g], strict |-> FALSE]
                      ELSE None
<1> DEFINE s == Vm!Scheduling(m)
           term(g) == IF Written(m) THEN m.affinity.terms[g] ELSE None
           custom == m.affinity = HandWritten \/ (Written(m) /\ m.selector # None /\ m.affinity.pin # {})
           selected == IF m.selector = None THEN {} ELSE {m.selector}
           pin == IF Written(m) /\ m.affinity.pin # {} THEN m.affinity.pin ELSE selected
           groups == [g \in Groups |-> IF term(g) # None THEN term(g)
                                       ELSE IF m.groups[g] # None THEN [mode |-> m.groups[g], strict |-> FALSE]
                                       ELSE None]
<1>1. s = [custom |-> custom, pin |-> pin, groups |-> groups]
    BY Zenon DEF Vm!Scheduling, Written
<1> HIDE DEF s
<1>2. s.pin = pin /\ s.groups = groups
    <2> HIDE DEF custom, pin, groups
    <2> QED
        BY <1>1
<1>3. s.custom = custom
    <2> HIDE DEF custom, pin, groups
    <2> QED
        BY <1>1, Zenon
<1>4. \A g \in Groups : groups[g] = IF term(g) # None THEN term(g)
                                    ELSE IF m.groups[g] # None THEN [mode |-> m.groups[g], strict |-> FALSE]
                                    ELSE None
    <2> HIDE DEF term
    <2> QED
        OBVIOUS
<1> HIDE DEF groups
<1> QED
    BY <1>2, <1>3, <1>4, Zenon DEF s

(* What an edit of the placement leaves.                                   *)
Grouped(m, e) == [g \in Groups |-> IF g \in e.dropGroups THEN None
                                   ELSE IF g \in DOMAIN e.groups THEN e.groups[g]
                                   ELSE Vm!Scheduling(m).groups[g]]

(* The label of a group, and its term as it is read back.                  *)
LabelKept(m, e, g) ==
    IF g \in e.dropGroups /\ (m.groups[g] # None \/ g \notin DOMAIN e.groups) THEN None
    ELSE IF g \in DOMAIN e.groups THEN e.groups[g].mode
    ELSE m.groups[g]

TermRead(m, e, g) ==
    IF Grouped(m, e)[g] # None THEN Grouped(m, e)[g]
    ELSE IF Vm!ApplyEdit(m, e).groups[g] # None THEN [mode |-> Vm!ApplyEdit(m, e).groups[g], strict |-> FALSE]
    ELSE None

LEMMA PlacedIs ==
    ASSUME NEW m, NEW e, Previews(m, e), Vm!PlacementEdit(e)
    PROVE  LET w == Vm!ApplyEdit(m, e)
               pin == IF e.pin # None THEN e.pin ELSE Vm!PinKept(m)
               terms == Grouped(m, e)
           IN  /\ w.selector = IF e.pin # None THEN None ELSE m.selector
               /\ w.affinity = IF pin = {} /\ \A g \in Groups : terms[g] = None THEN None
                               ELSE [pin |-> pin, terms |-> terms]
               /\ \A g \in Groups : w.groups[g] = LabelKept(m, e, g)
<1> DEFINE w == Vm!ApplyEdit(m, e)
           pin == IF e.pin # None THEN e.pin ELSE Vm!PinKept(m)
           terms == Grouped(m, e)
           aff == IF pin = {} /\ \A g \in Groups : terms[g] = None THEN None
                  ELSE [pin |-> pin, terms |-> terms]
           wanted == [g \in DOMAIN e.groups |-> e.groups[g].mode]
           pl == Vm!Placed(m, e)
<1>1. DOMAIN m = Vm!Fields /\ DOMAIN m.groups = Groups
    BY DEF Previews, Vm!Admitted
<1>2. /\ w.selector = pl.selector /\ w.affinity = pl.affinity /\ w.groups = pl.groups
    BY <1>1, EditedIs, PlacedAsRead
<1>3. pl = [m EXCEPT !.selector = IF e.pin # None THEN None ELSE @,
                     !.affinity = aff,
                     !.groups = Vm!MapEdited(@, wanted, e.dropGroups)]
    BY Zenon DEF Vm!Placed, Grouped
<1> HIDE DEF w, pl, aff, wanted
<1>4. /\ pl.selector = IF e.pin # None THEN None ELSE m.selector
      /\ pl.affinity = aff /\ pl.groups = Vm!MapEdited(m.groups, wanted, e.dropGroups)
    BY <1>1, <1>3 DEF Vm!Fields
<1>5. \A g \in Groups : w.groups[g] = LabelKept(m, e, g)
    BY <1>1, <1>2, <1>4 DEF Vm!MapEdited, wanted, LabelKept
<1> HIDE DEF pin, terms
<1>6. w.selector = (IF e.pin # None THEN None ELSE m.selector) /\ w.affinity = aff
    BY <1>2, <1>4
<1> QED
    BY <1>5, <1>6 DEF w, aff, pin, terms

(* The placement as it is read back: the pin, and each group's term.       *)
ReadBack(m, e) ==
    LET w   == Vm!ApplyEdit(m, e)
        pin == IF e.pin # None THEN e.pin ELSE Vm!PinKept(m)
    IN  /\ Edited(m, e).scheduling.pin =
               IF pin # {} THEN pin ELSE IF w.selector = None THEN {} ELSE {w.selector}
        /\ \A g \in Groups : Edited(m, e).scheduling.groups[g] = TermRead(m, e, g)

LEMMA PlacedReads ==
    ASSUME NEW m, NEW e, Previews(m, e), Vm!PlacementEdit(e)
    PROVE  ReadBack(m, e)
<1> DEFINE w == Vm!ApplyEdit(m, e)
           pin == IF e.pin # None THEN e.pin ELSE Vm!PinKept(m)
           terms == Grouped(m, e)
           bare == pin = {} /\ \A g \in Groups : terms[g] = None
           s == Vm!Scheduling(w)
           term(g) == IF Written(w) THEN w.affinity.terms[g] ELSE None
<1>1. w.affinity = IF bare THEN None ELSE [pin |-> pin, terms |-> terms]
    BY PlacedIs
<1>2. /\ s.pin = IF Written(w) /\ w.affinity.pin # {} THEN w.affinity.pin
                 ELSE IF w.selector = None THEN {} ELSE {w.selector}
      /\ \A g \in Groups : s.groups[g] =
             IF term(g) # None THEN term(g)
             ELSE IF w.groups[g] # None THEN [mode |-> w.groups[g], strict |-> FALSE]
             ELSE None
    BY SchedulingIs
<1>3. Edited(m, e).scheduling = s
    BY ParsedIs DEF Edited
<1> HIDE DEF pin, terms, w, s
<1>4. CASE bare
    <2>1. ~Written(w)
        BY <1>1, <1>4 DEF Written
    <2>2. \A g \in Groups : term(g) = None /\ terms[g] = None
        BY <1>4, <2>1
    <2>3. \A g \in Groups : s.groups[g] = IF terms[g] # None THEN terms[g]
                                          ELSE IF w.groups[g] # None THEN [mode |-> w.groups[g], strict |-> FALSE]
                                          ELSE None
        BY <1>2, <2>2
    <2>4. s.pin = IF pin # {} THEN pin ELSE IF w.selector = None THEN {} ELSE {w.selector}
        BY <1>2, <1>4, <2>1
    <2> QED
        BY <1>3, <2>3, <2>4 DEF w, pin, terms, TermRead, ReadBack
<1>5. CASE ~bare
    <2>1. w.affinity = [pin |-> pin, terms |-> terms]
        BY <1>1, <1>5
    <2>2. Written(w)
        BY <2>1 DEF Written, Previews, Vm!NoneIsApart
    <2>3. w.affinity.pin = pin /\ w.affinity.terms = terms
        BY <2>1
    <2>4. \A g \in Groups : term(g) = terms[g]
        BY <2>2, <2>3
    <2>5. \A g \in Groups : s.groups[g] = IF terms[g] # None THEN terms[g]
                                          ELSE IF w.groups[g] # None THEN [mode |-> w.groups[g], strict |-> FALSE]
                                          ELSE None
        BY <1>2, <2>4
    <2>6. s.pin = IF pin # {} THEN pin ELSE IF w.selector = None THEN {} ELSE {w.selector}
        BY <1>2, <2>2, <2>3
    <2> QED
        BY <1>3, <2>5, <2>6 DEF w, pin, terms, TermRead, ReadBack
<1> QED
    BY <1>4, <1>5

(* A placement that is not edited stays.                                   *)
LEMMA PlacementStays ==
    ASSUME NEW m, NEW e, Previews(m, e), ~Vm!PlacementEdit(e)
    PROVE  Edited(m, e).scheduling = Vm!Parsed(m).scheduling
<1> DEFINE w == Vm!ApplyEdit(m, e)
<1>1. DOMAIN m = Vm!Fields
    BY DEF Previews, Vm!Admitted
<1>2. Vm!Placed(m, e) = m
    BY Zenon DEF Vm!Placed
<1>3. w.selector = m.selector /\ w.affinity = m.affinity /\ w.groups = m.groups
    BY <1>1, <1>2, EditedIs, PlacedAsRead
<1> HIDE DEF w
<1>4. Vm!Scheduling(w) = Vm!Scheduling(m)
    BY <1>3, Zenon DEF Vm!Scheduling
<1> QED
    BY <1>4, ParsedIs DEF Edited, w

LEMMA ToldPin ==
    ASSUME NEW m, NEW e, Previews(m, e), Edited(m, e).scheduling.pin # Vm!Parsed(m).scheduling.pin
    PROVE  <<"pin">> \in Previewed(m, e)
<1> DEFINE w == Vm!ApplyEdit(m, e)
           now == Vm!Scheduling(m)
           cur == Vm!Parsed(m)
<1>1. Vm!PlacementEdit(e)
    BY PlacementStays
<1>2. ~now.custom /\ cur.scheduling = now
    BY <1>1, ParsedIs DEF Previews, Vm!Accepted
<1>3. m.affinity # HandWritten /\ ~(Written(m) /\ m.selector # None /\ m.affinity.pin # {})
    BY <1>2, SchedulingIs
<1>4. now.pin = IF Written(m) /\ m.affinity.pin # {} THEN m.affinity.pin
                ELSE IF m.selector = None THEN {} ELSE {m.selector}
    BY SchedulingIs
<1>5. w.selector = IF e.pin # None THEN None ELSE m.selector
    BY <1>1, PlacedIs
<1> DEFINE pin == IF e.pin # None THEN e.pin ELSE Vm!PinKept(m)
           after == Edited(m, e).scheduling.pin
<1>6. after = IF pin # {} THEN pin ELSE IF w.selector = None THEN {} ELSE {w.selector}
    BY <1>1, PlacedReads DEF ReadBack
<1>7. after # now.pin
    BY <1>2
<1> HIDE DEF w, now, after, cur
<1>8. e.pin # None
    <2>1. SUFFICES ASSUME e.pin = None PROVE after = now.pin
        BY <1>7
    <2>2. Vm!PinKept(m) = IF Vm!PinInSelector(m) THEN {} ELSE now.pin
        BY DEF Vm!PinKept, now
    <2>3. Vm!PinInSelector(m) <=> m.selector # None /\ (~Written(m) \/ m.affinity.pin = {})
        BY DEF Vm!PinInSelector, Written
    <2>4. CASE Vm!PinInSelector(m)
        BY <1>4, <1>5, <1>6, <2>1, <2>2, <2>3, <2>4
    <2>5. CASE ~Vm!PinInSelector(m)
        <3>1. m.selector = None
            BY <1>3, <2>3, <2>5
        <3> QED
            BY <1>4, <1>5, <1>6, <2>1, <2>2, <2>5, <3>1
    <2> QED
        BY <2>4, <2>5
<1>9. after = e.pin
    BY <1>5, <1>6, <1>8
<1>10. <<"pin">> \in Vm!SchedulingChanges(cur, e)
    <2>1. e.pin \notin {None, cur.scheduling.pin}
        BY <1>2, <1>7, <1>8, <1>9
    <2> QED
        BY <2>1 DEF Vm!SchedulingChanges
<1> QED
    BY <1>10, ToldIs DEF cur

LEMMA ToldGroups ==
    ASSUME NEW m, NEW e, Previews(m, e), NEW h \in Groups,
           Edited(m, e).scheduling.groups[h] # Vm!Parsed(m).scheduling.groups[h]
    PROVE  <<"group", h>> \in Previewed(m, e)
<1> DEFINE w == Vm!ApplyEdit(m, e)
           now == Vm!Scheduling(m)
           cur == Vm!Parsed(m)
           after == Edited(m, e).scheduling.groups[h]
           term == IF Written(m) THEN m.affinity.terms[h] ELSE None
           new == Grouped(m, e)[h]
<1>1. Vm!PlacementEdit(e)
    BY PlacementStays
<1>2. cur.scheduling = now
    BY ParsedIs
<1>3. now.groups[h] = IF term # None THEN term
                      ELSE IF m.groups[h] # None THEN [mode |-> m.groups[h], strict |-> FALSE]
                      ELSE None
    BY SchedulingIs
<1>4. w.groups[h] = IF h \in e.dropGroups /\ (m.groups[h] # None \/ h \notin DOMAIN e.groups) THEN None
                    ELSE IF h \in DOMAIN e.groups THEN e.groups[h].mode
                    ELSE m.groups[h]
    <2>1. w.groups[h] = LabelKept(m, e, h)
        BY <1>1, PlacedIs
    <2> QED
        BY <2>1, Zenon DEF LabelKept
<1>5. after = IF new # None THEN new
              ELSE IF w.groups[h] # None THEN [mode |-> w.groups[h], strict |-> FALSE]
              ELSE None
    <2>1. ReadBack(m, e)
        BY <1>1, PlacedReads
    <2>2. after = TermRead(m, e, h)
        BY <2>1, Zenon DEF ReadBack
    <2> QED
        BY <2>2, Zenon DEF TermRead
<1>6. new = IF h \in e.dropGroups THEN None
            ELSE IF h \in DOMAIN e.groups THEN e.groups[h]
            ELSE now.groups[h]
    BY DEF Grouped
<1>7. after # now.groups[h]
    BY <1>2
<1>8. /\ h \in DOMAIN e.groups => e.groups[h] # None
      /\ \A x, y : [mode |-> x, strict |-> y] # None
    BY DEF Previews, Vm!Requested, Vm!NoneIsApart
<1> HIDE DEF w, now, after, cur, new, term
<1>9. now.groups[h] = None => m.groups[h] = None
    BY <1>3, <1>8
<1>10. \/ h \in e.dropGroups /\ now.groups[h] # None
       \/ h \in DOMAIN e.groups /\ e.groups[h] # now.groups[h]
    <2>1. CASE h \in e.dropGroups
        <3>1. now.groups[h] = None /\ h \notin DOMAIN e.groups => after = None
            BY <1>4, <1>5, <1>6, <2>1
        <3> QED
            BY <1>7, <1>8, <2>1, <3>1
    <2>2. CASE h \notin e.dropGroups /\ h \in DOMAIN e.groups
        <3>1. after = e.groups[h]
            BY <1>5, <1>6, <1>8, <2>2
        <3> QED
            BY <1>7, <2>2, <3>1
    <2>3. CASE h \notin e.dropGroups /\ h \notin DOMAIN e.groups
        <3>1. new = now.groups[h] /\ w.groups[h] = m.groups[h]
            BY <1>4, <1>6, <2>3
        <3>2. after = now.groups[h]
            BY <1>5, <1>9, <3>1
        <3> QED
            BY <1>7, <3>2
    <2> QED
        BY <2>1, <2>2, <2>3
<1>11. <<"group", h>> \in Vm!SchedulingChanges(cur, e)
    BY <1>2, <1>10 DEF Vm!SchedulingChanges
<1> QED
    BY <1>11, ToldIs DEF cur

(* The DataVolume of a disk, and the size of the template that has it.     *)
DvIn(volumes, n) == IF n \in Vm!NamesOf(volumes) THEN Vm!Named(volumes, n).dv ELSE None

SizeIn(volumes, templates, n) ==
    LET dv == DvIn(volumes, n)
    IN  IF dv = None \/ templates = None THEN None
        ELSE IF dv \notin Vm!NamesOf(templates) THEN None
        ELSE Vm!Named(templates, dv).size

LEMMA DiskSize ==
    ASSUME NEW m, NEW n
    PROVE  Vm!DiskOf(m, n).size = SizeIn(m.volumes, m.templates, n) /\ Vm!DiskOf(m, n).name = n
<1> DEFINE dv == DvIn(m.volumes, n)
           bare == [name |-> n, size |-> None, class |-> None]
<1>1. Vm!DiskOf(m, n) = IF dv = None \/ m.templates = None THEN bare
                        ELSE IF dv \notin Vm!NamesOf(m.templates) THEN bare
                        ELSE [name |-> n, size |-> Vm!Named(m.templates, dv).size,
                              class |-> Vm!Named(m.templates, dv).class]
    BY Zenon DEF Vm!DiskOf, DvIn
<1>2. SizeIn(m.volumes, m.templates, n) = IF dv = None \/ m.templates = None THEN None
                                          ELSE IF dv \notin Vm!NamesOf(m.templates) THEN None
                                          ELSE Vm!Named(m.templates, dv).size
    BY Zenon DEF SizeIn
<1> HIDE DEF dv
<1> QED
    BY <1>1, <1>2

LEMMA DiskLabelsAre ==
    ASSUME NEW m, NEW n
    PROVE  Vm!DiskLabels(Vm!Parsed(m), n) =
              IF n \in Vm!NamesOf(m.disks) THEN {SizeIn(m.volumes, m.templates, n)} ELSE {}
<1> DEFINE N == Vm!NamesOf(m.disks)
           D == {Vm!DiskOf(m, x) : x \in N}
<1>1. Vm!Parsed(m).disks = D
    BY ParsedIs
<1>2. Vm!DiskLabels(Vm!Parsed(m), n) = {d.size : d \in {x \in D : x.name = n}}
    BY <1>1, Zenon DEF Vm!DiskLabels
<1>3. \A x : Vm!DiskOf(m, x).name = x /\ Vm!DiskOf(m, x).size = SizeIn(m.volumes, m.templates, x)
    BY DiskSize
<1> HIDE DEF N
<1>4. {x \in D : x.name = n} = IF n \in N THEN {Vm!DiskOf(m, n)} ELSE {}
    BY <1>3
<1> HIDE DEF D
<1> QED
    BY <1>2, <1>3, <1>4 DEF N

(* The lists of devices that an edit changes.                              *)
DiskNamesAdded(e) == {d.name : d \in e.addDisks}

DvsAdded(e) == {<<d.name, 0>> : d \in e.addDisks}

(* Each disk comes with its volume, and with its template.                 *)
AddedTogether(bares, vols, new) ==
    /\ DOMAIN bares = DOMAIN vols /\ DOMAIN new = DOMAIN vols
    /\ \A i \in DOMAIN vols : /\ bares[i].name = vols[i].name /\ new[i].name = vols[i].dv
                             /\ vols[i].dv = <<vols[i].name, 0>>

DisksGive(m, e, w, bares, vols, new) ==
    /\ Vm!NamesOf(bares) = DiskNamesAdded(e) /\ Vm!NamesOf(vols) = DiskNamesAdded(e)
    /\ Vm!NamesOf(new) = DvsAdded(e)
    /\ \A i \in DOMAIN vols : DOMAIN vols[i] = {"name", "dv"} /\ vols[i].dv[1] = vols[i].name
    /\ \A i \in DOMAIN new : DOMAIN new[i] = {"name", "size", "class", "blank"}
    /\ AddedTogether(bares, vols, new)
    /\ w.disks = Vm!Changed(m.disks, e.dropDisks, bares)
    /\ w.volumes = Vm!Changed(m.volumes, e.dropDisks, vols)
    /\ w.templates = IF m.templates # None THEN Vm!Changed(m.templates, Vm!DvsOf(m, e.dropDisks), new)
                     ELSE IF new = << >> THEN None ELSE new

LEMMA DisksAre ==
    ASSUME NEW m, Vm!Admitted(m), NEW e, Vm!Requested(e)
    PROVE  \E A : \E bares, vols, new \in Seq(A) : DisksGive(m, e, Vm!WithDisks(m, e), bares, vols, new)
<1> DEFINE w == Vm!WithDisks(m, e)
           added == Vm!SetToSeq(e.addDisks)
           bare(d) == [name |-> d.name]
           bares == [i \in DOMAIN added |-> bare(added[i])]
           vols == [i \in DOMAIN added |-> Vm!VolumeOf(added[i])]
           new == [i \in DOMAIN added |-> Vm!Blank(added[i])]
           A == {bare(d) : d \in e.addDisks} \union {Vm!VolumeOf(d) : d \in e.addDisks}
                   \union {Vm!Blank(d) : d \in e.addDisks}
<1>1. added \in Seq(e.addDisks) /\ Items(added) = e.addDisks
    BY SetList DEF Vm!Requested
<1>2. Len(added) \in Nat /\ DOMAIN added = 1..Len(added) /\ \A i \in DOMAIN added : added[i] \in e.addDisks
    BY <1>1
<1>3. w.disks = Vm!Changed(m.disks, e.dropDisks, bares) /\ w.volumes = Vm!Changed(m.volumes, e.dropDisks, vols)
      /\ w.templates = IF m.templates # None THEN Vm!Changed(m.templates, Vm!DvsOf(m, e.dropDisks), new)
                       ELSE IF new = << >> THEN None ELSE new
    <2> HIDE DEF bares, vols, new
    <2>1. w = [m EXCEPT !.disks = Vm!Changed(@, e.dropDisks, bares),
                        !.volumes = Vm!Changed(@, e.dropDisks, vols),
                        !.templates = IF @ # None THEN Vm!Changed(@, Vm!DvsOf(m, e.dropDisks), new)
                                      ELSE IF new = << >> THEN None ELSE new]
        BY Zenon DEF Vm!WithDisks, bares, vols, new
    <2>2. {"disks", "volumes", "templates"} \subseteq DOMAIN m
        BY DEF Vm!Admitted, Vm!Fields
    <2> HIDE DEF w
    <2> QED
        BY <2>1, <2>2
<1> HIDE DEF added, w
<1>4. /\ \A d : bare(d).name = d.name /\ Vm!VolumeOf(d).name = d.name /\ Vm!Blank(d).name = <<d.name, 0>>
      /\ \A d : DOMAIN Vm!VolumeOf(d) = {"name", "dv"} /\ Vm!VolumeOf(d).dv[1] = d.name
      /\ \A d : DOMAIN Vm!Blank(d) = {"name", "size", "class", "blank"}
    BY DEF Vm!VolumeOf, Vm!Blank
<1>5. e.addDisks = {added[i] : i \in DOMAIN added}
    BY <1>1 DEF Items
<1> HIDE DEF bare
<1>6. /\ \A i \in DOMAIN added : bares[i] = bare(added[i]) /\ vols[i] = Vm!VolumeOf(added[i]) /\ new[i] = Vm!Blank(added[i])
      /\ DOMAIN bares = DOMAIN added /\ DOMAIN vols = DOMAIN added /\ DOMAIN new = DOMAIN added
    OBVIOUS
<1>7. bares \in Seq(A) /\ vols \in Seq(A) /\ new \in Seq(A)
    BY <1>2
<1> HIDE DEF A, bares, vols, new
<1>8. \A i \in DOMAIN added :
           /\ bares[i].name = added[i].name /\ vols[i].name = added[i].name /\ new[i].name = <<added[i].name, 0>>
           /\ DOMAIN vols[i] = {"name", "dv"} /\ vols[i].dv[1] = added[i].name
           /\ DOMAIN new[i] = {"name", "size", "class", "blank"}
    BY <1>4, <1>6, Zenon
<1>9. Vm!NamesOf(bares) = DiskNamesAdded(e)
    <2>1. Vm!NamesOf(bares) = {added[i].name : i \in DOMAIN added}
        BY <1>6, <1>8 DEF Vm!NamesOf
    <2> QED
        BY <1>5, <2>1 DEF DiskNamesAdded
<1>10. Vm!NamesOf(vols) = DiskNamesAdded(e)
    <2>1. Vm!NamesOf(vols) = {added[i].name : i \in DOMAIN added}
        BY <1>6, <1>8 DEF Vm!NamesOf
    <2> QED
        BY <1>5, <2>1 DEF DiskNamesAdded
<1>11. Vm!NamesOf(new) = DvsAdded(e)
    <2> DEFINE own(i) == <<added[i].name, 0>>
    <2>1. DOMAIN new = DOMAIN added /\ \A i \in DOMAIN added : new[i].name = own(i)
        BY <1>6, <1>8, Zenon
    <2>2. Vm!NamesOf(new) = {<<added[i].name, 0>> : i \in DOMAIN added}
        <3> HIDE DEF own
        <3>1. Vm!NamesOf(new) = {own(i) : i \in DOMAIN added}
            BY <2>1 DEF Vm!NamesOf
        <3> QED
            BY <3>1 DEF own
    <2> QED
        BY <1>5, <2>2 DEF DvsAdded
<1>12. \A i \in DOMAIN vols : DOMAIN vols[i] = {"name", "dv"} /\ vols[i].dv[1] = vols[i].name
    BY <1>6, <1>8
<1>13. \A i \in DOMAIN new : DOMAIN new[i] = {"name", "size", "class", "blank"}
    BY <1>6, <1>8
<1>14. AddedTogether(bares, vols, new)
    <2>1. \A d : Vm!VolumeOf(d).dv = <<d.name, 0>>
        BY DEF Vm!VolumeOf
    <2>2. \A i \in DOMAIN added : vols[i].dv = <<added[i].name, 0>>
        BY <1>6, <2>1
    <2> QED
        BY <1>6, <1>8, <2>2, Zenon DEF AddedTogether
<1>15. DisksGive(m, e, w, bares, vols, new)
    BY <1>3, <1>9, <1>10, <1>11, <1>12, <1>13, <1>14, Zenon DEF DisksGive
<1> QED
    BY <1>7, <1>15, Zenon DEF w

(* A disk that an edit does not name keeps its volume.                     *)
Unnamed(e, n) == n \notin e.dropDisks /\ n \notin DiskNamesAdded(e)

LEMMA NamesStay ==
    ASSUME NEW s, Vm!IsList(s), NEW names, NEW A, NEW added \in Seq(A), NEW n, n \notin names, n \notin Vm!NamesOf(added)
    PROVE  /\ n \in Vm!NamesOf(s) <=> n \in Vm!NamesOf(Vm!Changed(s, names, added))
           /\ n \in Vm!NamesOf(s) => Vm!Named(Vm!Changed(s, names, added), n) = Vm!Named(s, n)
BY ChangedAmong, ChangedKeeps

LEMMA NamedIs ==
    ASSUME NEW s, Vm!IsList(s), NEW n \in Vm!NamesOf(s)
    PROVE  \E i \in DOMAIN s : s[i] = Vm!Named(s, n) /\ s[i].name = n
BY FirstNamed DEF AtFront

LEMMA DvOwned ==
    ASSUME NEW m, Vm!IsList(m.volumes), Vm!Owned(m), NEW n, DvIn(m.volumes, n) # None
    PROVE  n \in Vm!NamesOf(m.volumes) /\ Vm!Named(m.volumes, n).dv = DvIn(m.volumes, n) /\ DvIn(m.volumes, n)[1] = n
<1>1. n \in Vm!NamesOf(m.volumes) /\ DvIn(m.volumes, n) = Vm!Named(m.volumes, n).dv
    BY DEF DvIn
<1>2. PICK i \in DOMAIN m.volumes : m.volumes[i] = Vm!Named(m.volumes, n) /\ m.volumes[i].name = n
    BY <1>1, NamedIs
<1> QED
    BY <1>1, <1>2 DEF Vm!Owned

(* Disks added and removed leave the size of another one alone.            *)
LEMMA SizeStays ==
    ASSUME NEW m, NEW e, Previews(m, e), NEW n, Unnamed(e, n)
    PROVE  LET w == Vm!WithDisks(m, e)
           IN  /\ n \in Vm!NamesOf(m.disks) <=> n \in Vm!NamesOf(w.disks)
               /\ DvIn(w.volumes, n) = DvIn(m.volumes, n)
               /\ SizeIn(w.volumes, w.templates, n) = SizeIn(m.volumes, m.templates, n)
<1> DEFINE w == Vm!WithDisks(m, e)
           dv == DvIn(m.volumes, n)
           gone == Vm!DvsOf(m, e.dropDisks)
<1>1. Vm!Admitted(m) /\ Vm!Requested(e) /\ Vm!Owned(m)
    BY DEF Previews
<1>2. PICK A : \E bares, vols, new \in Seq(A) : DisksGive(m, e, w, bares, vols, new)
    BY <1>1, DisksAre
<1>8. PICK bares, vols, new \in Seq(A) : DisksGive(m, e, w, bares, vols, new)
    BY <1>2
<1> HIDE DEF w
<1>3. /\ Vm!NamesOf(bares) = DiskNamesAdded(e) /\ Vm!NamesOf(vols) = DiskNamesAdded(e)
      /\ Vm!NamesOf(new) = DvsAdded(e)
      /\ w.disks = Vm!Changed(m.disks, e.dropDisks, bares)
      /\ w.volumes = Vm!Changed(m.volumes, e.dropDisks, vols)
      /\ w.templates = IF m.templates # None THEN Vm!Changed(m.templates, gone, new)
                       ELSE IF new = << >> THEN None ELSE new
    BY <1>8, Zenon DEF DisksGive
<1> HIDE DEF w, gone
<1>4. n \in Vm!NamesOf(m.disks) <=> n \in Vm!NamesOf(w.disks)
    BY <1>1, <1>3, NamesStay DEF Unnamed, Vm!Admitted
<1>5. /\ n \in Vm!NamesOf(m.volumes) <=> n \in Vm!NamesOf(w.volumes)
      /\ n \in Vm!NamesOf(m.volumes) => Vm!Named(w.volumes, n) = Vm!Named(m.volumes, n)
    BY <1>1, <1>3, NamesStay DEF Unnamed, Vm!Admitted
<1>6. DvIn(w.volumes, n) = dv
    BY <1>5 DEF DvIn
<1> HIDE DEF dv
<1>7. SizeIn(w.volumes, w.templates, n) = SizeIn(m.volumes, m.templates, n)
    <2>1. CASE dv = None
        BY <1>6, <2>1 DEF SizeIn, dv
    <2>2. CASE dv # None
        <3>1. dv[1] = n
            BY <1>1, <2>2, DvOwned DEF Vm!Admitted, dv
        <3>2. dv \notin DvsAdded(e)
            <4>1. \A d \in e.addDisks : <<d.name, 0>>[1] = d.name /\ d.name # n
                BY DEF Unnamed, DiskNamesAdded
            <4> QED
                BY <3>1, <4>1 DEF DvsAdded
        <3>3. dv \notin gone
            <4>1. ASSUME NEW k \in e.dropDisks \intersect Vm!NamesOf(m.volumes), Vm!Named(m.volumes, k).dv # None
                  PROVE  Vm!Named(m.volumes, k).dv # dv
                <5>1. DvIn(m.volumes, k) = Vm!Named(m.volumes, k).dv
                    BY DEF DvIn
                <5>2. DvIn(m.volumes, k)[1] = k
                    <6>1. DvIn(m.volumes, k) # None
                        BY <4>1, <5>1
                    <6>2. Vm!IsList(m.volumes) /\ Vm!Owned(m)
                        BY <1>1 DEF Vm!Admitted
                    <6> QED
                        BY <6>1, <6>2, DvOwned
                <5> QED
                    BY <3>1, <5>1, <5>2 DEF Unnamed
            <4> QED
                BY <2>2, <4>1 DEF gone, Vm!DvsOf
        <3>4. CASE m.templates = None
            <4>1. SizeIn(m.volumes, m.templates, n) = None
                BY <3>4, Zenon DEF SizeIn
            <4>2. w.templates = None \/ dv \notin Vm!NamesOf(w.templates)
                BY <1>3, <3>2, <3>4
            <4>3. SizeIn(w.volumes, w.templates, n) = None
                BY <1>6, <4>2 DEF SizeIn
            <4> QED
                BY <4>1, <4>3
        <3>5. CASE m.templates # None
            <4>1. w.templates = Vm!Changed(m.templates, gone, new)
                BY <1>3, <3>5
            <4>2. Vm!IsList(m.templates)
                BY <1>1, <3>5 DEF Vm!Admitted
            <4>3. /\ dv \in Vm!NamesOf(m.templates) <=> dv \in Vm!NamesOf(w.templates)
                  /\ dv \in Vm!NamesOf(m.templates) => Vm!Named(w.templates, dv) = Vm!Named(m.templates, dv)
                BY <1>3, <3>2, <3>3, <4>1, <4>2, NamesStay
            <4>4. w.templates # None
                <5>1. Vm!IsList(w.templates)
                    BY <1>3, <4>1, <4>2, ChangedList
                <5> QED
                    BY <5>1 DEF Previews, Vm!NoneIsApart
            <4> QED
                BY <1>6, <3>5, <4>3, <4>4 DEF SizeIn, dv
        <3> QED
            BY <3>4, <3>5
    <2> QED
        BY <2>1, <2>2
<1> QED
    BY <1>4, <1>6, <1>7 DEF w, dv

(* A replacement has the first name that no template has.                  *)
LEMMA FreshDv ==
    ASSUME NEW m, Vm!IsList(m.templates), NEW dv
    PROVE  /\ Vm!NextDv(m, dv) \notin Vm!NamesOf(m.templates)
           /\ Vm!NextDv(m, dv)[1] = dv[1]
           /\ \E k : Vm!NextDv(m, dv) = <<dv[1], k>>
<1> DEFINE n == Len(m.templates)
           names == Vm!NamesOf(m.templates)
           I == 1..(n + 1)
           K == {k \in I : <<dv[1], k>> \notin names}
           f == [k \in I |-> <<dv[1], k>>]
           name == [i \in 1..n |-> m.templates[i].name]
           Free(k) == <<dv[1], k>> \notin names /\ \A j \in 1..(k - 1) : <<dv[1], j>> \in names
           first == CHOOSE k \in I : Free(k)
<1>1. n \in Nat /\ DOMAIN m.templates = 1..n
    BY DEF Vm!IsList
<1>2. name \in Surjection(1..n, names)
    BY <1>1 DEF Surjection, Vm!NamesOf
<1> HIDE DEF n, names, name
<1>3. IsFiniteSet(1..n) /\ Cardinality(1..n) = n /\ IsFiniteSet(I) /\ Cardinality(I) = n + 1
    BY <1>1, FS_Interval
<1>4. IsFiniteSet(names) /\ Cardinality(names) \in Nat /\ Cardinality(names) <= n
    BY <1>2, <1>3, FS_Surjection, FS_CardinalityType
<1>5. K # {}
    <2>1. SUFFICES ASSUME K = {} PROVE FALSE
        OBVIOUS
    <2>2. f \in Injection(I, names)
        <3>1. \A k \in I : f[k] \in names
            BY <2>1
        <3>2. \A j, k \in I : f[j] = f[k] => j = k
            OBVIOUS
        <3> QED
            BY <3>1, <3>2 DEF Injection, IsInjective
    <2> HIDE DEF f, I
    <2>3. Cardinality(I) <= Cardinality(names)
        BY <1>3, <1>4, <2>2, FS_Injection
    <2> QED
        BY <1>1, <1>3, <1>4, <2>3
<1>6. \E k \in I : Free(k)
    <2>1. K \in SUBSET Nat
        BY <1>1
    <2>2. PICK k \in K : \A j \in K : k <= j
        <3> HIDE DEF K
        <3> QED
            BY <1>5, <2>1, Smallest
    <2>3. \A j \in 1..(k - 1) : j \in I /\ ~(k <= j)
        BY <1>1
    <2>4. Free(k)
        BY <2>2, <2>3
    <2> QED
        BY <2>4
<1>7. first \in I /\ Free(first)
    BY <1>6
<1>8. Vm!NextDv(m, dv) = <<dv[1], first>>
    BY Zenon DEF Vm!NextDv, n, names
<1> HIDE DEF first
<1> QED
    BY <1>7, <1>8 DEF names

(* What a migration makes of the templates and of the volumes.             *)
Moves(m, e) == {v \in e.migrate : Vm!Movable(m, v.name)}

MovesOf(m, e, dv) == {v \in Moves(m, e) : Vm!Named(m.volumes, v.name).dv = dv}

ClassOf(m, e, dv) == (CHOOSE v \in MovesOf(m, e, dv) : TRUE).class

TemplateMoved(m, e, x) ==
    IF MovesOf(m, e, x.name) = {} THEN x
    ELSE [x EXCEPT !.name = Vm!NextDv(m, x.name), !.class = ClassOf(m, e, x.name), !.blank = TRUE]

VolumeMoved(m, e, x) ==
    IF MovesOf(m, e, x.dv) = {} THEN x ELSE [x EXCEPT !.dv = Vm!NextDv(m, x.dv)]

LEMMA MigratedIs ==
    ASSUME NEW m, NEW w, NEW e, DOMAIN w = Vm!Fields, Moves(m, e) # {}
    PROVE  LET v == Vm!Migrated(m, w, e)
           IN  /\ v.templates = [i \in DOMAIN w.templates |-> TemplateMoved(m, e, w.templates[i])]
               /\ v.volumes = [i \in DOMAIN w.volumes |-> VolumeMoved(m, e, w.volumes[i])]
<1> DEFINE moves == {v \in e.migrate : Vm!Movable(m, v.name)}
           dvOf(v) == Vm!Named(m.volumes, v.name).dv
           moved(dv) == {v \in moves : dvOf(v) = dv}
           class(dv) == (CHOOSE v \in moved(dv) : TRUE).class
           template(x) == IF moved(x.name) = {} THEN x
               ELSE [x EXCEPT !.name = Vm!NextDv(m, x.name), !.class = class(x.name), !.blank = TRUE]
           volume(x) == IF moved(x.dv) = {} THEN x ELSE [x EXCEPT !.dv = Vm!NextDv(m, x.dv)]
           F == [i \in DOMAIN w.templates |-> template(w.templates[i])]
           G == [i \in DOMAIN w.volumes |-> volume(w.volumes[i])]
           res == Vm!Migrated(m, w, e)
<1>1. moves # {}
    BY DEF Moves
<1>2. res = [w EXCEPT !.templates = F, !.volumes = G, !.updates = "Migration"]
    BY <1>1, Zenon DEF Vm!Migrated
<1>3. F = [i \in DOMAIN w.templates |-> TemplateMoved(m, e, w.templates[i])]
    BY Zenon DEF TemplateMoved, MovesOf, Moves, ClassOf
<1>4. G = [i \in DOMAIN w.volumes |-> VolumeMoved(m, e, w.volumes[i])]
    BY Zenon DEF VolumeMoved, MovesOf, Moves
<1> HIDE DEF F, G, res
<1>5. res.templates = F /\ res.volumes = G
    BY <1>2 DEF Vm!Fields
<1> QED
    BY <1>3, <1>4, <1>5 DEF res

LEMMA NotMigrated ==
    ASSUME NEW m, NEW w, NEW e, Moves(m, e) = {}
    PROVE  Vm!Migrated(m, w, e) = w
BY Zenon DEF Vm!Migrated, Moves

(* A volume that moves has its own template, which is named for it.        *)
LEMMA MoveIs ==
    ASSUME NEW m, NEW e, Vm!IsList(m.volumes), Vm!Owned(m), NEW dv, NEW v \in MovesOf(m, e, dv)
    PROVE  /\ dv # None /\ dv = DvIn(m.volumes, v.name) /\ dv[1] = v.name
           /\ m.templates # None /\ dv \in Vm!NamesOf(m.templates)
<1>1. v \in Moves(m, e) /\ Vm!Named(m.volumes, v.name).dv = dv
    BY DEF MovesOf
<1>2. Vm!Movable(m, v.name)
    BY <1>1 DEF Moves
<1>3. /\ m.templates # None /\ v.name \in Vm!NamesOf(m.volumes)
      /\ dv \in Vm!NamesOf(m.templates) /\ dv # None
    BY <1>1, <1>2 DEF Vm!Movable
<1>4. DvIn(m.volumes, v.name) = dv
    BY <1>1, <1>3 DEF DvIn
<1> QED
    BY <1>3, <1>4, DvOwned

(* Two DataVolumes that become one are one.                                *)
LEMMA MovesApart ==
    ASSUME NEW m, NEW e, Vm!IsList(m.volumes), Vm!IsList(m.templates), Vm!Owned(m), NEW x, NEW y,
           MovesOf(m, e, x) # {}, MovesOf(m, e, y) # {}, x[1] = y[1]
    PROVE  x = y
<1>1. PICK a \in MovesOf(m, e, x), b \in MovesOf(m, e, y) : TRUE
    OBVIOUS
<1>2. x = DvIn(m.volumes, a.name) /\ x[1] = a.name /\ y = DvIn(m.volumes, b.name) /\ y[1] = b.name
    BY <1>1, MoveIs
<1> QED
    BY <1>2

LEMMA ChangedItems ==
    ASSUME NEW s, Vm!IsList(s), NEW names, NEW A, NEW added \in Seq(A)
    PROVE  Items(Vm!Changed(s, names, added)) \subseteq Items(s) \union Items(added)
<1> DEFINE S == Items(s) \union A
           rest == Vm!Without(s, names)
           more == IF s = << >> THEN << >> ELSE added
<1>1. s \in Seq(S) /\ added \in Seq(S) /\ << >> \in Seq(S)
    BY ListIn
<1> HIDE DEF S
<1>2. rest \in Seq(S) /\ Items(rest) = {s[i] : i \in {j \in DOMAIN s : ~Gone(s, names, j)}}
    BY <1>1, WithoutItems
<1>3. more \in Seq(S) /\ Items(more) \subseteq Items(added)
    BY <1>1 DEF Items
<1>4. Vm!Changed(s, names, added) = rest \o more
    BY DEF Vm!Changed
<1> HIDE DEF rest, more
<1>5. Items(rest) \subseteq Items(s)
    BY <1>2 DEF Items
<1>6. Items(rest \o more) = Items(rest) \union Items(more)
    BY <1>2, <1>3, ItemsJoined
<1> QED
    BY <1>3, <1>4, <1>5, <1>6

(* Two lists in step: one's items named b are where the other's are named a. *)
Renamed(s, t, a, b) == \A i \in DOMAIN s : t[i].name = b <=> s[i].name = a

LEMMA InStep ==
    ASSUME NEW s, Vm!IsList(s), NEW t, Vm!IsList(t), DOMAIN t = DOMAIN s, NEW a, NEW b,
           Renamed(s, t, a, b)
    PROVE  /\ b \in Vm!NamesOf(t) <=> a \in Vm!NamesOf(s)
           /\ a \in Vm!NamesOf(s) => \E i \in DOMAIN s : s[i] = Vm!Named(s, a) /\ t[i] = Vm!Named(t, b) /\ s[i].name = a
<1>1. b \in Vm!NamesOf(t) <=> a \in Vm!NamesOf(s)
    BY DEF Vm!NamesOf, Renamed
<1>2. ASSUME a \in Vm!NamesOf(s)
      PROVE  \E i \in DOMAIN s : s[i] = Vm!Named(s, a) /\ t[i] = Vm!Named(t, b) /\ s[i].name = a
    <2>1. AtFront(s, a, Vm!Named(s, a))
        BY <1>2, FirstNamed
    <2>2. PICK i \in DOMAIN s : s[i] = Vm!Named(s, a) /\ s[i].name = a /\ \A j \in 1..(i - 1) : s[j].name # a
        BY <2>1 DEF AtFront
    <2>3. \A j \in 1..(i - 1) : j \in DOMAIN s
        BY DEF Vm!IsList
    <2>4. AtFront(t, b, t[i])
        BY <2>2, <2>3 DEF AtFront, Renamed
    <2>5. t[i] = Vm!Named(t, b)
        BY <2>4, NamedFirst
    <2> QED
        BY <2>2, <2>5
<1> QED
    BY <1>1, <1>2

(* Volumes and templates, each with its fields, of DataVolumes of their own. *)
VolumesOwned(s) ==
    \A i \in DOMAIN s : DOMAIN s[i] = {"name", "dv"} /\ (s[i].dv # None => s[i].dv[1] = s[i].name)

TemplatesFull(s) == \A i \in DOMAIN s : DOMAIN s[i] = {"name", "size", "class", "blank"}

(* The volumes and the templates after a migration.                        *)
NewDv(m, e, dv) == IF MovesOf(m, e, dv) = {} THEN dv ELSE Vm!NextDv(m, dv)

LEMMA VolumesMoved ==
    ASSUME NEW m, NEW e, Vm!IsList(m.volumes), Vm!Owned(m), NEW s, Vm!IsList(s), VolumesOwned(s), NEW n,
           NEW t, t = [i \in DOMAIN s |-> VolumeMoved(m, e, s[i])]
    PROVE  Vm!IsList(t) /\ DvIn(t, n) = NewDv(m, e, DvIn(s, n))
<1> DEFINE dv == DvIn(s, n)
<1>1. Vm!IsList(t) /\ DOMAIN t = DOMAIN s
    BY DEF Vm!IsList
<1>2. \A i \in DOMAIN s :
          /\ t[i].name = s[i].name
          /\ t[i].dv = IF MovesOf(m, e, s[i].dv) = {} THEN s[i].dv ELSE Vm!NextDv(m, s[i].dv)
    BY DEF VolumeMoved, VolumesOwned
<1>3. MovesOf(m, e, None) = {}
    BY MoveIs
<1>4. /\ n \in Vm!NamesOf(t) <=> n \in Vm!NamesOf(s)
      /\ n \in Vm!NamesOf(s) => \E i \in DOMAIN s : s[i] = Vm!Named(s, n) /\ t[i] = Vm!Named(t, n) /\ s[i].name = n
    <2>1. Renamed(s, t, n, n)
        BY <1>2, Zenon DEF Renamed
    <2> QED
        BY <1>1, <2>1, InStep
<1>5. CASE n \notin Vm!NamesOf(s)
    <2>1. DvIn(t, n) = None /\ dv = None
        BY <1>4, <1>5 DEF DvIn
    <2> QED
        BY <1>1, <1>3, <2>1 DEF NewDv
<1>6. CASE n \in Vm!NamesOf(s)
    <2>1. PICK i \in DOMAIN s : s[i] = Vm!Named(s, n) /\ t[i] = Vm!Named(t, n) /\ s[i].name = n
        BY <1>4, <1>6
    <2>2. DvIn(t, n) = t[i].dv /\ dv = s[i].dv
        BY <1>4, <1>6, <2>1 DEF DvIn
    <2> HIDE DEF dv
    <2> QED
        BY <1>1, <1>2, <2>2 DEF NewDv, dv
<1> QED
    BY <1>5, <1>6

LEMMA TemplatesMoved ==
    ASSUME NEW m, NEW e, Vm!IsList(m.volumes), Vm!IsList(m.templates), Vm!Owned(m), NEW s, Vm!IsList(s),
           TemplatesFull(s),
           Vm!NamesOf(s) \subseteq Vm!NamesOf(m.templates) \union DvsAdded(e),
           NEW n, Unnamed(e, n), NEW dv, dv = DvIn(m.volumes, n), dv # None,
           NEW t, t = [i \in DOMAIN s |-> TemplateMoved(m, e, s[i])]
    PROVE  LET new == NewDv(m, e, dv)
           IN  /\ Vm!IsList(t)
               /\ new \in Vm!NamesOf(t) <=> dv \in Vm!NamesOf(s)
               /\ dv \in Vm!NamesOf(s) => Vm!Named(t, new).size = Vm!Named(s, dv).size
<1> DEFINE new == IF MovesOf(m, e, dv) = {} THEN dv ELSE Vm!NextDv(m, dv)
<1>1. Vm!IsList(t) /\ DOMAIN t = DOMAIN s
    BY DEF Vm!IsList
<1>2. \A i \in DOMAIN s :
          /\ t[i].size = s[i].size
          /\ t[i].name = IF MovesOf(m, e, s[i].name) = {} THEN s[i].name ELSE Vm!NextDv(m, s[i].name)
    BY DEF TemplateMoved, TemplatesFull
<1>3. dv[1] = n
    BY DvOwned
<1>4. ASSUME NEW i \in DOMAIN s PROVE t[i].name = new <=> s[i].name = dv
    <2> DEFINE x == s[i].name
    <2>1. ASSUME x = dv PROVE t[i].name = new
        BY <1>2, <2>1
    <2>2. ASSUME t[i].name = new PROVE x = dv
        <3>1. CASE MovesOf(m, e, x) # {}
            <4>1. t[i].name = Vm!NextDv(m, x) /\ Vm!NextDv(m, x)[1] = x[1]
                <5>1. t[i].name = Vm!NextDv(m, x)
                    BY <1>2, <3>1, Zenon
                <5>2. Vm!NextDv(m, x)[1] = x[1]
                    BY FreshDv
                <5> QED
                    BY <5>1, <5>2
            <4>2. new[1] = dv[1]
                BY FreshDv
            <4>3. x[1] = n
                BY <1>3, <2>2, <4>1, <4>2
            <4>4. PICK v \in MovesOf(m, e, x) : TRUE
                BY <3>1
            <4>5. x = DvIn(m.volumes, v.name) /\ x[1] = v.name
                BY <4>4, MoveIs
            <4> QED
                BY <4>3, <4>5
        <3>2. CASE MovesOf(m, e, x) = {} /\ MovesOf(m, e, dv) = {}
            BY <1>2, <2>2, <3>2
        <3>3. CASE MovesOf(m, e, x) = {} /\ MovesOf(m, e, dv) # {}
            <4>1. x = Vm!NextDv(m, dv)
                BY <1>2, <2>2, <3>3
            <4>2. x \notin Vm!NamesOf(m.templates) /\ x[1] = n
                BY <1>3, <4>1, FreshDv
            <4>3. x \in DvsAdded(e)
                <5>1. x \in Vm!NamesOf(s)
                    BY DEF Vm!NamesOf
                <5> QED
                    BY <4>2, <5>1
            <4>4. PICK d \in e.addDisks : x = <<d.name, 0>>
                BY <4>3 DEF DvsAdded
            <4>5. d.name = n
                <5>1. <<d.name, 0>>[1] = d.name
                    OBVIOUS
                <5> QED
                    BY <4>2, <4>4, <5>1
            <4> QED
                BY <4>5 DEF Unnamed, DiskNamesAdded
        <3> QED
            BY <3>1, <3>2, <3>3
    <2> QED
        BY <2>1, <2>2
<1> HIDE DEF new
<1>5. /\ new \in Vm!NamesOf(t) <=> dv \in Vm!NamesOf(s)
      /\ dv \in Vm!NamesOf(s) => \E i \in DOMAIN s : s[i] = Vm!Named(s, dv) /\ t[i] = Vm!Named(t, new) /\ s[i].name = dv
    <2>1. Renamed(s, t, dv, new)
        BY <1>4, Zenon DEF Renamed
    <2> QED
        BY <1>1, <2>1, InStep
<1>6. dv \in Vm!NamesOf(s) => Vm!Named(t, new).size = Vm!Named(s, dv).size
    BY <1>2, <1>5
<1> QED
    BY <1>1, <1>5, <1>6 DEF NewDv, new

LEMMA OwnedIs ==
    ASSUME NEW m
    PROVE  Vm!Owned(m) <=> VolumesOwned(m.volumes) /\ (m.templates # None => TemplatesFull(m.templates))
BY Zenon DEF Vm!Owned, VolumesOwned, TemplatesFull

LEMMA DisksOwned ==
    ASSUME NEW m, Vm!Admitted(m), Vm!Owned(m), NEW e, Vm!Requested(e)
    PROVE  LET w == Vm!WithDisks(m, e)
           IN  /\ VolumesOwned(w.volumes)
               /\ m.templates # None \/ w.templates # None =>
                     /\ TemplatesFull(w.templates)
                     /\ Vm!NamesOf(w.templates) \subseteq Vm!Templates(m) \union DvsAdded(e)
<1> DEFINE w == Vm!WithDisks(m, e)
           gone == Vm!DvsOf(m, e.dropDisks)
<1>1. PICK A : \E bares, vols, new \in Seq(A) : DisksGive(m, e, w, bares, vols, new)
    BY DisksAre
<1>6. PICK bares, vols, new \in Seq(A) : DisksGive(m, e, w, bares, vols, new)
    BY <1>1
<1> HIDE DEF w
<1>2. /\ Vm!NamesOf(new) = DvsAdded(e)
      /\ \A i \in DOMAIN vols : DOMAIN vols[i] = {"name", "dv"} /\ vols[i].dv[1] = vols[i].name
      /\ \A i \in DOMAIN new : DOMAIN new[i] = {"name", "size", "class", "blank"}
      /\ w.volumes = Vm!Changed(m.volumes, e.dropDisks, vols)
      /\ w.templates = IF m.templates # None THEN Vm!Changed(m.templates, gone, new)
                       ELSE IF new = << >> THEN None ELSE new
    BY <1>6, Zenon DEF DisksGive
<1> HIDE DEF w, gone
<1>3. VolumesOwned(w.volumes)
    <2> DEFINE c == w.volumes
    <2>1. Items(c) \subseteq Items(m.volumes) \union Items(vols)
        BY <1>2, ChangedItems DEF Vm!Admitted
    <2>2. VolumesOwned(m.volumes) /\ VolumesOwned(vols)
        BY <1>2, OwnedIs DEF VolumesOwned
    <2> HIDE DEF c
    <2>3. ASSUME NEW i \in DOMAIN c PROVE DOMAIN c[i] = {"name", "dv"} /\ (c[i].dv # None => c[i].dv[1] = c[i].name)
        <3>1. c[i] \in Items(m.volumes) \union Items(vols)
            BY <2>1 DEF Items
        <3>2. \A t : VolumesOwned(t) => \A x \in Items(t) : DOMAIN x = {"name", "dv"} /\ (x.dv # None => x.dv[1] = x.name)
            BY DEF Items, VolumesOwned
        <3> QED
            BY <2>2, <3>1, <3>2
    <2> QED
        BY <2>3 DEF VolumesOwned, c
<1>4. CASE m.templates # None
    <2> DEFINE c == w.templates
    <2>1. c = Vm!Changed(m.templates, gone, new) /\ Vm!IsList(m.templates)
        BY <1>2, <1>4 DEF Vm!Admitted
    <2>2. Items(c) \subseteq Items(m.templates) \union Items(new)
        BY <2>1, ChangedItems
    <2>3. TemplatesFull(m.templates) /\ TemplatesFull(new)
        BY <1>2, <1>4, OwnedIs DEF TemplatesFull
    <2>4. Vm!NamesOf(c) \subseteq Vm!NamesOf(m.templates) \union DvsAdded(e)
        BY <1>2, <2>1, ChangedAmong
    <2> HIDE DEF c
    <2>5. ASSUME NEW i \in DOMAIN c PROVE DOMAIN c[i] = {"name", "size", "class", "blank"}
        <3>1. c[i] \in Items(m.templates) \union Items(new)
            BY <2>2 DEF Items
        <3> QED
            BY <2>3, <3>1 DEF Items, TemplatesFull
    <2> QED
        BY <1>3, <1>4, <2>4, <2>5 DEF TemplatesFull, c, Vm!Templates, w
<1>5. CASE m.templates = None
    <2>1. w.templates # None => w.templates = new
        BY <1>2, <1>5
    <2> QED
        BY <1>2, <1>3, <1>5, <2>1 DEF TemplatesFull, w
<1> QED
    BY <1>4, <1>5

(* The volumes and the templates that an edit leaves, before it migrates.  *)
LEMMA BeforeMigration ==
    ASSUME NEW m, NEW e, Previews(m, e)
    PROVE  LET w == Vm!Appliers(m, e)
           IN  /\ Vm!ApplyEdit(m, e) = Vm!Migrated(m, w, e) /\ DOMAIN w = Vm!Fields
               /\ w.volumes = Vm!WithDisks(m, e).volumes /\ w.templates = Vm!WithDisks(m, e).templates
               /\ Vm!IsList(w.volumes) /\ VolumesOwned(w.volumes)
               /\ m.templates # None \/ w.templates # None =>
                     /\ Vm!IsList(w.templates) /\ TemplatesFull(w.templates)
                     /\ Vm!NamesOf(w.templates) \subseteq Vm!Templates(m) \union DvsAdded(e)
<1> DEFINE w == Vm!Appliers(m, e)
           d == Vm!WithDisks(m, e)
<1>1. Vm!Admitted(m) /\ Vm!Requested(e) /\ Vm!Owned(m) /\ DOMAIN m = Vm!Fields
    BY DEF Previews, Vm!Admitted
<1>2. DOMAIN w = Vm!Fields /\ w.volumes = d.volumes /\ w.templates = d.templates
    BY <1>1, Applied DEF SameBut
<1>3. Vm!IsList(d.volumes) /\ (m.templates # None \/ d.templates # None => Vm!IsList(d.templates))
    BY <1>1, DisksAreLists
<1>4. /\ VolumesOwned(d.volumes)
      /\ m.templates # None \/ d.templates # None =>
            /\ TemplatesFull(d.templates)
            /\ Vm!NamesOf(d.templates) \subseteq Vm!Templates(m) \union DvsAdded(e)
    BY <1>1, DisksOwned
<1>5. Vm!ApplyEdit(m, e) = Vm!Migrated(m, w, e)
    BY DEF Vm!ApplyEdit
<1> HIDE DEF w, d
<1> QED
    BY <1>2, <1>3, <1>4, <1>5 DEF w, d

LEMMA SomethingMoves ==
    ASSUME NEW m, NEW e, Moves(m, e) # {}
    PROVE  m.templates # None
BY DEF Moves, Vm!Movable

LEMMA EditedOwned ==
    ASSUME NEW m, NEW e, Previews(m, e)
    PROVE  Vm!Owned(Vm!ApplyEdit(m, e))
<1> DEFINE w == Vm!Appliers(m, e)
           v == Vm!ApplyEdit(m, e)
<1>1. /\ v = Vm!Migrated(m, w, e) /\ DOMAIN w = Vm!Fields
      /\ Vm!IsList(w.volumes) /\ VolumesOwned(w.volumes)
      /\ m.templates # None \/ w.templates # None =>
            Vm!IsList(w.templates) /\ TemplatesFull(w.templates)
    BY BeforeMigration
<1> HIDE DEF w, v
<1>2. CASE Moves(m, e) = {}
    <2>1. v = w
        BY <1>1, <1>2, NotMigrated
    <2> QED
        BY <1>1, <2>1, OwnedIs DEF v
<1>3. CASE Moves(m, e) # {}
    <2>1. /\ v.templates = [i \in DOMAIN w.templates |-> TemplateMoved(m, e, w.templates[i])]
          /\ v.volumes = [i \in DOMAIN w.volumes |-> VolumeMoved(m, e, w.volumes[i])]
        BY <1>1, <1>3, MigratedIs
    <2>2. TemplatesFull(w.templates) /\ Vm!IsList(m.templates)
        BY <1>1, <1>3, SomethingMoves DEF Previews, Vm!Admitted
    <2>3. TemplatesFull(v.templates)
        BY <2>1, <2>2 DEF TemplatesFull, TemplateMoved
    <2>4. Vm!IsList(m.volumes) /\ Vm!Owned(m)
        BY DEF Previews, Vm!Admitted
    <2>5. ASSUME NEW i \in DOMAIN w.volumes
          PROVE  LET x == VolumeMoved(m, e, w.volumes[i])
                 IN  DOMAIN x = {"name", "dv"} /\ (x.dv # None => x.dv[1] = x.name)
        <3> DEFINE x == w.volumes[i]
        <3>1. DOMAIN x = {"name", "dv"} /\ (x.dv # None => x.dv[1] = x.name)
            BY <1>1 DEF VolumesOwned
        <3>2. CASE MovesOf(m, e, x.dv) = {}
            BY <3>1, <3>2 DEF VolumeMoved
        <3>3. CASE MovesOf(m, e, x.dv) # {}
            <4>1. x.dv # None
                BY <2>4, <3>3, MoveIs
            <4>2. Vm!NextDv(m, x.dv)[1] = x.dv[1]
                BY <2>2, FreshDv
            <4> HIDE DEF x
            <4>3. LET y == VolumeMoved(m, e, x)
                  IN  DOMAIN y = {"name", "dv"} /\ y.name = x.name /\ y.dv = Vm!NextDv(m, x.dv)
                BY <3>1, <3>3 DEF VolumeMoved
            <4> QED
                BY <3>1, <4>1, <4>2, <4>3 DEF x
        <3> QED
            BY <3>2, <3>3
    <2>6. VolumesOwned(v.volumes)
        BY <2>1, <2>5 DEF VolumesOwned
    <2> QED
        BY <2>3, <2>6, OwnedIs DEF v
<1> QED
    BY <1>2, <1>3

(* The size of a disk that an edit does not name.                          *)
LEMMA SizeTold ==
    ASSUME NEW m, NEW e, Previews(m, e), NEW n, Unnamed(e, n)
    PROVE  LET v == Vm!ApplyEdit(m, e)
           IN  SizeIn(v.volumes, v.templates, n) = SizeIn(m.volumes, m.templates, n)
<1> DEFINE w == Vm!Appliers(m, e)
           v == Vm!ApplyEdit(m, e)
           dv == DvIn(m.volumes, n)
<1>1. /\ v = Vm!Migrated(m, w, e) /\ DOMAIN w = Vm!Fields
      /\ w.volumes = Vm!WithDisks(m, e).volumes /\ w.templates = Vm!WithDisks(m, e).templates
      /\ Vm!IsList(w.volumes) /\ VolumesOwned(w.volumes)
      /\ m.templates # None \/ w.templates # None =>
            /\ Vm!IsList(w.templates) /\ TemplatesFull(w.templates)
            /\ Vm!NamesOf(w.templates) \subseteq Vm!Templates(m) \union DvsAdded(e)
    BY BeforeMigration
<1>2. DvIn(w.volumes, n) = dv /\ SizeIn(w.volumes, w.templates, n) = SizeIn(m.volumes, m.templates, n)
    BY <1>1, SizeStays
<1> HIDE DEF w, v
<1>3. CASE Moves(m, e) = {}
    <2>1. v = w
        BY <1>1, <1>3, NotMigrated
    <2> QED
        BY <1>2, <2>1 DEF v
<1>4. CASE Moves(m, e) # {}
    <2>1. /\ v.templates = [i \in DOMAIN w.templates |-> TemplateMoved(m, e, w.templates[i])]
          /\ v.volumes = [i \in DOMAIN w.volumes |-> VolumeMoved(m, e, w.volumes[i])]
        BY <1>1, <1>4, MigratedIs
    <2>2. m.templates # None /\ Vm!IsList(m.templates) /\ Vm!IsList(m.volumes) /\ Vm!Owned(m)
        BY <1>4, SomethingMoves DEF Previews, Vm!Admitted
    <2>3. /\ Vm!IsList(w.templates) /\ TemplatesFull(w.templates)
          /\ Vm!NamesOf(w.templates) \subseteq Vm!NamesOf(m.templates) \union DvsAdded(e)
        BY <1>1, <2>2 DEF Vm!Templates
    <2> DEFINE new == NewDv(m, e, dv)
    <2>4. DvIn(v.volumes, n) = new
        BY <1>1, <1>2, <2>1, <2>2, VolumesMoved
    <2>5. CASE dv = None
        <3>1. MovesOf(m, e, None) = {}
            BY <2>2, MoveIs
        <3>2. DvIn(v.volumes, n) = None /\ DvIn(w.volumes, n) = None
            BY <1>2, <2>4, <2>5, <3>1 DEF NewDv
        <3> QED
            BY <1>2, <3>2 DEF SizeIn, v
    <2>6. CASE dv # None
        <3>1. /\ Vm!IsList(v.templates)
              /\ new \in Vm!NamesOf(v.templates) <=> dv \in Vm!NamesOf(w.templates)
              /\ dv \in Vm!NamesOf(w.templates) => Vm!Named(v.templates, new).size = Vm!Named(w.templates, dv).size
            BY <2>1, <2>2, <2>3, <2>6, TemplatesMoved
        <3>2. new # None
            <4>1. \E k : Vm!NextDv(m, dv) = <<dv[1], k>>
                BY <2>2, FreshDv
            <4>2. Vm!NextDv(m, dv) # None
                BY <4>1 DEF Previews, Vm!NoneIsApart
            <4> QED
                BY <2>6, <4>2 DEF NewDv
        <3>3. v.templates # None /\ w.templates # None
            BY <2>3, <3>1 DEF Previews, Vm!NoneIsApart
        <3> HIDE DEF new, dv
        <3>4. SizeIn(v.volumes, v.templates, n) = SizeIn(w.volumes, w.templates, n)
            BY <1>2, <2>4, <2>6, <3>1, <3>2, <3>3 DEF SizeIn
        <3> QED
            BY <1>2, <3>4 DEF v
    <2> QED
        BY <2>5, <2>6
<1> QED
    BY <1>3, <1>4

LEMMA ToldDisks ==
    ASSUME NEW m, NEW e, Previews(m, e), NEW n, Vm!DiskLabels(Vm!Parsed(m), n) # Vm!DiskLabels(Edited(m, e), n)
    PROVE  <<"disk", n>> \in Previewed(m, e)
<1> DEFINE v == Vm!ApplyEdit(m, e)
           cur == Vm!Parsed(m)
           before == SizeIn(m.volumes, m.templates, n)
           after == SizeIn(v.volumes, v.templates, n)
<1>1. DOMAIN m = Vm!Fields
    BY DEF Previews, Vm!Admitted
<1>2. v.disks = Vm!WithDisks(m, e).disks
    BY <1>1, EditedIs
<1>3. /\ Vm!DiskLabels(Vm!Parsed(m), n) = IF n \in Vm!NamesOf(m.disks) THEN {before} ELSE {}
      /\ Vm!DiskLabels(Edited(m, e), n) = IF n \in Vm!NamesOf(v.disks) THEN {after} ELSE {}
    BY DiskLabelsAre DEF Edited
<1>4. ~Unnamed(e, n)
    <2>1. SUFFICES ASSUME Unnamed(e, n) PROVE FALSE
        OBVIOUS
    <2>2. n \in Vm!NamesOf(m.disks) <=> n \in Vm!NamesOf(v.disks)
        BY <1>2, <2>1, SizeStays
    <2>3. after = before
        BY <2>1, SizeTold
    <2> HIDE DEF before, after, v
    <2> QED
        BY <1>3, <2>2, <2>3
<1>5. n \in e.dropDisks \/ \E d \in e.addDisks : n = d.name
    BY <1>4 DEF Unnamed, DiskNamesAdded
<1> QED
    BY <1>5, ToldIs

(* The network that the preview cannot name.                               *)
Unlisted(m, e) ==
    IF Vm!ApplyEdit(m, e).nics = <<>> /\ Vm!ApplyEdit(m, e).autoattach THEN {<<"network", "default">>} ELSE {}

(* An edit leaves the pod network of a manifest without an interface, and  *)
(* else the interfaces that it does not name.                              *)
LEMMA ToldNets ==
    ASSUME NEW m, NEW e, Previews(m, e), NEW n,
           \/ n \in Vm!NicNames(Vm!Parsed(m)) /\ n \notin Vm!NicNames(Edited(m, e))
           \/ n \in Vm!NicNames(Edited(m, e)) /\ n \notin Vm!NicNames(Vm!Parsed(m))
    PROVE  <<"network", n>> \in Previewed(m, e) \/ (n = "default" /\ Unlisted(m, e) # {})
<1> DEFINE v == Vm!ApplyEdit(m, e)
           added == Vm!SetToSeq(e.addNets)
           bare(x) == [name |-> Vm!InterfaceName(x)]
           bares == [i \in DOMAIN added |-> bare(added[i])]
<1>1. DOMAIN m = Vm!Fields /\ Vm!IsList(m.nics) /\ Vm!IsFiniteSet(e.addNets)
    BY DEF Previews, Vm!Admitted, Vm!Requested
<1>2. v.nics = Vm!WithNets(m, e).nics
    BY <1>1, EditedIs
<1>3. added \in Seq(e.addNets)
    BY <1>1, SetList
<1>4. Len(added) \in Nat /\ DOMAIN added = 1..Len(added) /\ \A i \in DOMAIN added : added[i] \in e.addNets
    BY <1>3
<1>5. v.nics = Vm!Changed(m.nics, e.dropNets, bares)
    <2> DEFINE links == [i \in DOMAIN added |-> [name |-> Vm!InterfaceName(added[i]), net |-> added[i]]]
               w == Vm!WithNets(m, e)
    <2> HIDE DEF bares, links
    <2>1. w = [m EXCEPT !.nics = Vm!Changed(@, e.dropNets, bares), !.nets = Vm!Changed(@, e.dropNets, links)]
        BY Zenon DEF Vm!WithNets, bares, links
    <2>2. {"nics", "nets"} \subseteq DOMAIN m
        BY <1>1 DEF Vm!Fields
    <2> HIDE DEF w, v
    <2>3. w.nics = Vm!Changed(m.nics, e.dropNets, bares)
        BY <2>1, <2>2
    <2> QED
        BY <1>2, <2>3 DEF w
<1> HIDE DEF added, v
<1>6. bares \in Seq({bare(x) : x \in e.addNets})
    BY <1>4
<1>7. Vm!NamesOf(bares) \subseteq {x.nad : x \in e.addNets}
    <2>1. \A i \in DOMAIN added : bares[i].name = added[i].nad
        BY DEF Vm!InterfaceName
    <2>2. DOMAIN bares = DOMAIN added
        OBVIOUS
    <2> HIDE DEF bares
    <2> QED
        BY <1>4, <2>1, <2>2 DEF Vm!NamesOf
<1> HIDE DEF bares
<1>8. /\ Vm!NicNames(Vm!Parsed(m)) = IF m.nics = <<>> /\ m.autoattach THEN {"default"} ELSE Vm!NamesOf(m.nics)
      /\ Vm!NicNames(Edited(m, e)) = IF v.nics = <<>> /\ v.autoattach THEN {"default"} ELSE Vm!NamesOf(v.nics)
    BY NicNamesAre DEF Edited, v
<1>11. Vm!NamesOf(<<>>) = {} /\ (v.nics = <<>> /\ v.autoattach => Unlisted(m, e) # {})
    <2>1. Vm!NamesOf(<<>>) = {}
        BY DEF Vm!NamesOf
    <2>2. v.nics = <<>> /\ v.autoattach => <<"network", "default">> \in Unlisted(m, e)
        BY DEF Unlisted, v
    <2> QED
        BY <2>1, <2>2
<1>12. v.autoattach = m.autoattach
    BY <1>1, EditedIs, ScalaredIs DEF v
<1>9. CASE m.nics = <<>>
    <2>1. Vm!Without(<<>>, e.dropNets) = <<>>
        <3> DEFINE t == Vm!Without(<<>>, e.dropNets)
        <3>1. << >> \in Seq({})
            OBVIOUS
        <3>2. t \in Seq({})
            BY <3>1, WithoutItems
        <3> HIDE DEF t
        <3> QED
            BY <3>2 DEF t
    <2>2. v.nics = <<>>
        <3>1. v.nics = <<>> \o <<>>
            BY <1>5, <1>9, <2>1 DEF Vm!Changed
        <3> QED
            BY <3>1
    <2> QED
        BY <1>8, <1>9, <1>12, <2>2
<1>10. CASE m.nics # <<>>
    <2>1. ASSUME n \in Vm!NamesOf(m.nics), n \notin Vm!NamesOf(v.nics) PROVE n \in e.dropNets
        BY <1>1, <1>5, <1>6, <2>1, ChangedKeeps
    <2>2. ASSUME n \in Vm!NamesOf(v.nics), n \notin Vm!NamesOf(m.nics) PROVE \E x \in e.addNets : n = x.nad
        <3>1. n \in Vm!NamesOf(bares)
            BY <1>1, <1>5, <1>6, <2>2, ChangedAmong
        <3> QED
            BY <1>7, <3>1
    <2>3. \/ n \in e.dropNets \/ (\E x \in e.addNets : n = x.nad)
          \/ v.nics = <<>> /\ v.autoattach /\ n = "default"
        BY <1>8, <1>10, <1>11, <2>1, <2>2
    <2> QED
        BY <1>11, <2>3, ToldIs
<1> QED
    BY <1>9, <1>10

LEMMA ToldScalars ==
    ASSUME NEW m, NEW e, Previews(m, e), NamedSize(m)
    PROVE  \A f \in Vm!Scalars : Vm!Parsed(m)[f] # Edited(m, e)[f] => <<f>> \in Previewed(m, e)
<1> DEFINE a == Vm!Parsed(m)
           b == Edited(m, e)
<1>1. a["power"] # b["power"] => <<"power">> \in Previewed(m, e)
    BY ToldPower
<1>2. \A f \in {"cpu", "memory", "instancetype"} : a[f] # b[f] => <<f>> \in Previewed(m, e)
    BY ToldSizing
<1>3. \A f \in {"preference", "excluded", "eviction"} : a[f] # b[f] => <<f>> \in Previewed(m, e)
    BY ToldMarks
<1> HIDE DEF a, b
<1>4. \A f \in Vm!Scalars : a[f] # b[f] => <<f>> \in Previewed(m, e)
    BY <1>1, <1>2, <1>3 DEF Vm!Scalars
<1> QED
    BY <1>4 DEF a, b

(* What an edit changes, of what a comparison shows, its preview names.    *)
LEMMA EditTold ==
    ASSUME NEW m, NEW e, Previews(m, e), NamedSize(m)
    PROVE  Vm!DiffVMs(Vm!Parsed(m), Edited(m, e)) \subseteq Previewed(m, e) \union Unlisted(m, e)
<1> DEFINE a == Vm!Parsed(m)
           b == Edited(m, e)
           parts == Vm!Differing(a, b, Vm!Scalars)
           labels == {<<"label", k>> : k \in {l \in Labels : a.labels[l] # b.labels[l]}}
           pins == IF a.scheduling.pin # b.scheduling.pin THEN {<<"pin">>} ELSE {}
           groups == {<<"group", g>> : g \in {h \in Groups : a.scheduling.groups[h] # b.scheduling.groups[h]}}
           names == {d \in Vm!DiskNames(a) \union Vm!DiskNames(b) : Vm!DiskLabels(a, d) # Vm!DiskLabels(b, d)}
           links == (Vm!NicNames(a) \ Vm!NicNames(b)) \union (Vm!NicNames(b) \ Vm!NicNames(a))
<1>1. parts \subseteq Previewed(m, e)
    BY ToldScalars DEF Vm!Differing
<1>2. labels \subseteq Previewed(m, e)
    BY ToldLabels
<1>3. pins \subseteq Previewed(m, e)
    BY ToldPin
<1>4. groups \subseteq Previewed(m, e)
    BY ToldGroups
<1>5. {<<"disk", n>> : n \in names} \subseteq Previewed(m, e)
    <2>1. \A n \in names : <<"disk", n>> \in Previewed(m, e)
        BY ToldDisks
    <2> QED
        BY <2>1
<1>6. {<<"network", n>> : n \in links} \subseteq Previewed(m, e) \union Unlisted(m, e)
    <2>1. ASSUME NEW n \in links PROVE <<"network", n>> \in Previewed(m, e) \union Unlisted(m, e)
        BY ToldNets DEF Unlisted
    <2> QED
        BY <2>1
<1>7. Vm!DiffVMs(a, b) =
          parts \union labels \union pins \union groups \union {<<"disk", n>> : n \in names}
          \union {<<"network", n>> : n \in links}
    BY Zenon DEF Vm!DiffVMs
<1> HIDE DEF parts, labels, pins, groups, names, links
<1> QED
    BY <1>1, <1>2, <1>3, <1>4, <1>5, <1>6, <1>7

LEMMA VmPart ==
    ASSUME Vm!EditAssumption
    PROVE  PartsSpec => [](part = "vm" => VmInv)
<1>1. PartsInit => (part = "vm" => VmInv)
    BY DEF PartsInit, Vm!Init, Vm!EditAssumption, VmInv
<1>2. (part = "vm" => VmInv) /\ [PartsNext]_partsVars => (part = "vm" => VmInv)'
    <2> SUFFICES ASSUME VmInv, [PartsNext]_partsVars, part = "vm" PROVE VmInv'
        BY DEF PartsNext, partsVars
    <2>1. [Vm!Next]_(Vm!vars)
        BY DEF PartsNext, partsVars, vmVars, Vm!vars
    <2> QED
        BY <2>1, VmNext
<1> QED
    BY <1>1, <1>2, PTL DEF PartsSpec

(* edit.go:95-97: after any edit, one representation of the size, but for  *)
(* an empty instance type given to a manifest that had none.               *)
THEOREM SizedInOneWay ==
    ASSUME Vm!EditAssumption
    PROVE  (Vm!Spec => Vm!OneSizing) /\ (PartsSpec => OneSizing)
<1> DEFINE Once == vm' # vm => \/ vm'.instancetype = None \/ ~Vm!Inlined(vm')
                               \/ vm.instancetype = None /\ vm'.instancetype = Vm!Ref("")
<1>1. ASSUME OneSize(vm') PROVE vm'.instancetype = None \/ ~Vm!Inlined(vm')
    BY <1>1 DEF OneSize, Vm!Inlined, Vm!Vcpus
<1>2. VmInv /\ [Vm!Next]_(Vm!vars) => VmInv' /\ [Once]_(Vm!vars)
    BY <1>1, VmNext DEF SizedFrom
<1>3. Vm!Init => VmInv
    BY DEF Vm!Init, Vm!EditAssumption, VmInv
<1>4. (part = "vm" => VmInv) /\ [PartsNext]_partsVars => [Once]_(Vm!vars)
    <2> SUFFICES ASSUME part = "vm" => VmInv, [PartsNext]_partsVars PROVE [Once]_(Vm!vars)
        OBVIOUS
    <2>1. (part = "vm" /\ [Vm!Next]_(Vm!vars)) \/ UNCHANGED Vm!vars
        BY DEF PartsNext, partsVars, vmVars, Vm!vars
    <2> HIDE DEF Once
    <2> QED
        BY <1>2, <2>1
<1>5. Vm!Spec => [][Once]_(Vm!vars)
    BY <1>2, <1>3, PTL DEF Vm!Spec
<1>6. PartsSpec => [][Once]_(Vm!vars)
    BY <1>4, VmPart, PTL DEF PartsSpec
<1> QED
    BY <1>5, <1>6 DEF Vm!OneSizing, OneSizing

(* editmatch_test.go:9-11: "every difference DiffVMs can report must be     *)
(* reconcilable": adopting what runs closes them, for any lists of disks,  *)
(* interfaces and templates.                                               *)
THEOREM AdoptionClosesDifferences ==
    ASSUME Vm!EditAssumption
    PROVE  (Vm!Spec => []Vm!AdoptionCloses) /\ (PartsSpec => []VmAdoptionCloses)
<1>1. Vm!Init => VmInv
    BY DEF Vm!Init, Vm!EditAssumption, VmInv
<1>2. VmInv /\ [Vm!Next]_(Vm!vars) => VmInv'
    BY VmNext
<1>3. VmInv => Vm!AdoptionCloses
    BY AdoptedClosed
<1>4. Vm!Spec => []Vm!AdoptionCloses
    BY <1>1, <1>2, <1>3, PTL DEF Vm!Spec
<1>5. (part = "vm" => VmInv) => VmAdoptionCloses
    BY <1>3 DEF VmAdoptionCloses
<1>6. PartsSpec => []VmAdoptionCloses
    BY <1>5, VmPart, PTL
<1> QED
    BY <1>4, <1>6

(* semantic.go:11-13: the preview "mirrors what ApplyEdit will do": for any *)
(* manifest and any edit, nothing that the edit changes is left out of it. *)
THEOREM PreviewsCover ==
    ASSUME Vm!EditAssumption, Vm!OwnAssumption, Vm!NoneIsApart
    PROVE  (Vm!Spec => Vm!PreviewCovers) /\ (PartsSpec => PreviewCovers)
<1> DEFINE Shown ==
               vm' # vm /\ (vm.instancetype = None \/ Vm!NameOf(vm.instancetype) # "") =>
                   Vm!DiffVMs(Vm!Parsed(vm), Vm!Parsed(vm'))
                       \subseteq told' \union IF vm'.nics = <<>> /\ vm'.autoattach
                                              THEN {<<"network", "default">>} ELSE {}
           Inv == VmInv /\ Vm!Owned(vm)
<1>1. ASSUME NEW e, Inv, Vm!Requested(e), Vm!Land(e) PROVE Vm!Owned(vm') /\ Shown
    <2>1. Previews(vm, e)
        BY <1>1 DEF Previews, VmInv, Vm!Land
    <2>2. vm' = Vm!ApplyEdit(vm, e) /\ told' = Previewed(vm, e)
        BY <1>1 DEF Vm!Land, Previewed
    <2>3. Vm!Owned(vm')
        BY <2>1, <2>2, EditedOwned
    <2>4. NamedSize(vm) => Vm!DiffVMs(Vm!Parsed(vm), Vm!Parsed(vm')) \subseteq told' \union Unlisted(vm, e)
        BY <2>1, <2>2, EditTold DEF Edited
    <2>5. Unlisted(vm, e) = IF vm'.nics = <<>> /\ vm'.autoattach THEN {<<"network", "default">>} ELSE {}
        BY <2>2, Zenon DEF Unlisted
    <2> QED
        BY <2>3, <2>4, <2>5 DEF NamedSize
<1> HIDE DEF Shown
<1>2. Inv /\ [Vm!Next]_(Vm!vars) => Inv' /\ [Shown]_(Vm!vars)
    <2> SUFFICES ASSUME Inv, [Vm!Next]_(Vm!vars) PROVE Inv' /\ [Shown]_(Vm!vars)
        OBVIOUS
    <2>1. VmInv'
        BY VmNext
    <2>2. CASE Vm!StageEdit
        <3>1. PICK e \in Edits : Vm!Land(e)
            BY <2>2 DEF Vm!StageEdit
        <3> QED
            BY <1>1, <2>1, <3>1 DEF Vm!EditAssumption
    <2>3. CASE Vm!Adopt
        <3>1. Vm!Land(Adopting(vm, live))
            BY <2>3 DEF Vm!Adopt, Adopting
        <3>2. Vm!Requested(Adopting(vm, live))
            BY AdoptingRequested DEF VmInv
        <3> QED
            BY <1>1, <2>1, <3>1, <3>2
    <2>4. CASE UNCHANGED Vm!vars
        <3>1. vm' = vm
            BY <2>4 DEF Vm!vars
        <3> QED
            BY <2>1, <2>4, <3>1
    <2> QED
        BY <2>2, <2>3, <2>4 DEF Vm!Next
<1>3. Vm!Init => Inv
    BY DEF Vm!Init, Vm!EditAssumption, VmInv, Vm!OwnAssumption
<1>4. Vm!Spec => [][Shown]_(Vm!vars)
    BY <1>2, <1>3, PTL DEF Vm!Spec
<1>5. PartsInit => (part = "vm" => Inv)
    BY <1>3 DEF PartsInit
<1>6. (part = "vm" => Inv) /\ [PartsNext]_partsVars => (part = "vm" => Inv)' /\ [Shown]_(Vm!vars)
    <2> SUFFICES ASSUME part = "vm" => Inv, [PartsNext]_partsVars
                 PROVE  (part = "vm" => Inv)' /\ [Shown]_(Vm!vars)
        OBVIOUS
    <2>1. part' = part
        BY DEF PartsNext, partsVars
    <2>2. (part = "vm" /\ [Vm!Next]_(Vm!vars)) \/ UNCHANGED Vm!vars
        BY DEF PartsNext, partsVars, vmVars, Vm!vars
    <2>3. part = "vm" => [Vm!Next]_(Vm!vars)
        BY DEF PartsNext, partsVars, vmVars, Vm!vars
    <2> HIDE DEF Inv
    <2> QED
        BY <1>2, <2>1, <2>2, <2>3
<1>7. PartsSpec => [][Shown]_(Vm!vars)
    BY <1>5, <1>6, PTL DEF PartsSpec
<1> QED
    BY <1>4, <1>7 DEF Vm!PreviewCovers, PreviewCovers, Shown

(* The places of a list that hold an item of a set, and how many they are. *)
Places(s, T) == {i \in DOMAIN s : s[i] \in T}

Count(s, T) == Cardinality(Places(s, T))

LEMMA FinitePlaces ==
    ASSUME NEW S, NEW s \in Seq(S)
    PROVE  /\ IsFiniteSet(DOMAIN s)
           /\ \A I \in SUBSET DOMAIN s : IsFiniteSet(I) /\ Cardinality(I) \in Nat
<1>1. Len(s) \in Nat /\ DOMAIN s = 1..Len(s)
    OBVIOUS
<1>2. IsFiniteSet(DOMAIN s)
    BY <1>1, FS_Interval
<1> QED
    BY <1>2, FS_Subset, FS_CardinalityType

(* Of two lists put together.                                              *)
LEMMA CountJoined ==
    ASSUME NEW S, NEW s \in Seq(S), NEW t \in Seq(S), NEW T
    PROVE  Count(s \o t, T) = Count(s, T) + Count(t, T)
<1> DEFINE n == Len(s)
           c == s \o t
           A == Places(s, T)
           B == Places(t, T)
           f == [i \in B |-> i + n]
           C == {i + n : i \in B}
<1>1. n \in Nat /\ DOMAIN s = 1..n /\ Len(t) \in Nat /\ DOMAIN t = 1..Len(t)
    OBVIOUS
<1>2. IsFiniteSet(A) /\ IsFiniteSet(B) /\ A \subseteq DOMAIN s /\ B \subseteq DOMAIN t
    BY FinitePlaces DEF Places
<1>3. /\ DOMAIN c = 1..(n + Len(t))
      /\ \A i \in DOMAIN s : c[i] = s[i]
      /\ \A i \in DOMAIN t : c[i + n] = t[i]
    OBVIOUS
<1>4. Places(c, T) = A \union C
    <2>1. ASSUME NEW i \in Places(c, T) PROVE i \in A \union C
        <3>1. i \in DOMAIN c /\ c[i] \in T
            BY DEF Places
        <3> HIDE DEF c, n
        <3>2. CASE i \in DOMAIN s
            BY <1>3, <3>1, <3>2 DEF Places
        <3>3. CASE i \notin DOMAIN s
            <4>1. i - n \in DOMAIN t /\ i = (i - n) + n
                BY <1>1, <1>3, <3>1, <3>3
            <4>2. i - n \in B
                BY <1>3, <3>1, <4>1 DEF Places
            <4> QED
                BY <4>1, <4>2
        <3> QED
            BY <3>2, <3>3
    <2>2. ASSUME NEW i \in A PROVE i \in Places(c, T)
        <3> HIDE DEF c, n
        <3>1. i \in DOMAIN s /\ s[i] \in T
            BY DEF Places
        <3>2. i \in DOMAIN c
            BY <1>1, <1>3, <3>1
        <3> QED
            BY <1>3, <3>1, <3>2 DEF Places
    <2>3. ASSUME NEW j \in B PROVE j + n \in Places(c, T)
        <3> HIDE DEF c, n
        <3>1. j \in DOMAIN t /\ t[j] \in T
            BY DEF Places
        <3>2. j + n \in DOMAIN c
            BY <1>1, <1>3, <3>1
        <3> QED
            BY <1>3, <3>1, <3>2 DEF Places
    <2> HIDE DEF A, B, c, n
    <2> QED
        BY <2>1, <2>2, <2>3
<1> HIDE DEF A, B, c, n
<1>5. f \in Bijection(B, C)
    BY <1>1, <1>2 DEF Bijection, Injection, Surjection, IsInjective
<1>6. IsFiniteSet(C) /\ Cardinality(C) = Cardinality(B)
    BY <1>2, <1>5, FS_Bijection DEF ExistsBijection
<1>7. A \intersect C = {}
    BY <1>1, <1>2
<1> HIDE DEF C
<1>8. Cardinality(A \union C) = Cardinality(A) + Cardinality(C) - Cardinality({})
    BY <1>2, <1>6, <1>7, FS_Union
<1>9. Cardinality(A) \in Nat /\ Cardinality(B) \in Nat
    BY <1>2, FS_CardinalityType
<1> QED
    BY <1>4, <1>6, <1>8, <1>9, FS_EmptySet DEF Count, A, B, c

LEMMA CountOne ==
    ASSUME NEW T
    PROVE  Count(<<>>, T) = 0 /\ \A x : Count(<<x>>, T) = IF x \in T THEN 1 ELSE 0
<1>1. Places(<<>>, T) = {}
    BY DEF Places
<1>2. \A x : Places(<<x>>, T) = IF x \in T THEN {1} ELSE {}
    BY DEF Places
<1> QED
    BY <1>1, <1>2, FS_EmptySet, FS_Singleton DEF Count

(* What is left of a list has the items that are not gone.                 *)
Stays(s, names, T) == {i \in DOMAIN s : s[i] \in T /\ ~Gone(s, names, i)}

LEMMA CountLeft ==
    ASSUME NEW S, NEW s \in Seq(S), NEW names, NEW T
    PROVE  Count(Vm!Without(s, names), T) = Cardinality(Stays(s, names, T))
<1> DEFINE n == Len(s)
           piece(i) == IF Gone(s, names, i) THEN << >> ELSE <<s[i]>>
           seqs == [i \in DOMAIN s |-> piece(i)]
           upto(k) == {i \in 1..k : s[i] \in T /\ ~Gone(s, names, i)}
<1>1. n \in Nat /\ DOMAIN s = 1..n /\ \A i \in DOMAIN s : s[i] \in S
    OBVIOUS
<1>2. Vm!Without(s, names) = Net!FlattenSeq(seqs)
    <2>1. Vm!Without(s, names) = Vm!FlattenSeq(seqs)
        BY Zenon DEF Vm!Without, Gone
    <2> QED
        BY <2>1, SameFlatten, Zenon
<1> HIDE DEF n
<1>3. \A i \in DOMAIN s : piece(i) \in Seq(S)
    <2>1. << >> \in Seq(S) /\ \A r \in S : <<r>> \in Seq(S)
        OBVIOUS
    <2> QED
        BY <1>1, <2>1
<1>4. \A i \in DOMAIN s : Count(piece(i), T) = IF s[i] \in T /\ ~Gone(s, names, i) THEN 1 ELSE 0
    BY CountOne
<1> HIDE DEF piece
<1>5. Len(seqs) = n /\ \A i \in 1..n : seqs[i] = piece(i)
    BY <1>1
<1>6. seqs \in Seq(Seq(S))
    BY <1>1, <1>3
<1> HIDE DEF seqs
<1>7. PICK g \in [0..n -> Seq(S)] :
          /\ g[0] = <<>> /\ \A k \in 1..n : g[k] = g[k - 1] \o seqs[k]
          /\ Net!FlattenSeq(seqs) = g[n]
    BY <1>5, <1>6, Flatten
<1> DEFINE P == {k \in 0..n : Count(g[k], T) = Cardinality(upto(k))}
<1>8. 0 \in P
    <2>1. upto(0) = {}
        OBVIOUS
    <2> HIDE DEF upto
    <2>2. Count(g[0], T) = Cardinality(upto(0))
        BY <1>7, <2>1, CountOne, FS_EmptySet
    <2> QED
        BY <1>1, <2>2
<1>9. \A k \in 0..(n - 1) : k \in P => k + 1 \in P
    <2>1. ASSUME NEW k \in 0..(n - 1), k \in P PROVE k + 1 \in P
        <3>1. /\ g[k] \in Seq(S) /\ k + 1 \in 1..n /\ k \in Nat
              /\ g[k + 1] = g[k] \o seqs[k + 1] /\ seqs[k + 1] \in Seq(S)
            <4>1. k + 1 \in 1..n /\ k \in 0..n /\ (k + 1) - 1 = k
                BY <1>1
            <4>2. seqs[k + 1] \in Seq(S)
                BY <1>1, <1>3, <1>5, <4>1
            <4>3. g[k] \in Seq(S)
                BY <1>7, <4>1
            <4>4. g[k + 1] = g[k] \o seqs[k + 1]
                <5>1. g[k + 1] = g[(k + 1) - 1] \o seqs[k + 1]
                    BY <1>7, <4>1
                <5> QED
                    BY <4>1, <5>1
            <4> QED
                BY <4>1, <4>2, <4>3, <4>4
        <3>2. Count(g[k + 1], T) = Count(g[k], T) + Count(seqs[k + 1], T)
            BY <3>1, CountJoined
        <3>3. upto(k + 1) = upto(k) \union (IF s[k + 1] \in T /\ ~Gone(s, names, k + 1) THEN {k + 1} ELSE {})
            <4> DEFINE in(i) == s[i] \in T /\ ~Gone(s, names, i)
            <4> HIDE DEF in
            <4>1. {i \in 1..(k + 1) : in(i)} = {i \in 1..k : in(i)} \union (IF in(k + 1) THEN {k + 1} ELSE {})
                BY <3>1
            <4> QED
                BY <4>1 DEF in
        <3>4. IsFiniteSet(upto(k)) /\ k + 1 \notin upto(k)
            <4>1. IsFiniteSet(1..k)
                BY <3>1, FS_Interval
            <4>2. upto(k) \in SUBSET (1..k) /\ k + 1 \notin upto(k)
                BY <3>1
            <4> HIDE DEF upto
            <4> QED
                BY <4>1, <4>2, FS_Subset
        <3>5. Count(seqs[k + 1], T) = IF s[k + 1] \in T /\ ~Gone(s, names, k + 1) THEN 1 ELSE 0
            BY <1>1, <1>4, <1>5, <3>1
        <3>6. Cardinality(upto(k)) \in Nat
            BY <3>4, FS_CardinalityType
        <3>7. Count(g[k], T) = Cardinality(upto(k))
            BY <2>1
        <3> HIDE DEF upto
        <3>8. Cardinality(upto(k + 1)) =
                 Cardinality(upto(k)) + (IF s[k + 1] \in T /\ ~Gone(s, names, k + 1) THEN 1 ELSE 0)
            <4>1. CASE s[k + 1] \in T /\ ~Gone(s, names, k + 1)
                BY <3>3, <3>4, <4>1, FS_AddElement
            <4>2. CASE ~(s[k + 1] \in T /\ ~Gone(s, names, k + 1))
                <5>1. upto(k + 1) = upto(k)
                    BY <3>3, <4>2
                <5> QED
                    BY <3>6, <4>2, <5>1
            <4> QED
                BY <4>1, <4>2
        <3>9. Count(g[k + 1], T) = Cardinality(upto(k + 1))
            BY <3>2, <3>5, <3>7, <3>8
        <3>10. k + 1 \in 0..n
            BY <1>1, <3>1
        <3> QED
            BY <3>9, <3>10, Zenon
    <2> HIDE DEF P
    <2> QED
        BY <2>1, Zenon
<1>10. n \in P
    <2> HIDE DEF P
    <2>1. \A k \in 0..n : k \in P
        BY <1>1, <1>8, <1>9, UpTo
    <2> QED
        BY <1>1, <2>1
<1>11. upto(n) = Stays(s, names, T)
    BY <1>1 DEF Stays
<1> HIDE DEF upto
<1> QED
    BY <1>2, <1>7, <1>10, <1>11

(* A changed list.                                                         *)
LEMMA CountChanged ==
    ASSUME NEW S, NEW s \in Seq(S), NEW names, NEW added \in Seq(S), NEW T
    PROVE  Count(Vm!Changed(s, names, added), T) =
              Cardinality(Stays(s, names, T)) + (IF s = <<>> THEN 0 ELSE Count(added, T))
<1> DEFINE rest == Vm!Without(s, names)
           more == IF s = << >> THEN << >> ELSE added
<1>1. rest \in Seq(S)
    BY WithoutItems
<1>2. more \in Seq(S)
    <2>1. << >> \in Seq(S)
        OBVIOUS
    <2> QED
        BY <2>1
<1>3. Vm!Changed(s, names, added) = rest \o more
    BY DEF Vm!Changed
<1>4. Count(rest, T) = Cardinality(Stays(s, names, T))
    BY CountLeft
<1>5. Count(more, T) = IF s = <<>> THEN 0 ELSE Count(added, T)
    BY CountOne
<1> HIDE DEF rest, more
<1> QED
    BY <1>1, <1>2, <1>3, <1>4, <1>5, CountJoined

(* The items of a name, and the volumes of a DataVolume.                   *)
NameAt(s, x) == {i \in DOMAIN s : s[i].name = x}

DvAt(s, x) == {i \in DOMAIN s : s[i].dv = x /\ x # None}

Some(n) == IF n > 0 THEN 1 ELSE 0

LEMMA GoneOnce ==
    ASSUME NEW S, NEW s \in Seq(S), NEW names, NEW i \in DOMAIN s, NEW j \in DOMAIN s,
           Gone(s, names, i), Gone(s, names, j), s[i].name = s[j].name
    PROVE  i = j
<1>1. i \in Nat /\ j \in Nat /\ i >= 1 /\ j >= 1
    <2>1. DOMAIN s = 1..Len(s) /\ Len(s) \in Nat
        OBVIOUS
    <2> QED
        BY <2>1
<1>2. ~(i < j) /\ ~(j < i)
    BY <1>1 DEF Gone
<1> QED
    BY <1>1, <1>2

(* The first item of a name goes, when the name goes.                      *)
LEMMA OneGoes ==
    ASSUME NEW S, NEW s \in Seq(S), NEW names, NEW x \in names, NameAt(s, x) # {}
    PROVE  \E i \in NameAt(s, x) : Gone(s, names, i)
<1>1. Len(s) \in Nat /\ DOMAIN s = 1..Len(s)
    OBVIOUS
<1>2. NameAt(s, x) \in SUBSET Nat
    BY <1>1 DEF NameAt
<1>3. PICK i \in NameAt(s, x) : \A j \in NameAt(s, x) : i <= j
    BY <1>2, Smallest
<1>4. \A j \in 1..(i - 1) : s[j].name # s[i].name
    BY <1>1, <1>3 DEF NameAt
<1> QED
    BY <1>3, <1>4 DEF NameAt, Gone

LEMMA CountNames ==
    ASSUME NEW S, NEW s \in Seq(S), NEW names, NEW added \in Seq(S), NEW x
    PROVE  LET had == Cardinality(NameAt(s, x))
           IN  /\ had \in Nat /\ Cardinality(NameAt(added, x)) \in Nat
               /\ Cardinality(NameAt(Vm!Changed(s, names, added), x)) =
                     (had - (IF x \in names THEN Some(had) ELSE 0))
                     + (IF s = <<>> THEN 0 ELSE Cardinality(NameAt(added, x)))
<1> DEFINE T == {y \in S : y.name = x}
           A == NameAt(s, x)
           had == Cardinality(A)
           c == Vm!Changed(s, names, added)
           K == Stays(s, names, T)
<1>1. ASSUME NEW t \in Seq(S) PROVE Places(t, T) = NameAt(t, x)
    <2>1. \A i \in DOMAIN t : t[i] \in S
        OBVIOUS
    <2> QED
        BY <2>1 DEF Places, NameAt
<1>2. c \in Seq(S)
    <2>1. Vm!Without(s, names) \in Seq(S)
        BY WithoutItems
    <2>2. (IF s = <<>> THEN <<>> ELSE added) \in Seq(S)
        <3>1. << >> \in Seq(S)
            OBVIOUS
        <3> QED
            BY <3>1
    <2> QED
        BY <2>1, <2>2 DEF Vm!Changed
<1>3. Cardinality(NameAt(c, x)) = Cardinality(K) + (IF s = <<>> THEN 0 ELSE Cardinality(NameAt(added, x)))
    <2> HIDE DEF T, c, K
    <2>1. Count(c, T) = Cardinality(K) + (IF s = <<>> THEN 0 ELSE Count(added, T))
        BY CountChanged DEF c, K
    <2> QED
        BY <1>1, <1>2, <2>1 DEF Count
<1>4. IsFiniteSet(A) /\ had \in Nat /\ Cardinality(NameAt(added, x)) \in Nat
    BY FinitePlaces DEF NameAt
<1>5. K = {i \in A : ~Gone(s, names, i)}
    <2>1. \A i \in DOMAIN s : s[i] \in S
        OBVIOUS
    <2> QED
        BY <2>1 DEF Stays, NameAt
<1> HIDE DEF T, c, K
<1>6. Cardinality(K) = had - (IF x \in names THEN Some(had) ELSE 0)
    <2>1. CASE x \notin names \/ A = {}
        <3>1. K = A
            BY <1>5, <2>1 DEF Gone, NameAt
        <3>2. x \in names => Some(had) = 0
            BY <2>1, FS_EmptySet DEF Some
        <3> HIDE DEF A
        <3> QED
            BY <1>4, <3>1, <3>2
    <2>2. CASE x \in names /\ A # {}
        <3>1. PICK i \in A : Gone(s, names, i)
            BY <2>2, OneGoes
        <3>2. \A j \in A : Gone(s, names, j) => j = i
            BY <3>1, GoneOnce DEF NameAt
        <3>3. K = A \ {i}
            BY <1>5, <3>1, <3>2
        <3> HIDE DEF A
        <3>4. had # 0
            BY <1>4, <2>2, FS_EmptySet
        <3>5. Cardinality(K) = had - 1
            BY <1>4, <3>1, <3>3, FS_RemoveElement
        <3>6. Some(had) = 1
            BY <1>4, <3>4 DEF Some
        <3> QED
            BY <1>4, <2>2, <3>5, <3>6
    <2> QED
        BY <2>1, <2>2
<1> HIDE DEF A
<1> QED
    BY <1>3, <1>4, <1>6 DEF A, c

(* A DataVolume loses a volume only with the disk that it belongs to.      *)
LEMMA CountDvs ==
    ASSUME NEW S, NEW m, m.volumes \in Seq(S), VolumesOwned(m.volumes),
           NEW names, NEW added \in Seq(S), NEW x, x # None
    PROVE  LET s == m.volumes
               had == Cardinality(DvAt(s, x))
           IN  /\ had \in Nat /\ Cardinality(DvAt(added, x)) \in Nat
               /\ x \in Vm!DvsOf(m, names) => had > 0
               /\ Cardinality(DvAt(Vm!Changed(s, names, added), x)) >=
                     (had - (IF x \in Vm!DvsOf(m, names) THEN 1 ELSE 0))
                     + (IF s = <<>> THEN 0 ELSE Cardinality(DvAt(added, x)))
<1> DEFINE s == m.volumes
           T == {y \in S : y.dv = x}
           A == DvAt(s, x)
           had == Cardinality(A)
           c == Vm!Changed(s, names, added)
           K == Stays(s, names, T)
<1>1. ASSUME NEW t \in Seq(S) PROVE Places(t, T) = DvAt(t, x)
    <2>1. \A i \in DOMAIN t : t[i] \in S
        OBVIOUS
    <2> QED
        BY <2>1 DEF Places, DvAt
<1>2. c \in Seq(S)
    <2>1. Vm!Without(s, names) \in Seq(S)
        BY WithoutItems
    <2>2. (IF s = <<>> THEN <<>> ELSE added) \in Seq(S)
        <3>1. << >> \in Seq(S)
            OBVIOUS
        <3> QED
            BY <3>1
    <2> QED
        BY <2>1, <2>2 DEF Vm!Changed
<1>3. Cardinality(DvAt(c, x)) = Cardinality(K) + (IF s = <<>> THEN 0 ELSE Cardinality(DvAt(added, x)))
    <2> HIDE DEF T, c, K
    <2>1. Count(c, T) = Cardinality(K) + (IF s = <<>> THEN 0 ELSE Count(added, T))
        BY CountChanged DEF c, K
    <2> QED
        BY <1>1, <1>2, <2>1 DEF Count
<1>4. IsFiniteSet(A) /\ had \in Nat /\ Cardinality(DvAt(added, x)) \in Nat
    BY FinitePlaces DEF DvAt
<1>5. K = {i \in A : ~Gone(s, names, i)}
    <2>1. \A i \in DOMAIN s : s[i] \in S
        OBVIOUS
    <2> QED
        BY <2>1 DEF Stays, DvAt
<1>6. Vm!IsList(s)
    BY IsListOf
<1> HIDE DEF T, c, K
<1>7. Cardinality(K) \in Nat /\ Cardinality(K) >= had - (IF x \in Vm!DvsOf(m, names) THEN 1 ELSE 0)
    <2>1. CASE \A i \in A : ~Gone(s, names, i)
        <3>1. K = A
            BY <1>5, <2>1
        <3> HIDE DEF A
        <3> QED
            BY <1>4, <3>1
    <2>2. CASE \E i \in A : Gone(s, names, i)
        <3>1. PICK i \in A : Gone(s, names, i)
            BY <2>2
        <3>2. \A j \in A : s[j].name = x[1]
            BY DEF DvAt, VolumesOwned
        <3>3. \A j \in A : Gone(s, names, j) => j = i
            BY <3>1, <3>2, GoneOnce DEF DvAt
        <3>4. K = A \ {i}
            BY <1>5, <3>1, <3>3
        <3>5. AtFront(s, x[1], s[i]) /\ x[1] \in names /\ s[i].dv = x
            BY <3>1, <3>2 DEF Gone, AtFront, DvAt
        <3>6. Vm!Named(s, x[1]) = s[i] /\ x[1] \in Vm!NamesOf(s)
            BY <1>6, <3>5, NamedFirst
        <3>7. x \in Vm!DvsOf(m, names)
            BY <3>5, <3>6 DEF Vm!DvsOf
        <3> HIDE DEF A
        <3>8. Cardinality(K) = had - 1
            BY <1>4, <3>1, <3>4, FS_RemoveElement
        <3>9. had # 0
            BY <1>4, <3>1, FS_EmptySet
        <3> QED
            BY <1>4, <3>7, <3>8, <3>9
    <2> QED
        BY <2>1, <2>2
<1>8. x \in Vm!DvsOf(m, names) => had > 0
    <2>1. SUFFICES ASSUME x \in Vm!DvsOf(m, names) PROVE had > 0
        OBVIOUS
    <2>2. PICK n \in Vm!NamesOf(s) : Vm!Named(s, n).dv = x
        BY <2>1 DEF Vm!DvsOf
    <2>3. AtFront(s, n, Vm!Named(s, n))
        BY <1>6, FirstNamed
    <2>4. A # {}
        BY <2>2, <2>3 DEF AtFront, DvAt
    <2> HIDE DEF A
    <2> QED
        BY <1>4, <2>4, FS_EmptySet
<1> HIDE DEF A
<1> QED
    BY <1>3, <1>4, <1>7, <1>8 DEF A, c

(* A disk has its volume, and a template a volume of its own.              *)
Counted(disks, volumes, templates) ==
    /\ \A n : Cardinality(NameAt(disks, n)) <= Cardinality(NameAt(volumes, n))
    /\ templates # None => \A x : Cardinality(NameAt(templates, x)) <= Cardinality(DvAt(volumes, x))

CountedIn(m) == Counted(m.disks, m.volumes, m.templates)

LEMMA NoPlaces ==
    ASSUME NEW s, NEW x
    PROVE  /\ NameAt(<<>>, x) = {} /\ DvAt(<<>>, x) = {} /\ DvAt(s, None) = {}
           /\ Cardinality({}) = 0
BY FS_EmptySet DEF NameAt, DvAt

LEMMA DisksHaveVolumes ==
    ASSUME NEW S, NEW m, m.disks \in Seq(S), m.disks # <<>>,
           \A n : Cardinality(NameAt(m.disks, n)) <= Cardinality(NameAt(m.volumes, n))
    PROVE  m.volumes # <<>>
<1> DEFINE n == m.disks[1].name
           A == NameAt(m.disks, n)
<1>1. 1 \in DOMAIN m.disks
    OBVIOUS
<1>2. A # {}
    BY <1>1 DEF NameAt
<1>3. IsFiniteSet(A) /\ Cardinality(A) \in Nat
    BY FinitePlaces DEF NameAt
<1>4. Cardinality(A) # 0
    <2> HIDE DEF A
    <2> QED
        BY <1>2, <1>3, FS_EmptySet
<1>5. Cardinality(NameAt(<<>>, n)) = 0
    BY NoPlaces
<1>6. Cardinality(A) <= Cardinality(NameAt(m.volumes, n))
    OBVIOUS
<1> HIDE DEF A, n
<1> QED
    BY <1>3, <1>4, <1>5, <1>6

(* Disks added and removed keep their volumes and their templates.         *)
LEMMA CountedKept ==
    ASSUME NEW m, NEW e, Previews(m, e), m.disks # <<>>, CountedIn(m)
    PROVE  CountedIn(Vm!WithDisks(m, e))
<1> DEFINE w == Vm!WithDisks(m, e)
           drop == e.dropDisks
           gone == Vm!DvsOf(m, drop)
<1>1. Vm!Admitted(m) /\ Vm!Requested(e) /\ Vm!Owned(m) /\ Vm!NoneIsApart
    BY DEF Previews
<1>2. PICK A : \E bares, vols, new \in Seq(A) : DisksGive(m, e, w, bares, vols, new)
    BY <1>1, DisksAre
<1>3. PICK bares, vols, new \in Seq(A) : DisksGive(m, e, w, bares, vols, new)
    BY <1>2
<1> HIDE DEF w
<1>4. /\ w.disks = Vm!Changed(m.disks, drop, bares)
      /\ w.volumes = Vm!Changed(m.volumes, drop, vols)
      /\ w.templates = IF m.templates # None THEN Vm!Changed(m.templates, gone, new)
                       ELSE IF new = << >> THEN None ELSE new
      /\ AddedTogether(bares, vols, new)
    BY <1>3, Zenon DEF DisksGive
<1> HIDE DEF gone, drop
<1> DEFINE S == A \union Items(m.disks) \union Items(m.volumes) \union
                (IF m.templates = None THEN {} ELSE Items(m.templates))
<1>5. /\ bares \in Seq(S) /\ vols \in Seq(S) /\ new \in Seq(S)
      /\ m.disks \in Seq(S) /\ m.volumes \in Seq(S)
      /\ m.templates # None => m.templates \in Seq(S)
    <2>1. /\ m.disks \in Seq(Items(m.disks)) /\ m.volumes \in Seq(Items(m.volumes))
          /\ m.templates # None => m.templates \in Seq(Items(m.templates))
        BY <1>1, ListIn DEF Vm!Admitted
    <2>2. ASSUME NEW U, NEW V, U \subseteq V PROVE Seq(U) \subseteq Seq(V)
        BY <2>2
    <2>3. /\ A \subseteq S /\ Items(m.disks) \subseteq S /\ Items(m.volumes) \subseteq S
          /\ m.templates # None => Items(m.templates) \subseteq S
        OBVIOUS
    <2> HIDE DEF S
    <2> QED
        BY <1>3, <2>1, <2>2, <2>3
<1> HIDE DEF S
<1>6. m.volumes # <<>>
    BY <1>5, DisksHaveVolumes DEF CountedIn, Counted
<1>7. VolumesOwned(m.volumes)
    BY <1>1, OwnedIs
<1>8. ASSUME NEW n PROVE Cardinality(NameAt(w.disks, n)) <= Cardinality(NameAt(w.volumes, n))
    <2> DEFINE a == Cardinality(NameAt(m.disks, n))
               b == Cardinality(NameAt(m.volumes, n))
               k == Cardinality(NameAt(bares, n))
    <2>1. NameAt(bares, n) = NameAt(vols, n)
        BY <1>4 DEF AddedTogether, NameAt
    <2>2. /\ a \in Nat /\ k \in Nat
          /\ Cardinality(NameAt(w.disks, n)) = (a - (IF n \in drop THEN Some(a) ELSE 0)) + k
        <3>1. /\ a \in Nat /\ k \in Nat
              /\ Cardinality(NameAt(Vm!Changed(m.disks, drop, bares), n)) =
                    (a - (IF n \in drop THEN Some(a) ELSE 0)) + (IF m.disks = <<>> THEN 0 ELSE k)
            <4>1. m.disks \in Seq(S) /\ bares \in Seq(S)
                BY <1>5
            <4> QED
                BY <4>1, CountNames
        <3> QED
            BY <1>4, <3>1, Zenon
    <2>3. /\ b \in Nat
          /\ Cardinality(NameAt(w.volumes, n)) = (b - (IF n \in drop THEN Some(b) ELSE 0)) + k
        <3>1. /\ b \in Nat
              /\ Cardinality(NameAt(Vm!Changed(m.volumes, drop, vols), n)) =
                    (b - (IF n \in drop THEN Some(b) ELSE 0))
                    + (IF m.volumes = <<>> THEN 0 ELSE Cardinality(NameAt(vols, n)))
            <4>1. m.volumes \in Seq(S) /\ vols \in Seq(S)
                BY <1>5
            <4> QED
                BY <4>1, CountNames
        <3> QED
            BY <1>4, <1>6, <2>1, <3>1, Zenon
    <2>4. a <= b
        BY DEF CountedIn, Counted
    <2> HIDE DEF a, b, k
    <2> QED
        BY <2>2, <2>3, <2>4 DEF Some
<1>9. ASSUME NEW x, x # None, w.templates # None
      PROVE  Cardinality(NameAt(w.templates, x)) <= Cardinality(DvAt(w.volumes, x))
    <2> DEFINE a == IF m.templates = None THEN 0 ELSE Cardinality(NameAt(m.templates, x))
               b == Cardinality(DvAt(m.volumes, x))
               k == Cardinality(NameAt(new, x))
    <2>1. NameAt(new, x) = DvAt(vols, x)
        BY <1>4, <1>9 DEF AddedTogether, NameAt, DvAt
    <2>2. /\ b \in Nat /\ k \in Nat /\ (x \in gone => b > 0)
          /\ Cardinality(DvAt(w.volumes, x)) >= (b - (IF x \in gone THEN 1 ELSE 0)) + k
        BY <1>4, <1>5, <1>6, <1>7, <1>9, <2>1, CountDvs DEF gone
    <2>3. Cardinality(DvAt(w.volumes, x)) \in Nat
        <3>1. Vm!IsList(w.volumes)
            BY <1>1, DisksAreLists DEF w
        <3>2. DvAt(w.volumes, x) \in SUBSET DOMAIN w.volumes
            BY DEF DvAt
        <3> QED
            BY <3>1, <3>2, ListIn, FinitePlaces
    <2>4. CASE m.templates = None
        <3>1. w.templates = new
            BY <1>4, <1>9, <2>4
        <3>2. Cardinality(NameAt(w.templates, x)) = k
            BY <3>1
        <3> HIDE DEF b, k
        <3> QED
            BY <2>2, <2>3, <3>2
    <2>5. CASE m.templates # None
        <3>1. /\ a \in Nat
              /\ Cardinality(NameAt(w.templates, x)) =
                    (a - (IF x \in gone THEN Some(a) ELSE 0)) + (IF m.templates = <<>> THEN 0 ELSE k)
            BY <1>4, <1>5, <2>5, CountNames
        <3>2. a <= b
            BY <2>5 DEF CountedIn, Counted
        <3> HIDE DEF a, b, k
        <3> QED
            BY <2>2, <2>3, <3>1, <3>2 DEF Some
    <2> QED
        BY <2>4, <2>5
<1>10. w.templates # None => Cardinality(NameAt(w.templates, None)) <= Cardinality(DvAt(w.volumes, None))
    <2>1. SUFFICES ASSUME w.templates # None PROVE Cardinality(NameAt(w.templates, None)) = 0
        <3>1. Cardinality(DvAt(w.volumes, None)) = 0
            BY NoPlaces
        <3> QED
            BY <3>1
    <2>2. NameAt(new, None) = {}
        <3>1. \A i \in DOMAIN new : new[i].name # None
            BY <1>1, <1>4 DEF AddedTogether, Vm!NoneIsApart
        <3> QED
            BY <3>1 DEF NameAt
    <2>3. CASE m.templates = None
        <3>1. w.templates = new
            BY <1>4, <2>1, <2>3
        <3> QED
            BY <2>2, <3>1, NoPlaces
    <2>4. CASE m.templates # None
        <3> DEFINE a == Cardinality(NameAt(m.templates, None))
        <3>1. /\ a \in Nat
              /\ Cardinality(NameAt(w.templates, None)) =
                    (a - (IF None \in gone THEN Some(a) ELSE 0))
                    + (IF m.templates = <<>> THEN 0 ELSE Cardinality(NameAt(new, None)))
            BY <1>4, <1>5, <2>4, CountNames
        <3>2. a <= 0
            BY <2>4, NoPlaces DEF CountedIn, Counted
        <3>3. Cardinality(NameAt(new, None)) = 0
            BY <2>2, NoPlaces
        <3> HIDE DEF a
        <3> QED
            BY <3>1, <3>2, <3>3 DEF Some
    <2> QED
        BY <2>3, <2>4
<1>11. \A x : w.templates # None => Cardinality(NameAt(w.templates, x)) <= Cardinality(DvAt(w.volumes, x))
    BY <1>9, <1>10
<1> QED
    BY <1>8, <1>11, Zenon DEF CountedIn, Counted, w

(* What becomes one DataVolume: itself, and one that moves to its name.    *)
LEMMA NewDvFrom ==
    ASSUME NEW m, NEW e, Previews(m, e), Moves(m, e) # {}, NEW y
    PROVE  \/ \A x : NewDv(m, e, x) # y
           \/ \A x : NewDv(m, e, x) = y <=> x = y
           \/ \E z : z # y /\ z # None /\ y # None /\ \A x : NewDv(m, e, x) = y <=> x \in {y, z}
<1>1. Vm!IsList(m.volumes) /\ Vm!Owned(m) /\ Vm!NoneIsApart
    BY DEF Previews, Vm!Admitted
<1>2. m.templates # None /\ Vm!IsList(m.templates)
    BY SomethingMoves DEF Previews, Vm!Admitted
<1>3. \A x : MovesOf(m, e, x) # {} => x # None /\ x \in Vm!NamesOf(m.templates)
    BY DEF MovesOf, Moves, Vm!Movable
<1>4. \A x : /\ Vm!NextDv(m, x) \notin Vm!NamesOf(m.templates) /\ Vm!NextDv(m, x)[1] = x[1]
             /\ Vm!NextDv(m, x) # None
    BY <1>1, <1>2, FreshDv DEF Vm!NoneIsApart
<1>5. CASE \E z : MovesOf(m, e, z) # {} /\ Vm!NextDv(m, z) = y
    <2>1. PICK z : MovesOf(m, e, z) # {} /\ Vm!NextDv(m, z) = y
        BY <1>5
    <2>2. z # None /\ y # None /\ z # y
        BY <1>3, <1>4, <2>1
    <2>3. MovesOf(m, e, y) = {}
        BY <1>3, <1>4, <2>1
    <2>4. ASSUME NEW x, NewDv(m, e, x) = y PROVE x \in {y, z}
        <3>1. CASE MovesOf(m, e, x) = {}
            BY <2>4, <3>1 DEF NewDv
        <3>2. CASE MovesOf(m, e, x) # {}
            <4>1. Vm!NextDv(m, x) = y
                BY <2>4, <3>2 DEF NewDv
            <4>2. x[1] = z[1]
                BY <1>4, <2>1, <4>1
            <4>3. x = z
                BY <1>1, <1>2, <2>1, <3>2, <4>2, MovesApart
            <4> QED
                BY <4>3
        <3> QED
            BY <3>1, <3>2
    <2>5. NewDv(m, e, y) = y /\ NewDv(m, e, z) = y
        BY <2>1, <2>3 DEF NewDv
    <2> QED
        BY <2>2, <2>4, <2>5
<1>6. CASE ~\E z : MovesOf(m, e, z) # {} /\ Vm!NextDv(m, z) = y
    <2>1. \A x : NewDv(m, e, x) = y => x = y /\ MovesOf(m, e, x) = {}
        BY <1>6 DEF NewDv
    <2>2. MovesOf(m, e, y) = {} => NewDv(m, e, y) = y
        BY DEF NewDv
    <2> QED
        BY <2>1, <2>2
<1> QED
    BY <1>5, <1>6

(* Two pairs of sets put together.                                         *)
LEMMA BothCounted ==
    ASSUME NEW A, NEW B, NEW C, NEW D, IsFiniteSet(A), IsFiniteSet(B), IsFiniteSet(C), IsFiniteSet(D),
           Cardinality(A) <= Cardinality(B), Cardinality(C) <= Cardinality(D), B \intersect D = {}
    PROVE  Cardinality(A \union C) <= Cardinality(B \union D)
<1>1. /\ Cardinality(A) \in Nat /\ Cardinality(B) \in Nat /\ Cardinality(C) \in Nat /\ Cardinality(D) \in Nat
      /\ IsFiniteSet(A \intersect C)
    BY FS_CardinalityType, FS_Intersection
<1>2. Cardinality(A \intersect C) \in Nat /\ Cardinality({}) = 0
    BY <1>1, FS_CardinalityType, FS_EmptySet
<1>3. Cardinality(A \union C) = Cardinality(A) + Cardinality(C) - Cardinality(A \intersect C)
    BY FS_Union
<1>4. Cardinality(B \union D) = Cardinality(B) + Cardinality(D) - Cardinality({})
    BY FS_Union
<1> QED
    BY <1>1, <1>2, <1>3, <1>4

LEMMA FiniteAt ==
    ASSUME NEW s, Vm!IsList(s), NEW x
    PROVE  /\ IsFiniteSet(NameAt(s, x)) /\ Cardinality(NameAt(s, x)) \in Nat
           /\ IsFiniteSet(DvAt(s, x)) /\ Cardinality(DvAt(s, x)) \in Nat
<1>1. NameAt(s, x) \subseteq DOMAIN s /\ DvAt(s, x) \subseteq DOMAIN s
    BY DEF NameAt, DvAt
<1> QED
    BY <1>1, ListIn, FinitePlaces

(* A migration renames a template with the volumes that it is for.         *)
LEMMA CountedMoved ==
    ASSUME NEW m, NEW e, Previews(m, e), Moves(m, e) # {},
           NEW vols, Vm!IsList(vols), VolumesOwned(vols), NEW temps, Vm!IsList(temps), TemplatesFull(temps),
           NEW disks, Counted(disks, vols, temps), temps # None,
           NEW vs, vs = [i \in DOMAIN vols |-> VolumeMoved(m, e, vols[i])],
           NEW ts, ts = [i \in DOMAIN temps |-> TemplateMoved(m, e, temps[i])]
    PROVE  Counted(disks, vs, ts)
<1>1. \A i \in DOMAIN vols : vs[i].name = vols[i].name /\ vs[i].dv = NewDv(m, e, vols[i].dv)
    BY DEF VolumesOwned, VolumeMoved, NewDv
<1>2. \A i \in DOMAIN temps : ts[i].name = NewDv(m, e, temps[i].name)
    BY DEF TemplatesFull, TemplateMoved, NewDv
<1>3. DOMAIN vs = DOMAIN vols /\ DOMAIN ts = DOMAIN temps
    OBVIOUS
<1>4. \A n : NameAt(vs, n) = NameAt(vols, n)
    BY <1>1, <1>3 DEF NameAt
<1>5. \A x : Cardinality(NameAt(temps, x)) <= Cardinality(DvAt(vols, x))
    BY Zenon DEF Counted
<1>6. ASSUME NEW y PROVE Cardinality(NameAt(ts, y)) <= Cardinality(DvAt(vs, y))
    <2>1. NameAt(ts, y) = {i \in DOMAIN temps : NewDv(m, e, temps[i].name) = y}
        BY <1>2, <1>3 DEF NameAt
    <2>2. DvAt(vs, y) = {i \in DOMAIN vols : NewDv(m, e, vols[i].dv) = y /\ y # None}
        BY <1>1, <1>3 DEF DvAt
    <2>3. CASE \A x : NewDv(m, e, x) # y
        <3>1. NameAt(ts, y) = {} /\ DvAt(vs, y) = {}
            BY <2>1, <2>2, <2>3
        <3> QED
            BY <3>1, FS_EmptySet
    <2>4. CASE \A x : NewDv(m, e, x) = y <=> x = y
        <3>1. NameAt(ts, y) = NameAt(temps, y) /\ DvAt(vs, y) = DvAt(vols, y)
            BY <2>1, <2>2, <2>4 DEF NameAt, DvAt
        <3> QED
            BY <1>5, <3>1
    <2>5. CASE \E z : z # y /\ z # None /\ y # None /\ \A x : NewDv(m, e, x) = y <=> x \in {y, z}
        <3>1. PICK z : z # y /\ z # None /\ y # None /\ \A x : NewDv(m, e, x) = y <=> x \in {y, z}
            BY <2>5
        <3>2. NameAt(ts, y) = NameAt(temps, y) \union NameAt(temps, z)
            BY <2>1, <3>1 DEF NameAt
        <3>3. DvAt(vs, y) = DvAt(vols, y) \union DvAt(vols, z)
            <4>1. DvAt(vs, y) = {i \in DOMAIN vols : vols[i].dv \in {y, z}}
                BY <2>2, <3>1
            <4>2. /\ DvAt(vols, y) = {i \in DOMAIN vols : vols[i].dv = y}
                  /\ DvAt(vols, z) = {i \in DOMAIN vols : vols[i].dv = z}
                BY <3>1 DEF DvAt
            <4> QED
                BY <4>1, <4>2
        <3>4. DvAt(vols, y) \intersect DvAt(vols, z) = {}
            BY <3>1 DEF DvAt
        <3> QED
            BY <1>5, <3>2, <3>3, <3>4, FiniteAt, BothCounted
    <2> QED
        BY <2>3, <2>4, <2>5, NewDvFrom
<1>7. \A n : Cardinality(NameAt(disks, n)) <= Cardinality(NameAt(vols, n))
    BY Zenon DEF Counted
<1> QED
    BY <1>4, <1>6, <1>7 DEF Counted

(* Over a whole edit.                                                      *)
LEMMA EditedCounted ==
    ASSUME NEW m, NEW e, Previews(m, e), m.disks # <<>>, CountedIn(m)
    PROVE  CountedIn(Vm!ApplyEdit(m, e))
<1> DEFINE d == Vm!WithDisks(m, e)
           w == Vm!Appliers(m, e)
           v == Vm!ApplyEdit(m, e)
<1>1. DOMAIN m = Vm!Fields
    BY DEF Previews, Vm!Admitted
<1>2. /\ v = Vm!Migrated(m, w, e) /\ DOMAIN w = Vm!Fields
      /\ w.volumes = d.volumes /\ w.templates = d.templates
      /\ Vm!IsList(w.volumes) /\ VolumesOwned(w.volumes)
      /\ m.templates # None \/ w.templates # None => Vm!IsList(w.templates) /\ TemplatesFull(w.templates)
    BY BeforeMigration
<1>3. w.disks = d.disks
    BY <1>1, Applied
<1>4. v.disks = d.disks
    BY <1>1, EditedIs
<1>5. Counted(d.disks, d.volumes, d.templates)
    BY CountedKept, Zenon DEF CountedIn
<1> HIDE DEF d, w, v
<1>6. CASE Moves(m, e) = {}
    <2>1. v = w
        BY <1>2, <1>6, NotMigrated
    <2> QED
        BY <1>2, <1>3, <1>5, <2>1 DEF CountedIn, v
<1>7. CASE Moves(m, e) # {}
    <2>1. /\ v.templates = [i \in DOMAIN w.templates |-> TemplateMoved(m, e, w.templates[i])]
          /\ v.volumes = [i \in DOMAIN w.volumes |-> VolumeMoved(m, e, w.volumes[i])]
        BY <1>2, <1>7, MigratedIs
    <2>2. m.templates # None
        BY <1>7, SomethingMoves DEF Previews, Vm!Admitted
    <2>3. Vm!IsList(w.templates) /\ TemplatesFull(w.templates) /\ w.templates # None
        BY <1>2, <2>2 DEF Previews, Vm!NoneIsApart
    <2>4. Counted(d.disks, w.volumes, w.templates)
        BY <1>2, <1>5
    <2>5. Counted(d.disks, v.volumes, v.templates)
        BY <1>2, <1>7, <2>1, <2>3, <2>4, CountedMoved
    <2> QED
        BY <1>4, <2>5 DEF CountedIn, v
<1> QED
    BY <1>6, <1>7

(* A set of at most one element.                                           *)
LEMMA AtMostOne ==
    ASSUME NEW A, IsFiniteSet(A)
    PROVE  Cardinality(A) <= 1 <=> \A a, b \in A : a = b
<1>1. Cardinality(A) \in Nat
    BY FS_CardinalityType
<1>2. ASSUME Cardinality(A) <= 1 PROVE \A a, b \in A : a = b
    <2>1. Cardinality(A) = 0 \/ Cardinality(A) = 1
        BY <1>1, <1>2
    <2>2. A = {} \/ \E x : A = {x}
        BY <2>1, FS_EmptySet, FS_Singleton
    <2> QED
        BY <2>2
<1>3. ASSUME \A a, b \in A : a = b PROVE Cardinality(A) <= 1
    <2>1. A = {} \/ \E x : A = {x}
        BY <1>3
    <2>2. Cardinality(A) = 0 \/ Cardinality(A) = 1
        BY <2>1, FS_EmptySet, FS_Singleton
    <2> QED
        BY <2>2
<1> QED
    BY <1>2, <1>3

LEMMA SomeAt ==
    ASSUME NEW A, IsFiniteSet(A)
    PROVE  A # {} <=> Cardinality(A) >= 1
<1>1. Cardinality(A) \in Nat /\ (Cardinality(A) = 0 <=> A = {})
    BY FS_CardinalityType, FS_EmptySet
<1> QED
    BY <1>1

(* The items of a list have names of their own when no two have the same.  *)
LEMMA DistinctIs ==
    ASSUME NEW s, Vm!IsList(s)
    PROVE  Vm!Distinct(s) <=> \A n : Cardinality(NameAt(s, n)) <= 1
<1> DEFINE len == Len(s)
           names == Vm!NamesOf(s)
           f == [i \in 1..len |-> s[i].name]
<1>1. len \in Nat /\ DOMAIN s = 1..len
    BY DEF Vm!IsList
<1>2. ASSUME Vm!Distinct(s), NEW n PROVE Cardinality(NameAt(s, n)) <= 1
    <2>1. \A i, j \in NameAt(s, n) : i = j
        BY <1>2, NamedOnce DEF NameAt
    <2>2. IsFiniteSet(NameAt(s, n))
        BY FiniteAt
    <2> QED
        BY <2>1, <2>2, AtMostOne
<1>3. ASSUME \A n : Cardinality(NameAt(s, n)) <= 1 PROVE Vm!Distinct(s)
    <2>1. ASSUME NEW i \in DOMAIN s, NEW j \in DOMAIN s, s[i].name = s[j].name PROVE i = j
        <3>1. IsFiniteSet(NameAt(s, s[i].name)) /\ Cardinality(NameAt(s, s[i].name)) <= 1
            BY <1>3, FiniteAt
        <3>2. i \in NameAt(s, s[i].name) /\ j \in NameAt(s, s[i].name)
            BY <2>1 DEF NameAt
        <3> QED
            BY <3>1, <3>2, AtMostOne
    <2>2. f \in Bijection(1..len, names)
        BY <1>1, <2>1 DEF Bijection, Injection, Surjection, IsInjective, Vm!NamesOf
    <2> HIDE DEF f, len, names
    <2>3. IsFiniteSet(1..len) /\ Cardinality(1..len) = len
        BY <1>1, FS_Interval
    <2>4. Cardinality(names) = len
        BY <2>2, <2>3, FS_Bijection DEF ExistsBijection
    <2>5. Vm!Cardinality(names) = len
        BY <2>4, SameCount
    <2> QED
        BY <2>5, Zenon DEF Vm!Distinct, names, len
<1> QED
    BY <1>2, <1>3

(* What git holds at first.                                                *)
LEMMA CountedAtFirst ==
    ASSUME NEW m, Vm!Admitted(m), Vm!Backed(m)
    PROVE  CountedIn(m)
<1>1. /\ Vm!IsList(m.disks) /\ Vm!IsList(m.volumes) /\ (m.templates # None => Vm!IsList(m.templates))
    BY DEF Vm!Admitted
<1>2. ASSUME NEW n PROVE Cardinality(NameAt(m.disks, n)) <= Cardinality(NameAt(m.volumes, n))
    <2>1. NameAt(m.disks, n) # {} => NameAt(m.volumes, n) # {}
        BY DEF Vm!Backed, Vm!NamesOf, NameAt
    <2>2. Cardinality(NameAt(m.disks, n)) <= 1
        BY <1>1, DistinctIs DEF Vm!Backed
    <2>3. /\ IsFiniteSet(NameAt(m.disks, n)) /\ IsFiniteSet(NameAt(m.volumes, n))
          /\ Cardinality(NameAt(m.disks, n)) \in Nat /\ Cardinality(NameAt(m.volumes, n)) \in Nat
        BY <1>1, FiniteAt
    <2>4. /\ NameAt(m.disks, n) # {} <=> Cardinality(NameAt(m.disks, n)) >= 1
          /\ NameAt(m.volumes, n) # {} <=> Cardinality(NameAt(m.volumes, n)) >= 1
        BY <2>3, SomeAt
    <2> QED
        BY <2>1, <2>2, <2>3, <2>4
<1>3. ASSUME m.templates # None, NEW x
      PROVE  Cardinality(NameAt(m.templates, x)) <= Cardinality(DvAt(m.volumes, x))
    <2>1. NameAt(m.templates, x) # {} => DvAt(m.volumes, x) # {}
        <3>1. SUFFICES ASSUME NameAt(m.templates, x) # {} PROVE DvAt(m.volumes, x) # {}
            OBVIOUS
        <3>2. x \in Vm!Templates(m)
            BY <1>3, <3>1 DEF Vm!Templates, Vm!NamesOf, NameAt
        <3>3. x \in Vm!Volumes(m)
            BY <3>2 DEF Vm!Backed
        <3> QED
            BY <3>3 DEF Vm!Volumes, DvAt
    <2>2. Cardinality(NameAt(m.templates, x)) <= 1
        BY <1>1, <1>3, DistinctIs DEF Vm!Backed
    <2>3. /\ IsFiniteSet(NameAt(m.templates, x)) /\ IsFiniteSet(DvAt(m.volumes, x))
          /\ Cardinality(NameAt(m.templates, x)) \in Nat /\ Cardinality(DvAt(m.volumes, x)) \in Nat
        BY <1>1, <1>3, FiniteAt
    <2>4. /\ NameAt(m.templates, x) # {} <=> Cardinality(NameAt(m.templates, x)) >= 1
          /\ DvAt(m.volumes, x) # {} <=> Cardinality(DvAt(m.volumes, x)) >= 1
        BY <2>3, SomeAt
    <2> QED
        BY <2>1, <2>2, <2>3, <2>4
<1> QED
    BY <1>2, <1>3 DEF CountedIn, Counted

(* No template is left behind, and no two have one name.                   *)
LEMMA NothingOrphaned ==
    ASSUME NEW v, Vm!Admitted(v), Vm!Owned(v), CountedIn(v), Vm!Distinct(v.volumes)
    PROVE  /\ Vm!Templates(v) \subseteq Vm!Volumes(v)
           /\ v.templates # None => Vm!Distinct(v.templates)
<1>1. Vm!IsList(v.volumes) /\ (v.templates # None => Vm!IsList(v.templates))
    BY DEF Vm!Admitted
<1>2. v.templates # None => \A x : Cardinality(NameAt(v.templates, x)) <= Cardinality(DvAt(v.volumes, x))
    BY DEF CountedIn, Counted
<1>3. ASSUME NEW x \in Vm!Templates(v) PROVE x \in Vm!Volumes(v)
    <2>1. v.templates # None /\ NameAt(v.templates, x) # {}
        BY DEF Vm!Templates, Vm!NamesOf, NameAt
    <2>2. /\ IsFiniteSet(NameAt(v.templates, x)) /\ IsFiniteSet(DvAt(v.volumes, x))
          /\ Cardinality(NameAt(v.templates, x)) \in Nat /\ Cardinality(DvAt(v.volumes, x)) \in Nat
        BY <1>1, <2>1, FiniteAt
    <2>3. Cardinality(NameAt(v.templates, x)) >= 1
        BY <2>1, <2>2, SomeAt
    <2>4. Cardinality(DvAt(v.volumes, x)) >= 1
        BY <1>2, <2>1, <2>2, <2>3
    <2>5. DvAt(v.volumes, x) # {}
        BY <2>2, <2>4, SomeAt
    <2> QED
        BY <2>5 DEF DvAt, Vm!Volumes
<1>4. ASSUME v.templates # None PROVE Vm!Distinct(v.templates)
    <2>1. ASSUME NEW x PROVE Cardinality(NameAt(v.templates, x)) <= 1
        <3>1. \A i, j \in DvAt(v.volumes, x) : v.volumes[i].name = v.volumes[j].name
            BY DEF DvAt, Vm!Owned
        <3>2. \A i, j \in DvAt(v.volumes, x) : i = j
            BY <1>1, <3>1, NamedOnce DEF DvAt
        <3>3. /\ IsFiniteSet(DvAt(v.volumes, x)) /\ Cardinality(DvAt(v.volumes, x)) \in Nat
              /\ Cardinality(NameAt(v.templates, x)) \in Nat
            BY <1>1, <1>4, FiniteAt
        <3>4. Cardinality(DvAt(v.volumes, x)) <= 1
            BY <3>2, <3>3, AtMostOne
        <3> QED
            BY <1>2, <1>4, <3>3, <3>4
    <2> QED
        BY <1>1, <1>4, <2>1, DistinctIs
<1> QED
    BY <1>3, <1>4

(* An edit leaves a manifest without disks as it is: no list to add to.    *)
LEMMA NoDisksStay ==
    ASSUME NEW m, NEW e, Previews(m, e), m.disks = <<>>
    PROVE  Vm!ApplyEdit(m, e).disks = <<>>
<1>1. DOMAIN m = Vm!Fields
    BY DEF Previews, Vm!Admitted
<1>2. PICK A : \E bares, vols, new \in Seq(A) : DisksGive(m, e, Vm!WithDisks(m, e), bares, vols, new)
    BY DisksAre DEF Previews
<1>3. PICK bares, vols, new \in Seq(A) : DisksGive(m, e, Vm!WithDisks(m, e), bares, vols, new)
    BY <1>2
<1>4. Vm!WithDisks(m, e).disks = Vm!Changed(m.disks, e.dropDisks, bares)
    BY <1>3, Zenon DEF DisksGive
<1>5. Vm!Changed(<<>>, e.dropDisks, bares) = <<>>
    <2> DEFINE t == Vm!Without(<<>>, e.dropDisks)
    <2>1. << >> \in Seq({})
        OBVIOUS
    <2>2. t \in Seq({})
        BY <2>1, WithoutItems
    <2>3. Vm!Changed(<<>>, e.dropDisks, bares) = t \o <<>>
        BY DEF Vm!Changed
    <2> HIDE DEF t
    <2> QED
        BY <2>2, <2>3
<1>6. Vm!ApplyEdit(m, e).disks = Vm!WithDisks(m, e).disks
    BY <1>1, EditedIs
<1> QED
    BY <1>4, <1>5, <1>6

(* edit_devices.go:113-114: "no orphaned PVC template is left behind", over *)
(* any sequence of disks added, removed, moved and adopted.                *)
THEOREM NoTemplateOrphaned ==
    ASSUME Vm!EditAssumption, Vm!OwnAssumption, Vm!BackedAssumption, Vm!NoneIsApart
    PROVE  (Vm!Spec => Vm!NoOrphans) /\ (PartsSpec => NoOrphans)
<1> DEFINE Clean ==
               vm' # vm /\ vm.disks # <<>> /\ Vm!Templates(vm) \subseteq Vm!Volumes(vm) /\ Vm!Distinct(vm'.volumes) =>
                  /\ Vm!Templates(vm') \subseteq Vm!Volumes(vm')
                  /\ vm'.templates # None => Vm!Distinct(vm'.templates)
           Held == Vm!Owned(vm) /\ (vm.disks # <<>> => CountedIn(vm))
           Inv == VmInv /\ Held
<1>1. ASSUME NEW e, Inv, VmInv', Vm!Requested(e), Vm!Land(e) PROVE Held' /\ Clean
    <2>1. Previews(vm, e)
        BY <1>1 DEF Previews, VmInv, Vm!Land
    <2>2. vm' = Vm!ApplyEdit(vm, e)
        BY <1>1 DEF Vm!Land
    <2>3. Vm!Owned(vm')
        BY <2>1, <2>2, EditedOwned
    <2>4. vm.disks # <<>> => CountedIn(vm')
        BY <1>1, <2>1, <2>2, EditedCounted
    <2>5. vm.disks = <<>> => vm'.disks = <<>>
        BY <2>1, <2>2, NoDisksStay
    <2>6. Held'
        BY <2>3, <2>4, <2>5
    <2>7. Vm!Admitted(vm')
        BY <1>1 DEF VmInv
    <2>8. Clean
        BY <2>3, <2>4, <2>7, NothingOrphaned
    <2> QED
        BY <2>6, <2>8
<1> HIDE DEF Clean
<1>2. Inv /\ [Vm!Next]_(Vm!vars) => Inv' /\ [Clean]_(Vm!vars)
    <2> SUFFICES ASSUME Inv, [Vm!Next]_(Vm!vars) PROVE Inv' /\ [Clean]_(Vm!vars)
        OBVIOUS
    <2>1. VmInv'
        BY VmNext
    <2>2. CASE Vm!StageEdit
        <3>1. PICK e \in Edits : Vm!Land(e)
            BY <2>2 DEF Vm!StageEdit
        <3>2. Vm!Requested(e)
            BY DEF Vm!EditAssumption
        <3>3. Held' /\ Clean
            BY <1>1, <2>1, <3>1, <3>2
        <3> QED
            BY <2>1, <3>3
    <2>3. CASE Vm!Adopt
        <3>1. Vm!Land(Adopting(vm, live))
            BY <2>3 DEF Vm!Adopt, Adopting
        <3>2. Vm!Requested(Adopting(vm, live))
            BY AdoptingRequested DEF VmInv
        <3>3. Held' /\ Clean
            BY <1>1, <2>1, <3>1, <3>2
        <3> QED
            BY <2>1, <3>3
    <2>4. CASE UNCHANGED Vm!vars
        <3>1. vm' = vm
            BY <2>4 DEF Vm!vars
        <3>2. Held'
            BY <3>1 DEF CountedIn
        <3> QED
            BY <2>1, <2>4, <3>2
    <2> QED
        BY <2>2, <2>3, <2>4 DEF Vm!Next
<1>3. Vm!Init => Inv
    <2>1. SUFFICES ASSUME Vm!Init PROVE Inv
        OBVIOUS
    <2>2. vm \in Manifests /\ VmInv
        BY <2>1 DEF Vm!Init, Vm!EditAssumption, VmInv
    <2>3. Vm!Owned(vm) /\ CountedIn(vm)
        BY <2>2, CountedAtFirst DEF VmInv, Vm!OwnAssumption, Vm!BackedAssumption
    <2> QED
        BY <2>2, <2>3
<1>4. Vm!Spec => [][Clean]_(Vm!vars)
    BY <1>2, <1>3, PTL DEF Vm!Spec
<1>5. PartsInit => (part = "vm" => Inv)
    BY <1>3 DEF PartsInit
<1>6. (part = "vm" => Inv) /\ [PartsNext]_partsVars => (part = "vm" => Inv)' /\ [Clean]_(Vm!vars)
    <2> SUFFICES ASSUME part = "vm" => Inv, [PartsNext]_partsVars
                 PROVE  (part = "vm" => Inv)' /\ [Clean]_(Vm!vars)
        OBVIOUS
    <2>1. part' = part
        BY DEF PartsNext, partsVars
    <2>2. (part = "vm" /\ [Vm!Next]_(Vm!vars)) \/ UNCHANGED Vm!vars
        BY DEF PartsNext, partsVars, vmVars, Vm!vars
    <2>3. part = "vm" => [Vm!Next]_(Vm!vars)
        BY DEF PartsNext, partsVars, vmVars, Vm!vars
    <2> HIDE DEF Inv
    <2> QED
        BY <1>2, <2>1, <2>2, <2>3
<1>7. PartsSpec => [][Clean]_(Vm!vars)
    BY <1>5, <1>6, PTL DEF PartsSpec
<1> QED
    BY <1>4, <1>7 DEF Vm!NoOrphans, NoOrphans, Clean
================================================================================
