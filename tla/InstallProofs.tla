------------------------------ MODULE InstallProofs ------------------------------
(***************************************************************************)
(* For any number of installs, namespaces, edits and failures: without its *)
(* finalizer an install owns nothing beyond its namespace, and a pass over *)
(* the spec as it stands takes away nothing that it asks for (Install).    *)
(***************************************************************************)
EXTENDS Install, FiniteSetTheorems, FunctionTheorems, SequenceTheorems, TLAPS

(* What a pass has applied by the time it reaches a stage.                 *)
Applied(i, s, stage) ==
    CASE stage = "forge"    -> {}
      [] stage = "secrets"  -> ToSet(ForgeObjects(i, s))
      [] stage = "workload" -> ToSet(ForgeObjects(i, s))
      [] stage = "argo"     -> ToSet(ForgeObjects(i, s)) \union {<<"workload", i>>}
      [] stage = "prune"    -> Render(i, s)

(* The namespaces in which an install may own objects for Argo CD.         *)
Reach(i) == moved[i] \union (IF i \in guarded THEN {spec[i].argo} ELSE {})

(* An install owns objects where its passes have written: in its own       *)
(* namespace, and, as far as a finalizer or a move accounts for them, on   *)
(* the cluster and in the namespaces of Argo CD.                           *)
OwnedInReach ==
    \A s \in Slots : owner[s] # None =>
        \/ s \in InOwn \X {owner[s]}
        \/ s = Bindings /\ owner[s] \in guarded
        \/ s \in (Argoproj \union Copies) \X Reach(owner[s])

(* A pass works from the spec as it stands, or as it stood before a move,  *)
(* and has applied all of the stages before its own.                       *)
PassKept ==
    pass # Idle =>
        /\ pass.spec.argo \in Reach(pass.i)
        /\ Applied(pass.i, pass.spec, pass.at) \subseteq pass.done

Inv == TypeOK /\ OwnedInReach /\ PassKept

--------------------------------------------------------------------------------
(* A sequence without repetitions, less its k-th element.                  *)
LEMMA Removed ==
    ASSUME NEW S, NEW q \in Seq(S), IsInjective(q), NEW k \in DOMAIN q
    PROVE  /\ RemoveAt(q, k) \in Seq(S)
           /\ IsInjective(RemoveAt(q, k))
           /\ ToSet(RemoveAt(q, k)) = ToSet(q) \ {q[k]}
<1> DEFINE r == RemoveAt(q, k)
<1>1. k \in 1..Len(q) /\ Len(q) \in Nat /\ DOMAIN q = 1..Len(q)
    OBVIOUS
<1>2. /\ r \in Seq(S) /\ Len(r) = Len(q) - 1
      /\ \A j \in 1..(Len(q) - 1) : r[j] = IF j < k THEN q[j] ELSE q[j + 1]
    <2> DEFINE before == SubSeq(q, 1, k - 1)
               after  == SubSeq(q, k + 1, Len(q))
    <2>1. /\ before \in Seq(S) /\ Len(before) = k - 1
          /\ \A j \in 1..(k - 1) : before[j] = q[j]
        BY <1>1
    <2>2. /\ after \in Seq(S) /\ Len(after) = Len(q) - k
          /\ \A j \in 1..(Len(q) - k) : after[j] = q[k + j]
        BY <1>1
    <2> HIDE DEF before, after
    <2>3. r = before \o after
        BY DEF RemoveAt, before, after
    <2>4. r \in Seq(S) /\ Len(r) = Len(q) - 1
        <3>1. r \in Seq(S) /\ Len(r) = Len(before) + Len(after)
            BY <2>1, <2>2, <2>3, ConcatProperties
        <3> QED
            BY <1>1, <2>1, <2>2, <3>1
    <2>5. ASSUME NEW j \in 1..(Len(q) - 1)
          PROVE  r[j] = IF j < k THEN q[j] ELSE q[j + 1]
        <3>1. r[j] = IF j <= k - 1 THEN before[j] ELSE after[j - (k - 1)]
            BY <1>1, <2>1, <2>2, <2>3, ConcatProperties
        <3>2. CASE j < k
            BY <1>1, <2>1, <3>1, <3>2
        <3>3. CASE j >= k
            <4>1. j - (k - 1) \in 1..(Len(q) - k) /\ k + (j - (k - 1)) = j + 1
                BY <1>1, <3>3
            <4> QED
                BY <1>1, <2>2, <3>1, <3>3, <4>1
        <3> QED
            BY <1>1, <3>2, <3>3
    <2> QED
        BY <2>4, <2>5
<1>3. DOMAIN r = 1..(Len(q) - 1)
    BY <1>2
<1> HIDE DEF r
<1>4. IsInjective(r)
    <2> SUFFICES ASSUME NEW a \in 1..(Len(q) - 1), NEW b \in 1..(Len(q) - 1), r[a] = r[b]
                 PROVE  a = b
        BY <1>3 DEF IsInjective
    <2> DEFINE c == IF a < k THEN a ELSE a + 1
               d == IF b < k THEN b ELSE b + 1
    <2>1. c \in DOMAIN q /\ d \in DOMAIN q /\ q[c] = q[d]
        BY <1>1, <1>2
    <2>2. c = d
        BY <2>1 DEF IsInjective
    <2> QED
        BY <1>1, <2>2
<1>5. ToSet(r) = ToSet(q) \ {q[k]}
    <2>1. ASSUME NEW j \in 1..(Len(q) - 1) PROVE r[j] \in ToSet(q) \ {q[k]}
        <3> DEFINE c == IF j < k THEN j ELSE j + 1
        <3>1. c \in DOMAIN q /\ c # k /\ r[j] = q[c]
            BY <1>1, <1>2
        <3> QED
            BY <1>1, <3>1 DEF ToSet, IsInjective
    <2>2. ASSUME NEW c \in 1..Len(q), c # k PROVE q[c] \in ToSet(r)
        <3> DEFINE j == IF c < k THEN c ELSE c - 1
        <3>1. j \in 1..(Len(q) - 1) /\ r[j] = q[c]
            BY <1>1, <1>2, <2>2
        <3> QED
            BY <1>3, <3>1 DEF ToSet
    <2>3. ToSet(r) = {r[j] : j \in 1..(Len(q) - 1)} /\ ToSet(q) = {q[j] : j \in 1..Len(q)}
        BY <1>1, <1>3 DEF ToSet
    <2> QED
        BY <2>1, <2>2, <2>3
<1> QED
    BY <1>2, <1>4, <1>5 DEF r

LEMMA WithoutOne ==
    ASSUME order \in Seq(Installs), IsInjective(order), NEW i \in Present
    PROVE  /\ Without(i) \in Seq(Installs)
           /\ IsInjective(Without(i))
           /\ ToSet(Without(i)) = ToSet(order) \ {i}
<1> DEFINE k == CHOOSE k \in DOMAIN order : order[k] = i
<1>1. k \in DOMAIN order /\ order[k] = i
    BY DEF Present, ToSet
<1> QED
    BY <1>1, Removed DEF Without

(* A sequence without repetitions, with a new element last or before last. *)
LEMMA Added ==
    ASSUME NEW S, NEW q \in Seq(S), IsInjective(q), NEW i \in S, i \notin ToSet(q),
           NEW r, (r = Append(q, i)) \/ (q # <<>> /\ r = Front(q) \o <<i, Last(q)>>)
    PROVE  r \in Seq(S) /\ IsInjective(r) /\ ToSet(r) = ToSet(q) \union {i}
<1> DEFINE n == Len(q)
<1>0. n \in Nat
    OBVIOUS
<1>1. n \in Nat /\ DOMAIN q = 1..n /\ \A j \in 1..n : q[j] # i /\ q[j] \in S
    BY DEF ToSet
<1>2. PICK m \in 1..(n + 1) :
         /\ r \in Seq(S) /\ Len(r) = n + 1
         /\ \A j \in 1..(n + 1) : r[j] = IF j < m THEN q[j] ELSE IF j = m THEN i ELSE q[j - 1]
    <2>1. CASE r = Append(q, i)
        <3>1. /\ r \in Seq(S) /\ Len(r) = n + 1 /\ n + 1 \in 1..(n + 1)
              /\ \A j \in 1..(n + 1) : r[j] = IF j < n + 1 THEN q[j] ELSE i
            BY <1>1, <2>1
        <3>2. \A j \in 1..(n + 1) :
                 r[j] = IF j < n + 1 THEN q[j] ELSE IF j = n + 1 THEN i ELSE q[j - 1]
            BY <1>1, <3>1
        <3> QED
            BY <3>1, <3>2
    <2>2. CASE q # <<>> /\ r = Front(q) \o <<i, Last(q)>>
        <3>1. n >= 1
            BY <1>1, <2>2
        <3>2. /\ Front(q) \in Seq(S) /\ Len(Front(q)) = n - 1 /\ Last(q) = q[n]
              /\ \A j \in 1..(n - 1) : Front(q)[j] = q[j]
            BY <1>1, <3>1 DEF Front, Last
        <3>3. /\ <<i, Last(q)>> \in Seq(S) /\ Len(<<i, Last(q)>>) = 2
              /\ <<i, Last(q)>>[1] = i /\ <<i, Last(q)>>[2] = q[n]
            BY <1>1, <3>1, <3>2
        <3>4. /\ r \in Seq(S) /\ Len(r) = n + 1 /\ n \in 1..(n + 1)
              /\ \A j \in 1..(n + 1) :
                    r[j] = IF j < n THEN q[j] ELSE IF j = n THEN i ELSE q[j - 1]
            <4> DEFINE f == Front(q)
                       l == <<i, Last(q)>>
            <4>1. r = f \o l /\ f \in Seq(S) /\ l \in Seq(S) /\ Len(f) = n - 1 /\ Len(l) = 2
                BY <2>2, <3>2, <3>3
            <4> HIDE DEF f, l
            <4>2. r \in Seq(S) /\ Len(r) = n + 1 /\ n \in 1..(n + 1)
                <5>1. r \in Seq(S) /\ Len(r) = Len(f) + Len(l)
                    BY <4>1, ConcatProperties
                <5> QED
                    BY <1>0, <3>1, <4>1, <5>1
            <4>3. \A j \in 1..(n + 1) : r[j] = IF j <= n - 1 THEN f[j] ELSE l[j - (n - 1)]
                <5>1. \A j \in 1..(Len(f) + Len(l)) : r[j] = IF j <= Len(f) THEN f[j] ELSE l[j - Len(f)]
                    BY <4>1, ConcatProperties
                <5>2. Len(f) + Len(l) = n + 1
                    BY <1>0, <4>1
                <5> QED
                    BY <4>1, <5>1, <5>2
            <4>4. ASSUME NEW j \in 1..(n + 1)
                  PROVE  r[j] = IF j < n THEN q[j] ELSE IF j = n THEN i ELSE q[j - 1]
                <5>1. CASE j < n
                    BY <1>1, <3>1, <3>2, <4>3, <5>1 DEF f
                <5>2. CASE j = n
                    <6>1. r[j] = l[1]
                        BY <1>1, <3>1, <4>3, <5>2
                    <6> QED
                        BY <1>1, <3>3, <5>2, <6>1 DEF l
                <5>3. CASE j = n + 1
                    <6>1. ~(j <= n - 1) /\ ~(j < n) /\ j # n /\ j - 1 = n /\ j - (n - 1) = 2
                        BY <1>0, <5>3
                    <6>2. r[j] = l[2]
                        BY <4>3, <6>1
                    <6> QED
                        BY <3>3, <6>1, <6>2 DEF l
                <5>4. j < n \/ j = n \/ j = n + 1
                    BY <1>0
                <5> QED
                    BY <5>1, <5>2, <5>3, <5>4
            <4> QED
                BY <4>2, <4>4
        <3> QED
            BY <3>4
    <2> QED
        BY <2>1, <2>2
<1>3. DOMAIN r = 1..(n + 1)
    BY <1>2
<1>4. IsInjective(r)
    <2> SUFFICES ASSUME NEW a \in 1..(n + 1), NEW b \in 1..(n + 1), r[a] = r[b]
                 PROVE  a = b
        BY <1>3 DEF IsInjective
    <2>1. \A c, d \in 1..n : q[c] = q[d] => c = d
        BY <1>1 DEF IsInjective
    <2> QED
        BY <1>1, <1>2, <2>1
<1>5. ToSet(r) = ToSet(q) \union {i}
    <2>1. ToSet(r) = {r[j] : j \in 1..(n + 1)} /\ ToSet(q) = {q[j] : j \in 1..n}
        BY <1>1, <1>3 DEF ToSet
    <2>2. ASSUME NEW j \in 1..(n + 1) PROVE r[j] \in ToSet(q) \union {i}
        <3>1. j < m => j \in 1..n
            BY <1>1
        <3>2. j > m => j - 1 \in 1..n
            BY <1>1
        <3>3. r[j] = IF j < m THEN q[j] ELSE IF j = m THEN i ELSE q[j - 1]
            BY <1>2
        <3>4. CASE j < m
            <4>1. q[j] \in ToSet(q)
                BY <2>1, <3>1, <3>4
            <4> QED
                BY <3>3, <3>4, <4>1
        <3>5. CASE j > m
            <4>1. q[j - 1] \in ToSet(q)
                BY <2>1, <3>2, <3>5
            <4> QED
                BY <1>0, <3>3, <3>5, <4>1
        <3>6. CASE j = m
            BY <1>0, <3>3, <3>6
        <3>7. j < m \/ j = m \/ j > m
            BY <1>0
        <3> QED
            BY <3>4, <3>5, <3>6, <3>7
    <2>3. i \in ToSet(r)
        BY <1>1, <1>2, <2>1
    <2>4. ASSUME NEW c \in 1..n PROVE q[c] \in ToSet(r)
        <3> DEFINE j == IF c < m THEN c ELSE c + 1
        <3>1. j \in 1..(n + 1) /\ r[j] = q[c]
            BY <1>1, <1>2
        <3> QED
            BY <2>1, <3>1
    <2> QED
        BY <2>1, <2>2, <2>3, <2>4
<1> QED
    BY <1>2, <1>4, <1>5

(* There is always a token that no install and no mirror holds.            *)
LEMMA FreshToken ==
    ASSUME copied \in [Argos -> Tokens], token \in [Installs -> Tokens]
    PROVE  Fresh \in Tokens
<1> DEFINE I == Cardinality(Installs)
           A == Cardinality(Argos)
           usedI == {token[i] : i \in Installs}
           usedA == {copied[n] : n \in Argos}
<1>1. I \in Nat /\ A \in Nat
    BY InstallAssumption, FS_CardinalityType
<1>2. IsFiniteSet(usedI) /\ Cardinality(usedI) <= I
    <2>1. token \in Surjection(Installs, usedI)
        BY DEF Surjection
    <2> QED
        BY <2>1, InstallAssumption, FS_Surjection
<1>3. IsFiniteSet(usedA) /\ Cardinality(usedA) <= A
    <2>1. copied \in Surjection(Argos, usedA)
        BY DEF Surjection
    <2> QED
        BY <2>1, InstallAssumption, FS_Surjection
<1>4. IsFiniteSet(usedI \union usedA) /\ Cardinality(usedI \union usedA) <= I + A
    <2>1. /\ IsFiniteSet(usedI \union usedA)
          /\ Cardinality(usedI \union usedA) =
                Cardinality(usedI) + Cardinality(usedA) - Cardinality(usedI \intersect usedA)
        BY <1>2, <1>3, FS_Union
    <2>2. IsFiniteSet(usedI \intersect usedA)
        BY <1>2, FS_Intersection
    <2>3. /\ Cardinality(usedI) \in Nat /\ Cardinality(usedA) \in Nat
          /\ Cardinality(usedI \intersect usedA) \in Nat
        BY <1>2, <1>3, <2>2, FS_CardinalityType
    <2> QED
        BY <1>1, <1>2, <1>3, <2>1, <2>3
<1>5. Cardinality(1..(I + A + 1)) = I + A + 1
    BY <1>1, FS_Interval
<1>6. PICK t \in 1..(I + A + 1) : t \notin usedI \union usedA
    <2>1. ~(1..(I + A + 1) \subseteq usedI \union usedA)
        <3> SUFFICES ASSUME 1..(I + A + 1) \subseteq usedI \union usedA PROVE FALSE
            OBVIOUS
        <3>1. Cardinality(1..(I + A + 1)) <= Cardinality(usedI \union usedA)
            BY <1>4, FS_Subset
        <3>2. Cardinality(usedI \union usedA) \in Nat
            BY <1>4, FS_CardinalityType
        <3> QED
            BY <1>1, <1>4, <1>5, <3>1, <3>2
    <2> QED
        BY <2>1
<1>7. t \in Tokens \ {0} /\ (\A n \in Argos : copied[n] # t) /\ (\A i \in Installs : token[i] # t)
    BY <1>1, <1>6 DEF Tokens
<1> QED
    BY <1>7 DEF Fresh

LEMMA SetOfSeq ==
    ASSUME NEW S, NEW q \in Seq(S)
    PROVE  /\ ToSet(q) \subseteq S
           /\ \A n \in 0..Len(q) : ToSet(SubSeq(q, 1, n)) \subseteq ToSet(q)
<1>1. ToSet(q) \subseteq S
    BY DEF ToSet
<1>2. ASSUME NEW n \in 0..Len(q) PROVE ToSet(SubSeq(q, 1, n)) \subseteq ToSet(q)
    <2>1. DOMAIN SubSeq(q, 1, n) = 1..n /\ \A j \in 1..n : SubSeq(q, 1, n)[j] = q[j]
        OBVIOUS
    <2> QED
        BY <2>1 DEF ToSet
<1> QED
    BY <1>1, <1>2

(* Everything that a pass applies is an object of its install's namespace, *)
(* or lies on the cluster or in the namespace of Argo CD it was given.     *)
LEMMA Objects ==
    ASSUME NEW i \in Installs, NEW s \in Specs
    PROVE  /\ s.argo \in Argos
           /\ <<"workload", i>> \in Slots
           /\ ForgeObjects(i, s) \in Seq(Slots)
           /\ Len(ForgeObjects(i, s)) <= 1
           /\ ToSet(ForgeObjects(i, s)) \subseteq InOwn \X {i}
           /\ ArgoObjects(s) \in Seq(Slots)
           /\ ToSet(ArgoObjects(s)) \subseteq {Bindings} \union ((Argoproj \union Copies) \X {s.argo})
<1>1. s.argo \in Argos
    BY InstallAssumption
<1>2. /\ ForgeObjects(i, s) \in Seq(InOwn \X {i}) /\ Len(ForgeObjects(i, s)) <= 1
      /\ InOwn \X {i} \subseteq Slots
    BY DEF ForgeObjects, InOwn, Slots
<1> DEFINE A == {Bindings} \union ((Argoproj \union Copies) \X {s.argo})
           front == <<<<"mirror", s.argo>>, Bindings, <<"tenants", s.argo>>>>
           rest  == IF s.forge = "none" THEN <<>> ELSE <<<<"platform", s.argo>>, <<"creds", s.argo>>>>
<1>3. /\ <<"mirror", s.argo>> \in A /\ Bindings \in A /\ <<"tenants", s.argo>> \in A
      /\ <<"platform", s.argo>> \in A /\ <<"creds", s.argo>> \in A
    BY DEF Argoproj, Copies
<1>4. A \subseteq Slots
    BY <1>1 DEF Slots
<1>5. ArgoObjects(s) = front \o rest
    BY DEF ArgoObjects
<1> HIDE DEF A
<1>6. front \in Seq(A) /\ rest \in Seq(A)
    BY <1>3
<1>7. ArgoObjects(s) \in Seq(A)
    BY <1>5, <1>6, ConcatProperties
<1>8. ForgeObjects(i, s) \in Seq(Slots) /\ ArgoObjects(s) \in Seq(Slots)
    BY <1>2, <1>4, <1>7, SeqMonotonic
<1> QED
    BY <1>1, <1>2, <1>7, <1>8, SetOfSeq DEF A, Slots, InOwn

(* The first n of them are the pass's install's, the others stay as they   *)
(* were; the pass goes on with all of them or ends.                        *)
LEMMA Applying ==
    ASSUME TypeOK, pass # Idle, NEW objs \in Seq(Slots), NEW n \in 0..Len(objs), NEW next,
           ApplyFirst(n, objs, next)
    PROVE  /\ owner' \in [Slots -> Installs \union {None}]
           /\ \A s \in Slots :
                 owner'[s] = owner[s] \/ (s \in ToSet(objs) /\ owner'[s] = pass.i)
           /\ \/ pass' = Idle
              \/ pass' = [pass EXCEPT !.at = next, !.done = @ \union ToSet(objs)]
           /\ faults' \in 0..MaxFaults
<1>1. pass.i \in Installs
    BY DEF TypeOK, Present, ToSet
<1>2. owner' = [s \in Slots |-> IF s \in ToSet(SubSeq(objs, 1, n)) THEN pass.i ELSE owner[s]]
    BY DEF ApplyFirst
<1>3. ToSet(SubSeq(objs, 1, n)) \subseteq ToSet(objs)
    BY SetOfSeq
<1>4. faults' \in 0..MaxFaults
    BY InstallAssumption DEF ApplyFirst, TypeOK
<1>5. \/ pass' = Idle
      \/ pass' = [pass EXCEPT !.at = next, !.done = @ \union ToSet(objs)]
    BY DEF ApplyFirst
<1> QED
    BY <1>1, <1>2, <1>3, <1>4, <1>5 DEF TypeOK

LEMMA ZeroToken == 0 \in Tokens
<1>1. Cardinality(Installs) \in Nat /\ Cardinality(Argos) \in Nat
    BY InstallAssumption, FS_CardinalityType
<1> QED
    BY <1>1 DEF Tokens

(* What is swept away belongs to nobody, what is spared stays.             *)
LEMMA Sweeping ==
    ASSUME TypeOK, NEW doomed, NEW all \in BOOLEAN, Sweep(doomed, all)
    PROVE  /\ owner' \in [Slots -> Installs \union {None}]
           /\ copied' \in [Argos -> Tokens]
           /\ \A s \in Slots : owner'[s] = owner[s] \/ (s \in doomed /\ owner'[s] = None)
           /\ all => \A s \in Slots : s \in doomed => owner'[s] = None
           /\ faults' \in 0..MaxFaults
<1>1. PICK gone \in SUBSET doomed : TakeAway(gone) /\ (all => gone = doomed)
    BY DEF Sweep
<1>2. faults' \in 0..MaxFaults
    BY InstallAssumption DEF Sweep, TypeOK
<1>3. /\ owner' = [s \in Slots |-> IF s \in gone THEN None ELSE owner[s]]
      /\ copied' = [n \in Argos |-> IF <<"mirror", n>> \in gone THEN 0 ELSE copied[n]]
    BY <1>1 DEF TakeAway
<1> QED
    BY <1>1, <1>2, <1>3, ZeroToken DEF TypeOK

(* Objects that are lost leave the others within reach.                    *)
LEMMA FewerOwned ==
    ASSUME OwnedInReach, UNCHANGED <<guarded, spec, moved>>,
           \A s \in Slots : owner'[s] \in {owner[s], None}
    PROVE  OwnedInReach'
<1>1. \A j : Reach(j)' = Reach(j)
    BY DEF Reach
<1> QED
    BY <1>1 DEF OwnedInReach

--------------------------------------------------------------------------------
LEMMA InitInv == Init => Inv
<1> SUFFICES ASSUME Init PROVE Inv
    OBVIOUS
<1> DEFINE first == CHOOSE i \in Installs : TRUE
<1>1. first \in Installs /\ order = <<first>>
    BY InstallAssumption DEF Init
<1> HIDE DEF first
<1>2. order \in Seq(Installs) /\ IsInjective(order)
    BY <1>1 DEF IsInjective
<1>3. TypeOK
    BY <1>2, ZeroToken, InstallAssumption DEF Init, TypeOK
<1>4. OwnedInReach /\ PassKept
    BY DEF Init, OwnedInReach, PassKept
<1> QED
    BY <1>3, <1>4 DEF Inv

(* A resource is there or not, and is asked for something else: what it    *)
(* leaves behind is remembered.                                            *)
LEMMA CreateStep ==
    ASSUME Inv, NEW i \in Installs, Create(i)
    PROVE  Inv'
<1> USE InstallAssumption
<1>0. TypeOK /\ OwnedInReach /\ PassKept
    BY DEF Inv
<1>1. /\ i \notin Present /\ edits' = edits - 1 /\ edits > 0
      /\ order' = Append(order, i) \/ (order # <<>> /\ order' = Front(order) \o <<i, Last(order)>>)
      /\ UNCHANGED <<leaving, guarded, owner, token, copied, pass, pruned, faults, moved>>
    BY DEF Create, objVars
<1>2. PICK s \in Specs : spec' = [spec EXCEPT ![i] = s]
    BY DEF Create
<1>3. order' \in Seq(Installs) /\ IsInjective(order') /\ ToSet(order') = ToSet(order) \union {i}
    <2>1. order \in Seq(Installs) /\ IsInjective(order) /\ i \notin ToSet(order)
        BY <1>0, <1>1 DEF TypeOK, Present
    <2> QED
        BY <1>1, <2>1, Added
<1>4. spec' \in [Installs -> Specs] /\ \A j \in guarded : j # i /\ spec'[j] = spec[j]
    BY <1>0, <1>1, <1>2 DEF TypeOK, Present, ToSet
<1>5. TypeOK'
    BY <1>0, <1>1, <1>3, <1>4 DEF TypeOK, Present
<1>6. \A j \in Installs : Reach(j)' = Reach(j)
    BY <1>1, <1>4 DEF Reach
<1>7. OwnedInReach'
    BY <1>0, <1>1, <1>6 DEF OwnedInReach, TypeOK
<1>8. PassKept'
    <2>1. pass # Idle => pass.i \in Installs
        BY <1>0 DEF TypeOK, Present, ToSet
    <2> QED
        BY <1>0, <1>1, <1>6, <2>1 DEF PassKept
<1> QED
    BY <1>5, <1>7, <1>8 DEF Inv

LEMMA EditStep ==
    ASSUME Inv, NEW i \in Installs, Edit(i)
    PROVE  Inv'
<1> USE InstallAssumption
<1>0. TypeOK /\ OwnedInReach /\ PassKept
    BY DEF Inv
<1>1. /\ edits' = edits - 1 /\ edits > 0
      /\ moved' = [moved EXCEPT ![i] = @ \union ({spec[i].argo} \ {spec'[i].argo})]
      /\ UNCHANGED <<order, leaving, guarded, owner, token, copied, pass, pruned, faults>>
    BY DEF Edit, objVars
<1>2. PICK s \in Specs : spec' = [spec EXCEPT ![i] = s]
    BY DEF Edit
<1>3. /\ spec' \in [Installs -> Specs] /\ moved' \in [Installs -> SUBSET Argos]
      /\ \A j \in Installs : moved[j] \union {spec[j].argo} \subseteq moved'[j] \union {spec'[j].argo}
      /\ \A j \in Installs : moved[j] \subseteq moved'[j]
    BY <1>0, <1>1, <1>2 DEF TypeOK
<1>4. \A j \in Installs : Reach(j) \subseteq Reach(j)'
    BY <1>1, <1>3 DEF Reach
<1>5. TypeOK'
    BY <1>0, <1>1, <1>3 DEF TypeOK, Present
<1>6. OwnedInReach'
    BY <1>0, <1>1, <1>4 DEF OwnedInReach, TypeOK
<1>7. PassKept'
    <2>1. pass # Idle => pass.i \in Installs
        BY <1>0 DEF TypeOK, Present, ToSet
    <2> QED
        BY <1>0, <1>1, <1>4, <2>1 DEF PassKept
<1> QED
    BY <1>5, <1>6, <1>7 DEF Inv

(* The finalizer holds a resource: one that goes at once has none.         *)
LEMMA DeleteStep ==
    ASSUME Inv, NEW i \in Installs, Delete(i)
    PROVE  Inv'
<1> USE InstallAssumption
<1>0. TypeOK /\ OwnedInReach /\ PassKept
    BY DEF Inv
<1>1. UNCHANGED <<guarded, spec, owner, token, copied, pass, pruned, edits, faults, moved>>
    BY DEF Delete, objVars
<1>2. OwnedInReach' /\ PassKept'
    BY <1>0, <1>1 DEF OwnedInReach, PassKept, Reach
<1>3. TypeOK'
    <2>1. i \in Present /\ i \notin leaving
        BY DEF Delete, Live
    <2>2. CASE i \in guarded
        BY <1>0, <1>1, <2>1, <2>2 DEF Delete, TypeOK, Present
    <2>3. CASE i \notin guarded
        <3>1. order' = Without(i) /\ leaving' = leaving
            BY <2>3 DEF Delete
        <3>2. order' \in Seq(Installs) /\ IsInjective(order') /\ ToSet(order') = ToSet(order) \ {i}
            <4>1. order \in Seq(Installs) /\ IsInjective(order)
                BY <1>0 DEF TypeOK
            <4> QED
                BY <2>1, <3>1, <4>1, WithoutOne
        <3> QED
            BY <1>0, <1>1, <2>1, <2>3, <3>1, <3>2 DEF TypeOK, Present
    <2> QED
        BY <2>2, <2>3
<1> QED
    BY <1>2, <1>3 DEF Inv

LEMMA CollectStep ==
    ASSUME Inv, NEW i \in Installs, Collect(i)
    PROVE  Inv'
<1> USE InstallAssumption
<1>0. TypeOK /\ OwnedInReach /\ PassKept
    BY DEF Inv
<1>1. /\ owner' = [s \in Slots |-> IF s \in InOwn \X {i} THEN None ELSE owner[s]]
      /\ token' = [token EXCEPT ![i] = 0]
      /\ UNCHANGED <<order, leaving, guarded, spec, copied, pass, pruned, edits, faults, moved>>
    BY DEF Collect, crVars
<1>2. TypeOK'
    BY <1>0, <1>1, ZeroToken DEF TypeOK, Present
<1>3. OwnedInReach'
    BY <1>0, <1>1, FewerOwned
<1>4. PassKept'
    BY <1>0, <1>1 DEF PassKept, Reach
<1> QED
    BY <1>2, <1>3, <1>4 DEF Inv

LEMMA LoseStep ==
    ASSUME Inv, Lose
    PROVE  Inv'
<1> USE InstallAssumption
<1>0. TypeOK /\ OwnedInReach /\ PassKept
    BY DEF Inv
<1>1. /\ edits' = edits - 1 /\ edits > 0
      /\ UNCHANGED <<order, leaving, guarded, spec, pass, pruned, faults, moved>>
    BY DEF Lose, crVars
<1>2. /\ owner' \in [Slots -> Installs \union {None}] /\ copied' \in [Argos -> Tokens]
      /\ token' \in [Installs -> Tokens]
      /\ \A s \in Slots : owner'[s] \in {owner[s], None}
    <2>1. CASE (\E s \in Slots : TakeAway({s})) /\ UNCHANGED token
        BY <1>0, <2>1, ZeroToken DEF TypeOK, TakeAway
    <2>2. CASE (\E i \in Installs : token' = [token EXCEPT ![i] = 0]) /\ UNCHANGED <<owner, copied>>
        BY <1>0, <2>2, ZeroToken DEF TypeOK
    <2>3. Live \subseteq Installs
        BY <1>0 DEF Live, Present, TypeOK, ToSet
    <2> QED
        BY <2>1, <2>2, <2>3 DEF Lose
<1>3. TypeOK'
    BY <1>0, <1>1, <1>2 DEF TypeOK, Present
<1>4. OwnedInReach'
    BY <1>0, <1>1, <1>2, FewerOwned
<1>5. PassKept'
    BY <1>0, <1>1 DEF PassKept, Reach
<1> QED
    BY <1>3, <1>4, <1>5 DEF Inv

(* A stage that applies what its install may own, and with what was done   *)
(* before all that the next stage counts on.                               *)
LEMMA Applies ==
    ASSUME Inv, pass # Idle, NEW objs \in Seq(Slots), NEW n \in 0..Len(objs),
           NEW next \in {"secrets", "argo", "prune"}, ApplyFirst(n, objs, next),
           ToSet(objs) \subseteq (InOwn \X {pass.i}) \union {Bindings}
                                   \union ((Argoproj \union Copies) \X {pass.spec.argo}),
           Applied(pass.i, pass.spec, next)
               \subseteq Applied(pass.i, pass.spec, pass.at) \union ToSet(objs),
           UNCHANGED <<crVars, token, pruned, edits, moved>>, copied' \in [Argos -> Tokens]
    PROVE  Inv'
<1> USE InstallAssumption
<1>0. TypeOK /\ OwnedInReach /\ PassKept
    BY DEF Inv
<1>1. /\ owner' \in [Slots -> Installs \union {None}]
      /\ \A s \in Slots : owner'[s] = owner[s] \/ (s \in ToSet(objs) /\ owner'[s] = pass.i)
      /\ \/ pass' = Idle
         \/ pass' = [pass EXCEPT !.at = next, !.done = @ \union ToSet(objs)]
      /\ faults' \in 0..MaxFaults
    BY <1>0, Applying
<1>2. UNCHANGED <<order, leaving, guarded, spec, token, pruned, edits, moved>>
    BY DEF crVars
<1>3. /\ pass.i \in guarded /\ pass.i \in Installs /\ pass.spec \in Specs /\ pass.done \subseteq Slots
      /\ pass \in [i : guarded, at : {"forge", "secrets", "workload", "argo", "prune"},
                  spec : Specs, done : SUBSET Slots]
    BY <1>0 DEF TypeOK, Present, ToSet
<1>4. ToSet(objs) \subseteq Slots
    BY SetOfSeq
<1>5. TypeOK'
    <2>1. pass' = Idle \/ pass' \in [i : guarded, at : {"forge", "secrets", "workload", "argo", "prune"},
                                    spec : Specs, done : SUBSET Slots]
        <3> DEFINE done == pass.done \union ToSet(objs)
        <3>1. done \in SUBSET Slots
            BY <1>3, <1>4
        <3>2. pass' = Idle \/ pass' = [pass EXCEPT !.at = next, !.done = done]
            BY <1>1
        <3> HIDE DEF done
        <3> QED
            BY <1>3, <3>1, <3>2
    <2> QED
        BY <1>0, <1>1, <1>2, <2>1 DEF TypeOK, Present
<1>6. \A j : Reach(j)' = Reach(j)
    BY <1>2 DEF Reach
<1>7. OwnedInReach'
    <2>1. pass.spec.argo \in Reach(pass.i)
        BY <1>0 DEF PassKept
    <2> QED
        BY <1>0, <1>1, <1>2, <1>3, <1>6, <2>1 DEF OwnedInReach
<1>8. PassKept'
    <2>1. CASE pass' = Idle
        BY <2>1 DEF PassKept, Idle
    <2>2. CASE pass' = [pass EXCEPT !.at = next, !.done = @ \union ToSet(objs)]
        <3>1. /\ pass'.i = pass.i /\ pass'.spec = pass.spec /\ pass'.at = next
              /\ pass'.done = pass.done \union ToSet(objs)
            BY <1>3, <2>2
        <3>2. /\ pass.spec.argo \in Reach(pass.i)
              /\ Applied(pass.i, pass.spec, pass.at) \subseteq pass.done
            BY <1>0 DEF PassKept
        <3>3. Applied(pass'.i, pass'.spec, pass'.at) \subseteq pass'.done
            BY <3>1, <3>2
        <3>4. (pass.spec.argo \in Reach(pass.i))'
            BY <1>6, <3>1, <3>2
        <3> QED
            BY <3>3, <3>4 DEF PassKept
    <2> QED
        BY <1>1, <2>1, <2>2
<1> QED
    BY <1>5, <1>7, <1>8 DEF Inv

LEMMA BeginStep ==
    ASSUME Inv, NEW i \in Installs, Begin(i)
    PROVE  Inv'
<1>0. TypeOK /\ OwnedInReach /\ PassKept
    BY DEF Inv
<1>1. /\ i \in Present /\ guarded' = guarded \union {i}
      /\ pass' = [i |-> i, at |-> "forge", spec |-> spec[i], done |-> {}]
      /\ UNCHANGED <<order, leaving, spec, owner, token, copied, pruned, edits, faults, moved>>
    BY DEF Begin, Live, GuardFirst, objVars
<1>2. TypeOK'
    BY <1>0, <1>1 DEF TypeOK, Present
<1>3. \A j : Reach(j) \subseteq Reach(j)'
    BY <1>1 DEF Reach
<1>4. OwnedInReach'
    BY <1>0, <1>1, <1>3 DEF OwnedInReach
<1>5. PassKept'
    <2>1. spec[i].argo \in Reach(i)'
        BY <1>1 DEF Reach
    <2> QED
        BY <1>1, <2>1 DEF PassKept, Applied
<1> QED
    BY <1>2, <1>4, <1>5 DEF Inv

(* A pass that stops leaves everything where it is.                        *)
LEMMA StopStep ==
    ASSUME Inv, Halt \/ Crash \/ SkipPrune
    PROVE  Inv'
<1>0. TypeOK /\ OwnedInReach /\ PassKept
    BY DEF Inv
<1>1. /\ pass' = Idle /\ faults' \in 0..MaxFaults /\ pruned' \in [Installs -> SUBSET Slots]
      /\ UNCHANGED <<order, leaving, guarded, spec, owner, token, copied, edits, moved>>
    BY <1>0, InstallAssumption DEF Halt, Crash, SkipPrune, TypeOK, crVars, objVars
<1>2. TypeOK'
    BY <1>0, <1>1 DEF TypeOK, Present, Idle
<1>3. OwnedInReach'
    BY <1>0, <1>1, FewerOwned
<1>4. PassKept'
    BY <1>1 DEF PassKept, Idle
<1> QED
    BY <1>2, <1>3, <1>4 DEF Inv

LEMMA SecretsStep ==
    ASSUME Inv, ReconcileSecrets
    PROVE  Inv'
<1>0. TypeOK /\ OwnedInReach /\ PassKept
    BY DEF Inv
<1>1. /\ pass.at = "secrets" /\ pass # Idle /\ pass' = [pass EXCEPT !.at = "workload"]
      /\ token' = [token EXCEPT ![pass.i] = IF @ # 0 THEN @ ELSE Fresh]
      /\ UNCHANGED <<order, leaving, guarded, spec, owner, copied, pruned, edits, faults, moved>>
    BY DEF ReconcileSecrets, crVars, Idle
<1>2. pass \in [i : guarded, at : {"forge", "secrets", "workload", "argo", "prune"},
                spec : Specs, done : SUBSET Slots]
    BY <1>0, <1>1 DEF TypeOK
<1>3. token' \in [Installs -> Tokens]
    <2>1. Fresh \in Tokens
        BY <1>0, FreshToken DEF TypeOK
    <2> QED
        BY <1>0, <1>1, <2>1 DEF TypeOK
<1>4. pass'.i = pass.i /\ pass'.spec = pass.spec /\ pass'.done = pass.done /\ pass'.at = "workload"
    BY <1>1, <1>2
<1>5. TypeOK'
    BY <1>0, <1>1, <1>2, <1>3 DEF TypeOK, Present
<1>6. OwnedInReach'
    BY <1>0, <1>1, FewerOwned
<1>7. PassKept'
    BY <1>0, <1>1, <1>4 DEF PassKept, Reach, Applied, ForgeObjects
<1> QED
    BY <1>5, <1>6, <1>7 DEF Inv

LEMMA ForgeStep ==
    ASSUME Inv, ReconcileForge
    PROVE  Inv'
<1>1. pass.at = "forge" /\ pass # Idle /\ UNCHANGED <<crVars, token, copied, pruned, edits, moved>>
    BY DEF ReconcileForge, Idle
<1>2. pass.i \in Installs /\ pass.spec \in Specs /\ copied \in [Argos -> Tokens]
    BY <1>1 DEF Inv, TypeOK, Present, ToSet
<1> DEFINE objs == ForgeObjects(pass.i, pass.spec)
<1>3. objs \in Seq(Slots) /\ ToSet(objs) \subseteq InOwn \X {pass.i}
    BY <1>2, Objects
<1>4. PICK n \in 0..1 : n <= Len(objs) /\ ApplyFirst(n, objs, "secrets")
    BY DEF ReconcileForge
<1>5. n \in 0..Len(objs)
    BY <1>3, <1>4
<1>6. Applied(pass.i, pass.spec, "secrets") = ToSet(objs)
    BY DEF Applied
<1> HIDE DEF objs
<1> QED
    BY <1>1, <1>2, <1>3, <1>4, <1>5, <1>6, Applies

LEMMA WorkloadStep ==
    ASSUME Inv, ReconcileWorkload
    PROVE  Inv'
<1>1. pass.at = "workload" /\ pass # Idle /\ UNCHANGED <<crVars, token, copied, pruned, edits, moved>>
    BY DEF ReconcileWorkload, Idle
<1>2. pass.i \in Installs /\ pass.spec \in Specs /\ copied \in [Argos -> Tokens]
    BY <1>1 DEF Inv, TypeOK, Present, ToSet
<1> DEFINE objs == <<<<"workload", pass.i>>>>
<1>3. objs \in Seq(Slots) /\ Len(objs) = 1 /\ ToSet(objs) = {<<"workload", pass.i>>}
    <2>1. <<"workload", pass.i>> \in Slots
        BY <1>2, Objects
    <2> QED
        BY <2>1 DEF ToSet
<1>4. PICK n \in 0..1 : ApplyFirst(n, objs, "argo")
    BY DEF ReconcileWorkload
<1>5. n \in 0..Len(objs)
    BY <1>3
<1>6. Applied(pass.i, pass.spec, "argo")
          \subseteq Applied(pass.i, pass.spec, pass.at) \union ToSet(objs)
    BY <1>1, <1>3 DEF Applied
<1>7. ToSet(objs) \subseteq InOwn \X {pass.i}
    BY <1>3 DEF InOwn
<1> HIDE DEF objs
<1> QED
    BY <1>1, <1>2, <1>3, <1>4, <1>5, <1>6, <1>7, Applies

LEMMA ArgoStep ==
    ASSUME Inv, ReconcileArgo
    PROVE  Inv'
<1>0. TypeOK /\ OwnedInReach /\ PassKept
    BY DEF Inv
<1>1. pass.at = "argo" /\ pass # Idle /\ UNCHANGED <<crVars, token, pruned, edits, moved>>
    BY DEF ReconcileArgo, Idle
<1>2. pass.i \in Installs /\ pass.spec \in Specs /\ copied \in [Argos -> Tokens]
    BY <1>0, <1>1 DEF TypeOK, Present, ToSet
<1>3. CASE pass' = Idle /\ UNCHANGED <<owner, copied, faults>>
    <2>1. UNCHANGED <<order, leaving, guarded, spec, owner, token, copied, pruned, edits, faults, moved>>
        BY <1>1, <1>3 DEF crVars
    <2>2. TypeOK'
        BY <1>0, <1>3, <2>1 DEF TypeOK, Present, Idle
    <2>3. OwnedInReach'
        BY <1>0, <2>1, FewerOwned
    <2>4. PassKept'
        BY <1>3 DEF PassKept, Idle
    <2> QED
        BY <2>2, <2>3, <2>4 DEF Inv
<1> DEFINE objs == ArgoObjects(pass.spec)
<1>4. ASSUME NEW m \in 0..Len(objs), ApplyFirst(m, objs, "prune"),
             copied' = IF m = 0 THEN copied ELSE Mirrored(pass.spec.argo, token[pass.i])
      PROVE  Inv'
    <2>1. /\ objs \in Seq(Slots)
          /\ ToSet(objs) \subseteq {Bindings} \union ((Argoproj \union Copies) \X {pass.spec.argo})
        BY <1>2, Objects
    <2>2. copied' \in [Argos -> Tokens]
        BY <1>0, <1>2, <1>4 DEF Mirrored, TypeOK
    <2>3. Applied(pass.i, pass.spec, "prune")
              \subseteq Applied(pass.i, pass.spec, pass.at) \union ToSet(objs)
        BY <1>1 DEF Applied, Render
    <2> HIDE DEF objs
    <2> QED
        BY <1>1, <1>4, <2>1, <2>2, <2>3, Applies
<1> QED
    BY <1>3, <1>4 DEF ReconcileArgo

(* What is gone when the finalizer goes is all that lies beyond the        *)
(* install's namespace and the namespaces that it left.                    *)
LEMMA SweepStep ==
    ASSUME Inv, Prune \/ \E i \in Installs : Finalize(i)
    PROVE  Inv'
<1> USE InstallAssumption
<1>0. TypeOK /\ OwnedInReach /\ PassKept
    BY DEF Inv
<1>1. CASE Prune
    <2>1. /\ pass' = Idle /\ UNCHANGED <<order, leaving, guarded, spec, token, edits, moved>>
          /\ \E all \in BOOLEAN : Sweep(Strays, all)
          /\ pruned' \in {pruned, [pruned EXCEPT ![pass.i] = pass.done]}
          /\ pass # Idle
        <3>1. /\ UNCHANGED <<order, leaving, guarded, spec, token, edits, moved>>
              /\ pass' = Idle /\ pass.at = "prune" /\ pass # Idle
            BY <1>1 DEF Prune, crVars, Idle
        <3>2. /\ Sweep(Strays, TRUE) \/ Sweep(Strays, FALSE)
              /\ pruned' = pruned \/ pruned' = [pruned EXCEPT ![pass.i] = pass.done]
            BY <1>1 DEF Prune
        <3> QED
            BY <3>1, <3>2
    <2>2. /\ owner' \in [Slots -> Installs \union {None}] /\ copied' \in [Argos -> Tokens]
          /\ \A s \in Slots : owner'[s] \in {owner[s], None}
          /\ faults' \in 0..MaxFaults
        BY <1>0, <2>1, Sweeping
    <2>3. pass.done \subseteq Slots
        BY <1>0, <2>1 DEF TypeOK
    <2>4. TypeOK'
        BY <1>0, <2>1, <2>2, <2>3 DEF TypeOK, Present, Idle
    <2>5. OwnedInReach'
        BY <1>0, <2>1, <2>2, FewerOwned
    <2>6. PassKept'
        BY <2>1 DEF PassKept, Idle
    <2> QED
        BY <2>4, <2>5, <2>6 DEF Inv
<1>2. ASSUME NEW i \in Installs, Finalize(i) PROVE Inv'
    <2>1. /\ pass = Idle /\ pass' = Idle /\ UNCHANGED <<spec, token, edits, moved>>
          /\ i \in leaving
        BY <1>2 DEF Finalize
    <2>2. CASE /\ Sweep(Cleanup(i), TRUE)
               /\ guarded' = guarded \ {i} /\ leaving' = leaving \ {i} /\ order' = Without(i)
               /\ pruned' = [pruned EXCEPT ![i] = {}]
        <3>1. /\ owner' \in [Slots -> Installs \union {None}] /\ copied' \in [Argos -> Tokens]
              /\ \A s \in Slots : owner'[s] \in {owner[s], None}
              /\ \A s \in Slots : s \in Cleanup(i) => owner'[s] = None
              /\ faults' \in 0..MaxFaults
            BY <1>0, <2>2, Sweeping
        <3>2. order' \in Seq(Installs) /\ IsInjective(order') /\ ToSet(order') = ToSet(order) \ {i}
            <4>1. order \in Seq(Installs) /\ IsInjective(order) /\ i \in Present
                BY <1>0, <2>1 DEF TypeOK
            <4> QED
                BY <2>2, <4>1, WithoutOne
        <3>3. TypeOK'
            BY <1>0, <2>1, <2>2, <3>1, <3>2 DEF TypeOK, Present
        <3>4. PassKept'
            BY <2>1 DEF PassKept, Idle
        <3>5. OwnedInReach'
            <4>1. \A j : j # i => Reach(j)' = Reach(j)
                BY <2>1, <2>2 DEF Reach
            <4>2. Reach(i)' = moved[i] /\ Reach(i) \subseteq moved[i] \union {spec[i].argo}
                BY <2>1, <2>2 DEF Reach
            <4>3. \A s \in Slots : owner'[s] = i => s # Bindings /\ s[2] # spec[i].argo
                BY <1>0, <3>1 DEF Cleanup, Owned, TypeOK
            <4>4. ASSUME NEW s \in Slots, owner'[s] # None, owner'[s] # i
                  PROVE  \/ s \in InOwn \X {owner'[s]}
                         \/ s = Bindings /\ owner'[s] \in guarded'
                         \/ \E n : s \in (Argoproj \union Copies) \X {n} /\ n \in Reach(owner[s])
                <5>1. owner'[s] = owner[s]
                    BY <3>1, <4>4
                <5> QED
                    BY <1>0, <2>2, <4>4, <5>1 DEF OwnedInReach
            <4>5. ASSUME NEW s \in Slots, owner'[s] = i
                  PROVE  s \in InOwn \X {i} \/ s \in (Argoproj \union Copies) \X moved[i]
                <5>1. owner[s] = i /\ i # None
                    BY <3>1, <4>5
                <5> QED
                    BY <1>0, <4>2, <4>3, <4>5, <5>1 DEF OwnedInReach
            <4> QED
                BY <3>1, <4>1, <4>2, <4>4, <4>5 DEF OwnedInReach
        <3> QED
            BY <3>3, <3>4, <3>5 DEF Inv
    <2>3. CASE Sweep(Cleanup(i), FALSE) /\ UNCHANGED <<guarded, leaving, order, pruned>>
        <3>1. /\ owner' \in [Slots -> Installs \union {None}] /\ copied' \in [Argos -> Tokens]
              /\ \A s \in Slots : owner'[s] \in {owner[s], None}
              /\ faults' \in 0..MaxFaults
            BY <1>0, <2>3, Sweeping
        <3>2. TypeOK'
            BY <1>0, <2>1, <2>3, <3>1 DEF TypeOK, Present
        <3>3. OwnedInReach'
            BY <1>0, <2>1, <2>3, <3>1, FewerOwned
        <3>4. PassKept'
            BY <2>1 DEF PassKept, Idle
        <3> QED
            BY <3>2, <3>3, <3>4 DEF Inv
    <2> QED
        BY <1>2, <2>2, <2>3 DEF Finalize
<1> QED
    BY <1>1, <1>2

LEMMA NextInv == Inv /\ [Next]_vars => Inv'
<1> SUFFICES ASSUME Inv, [Next]_vars PROVE Inv'
    OBVIOUS
<1>1. CASE UNCHANGED vars
    BY <1>1 DEF Inv, TypeOK, OwnedInReach, PassKept, Reach, Present, vars, crVars, objVars
<1>2. CASE Next
    BY <1>2, CreateStep, EditStep, DeleteStep, CollectStep, LoseStep, BeginStep, StopStep,
       SecretsStep, ForgeStep, WorkloadStep, ArgoStep, SweepStep
       DEF Next, Pass
<1> QED
    BY <1>1, <1>2

LEMMA SpecInv == Spec => []Inv
BY InitInv, NextInv, PTL DEF Spec

--------------------------------------------------------------------------------
(* Resources, objects, tokens and passes have the types of the API and of  *)
(* the reconciler.                                                         *)
THEOREM InstallTypes == Spec => []TypeOK
<1>1. Inv => TypeOK
    BY DEF Inv
<1> QED
    BY <1>1, SpecInv, PTL

(* dotvirt_controller.go:58: an install without the finalizer owns nothing *)
(* beyond its own namespace, whatever pass was cut short and however often *)
(* it moved, except in the Argo CD namespaces that it left.                *)
THEOREM FinalizerGuards == Spec => []Guarded
<1>1. Inv => Guarded
    <2> SUFFICES ASSUME Inv, NEW i \in Installs \ guarded, NEW s \in Owned(i)
                 PROVE  s \in InOwn \X {i} \/ (s[1] \in Argoproj \union Copies /\ s[2] \in moved[i])
        BY DEF Guarded
    <2>1. s \in Slots /\ owner[s] = i /\ owner[s] # None
        BY InstallAssumption DEF Owned
    <2>2. Reach(i) = moved[i]
        BY DEF Reach
    <2> QED
        BY <2>1, <2>2 DEF Inv, OwnedInReach
<1> QED
    BY <1>1, SpecInv, PTL

LEMMA SparesStep ==
    ASSUME Inv, [Next]_vars, NEW i \in Live,
           pass.i = i, pass.spec = spec[i], edits' = edits, owner' # owner,
           NEW s \in Render(i, spec[i]), s \in Owned(i)
    PROVE  owner'[s] = i
<1> USE InstallAssumption
<1>0. TypeOK /\ OwnedInReach /\ PassKept
    BY DEF Inv
<1>1. i \in Present /\ i \in Installs /\ i # None /\ pass # Idle
    BY <1>0 DEF Live, TypeOK, Present, ToSet, Idle
<1>2. s \in Slots /\ owner[s] = i /\ owner \in [Slots -> Installs \union {None}]
      /\ pass.i \in Installs /\ pass.spec \in Specs
    BY <1>0, <1>1 DEF Owned, TypeOK
<1>3. \A j \in Installs : s \in InOwn \X {j} => j = i
    <2> DEFINE a == ForgeObjects(i, spec[i])
               b == ArgoObjects(spec[i])
    <2>1. /\ ToSet(a) \subseteq InOwn \X {i}
          /\ ToSet(b) \subseteq {Bindings} \union ((Argoproj \union Copies) \X {spec[i].argo})
        BY <1>1, <1>2, Objects
    <2>2. s \in ToSet(a) \/ s = <<"workload", i>> \/ s \in ToSet(b)
        BY DEF Render
    <2> HIDE DEF a, b
    <2>3. s \in InOwn \X {i} \/ s \in {Bindings} \union ((Argoproj \union Copies) \X {spec[i].argo})
        BY <2>1, <2>2 DEF InOwn
    <2> QED
        BY <2>3 DEF InOwn, Bindings, Argoproj, Copies
<1>4. CASE \E j \in Installs : Collect(j)
    <2>1. PICK j \in Installs : Collect(j)
        BY <1>4
    <2>2. j # i /\ owner'[s] = IF s \in InOwn \X {j} THEN None ELSE owner[s]
        BY <1>1, <1>2, <2>1 DEF Collect
    <2> QED
        BY <1>2, <1>3, <2>1, <2>2
<1>5. ASSUME NEW n, NEW objs, NEW next, ApplyFirst(n, objs, next) PROVE owner'[s] = i
    BY <1>2, <1>5 DEF ApplyFirst
<1>6. CASE ReconcileForge \/ ReconcileWorkload \/ ReconcileArgo
    <2>1. owner' = owner \/ \E n, objs, next : ApplyFirst(n, objs, next)
        BY <1>6 DEF ReconcileForge, ReconcileWorkload, ReconcileArgo
    <2> QED
        BY <1>2, <1>5, <2>1
<1>7. CASE Prune
    <2>1. s \in pass.done
        BY <1>0, <1>1, <1>7 DEF PassKept, Applied, Prune
    <2>2. s \notin Strays
        BY <2>1 DEF Strays
    <2>3. \E all \in BOOLEAN : Sweep(Strays, all)
        BY <1>7 DEF Prune
    <2> QED
        BY <1>0, <1>2, <2>2, <2>3, Sweeping
<1>8. owner' = owner \/ edits' = edits - 1 \/ (\E j \in Installs : Collect(j) \/ Finalize(j))
      \/ ReconcileForge \/ ReconcileWorkload \/ ReconcileArgo \/ Prune
    BY DEF Next, vars, objVars, Create, Edit, Delete, Begin, Lose, Halt, Crash, Pass,
           ReconcileSecrets, SkipPrune
<1>9. edits \in Nat /\ edits' # edits - 1
    BY <1>0 DEF TypeOK
<1>10. ~ \E j \in Installs : Finalize(j)
    BY <1>1 DEF Finalize
<1> QED
    BY <1>4, <1>6, <1>7, <1>8, <1>9, <1>10

(* prune.go:134: while a pass works from the spec as it stands, the        *)
(* operator takes away nothing of a live install that this spec asks for:  *)
(* what prune compares with holds all that the stages before it applied.   *)
THEOREM PruneSparesRendered == Spec => SparesRendered
<1>1. Inv /\ [Next]_vars =>
          [\A i \in Live :
              pass.i = i /\ pass.spec = spec[i] /\ edits' = edits
                 => Render(i, spec[i]) \intersect Owned(i) \subseteq {s \in Slots : owner'[s] = i}]_vars
    <2> SUFFICES ASSUME Inv, [Next]_vars, NEW i \in Live,
                        pass.i = i, pass.spec = spec[i], edits' = edits,
                        NEW s \in Render(i, spec[i]), s \in Owned(i)
                 PROVE  s \in Slots /\ owner'[s] = i
        OBVIOUS
    <2>1. s \in Slots /\ owner[s] = i
        BY DEF Owned
    <2> QED
        BY <2>1, SparesStep
<1> QED
    BY <1>1, SpecInv, PTL DEF Spec, SparesRendered
================================================================================
