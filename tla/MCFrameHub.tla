------------------------------- MODULE MCFrameHub -------------------------------
(* Small instances of FrameHub. *)
EXTENDS FrameHub, TLC

CONSTANTS i1, i2, c1, c2, c3, r1, r2

AllKinds == [u \in Subs |-> Kinds]

OneIdent      == [c \in Conns |-> i1]
TabsAndTenant == (c1 :> i1) @@ (c2 :> i1) @@ (c3 :> i2)

\* The two tabs of i1 are interchangeable.
AlikeTabs == Permutations({c1, c2})

\* i1 sees r1, and r2 once the topology moved; the others see r2 alone.
Grows == [i \in Idents |-> [n \in Levels |->
            IF i = i1 THEN (IF n = 0 THEN {r1} ELSE Repos) ELSE Repos \ {r1}]]

\* i1 sees both until the topology moved.
Shrinks == [i \in Idents |-> [n \in Levels |-> IF n = 0 THEN Repos ELSE {r1}]]
=================================================================================
