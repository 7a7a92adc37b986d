------------------------------ MODULE MCPropose ------------------------------
(* One file name per entry key, one content besides the one on base, and   *)
(* each of the three ways an entry acts on its file.                       *)
EXTENDS Propose, TLC

CONSTANTS v1, r1, r2

Put    == [op |-> "put",    val |-> v1]
Patch  == [op |-> "patch",  val |-> v1]
Delete == [op |-> "delete", val |-> v1]

JustPut     == {Put}
PutPatch    == {Put, Patch}
PutDelete   == {Put, Delete}

AnyBase     == Trees
AnyPoint    == PCs
NothingYet  == {[k \in Keys |-> Absent]}

NoStaleCreates == {}

CONSTANTS u1, u2
OneCaller == [r \in Requests |-> u1]
TwoCallers == (r1 :> u1) @@ (r2 :> u2)
================================================================================
