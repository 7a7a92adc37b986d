------------------------------- MODULE MCStaging -------------------------------
(* Small instances of Staging: a fresh repository, one that dotvirt made,  *)
(* and one laid out by hand.                                               *)
EXTENDS Staging, TLC

CONSTANTS t1, t2

Bare == [f \in Paths |-> {}]

Made == [Bare EXCEPT !["vm"] = {<<"vm", 1>>}, !["seg"] = {<<"seg", 1>>},
                     !["ns"] = {<<"ns", 1>>, <<"net", 1>>}, !["tpl"] = {<<"tpl", 1>>},
                     !["op"] = {<<"op", 1>>}, !["cr"] = {<<"cr", 1>>}, !["psi"] = {<<"psi", 1>>}]

HandMade == [Bare EXCEPT !["mixed"] = {<<"vm", 1>>, <<"seg", 1>>},
                       !["ns"] = {<<"ns", 1>>, <<"opaque", 1>>}, !["cr"] = {<<"cr", 2>>}]

TwoLayouts   == {Made, HandMade}
ThreeLayouts == TwoLayouts \union {Bare}

\* Nothing of it runs, or all of it.
TwoClusters == {[o \in {"vm", "seg", "ns"} |-> x] : x \in {None, 1}}

AllRuns == {[o \in {"vm", "seg", "ns"} |-> 1]}

AllOperations ==
    {"CreateVM", "StageEdit", "StageCreate", "CreateNamespace", "StageDelete", "UpdateManifest",
     "RestoreVersion", "AdoptObject", "AdoptVM", "AdoptObjects", "AdoptProject",
     "ReleaseDeclared", "SaveTemplate", "UpdateTemplate", "Unstage", "DRS"}
================================================================================
