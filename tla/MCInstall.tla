------------------------------- MODULE MCInstall -------------------------------
(* Small instances of Install.                                             *)
EXTENDS Install

CONSTANTS i1, i2, a1, a2

TwoSpecs == {[argo |-> a1, forge |-> "managed"], [argo |-> a2, forge |-> "none"]}
================================================================================
