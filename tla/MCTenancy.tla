------------------------------- MODULE MCTenancy -------------------------------
(* Small instances of Tenancy: two namespaces, one project, and what       *)
(* others label.                                                           *)
EXTENDS Tenancy

Written(p, at, own, primary) ==
    [project |-> p, repo |-> IF at = None THEN None ELSE [host |-> at, path |-> "p"],
     own |-> own, primary |-> primary]

Plain   == Written(None, None, {"team"}, FALSE)
Labeled == Written("p", None, {"team", "cost"}, TRUE)
Abroad  == Written("p", "far", {}, FALSE)
AtHome  == Written("p", "h1", {"team"}, FALSE)

SomeByHand == {None, Plain, Labeled}

SomeAtFirst == {<<Plain, None>>, <<AtHome, Abroad>>}
================================================================================
