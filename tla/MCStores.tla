------------------------------- MODULE MCStores -------------------------------
(* What the server keeps between requests, each store in a part of its     *)
(* own: the drafts of two users of a project (two entry keys, one entry    *)
(* worth committing and one left by an older version), and the visibility  *)
(* cache of a token.                                                       *)
EXTENDS DraftStore, ScopeCache, TLC

\* The namespaces, and the requests, are alike.
Alike == Permutations(Namespaces) \union Permutations(Requests)

VARIABLE part

MCInit ==
    /\ part \in {"drafts", "scope"}
    /\ StoreInit
    /\ Init
    /\ part # "scope" => labelled = {} /\ bound = {}
    /\ part # "drafts" => \A p \in Pairs : disk[p] = Empty

MCNext ==
    /\ UNCHANGED part
    /\ part # "drafts"  => UNCHANGED storeVars
    /\ part # "scope"   => UNCHANGED vars
    /\ \/ part = "drafts" /\ StoreNext
       \/ part = "scope" /\ Next

MCSpec == MCInit /\ [][MCNext]_<<part, storeVars, vars>>
================================================================================
