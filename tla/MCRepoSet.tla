------------------------------- MODULE MCRepoSet -------------------------------
(* Small instances of RepoSet: two callers, two mirrors, one after another *)
(* when the first is evicted.                                              *)
EXTENDS RepoSet
================================================================================
