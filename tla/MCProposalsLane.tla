---------------------------- MODULE MCProposalsLane ----------------------------
(* A small instance of ProposalsLane: one viewer of one tenant.            *)
EXTENDS ProposalsLane

CONSTANTS v1, a, plat

OneSees  == [t \in {v1} |-> {a}]
================================================================================
