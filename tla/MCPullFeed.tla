----------------------------- MODULE MCPullFeed -----------------------------
(* Small instances of PullFeed: a site and a project the user belongs to,   *)
(* and a project it may be added to.                                        *)
EXTENDS PullFeed, TLC

CONSTANTS l1, l2, a, b, x, h, n, default

MCProjectOf == [e \in Entities |-> IF e = x THEN n ELSE h]
MCSymmetry == Permutations(Pullers)
=============================================================================
