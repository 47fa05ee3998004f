---------------------------- MODULE MCNodeDeploy ----------------------------
(* Small instances of NodeDeploy: two deploys, two routes and one probe.     *)
EXTENDS NodeDeploy, TLC

CONSTANTS u1, u2

Body(merge, uris) ==
    [merge |-> merge, uris |-> uris, valid |-> TRUE, code |-> FALSE,
     policy |-> FALSE, allow |-> {}, persist |-> FALSE]

\* A merge, a replacement that is persisted with its allow-list, a new version
\* of the handler code and a merged pattern, and a body that does not compile.
AllBodies ==
    {Body(TRUE, {u1}),
     [Body(FALSE, {u1, u2}) EXCEPT !.policy = TRUE, !.allow = {u1}, !.persist = TRUE],
     [Body(TRUE, {}) EXCEPT !.code = TRUE, !.policy = TRUE, !.allow = {u2}],
     [Body(TRUE, {u2}) EXCEPT !.code = TRUE, !.valid = FALSE]}

DeploySymmetry == Permutations(Deploys)
=============================================================================
