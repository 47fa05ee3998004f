---------------------------- MODULE MCTwinStore ----------------------------
(* Two handles that open, write and close as they like; one flow, node and  *)
(* session; a clean and a degraded run, two environments.                   *)
EXTENDS TwinStore, TLC

CONSTANTS h1, h2, f1, clean1, clean2, degraded1, n1, env1, env2, s1, step1

MCHandles == {h1, h2}
MCFlows == {f1}
MCCleanRuns == {clean1, clean2}
MCDegradedRuns == {degraded1}
MCNodes == {n1}
MCProfiles == {env1, env2}
MCSessions == {s1}
MCSteps == {step1}
Symmetry == Permutations(MCHandles) \cup Permutations(MCCleanRuns) \cup Permutations(MCProfiles)
=============================================================================
