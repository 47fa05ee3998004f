------------------------------ MODULE MCNodeRuns ------------------------------
(* Small instances of NodeRuns: up to three requests and a cancel.           *)
EXTENDS NodeRuns, TLC

CONSTANTS r1, r2, r3, n1

\* A caller that names its run beside two that name none.
OneNamed == r1 :> n1 @@ r2 :> Anonymous @@ r3 :> Anonymous

EveryCommand == r1 :> "noisy" @@ r2 :> "forking" @@ r3 :> "plain"
=============================================================================
