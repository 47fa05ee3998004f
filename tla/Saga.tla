-------------------------------- MODULE Saga --------------------------------
(***************************************************************************)
(* What a reversible flow promises, whichever engine runs it.  The flow    *)
(* records the effects it can undo in a log; as long as it runs the log    *)
(* only grows; once it starts undoing it never records again and takes the *)
(* effects out strictly last-in first-out; and it ends in one of five ways *)
(* that say what is left of the log.                                       *)
(*                                                                         *)
(* Implemented by ThinDriver (urirun_flow/flow_thin.py) and by             *)
(* ReversibleProcess (urirun_twin/reversible.py).                          *)
(***************************************************************************)
EXTENDS Naturals, Sequences

VARIABLES
    log,    \* the recorded effects that have not been undone, oldest first
    phase   \* where the flow is in its life

sagaVars == <<log, phase>>

Phases == {"running", "undoing", "committed", "abandoned", "undone", "stuck"}

Init == /\ log = << >>
        /\ phase = "running"

\* One more effect is recorded behind the ones already there; the step that
\* made it may ask for the undo at once.
Record == /\ phase = "running"
          /\ Len(log') = Len(log) + 1
          /\ SubSeq(log', 1, Len(log)) = log
          /\ phase' \in {"running", "undoing"}

StartUndo == /\ phase = "running"
             /\ phase' = "undoing"
             /\ UNCHANGED log

UndoLast == /\ phase = "undoing"
            /\ log # << >>
            /\ log' = SubSeq(log, 1, Len(log) - 1)
            /\ phase' = "undoing"

\* The flow ends without undoing anything: a success, or a failure that
\* keeps what was done.
Commit == /\ phase = "running"
          /\ phase' \in {"committed", "abandoned"}
          /\ UNCHANGED log

\* Everything recorded has been undone.
FinishUndo == /\ phase = "undoing"
              /\ log = << >>
              /\ phase' = "undone"
              /\ UNCHANGED log

\* An inverse failed, or the return could not be proved: what is still
\* recorded stays for the operator.
GetStuck == /\ phase = "undoing"
            /\ phase' = "stuck"
            /\ UNCHANGED log

Next == \/ Record
        \/ StartUndo
        \/ UndoLast
        \/ Commit
        \/ FinishUndo
        \/ GetStuck

Spec == Init /\ [][Next]_sagaVars
=============================================================================
