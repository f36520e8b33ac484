---------------------------- MODULE RunLifecycle ----------------------------
(***************************************************************************)
(* What orchestrator/state.py and the runner's files promise of a run: its *)
(* state moves along the table, what is saved is a state it was in, and    *)
(* whoever loads it goes on from what was saved last.  init_run in its     *)
(* directory starts it anew.                                               *)
(***************************************************************************)
EXTENDS RunStates

VARIABLES
  current,     \* the state of the run, for whoever drives it
  saved        \* the state a new driver would load

Init == current = "draft" /\ saved = "draft"

Move(to) == CanStep(current, to) /\ current' = to /\ UNCHANGED saved
Save == saved' = current /\ UNCHANGED current
Lose == current' = saved /\ UNCHANGED saved
Restart == current = saved /\ current' = "draft" /\ UNCHANGED saved

Next == Save \/ Lose \/ Restart \/ \E to \in Status : Move(to)

Spec == Init /\ [][Next]_<<current, saved>>

\* A run that is saved as done or failed is so until it is started anew.
EndIsFinal == [][(saved \in Final) => saved' \in {saved, "draft"}]_<<current, saved>>
=============================================================================
