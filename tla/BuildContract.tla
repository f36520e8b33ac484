---------------------------- MODULE BuildContract ----------------------------
(***************************************************************************)
(* What orchestrator/worker.py promises of one dispatch of build tasks: a  *)
(* round asks for one build of every part, each answer is "success" or     *)
(* "failed" and given once, and "success" is said only of a part whose     *)
(* build of this round was completed.  Nothing is promised of a build that *)
(* is answered "failed": it may have been completed all the same.  A round *)
(* that is given up on leaves its open questions unanswered.               *)
(***************************************************************************)
EXTENDS Naturals

CONSTANTS
  Parts,       \* subsystems to build
  MaxRounds    \* bound on the dispatches

VARIABLES
  round,       \* the dispatch under way, 0 before the first
  asked,       \* parts this round has not answered yet
  outcome,     \* [Parts -> Outcomes]: the WorkerResult of the last dispatch
  built        \* <<part, round>> of every build that was completed

Outcomes == {"none", "success", "failed"}

Init ==
  /\ round = 0
  /\ asked = {}
  /\ outcome = [p \in Parts |-> "none"]
  /\ built = {}

Begin ==
  /\ asked = {} /\ round < MaxRounds
  /\ round' = round + 1
  /\ asked' = Parts
  /\ outcome' = [p \in Parts |-> "none"]
  /\ UNCHANGED built

\* A build of this round, or of an earlier one that is still running, ends well.
Build(p, r) ==
  /\ r \in 1..round /\ <<p, r>> \notin built
  /\ built' = built \cup {<<p, r>>}
  /\ UNCHANGED <<round, asked, outcome>>

Answer(p, o) ==
  /\ p \in asked
  /\ o = "success" => <<p, round>> \in built
  /\ outcome' = [outcome EXCEPT ![p] = o]
  /\ asked' = asked \ {p}
  /\ UNCHANGED <<round, built>>

GiveUp ==
  /\ asked' = {}
  /\ outcome' = [p \in Parts |-> "none"]
  /\ UNCHANGED <<round, built>>

Next ==
  \/ Begin \/ GiveUp
  \/ \E p \in Parts : \/ \E r \in 1..MaxRounds : Build(p, r)
                      \/ \E o \in {"success", "failed"} : Answer(p, o)

Spec == Init /\ [][Next]_<<round, asked, outcome, built>>
=============================================================================
