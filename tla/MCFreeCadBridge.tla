-------------------------- MODULE MCFreeCadBridge --------------------------
(***************************************************************************)
(* FreeCadBridge for TLC, and a statement of the repository that the code  *)
(* does not keep: the only property of the run FB_desync, which expects a  *)
(* counterexample.                                                         *)
(***************************************************************************)
EXTENDS FreeCadBridge

\* freecad_client.py:125 "Send a command and return the result": the response a
\* call returns is the response to its own command.
ResultOfCommand == \A n \in Calls : answer[n][1] # 0 => answer[n][1] = n
=============================================================================
