----------------------------- MODULE AgentStates -----------------------------
(* The life cycle of an agent: the states of internal/agent/agent.go and the *)
(* transition table of internal/agent/state.go.                              *)

State == {"idle", "researching", "verifying", "executing", "done", "failed"}

Terminal == {"done", "failed"}

\* The states with no entry in the code's map have no successors.
validTransitions ==
  [s \in State |->
     CASE s = "idle"        -> {"researching", "verifying", "executing"}
       [] s = "researching" -> {"verifying", "done", "failed"}
       [] s = "verifying"   -> {"executing", "researching", "done", "failed"}
       [] s = "executing"   -> {"done", "failed"}
       [] OTHER             -> {}]

\* Transition's error result, and the state it leaves the machine in.
Permitted(current, next) == next \in validTransitions[current]
Transition(current, next) == IF Permitted(current, next) THEN next ELSE current

==============================================================================
