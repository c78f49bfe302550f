------------------------------ MODULE TaskBatch ------------------------------
(***************************************************************************)
(* What Orchestrator.Run promises its caller, with no goroutine, channel   *)
(* or counter in sight: of the tasks of one batch at most Slots are in the *)
(* hands of an agent at any time, a task that no agent took may be given   *)
(* up only once the context is cancelled, and the call returns exactly     *)
(* when every task has an answer.                                          *)
(***************************************************************************)
EXTENDS Naturals, FiniteSets

CONSTANTS Task,   \* the tasks handed to Run, a finite set
          Slots   \* how many of them may be with an agent at once

VARIABLES status,     \* where each task is: queued, running or finished
          cancelled,  \* ctx.Done() is closed
          returned,   \* Run has returned
          answered,   \* the tasks whose results the caller was given
          err         \* Run returned a non-nil error

vars == <<status, cancelled, returned, answered, err>>

Running == {t \in Task : status[t] = "running"}

Init == /\ status = [t \in Task |-> "queued"]
        /\ cancelled = FALSE
        /\ returned = FALSE
        /\ answered = {}
        /\ err = FALSE

Cancel == /\ ~cancelled
          /\ cancelled' = TRUE
          /\ UNCHANGED <<status, returned, answered, err>>

Start(t) == /\ status[t] = "queued"
            /\ Cardinality(Running) < Slots
            /\ status' = [status EXCEPT ![t] = "running"]
            /\ UNCHANGED <<cancelled, returned, answered, err>>

Finish(t) == /\ status[t] = "running"
             /\ status' = [status EXCEPT ![t] = "finished"]
             /\ UNCHANGED <<cancelled, returned, answered, err>>

GiveUp(t) == /\ status[t] = "queued"
             /\ cancelled
             /\ status' = [status EXCEPT ![t] = "finished"]
             /\ UNCHANGED <<cancelled, returned, answered, err>>

\* An empty batch returns at once, and without an error even when cancelled.
Return == /\ ~returned
          /\ \A t \in Task : status[t] = "finished"
          /\ returned' = TRUE
          /\ answered' = Task
          /\ err' = (cancelled /\ Task # {})
          /\ UNCHANGED <<status, cancelled>>

Next == \/ Cancel
        \/ Return
        \/ \E t \in Task : Start(t) \/ Finish(t) \/ GiveUp(t)

Spec == Init /\ [][Next]_vars

==============================================================================
