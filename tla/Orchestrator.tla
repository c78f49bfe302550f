---------------------------- MODULE Orchestrator -----------------------------
(***************************************************************************)
(* One call of Orchestrator.Run (internal/orchestrator/orchestrator.go):   *)
(* a goroutine per task, the semaphore channel that caps how many hold an  *)
(* agent, the buffered result channel, the WaitGroup, the goroutine that   *)
(* closes the channel and the caller that drains it.  What the agent does  *)
(* inside agent.Run is module ReActAgent; here it is an arbitrary result.  *)
(***************************************************************************)
EXTENDS Integers, Sequences, FiniteSets

CONSTANTS Task,       \* the tasks of the slice handed to Run
          TaskType,   \* agent.TaskType
          TypeOf,     \* the Type field of each task
          maxWorkers  \* the MAX_WORKERS setting, before New clamps it

ASSUME TaskAssumption == IsFiniteSet(Task) /\ "" \notin Task
ASSUME TypeAssumption == TypeOf \in [Task -> TaskType]
ASSUME WorkersAssumption == maxWorkers \in Int

VARIABLES
  cancelled,  \* ctx.Done() is closed
  factories,  \* the task types with a registered factory
  main,       \* the goroutine that called Run
  pc,         \* the goroutine of each task
  sem,        \* tokens in the semaphore channel
  wg,         \* the WaitGroup's counter
  out,        \* the result a goroutine is about to send
  resultCh,   \* the result channel's buffer
  closed,     \* resultCh has been closed
  results,    \* the slice Run collects
  runErr      \* Run returned ctx.Err() # nil

envVars == <<cancelled, factories>>
callerVars == <<main, closed, results, runErr>>
vars == <<envVars, callerVars, pc, sem, wg, out, resultCh>>

\* A Result as the caller can tell it apart: the TaskID it carries ("" when
\* the agent returned a zero Result) and its error. "from" is a history
\* field: the goroutine that sent it.
Result == [from : Task, id : Task \cup {""},
           err : {"nil", "cancelled", "nofactory", "agent"}]
NoResult == [id |-> "", err |-> "nil"]

\* The goroutines between "sem <- struct{}{}" and "<-sem".
Holding == {"lookup", "run", "send", "release"}
Holders == {t \in Task : pc[t] \in Holding}
Exited == {t \in Task : pc[t] = "exited"}

Goto(t, l) == pc' = [pc EXCEPT ![t] = l]

-----------------------------------------------------------------------------
(* Deliberately wrong variants of definitions below, one per plausible bug.  *)
(* No specification uses them; they show what each property can detect.      *)
New_NoClamp == maxWorkers
Charge_One == 1                                      \* wg.Add(1)
RoomInSem_OffByOne == sem <= (IF maxWorkers <= 0 THEN 1 ELSE maxWorkers)
CtxDone_Default == cancelled \/ sem > 0              \* a default branch
AfterSend_NoDefer(t) ==                              \* wg.Done at the end only
  IF pc[t] = "send" THEN "release" ELSE "exited"
AllDone_NoWait == TRUE                               \* no wg.Wait
CtxErr_Nil == FALSE                                  \* return results, nil

-----------------------------------------------------------------------------
\* The semaphore's capacity: the setting, clamped to one.
New == IF maxWorkers <= 0 THEN 1 ELSE maxWorkers

\* What the operations of Run test or compute.
Charge == Cardinality(Task)                          \* wg.Add(len(tasks))
RoomInSem == sem < New                               \* sem <- struct{}{}
CtxDone == cancelled                                 \* <-ctx.Done()
AfterSend(t) == IF pc[t] = "send" THEN "release" ELSE "done"
AllDone == wg = 0                                    \* wg.Wait()
CtxErr == cancelled                                  \* ctx.Err()

Init == /\ cancelled = FALSE
        /\ factories = {}
        /\ main = "idle"
        /\ pc = [t \in Task |-> "new"]
        /\ sem = 0
        /\ wg = 0
        /\ out = [t \in Task |-> NoResult]
        /\ resultCh = <<>>
        /\ closed = FALSE
        /\ results = <<>>
        /\ runErr = FALSE

\* The signal context of main is cancelled: at any moment, once.
Cancel == /\ ~cancelled
          /\ cancelled' = TRUE
          /\ UNCHANGED <<callerVars, factories, pc, sem, wg, out, resultCh>>

\* Any goroutine may register a factory, even while Run is under way: the
\* map is written and read under the same RWMutex.
RegisterFactory(ty) ==
  /\ ty \notin factories
  /\ factories' = factories \cup {ty}
  /\ UNCHANGED <<callerVars, cancelled, pc, sem, wg, out, resultCh>>

\* Run is entered: an empty slice returns (nil, nil) at once, otherwise the
\* WaitGroup is charged with every task before the first goroutine exists.
Call == /\ main = "idle"
        /\ main' = IF Task = {} THEN "returned" ELSE "spawning"
        /\ wg' = Charge
        /\ UNCHANGED <<envVars, pc, sem, out, resultCh, closed, results, runErr>>

Spawn(t) == /\ main = "spawning"
            /\ pc[t] = "new"
            /\ Goto(t, "select")
            /\ UNCHANGED <<envVars, callerVars, sem, wg, out, resultCh>>

\* All goroutines, the closing one included, have been started.
StartRange == /\ main = "spawning"
              /\ \A t \in Task : pc[t] # "new"
              /\ main' = "ranging"
              /\ UNCHANGED <<envVars, pc, sem, wg, out, resultCh, closed, results, runErr>>

-----------------------------------------------------------------------------
\* The select of a task's goroutine. When the semaphore has room and the
\* context is done, Go picks either branch.
AcquireSlot(t) ==
  /\ pc[t] = "select"
  /\ RoomInSem
  /\ sem' = sem + 1
  /\ Goto(t, "lookup")
  /\ UNCHANGED <<envVars, callerVars, wg, out, resultCh>>

GiveUp(t) ==
  /\ pc[t] = "select"
  /\ CtxDone
  /\ out' = [out EXCEPT ![t] = [from |-> t, id |-> t, err |-> "cancelled"]]
  /\ Goto(t, "skip")
  /\ UNCHANGED <<envVars, callerVars, sem, wg, resultCh>>

LookupFactory(t) ==
  /\ pc[t] = "lookup"
  /\ IF TypeOf[t] \in factories
     THEN Goto(t, "run") /\ UNCHANGED out
     ELSE /\ Goto(t, "send")
          /\ out' = [out EXCEPT ![t] =
                       [from |-> t, id |-> t, err |-> "nofactory"]]
  /\ UNCHANGED <<envVars, callerVars, sem, wg, resultCh>>

\* What agent.Run may hand back: a Result with the task's ID, one that also
\* carries ctx.Err() (a step boundary saw the cancellation), or the zero
\* Result with an error (the LLM call failed), whose Err Run then fills in.
AgentResult(t) ==
  {[from |-> t, id |-> t, err |-> "nil"], [from |-> t, id |-> "", err |-> "agent"]}
    \cup (IF cancelled THEN {[from |-> t, id |-> t, err |-> "cancelled"]} ELSE {})

AgentReturns(t) ==
  /\ pc[t] = "run"
  /\ \E r \in AgentResult(t) : out' = [out EXCEPT ![t] = r]
  /\ Goto(t, "send")
  /\ UNCHANGED <<envVars, callerVars, sem, wg, resultCh>>

\* The channel has one place per task: a send blocks only when it is full.
Send(t) == /\ pc[t] \in {"send", "skip"}
           /\ Len(resultCh) < Cardinality(Task)
           /\ resultCh' = Append(resultCh, out[t])
           /\ out' = [out EXCEPT ![t] = NoResult]
           /\ Goto(t, AfterSend(t))
           /\ UNCHANGED <<envVars, callerVars, sem, wg>>

\* Deferred calls run last in, first out: the token goes back before wg.Done.
ReleaseSlot(t) ==
  /\ pc[t] = "release"
  /\ sem' = sem - 1
  /\ Goto(t, "done")
  /\ UNCHANGED <<envVars, callerVars, wg, out, resultCh>>

Done(t) == /\ pc[t] = "done"
           /\ wg' = wg - 1
           /\ Goto(t, "exited")
           /\ UNCHANGED <<envVars, callerVars, sem, out, resultCh>>

-----------------------------------------------------------------------------
CloseResults == /\ main = "ranging"
                /\ ~closed
                /\ AllDone
                /\ closed' = TRUE
                /\ UNCHANGED <<envVars, main, pc, sem, wg, out, resultCh, results, runErr>>

Collect == /\ main = "ranging"
           /\ resultCh # <<>>
           /\ results' = Append(results, Head(resultCh))
           /\ resultCh' = Tail(resultCh)
           /\ UNCHANGED <<envVars, main, pc, sem, wg, out, closed, runErr>>

Return == /\ main = "ranging"
          /\ closed /\ resultCh = <<>>
          /\ main' = "returned"
          /\ runErr' = CtxErr
          /\ UNCHANGED <<envVars, pc, sem, wg, out, resultCh, closed, results>>

Terminated == main = "returned" /\ UNCHANGED vars

-----------------------------------------------------------------------------
\* The steps of a task's goroutine that take no time outside the process.
Goroutine(t) == \/ AcquireSlot(t) \/ GiveUp(t) \/ LookupFactory(t) \/ Send(t)
                \/ ReleaseSlot(t) \/ Done(t)
Main == \/ Call \/ StartRange \/ Collect \/ Return
        \/ \E t \in Task : Spawn(t)

Next == \/ Cancel
        \/ \E ty \in TaskType : RegisterFactory(ty)
        \/ Main
        \/ CloseResults
        \/ \E t \in Task : Goroutine(t) \/ AgentReturns(t)
        \/ Terminated

Spec == Init /\ [][Next]_vars

\* The Go scheduler runs every goroutine that can run. An agent's own time
\* is bounded only once its context is cancelled: every provider and tool
\* is handed ctx, and a prompt to the operator may otherwise wait for ever.
Fairness == /\ WF_vars(Main)
            /\ WF_vars(CloseResults)
            /\ \A t \in Task : /\ WF_vars(Goroutine(t))
                               /\ WF_vars(cancelled /\ AgentReturns(t))

FairSpec == Spec /\ Fairness

-----------------------------------------------------------------------------
\* The variables keep their types: the slices and the channel hold results
\* of this batch's goroutines, the two counters stay natural numbers (a
\* negative WaitGroup counter panics).
TypeOK ==
  /\ cancelled \in BOOLEAN
  /\ factories \in SUBSET TaskType
  /\ main \in {"idle", "spawning", "ranging", "returned"}
  /\ pc \in [Task -> {"new", "select", "lookup", "run", "send", "skip",
                      "release", "done", "exited"}]
  /\ sem \in Nat
  /\ wg \in Nat
  /\ out \in [Task -> Result \cup {NoResult}]
  /\ resultCh \in Seq(Result)
  /\ closed \in BOOLEAN
  /\ results \in Seq(Result)
  /\ runErr \in BOOLEAN

\* At most maxWorkers goroutines are between acquiring and releasing a token,
\* and the channel counts exactly those: no token is leaked or freed twice
\* (orchestrator.go:77-83).
WorkerBound == Cardinality(Holders) = sem /\ sem <= New

\* resultCh is closed only after every goroutine is past its send, so that
\* no send can panic (orchestrator.go:108-111).
NoSendAfterClose == closed => Exited = Task

\* When Run returns, the slice holds exactly one result of every task's
\* goroutine: none lost in the channel, dropped on cancellation or sent twice.
OneResultPerTask ==
  main = "returned" => /\ Len(results) = Cardinality(Task)
                       /\ {results[i].from : i \in DOMAIN results} = Task

\* A task that was given up, or whose agent saw ctx.Done() at a step boundary,
\* always comes with an error of Run itself: if that is nil, neither happened
\* (orchestrator.go:57-58, :118).  An LLM call that ctx cut is an error of the
\* agent's, like any other failure of that call.
CancelReported ==
  main = "returned" /\ ~runErr =>
    \A i \in DOMAIN results : results[i].err # "cancelled"

\* Run never outlives its agents: if every agent that starts returns, so
\* does Run. No goroutine is stuck on the semaphore, the channel or the
\* WaitGroup.
ReturnsIfAgentsDo ==
  (\A t \in Task : (pc[t] = "run") ~> (pc[t] # "run")) => <>(main = "returned")

\* Once the context is cancelled Run returns, whatever the operator and the
\* remote services do (orchestrator.go:54-55).
ReturnsOnCancel == cancelled ~> (main = "returned")


\* Run implements the batch of module TaskBatch: a task is running while its
\* goroutine holds a token, and is answered when its result has been returned.
BatchStatus == [t \in Task |-> CASE pc[t] \in {"new", "select"} -> "queued"
                                 [] pc[t] \in Holding -> "running"
                                 [] OTHER -> "finished"]
BatchReturned == main = "returned"
BatchAnswered == IF main = "returned"
                 THEN {results[i].from : i \in DOMAIN results} ELSE {}
Batch == INSTANCE TaskBatch WITH Slots <- New, status <- BatchStatus,
           returned <- BatchReturned, answered <- BatchAnswered, err <- runErr
ImplementsTaskBatch == Batch!Spec

==============================================================================
