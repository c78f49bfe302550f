----------------------------- MODULE ReActAgent ------------------------------
(***************************************************************************)
(* One agent instance: Run of the research, execution and verification     *)
(* agents (internal/agent) with the tool registry it calls                 *)
(* (internal/tools/tool.go).  The LLM answers what it likes, the tools     *)
(* succeed or fail, and the context may be cancelled at any moment.        *)
(***************************************************************************)
EXTENDS Naturals, Sequences, SequencesExt, FiniteSets, AgentStates

CONSTANTS maxReActSteps,  \* the constant of that name
          Content,        \* what a terminal response may say, "" included
          ToolName,       \* the tool names an LLM may come up with
          Pay,            \* PlaceUPITransaction
          Registry,       \* the tools registered for each kind of agent
          MaxBatch,       \* bound: tool calls in one response
          MaxRuns         \* bound: calls of Run on one instance

Kind == {"research", "verification", "execution"}
ReAct == {"research", "execution"}

ASSUME StepsAssumption == maxReActSteps \in Nat \ {0}
ASSUME BoundAssumption == MaxBatch \in Nat /\ MaxRuns \in Nat
ASSUME ContentAssumption ==
  "" \in Content /\ Content \cap {"max steps reached", "no output"} = {}
ASSUME ToolAssumption ==
  /\ Pay \in ToolName
  /\ Registry \in [Kind -> SUBSET ToolName]
  /\ \A k \in Kind : Pay \in Registry[k] => k = "execution"

VARIABLES
  ctxDone,  \* ctx.Done() is closed
  kind,     \* which agent this is
  sm,       \* its StateMachine
  pc,       \* where Run is
  runs,     \* calls of Run so far
  step,     \* the loop variable
  history,  \* messages: the conversation so far
  cut,      \* its length when ctx was cancelled
  pending,  \* tool calls of the last response still to execute
  result    \* what the latest Run returned

agentVars == <<kind, sm, pc, runs, step, history, cut, pending, result>>
vars == <<ctxDone, agentVars>>

\* A Result: does it carry the task's ID, what does it say, with which error.
Res(named, output, err) == [named |-> named, output |-> output, err |-> err]
NoResult == Res(FALSE, "", "nil")
Results == [named : BOOLEAN, output : Content \cup {"max steps reached", "no output"},
            err : {"nil", "state", "ctx", "llm"}]

User == [role |-> "user", calls |-> <<>>, ok |-> TRUE]
Assistant(calls) == [role |-> "assistant", calls |-> calls, ok |-> TRUE]

Working == [research |-> "researching", verification |-> "verifying",
            execution |-> "executing"]
Batches == BoundedSeq(ToolName, MaxBatch)

\* Run returns: the deferred bookkeeping of every return statement.
Finish(next, res) == /\ sm' = Transition(sm, next)
                     /\ pc' = "returned"
                     /\ result' = res

-----------------------------------------------------------------------------
(* Deliberately wrong variants of definitions below, one per plausible bug.  *)
(* No specification uses them; they show what each property can detect.      *)
MayBegin_Always == TRUE                 \* the Transition error is ignored
Exhausted_OffByOne == step > maxReActSteps
CtxAlive_Ignored == TRUE                \* an agent that does not carry ctx
AfterTool_StopOnError(ok) == IF ok THEN Tail(pending) ELSE <<>>
NextStep_FreeSteps ==                   \* steps without a tool do not count
  IF Last(history).role = "tool" THEN step + 1 ELSE step
Tool_AlwaysError(name, ok) == [role |-> "tool", calls |-> <<name>>, ok |-> FALSE]
\* the transition to Failed is forgotten
LLMError_NoTransition ==
  /\ pc \in {"request", "await"}
  /\ pc' = "returned" /\ result' = Res(FALSE, "", "llm")
  /\ UNCHANGED <<ctxDone, kind, sm, runs, step, history, cut, pending>>
\* a failed request is sent again
LLMError_Retry ==
  /\ pc \in {"request", "await"} /\ pc' = "request"
  /\ UNCHANGED <<ctxDone, kind, sm, runs, step, history, cut, pending, result>>

-----------------------------------------------------------------------------
\* A message that carries a tool's observation.
Tool(name, ok) == [role |-> "tool", calls |-> <<name>>, ok |-> ok]

\* What the steps of Run test or compute.
MayBegin == Permitted(sm, Working[kind])
Exhausted == step = maxReActSteps
CtxAlive == ~ctxDone
Known(name) == name \in Registry[kind]
AfterTool(ok) == Tail(pending)
NextStep == step + 1

AgentInit == /\ sm = "idle" /\ pc = "idle"
             /\ runs = 0 /\ step = 0
             /\ history = <<>> /\ pending = <<>>
             /\ cut = 0
             /\ result = NoResult

Init == ctxDone = FALSE /\ kind \in Kind /\ AgentInit

\* Run's first transition: refused on an instance that was already used.
Begin ==
  /\ pc \in {"idle", "returned"}
  /\ runs < MaxRuns
  /\ runs' = runs + 1
  /\ \/ /\ MayBegin
        /\ sm' = Working[kind]
        /\ pc' = IF kind \in ReAct THEN "top" ELSE "request"
        /\ history' = <<User>>
        /\ step' = 0
        /\ UNCHANGED result
     \/ /\ ~MayBegin
        /\ Finish(sm, Res(FALSE, "", "state"))
        /\ UNCHANGED <<history, step>>
  /\ UNCHANGED <<ctxDone, kind, cut, pending>>

\* The head of the loop: the step bound, then the look at ctx.Done().
LoopHead ==
  /\ pc = "top"
  /\ \/ /\ Exhausted
        /\ Finish("failed", Res(TRUE, "max steps reached", "nil"))
     \/ /\ ~Exhausted /\ ~CtxAlive
        /\ Finish("failed", Res(TRUE, "", "ctx"))
     \/ /\ ~Exhausted /\ CtxAlive
        /\ pc' = "request"
        /\ UNCHANGED <<sm, result>>
  /\ UNCHANGED <<ctxDone, kind, runs, step, history, cut, pending>>

\* CompleteWithTools sends a request that carries ctx: with ctx done nothing
\* is sent and the call fails.
Send == /\ pc = "request"
        /\ CtxAlive
        /\ pc' = "await"
        /\ UNCHANGED <<ctxDone, kind, sm, runs, step, history, cut, pending,
                       result>>

LLMError == /\ pc \in {"request", "await"}
            /\ Finish("failed", Res(FALSE, "", "llm"))
            /\ UNCHANGED <<ctxDone, kind, runs, step, history, cut, pending>>

\* A terminal response. An empty one ends a ReAct loop like exhaustion does.
Answer(text) ==
  /\ pc = "await"
  /\ IF kind = "verification"
     THEN Finish("done", Res(TRUE, IF text = "" THEN "no output" ELSE text, "nil"))
     ELSE IF text = "" THEN Finish("failed", Res(TRUE, "max steps reached", "nil"))
                       ELSE Finish("done", Res(TRUE, text, "nil"))
  /\ UNCHANGED <<ctxDone, kind, runs, step, history, cut, pending>>

\* A response that asks for tools, possibly for none. The verification agent
\* looks at the content only, which is then empty.
AskTools(calls) ==
  /\ pc = "await"
  /\ \/ /\ kind = "verification"
        /\ Finish("done", Res(TRUE, "no output", "nil"))
        /\ UNCHANGED <<history, pending>>
     \/ /\ kind \in ReAct
        /\ history' = Append(history, Assistant(calls))
        /\ pending' = calls
        /\ pc' = "tools"
        /\ UNCHANGED <<sm, result>>
  /\ UNCHANGED <<ctxDone, kind, runs, step, cut>>

\* Registry.Execute: an unknown tool is an error. Either way the observation
\* is appended, and ctx is not looked at between the calls of a batch.
ExecuteTool(ok) ==
  /\ pc = "tools"
  /\ pending # <<>>
  /\ ok => Known(Head(pending))
  /\ pending' = AfterTool(ok)
  /\ history' = Append(history, Tool(Head(pending), ok))
  /\ UNCHANGED <<ctxDone, kind, sm, pc, runs, step, cut, result>>

ToolsDone ==
  /\ pc = "tools"
  /\ pending = <<>>
  /\ step' = NextStep
  /\ pc' = "top"
  /\ UNCHANGED <<ctxDone, kind, sm, runs, history, cut, pending, result>>

Cancel == /\ ~ctxDone
          /\ ctxDone' = TRUE
          /\ cut' = Len(history)
          /\ UNCHANGED <<kind, sm, pc, runs, step, history, pending, result>>

Work == \/ LoopHead \/ Send \/ LLMError \/ ToolsDone
        \/ \E text \in Content : Answer(text)
        \/ \E calls \in Batches : AskTools(calls)
        \/ \E ok \in BOOLEAN : ExecuteTool(ok)

Next == Begin \/ Work \/ Cancel

Spec == Init /\ [][Next]_vars

\* Every LLM call and every tool call of a Run returns in the end: the HTTP
\* clients carry timeouts, and here the operator answers the prompts.
FairSpec == Spec /\ WF_vars(Work)

-----------------------------------------------------------------------------
\* The variables keep their types, and a conversation exists while Run works.
TypeOK ==
  /\ ctxDone \in BOOLEAN /\ cut \in Nat
  /\ kind \in Kind
  /\ sm \in State
  /\ pc \in {"idle", "top", "request", "await", "tools", "returned"}
  /\ runs \in Nat /\ step \in 0..maxReActSteps
  /\ history \in Seq([role : {"user", "assistant", "tool"},
                      calls : Seq(ToolName), ok : BOOLEAN])
  /\ pending \in Seq(ToolName)
  /\ result \in Results

\* A returned instance is in a terminal state, and the state agrees with what
\* the caller got: Done comes with a text and no error, an error with Failed
\* (or, on a second Run, with the state the first one left).
StateMatchesResult ==
  pc = "returned" =>
    /\ sm \in Terminal
    /\ result.err = "nil" => result.named /\ result.output # ""
    /\ result.err \in {"ctx", "llm"} => sm = "failed"
    /\ sm = "done" => result.err \in {"nil", "state"}

\* What the LLM is sent is a well-formed conversation: each assistant turn is
\* followed by one tool message for each of its calls, in order, before the
\* next turn. The APIs reject anything else.
ConversationWellFormed ==
  pc \in {"request", "await"} =>
    /\ Head(history) = User
    /\ \A i \in DOMAIN history : history[i].role = "assistant" =>
         /\ i + Len(history[i].calls) <= Len(history)
         /\ \A j \in DOMAIN history[i].calls :
              /\ history[i + j].role = "tool"
              /\ history[i + j].calls = <<history[i].calls[j]>>
    /\ \A i \in DOMAIN history : history[i].role = "tool" =>
         \E j \in 1..(i - 1) : /\ history[j].role = "assistant"
                               /\ i - j <= Len(history[j].calls)

\* At most maxReActSteps responses are asked for in the life of an instance
\* (research.go:14), even if the LLM asks for empty batches or Run is called
\* again.
CostBound ==
  Cardinality({i \in DOMAIN history : history[i].role = "assistant"})
    + (IF pc \in {"request", "await"} THEN 1 ELSE 0) <= maxReActSteps

\* After the cancellation an agent executes the tools of one response at most,
\* the one it had or the one under way: no payment answers a request made after
\* the operator interrupted (execution.go:60, openai.go:67).
OneBatchAfterCancel ==
  ctxDone => \A i, k \in (cut + 1)..Len(history) :
    i < k /\ history[i].role = "tool" => history[k].role = "tool"

\* A used instance stays as it is: a second Run asks nothing and calls no tool.
SingleUse == [][(sm \in Terminal) => (UNCHANGED <<sm, history>>)]_vars

\* Every Run returns, with the LLM asking for tools for ever or for no tool.
RunReturns == (pc # "idle") ~> (pc = "returned")

==============================================================================
