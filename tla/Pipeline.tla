------------------------------ MODULE Pipeline -------------------------------
(***************************************************************************)
(* The pipeline of cmd/sentinel/main.go: research, verification and        *)
(* execution, one task each, every stage a call of Orchestrator.Run with a *)
(* batch of one (module Orchestrator) that runs a fresh agent (module      *)
(* ReActAgent).  The payment tool of the third stage asks the one guard of *)
(* the process, hence the operator (module TransactionGuard).  The gates   *)
(* between the stages are main's own.                                      *)
(***************************************************************************)
EXTENDS Integers, ReActAgent

CONSTANTS Mentioning,  \* the texts that contain "APPROVED"
          Approving,   \* the texts whose verdict is "APPROVED"
          Call,        \* bound: the invocations of the payment tool
          NoCall,      \* none of them
          Amount,      \* the values of amount_inr
          Threshold,   \* TRANSACTION_THRESHOLD_INR
          MaxLines,    \* bound: lines the operator types
          Disciplined  \* the operator types one line per prompt at most

ASSUME VerdictAssumption ==
  Approving \subseteq Mentioning /\ Mentioning \subseteq Content \ {""}
ASSUME CallAssumption == IsFiniteSet(Call) /\ NoCall \notin Call
ASSUME GuardAssumption ==
  /\ Amount \subseteq Int /\ Threshold \in Int
  /\ MaxLines \in Nat /\ Disciplined \in BOOLEAN

VARIABLES
  stage,    \* the stage main is in, or how it stopped
  phase,    \* within the stage: dispatch, agent or collected
  results,  \* the first Result of each stage
  call,     \* the invocation of the payment tool under way
  \* the state of module TransactionGuard, its pc under the name wait
  wait, amount, reader, heard, answer, token, stdin, eof, typed

mainVars == <<stage, phase, results>>
guardVars == <<wait, amount, reader, heard, answer, token, stdin, eof, typed>>
pipelineVars == <<vars, mainVars, call, guardVars>>

\* main makes one guard, and at most one agent runs at a time.
Guard == INSTANCE TransactionGuard
  WITH Agent <- {"agent"}, OwnerOf <- [c \in Call |-> "agent"], pc <- wait

NewCalls == {c \in Call : wait[c] = "new"}
Stopped == {"ended", "fatal"}

-----------------------------------------------------------------------------
(* Deliberately wrong variants of definitions below, one per plausible bug.  *)
(* No specification uses them; they show what each property can detect.      *)
AfterReview_ErrIgnored(r) ==
  IF r.output \in Mentioning \/ r.err # "nil" THEN "execution" ELSE "ended"
AfterReview_Again(r) ==                 \* ask for another report
  IF r.err # "nil" THEN "ended"
  ELSE IF r.output \in Mentioning THEN "execution" ELSE "research"

-----------------------------------------------------------------------------
\* The gate of the third stage: strings.Contains(verifyOutput, "APPROVED").
AfterReview(r) ==
  IF r.err = "nil" /\ r.output \in Mentioning THEN "execution" ELSE "ended"

PipelineInit == /\ kind = "research"
                /\ AgentInit
                /\ stage = "research"
                /\ phase = "dispatch"
                /\ results = [k \in Kind |-> NoResult]
                /\ call = NoCall
                /\ Guard!Init

\* Orchestrator.Run on a batch of one: the semaphore has room, so the task
\* gets a fresh agent from its factory, unless the select takes ctx.Done().
Dispatch ==
  /\ stage \in Kind
  /\ phase = "dispatch"
  /\ \/ /\ kind' = stage
        /\ sm' = "idle" /\ pc' = "idle" /\ runs' = 0 /\ step' = 0
        /\ history' = <<>> /\ cut' = 0 /\ pending' = <<>>
        /\ result' = NoResult
        /\ phase' = "agent"
        /\ UNCHANGED <<ctxDone, results>>
     \/ /\ ctxDone
        /\ results' = [results EXCEPT ![stage] = Res(TRUE, "", "ctx")]
        /\ phase' = "collected"
        /\ UNCHANGED vars
  /\ UNCHANGED <<stage, call, guardVars>>

\* The next tool call is one of PlaceUPITransaction, which is registered.
Paying == pc = "tools" /\ pending # <<>> /\ Head(pending) = Pay /\ Known(Pay)

\* The agent of the stage at work, outside the payment tool. The last conjunct
\* is the bound: a response asks for no more payments than there are calls left.
RunAgent == /\ phase = "agent"
            /\ ~Paying
            /\ Begin \/ Work
            /\ Len(SelectSeq(pending', LAMBDA name : name = Pay)) <= Cardinality(NewCalls)
            /\ UNCHANGED <<mainVars, call, guardVars>>

\* The payment tool is entered, by one call that nobody made before (the bound
\* of RunAgent leaves one), ...
EnterTool == /\ phase = "agent"
             /\ Paying /\ call = NoCall
             /\ NewCalls # {}
             /\ call' = CHOOSE c \in NewCalls : TRUE
             /\ Guard!Execute(call')
             /\ UNCHANGED <<agentVars, mainVars>>

\* ... and what it returns is the agent's observation.
LeaveTool == /\ phase = "agent"
             /\ call # NoCall
             /\ wait[call] \in {"placed", "failed"}
             /\ ExecuteTool(wait[call] = "placed")
             /\ call' = NoCall
             /\ UNCHANGED <<mainVars, guardVars>>

\* The reader of a prompt, which may outlive it, and the select.
ReadAnswer(c) == /\ stage \notin Stopped
                 /\ Guard!Read(c)
                 /\ UNCHANGED <<agentVars, mainVars, call>>
WaitOver == /\ phase = "agent"
            /\ \E c \in Call : Guard!SelectAnswer(c) \/ Guard!SelectCancel(c)
            /\ UNCHANGED <<agentVars, mainVars, call>>

Operator == /\ stage \notin Stopped
            /\ Guard!TypeLine \/ Guard!CloseStdin
            /\ UNCHANGED <<agentVars, mainVars, call>>

\* Run returns its one result to main.
Collect == /\ stage \in Kind
           /\ phase = "agent"
           /\ pc = "returned"
           /\ results' = [results EXCEPT ![stage] = result]
           /\ phase' = "collected"
           /\ UNCHANGED <<vars, stage, call, guardVars>>

\* log.Fatalf when the research has no result that counts.
AfterResearch ==
  /\ stage = "research"
  /\ phase = "collected"
  /\ stage' = IF results.research.err # "nil" THEN "fatal" ELSE "verification"
  /\ phase' = "dispatch"
  /\ UNCHANGED <<vars, results, call, guardVars>>

AfterVerification ==
  /\ stage = "verification"
  /\ phase = "collected"
  /\ stage' = AfterReview(results.verification)
  /\ phase' = "dispatch"
  /\ UNCHANGED <<vars, results, call, guardVars>>

AfterExecution == /\ stage = "execution"
                  /\ phase = "collected"
                  /\ stage' = "ended"
                  /\ UNCHANGED <<vars, phase, results, call, guardVars>>

Signal == /\ stage \notin Stopped
          /\ Cancel
          /\ UNCHANGED <<mainVars, call, guardVars>>

MainStep == \/ Dispatch \/ Collect \/ AfterResearch \/ AfterVerification
            \/ AfterExecution
PipelineNext == \/ MainStep \/ RunAgent \/ EnterTool \/ LeaveTool \/ WaitOver
                \/ \E c \in Call : ReadAnswer(c)
                \/ Operator \/ Signal

PipelineSpec == PipelineInit /\ [][PipelineNext]_pipelineVars

\* The process goes on as long as it can by itself: the HTTP clients carry
\* timeouts. Nobody has to answer a prompt, close stdin or interrupt.
PipelineFairSpec ==
  /\ PipelineSpec
  /\ WF_pipelineVars(MainStep \/ RunAgent \/ EnterTool \/ LeaveTool \/ WaitOver)
  /\ \A c \in Call : WF_pipelineVars(ReadAnswer(c))

-----------------------------------------------------------------------------
\* Money moves only in the third stage, after a research and a verification
\* that both returned without an error, the latter with a text that contains
\* "APPROVED" (main.go:102, :133, :142).
PaidOnlyAfterReview ==
  (\E c \in Call : wait[c] = "placed") =>
    /\ stage \in {"execution", "ended"}
    /\ results.research.err = "nil"
    /\ results.verification.err = "nil"
    /\ results.verification.output \in Mentioning

\* Until the signal, with an operator who types one line per prompt, what is
\* approved is what the operator approved: the stages and the loop of the agent
\* never have two prompts out at once (guard.go:37-39, execution.go:88).
PaidAsApproved ==
  ~ctxDone => \A c \in Call : wait[c] = "placed" /\ Guard!RequiresApproval(amount[c])
                                => heard[c].to = c

\* The LLM is shown what happened, so that it can tell a payment that is still
\* to be made: every payment placed by a tool call that is over is an observation
\* of the conversation, and every refusal, error or cancellation is none
\* (execution.go:88-105).
PaymentsShown ==
  stage = "execution" =>
    Cardinality({c \in Call \ {call} : wait[c] = "placed"})
      = Cardinality({i \in DOMAIN history : /\ history[i].role = "tool" /\ history[i].ok
                                            /\ history[i].calls = <<Pay>>})

\* If no prompt stays unanswered, the process comes to its end, whatever the
\* LLM answers.
PipelineEnds ==
  []<>(\A c \in Call : wait[c] # "select") => <>(stage \in Stopped)

\* An interrupt ends the process, also when it waits for an operator who never
\* answers (guard.go:16-19, README.md:516).
SignalEnds == ctxDone ~> (stage \in Stopped)

\* What main.go:140 says of the third stage, "only if verification approved".
\* Checked where it fails: a rejection may contain the word.
ExecutionOnlyIfApproved ==
  stage = "execution" => results.verification.output \in Approving

==============================================================================
