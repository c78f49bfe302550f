--------------------------- MODULE ReActAgentProofs --------------------------
(***************************************************************************)
(* Proofs, for any registry, any tool calls and any number of steps and    *)
(* runs, of the invariants of module ReActAgent.  The conversation is      *)
(* described as it will be when the pending calls are answered, and the    *)
(* loop variable is tied to the number of responses in it.                 *)
(***************************************************************************)
EXTENDS ReActAgent, FiniteSetTheorems, TLAPS

Message == [role : {"user", "assistant", "tool"}, calls : Seq(ToolName), ok : BOOLEAN]
Loop == {"top", "request", "await", "tools"}

\* What the place of Run says of the rest: Run works in its own state, a fresh
\* instance has no conversation, and only a response leaves calls pending.
ControlInv ==
  /\ pc = "idle" => sm = "idle" /\ history = <<>> /\ step = 0
  /\ pc \in Loop => sm = Working[kind] /\ history # <<>>
  /\ pc \in {"top", "tools"} => kind \in ReAct
  /\ pc \in {"request", "await", "tools"} => step < maxReActSteps
  /\ pc # "tools" => pending = <<>>
  /\ history # <<>> => history[1] = User

\* The responses in a conversation, and its messages with those the pending
\* calls will add.
Turns(h) == {i \in DOMAIN h : h[i].role = "assistant"}
Due(i) == IF i <= Len(history) THEN history[i].calls
                               ELSE <<pending[i - Len(history)]>>

\* Each response is followed by one tool message for each of its calls, those
\* still to come included, and every tool message follows its response.
AnsweredInv ==
  /\ \A i \in Turns(history) :
       /\ i + Len(history[i].calls) <= Len(history) + Len(pending)
       /\ \A j \in DOMAIN history[i].calls :
            /\ Due(i + j) = <<history[i].calls[j]>>
            /\ i + j <= Len(history) => history[i + j].role = "tool"
  /\ \A i \in DOMAIN history : history[i].role = "tool" =>
       \E j \in Turns(history) : j < i /\ i - j <= Len(history[j].calls)
  /\ pending # <<>> => \E j \in Turns(history) :
       Len(history) + Len(pending) = j + Len(history[j].calls)

\* A step of the loop is a response.
StepInv == Cardinality(Turns(history)) = step + (IF pc = "tools" THEN 1 ELSE 0)

\* The response that is under way when ctx is cancelled is the next message.
CancelInv == /\ OneBatchAfterCancel
             /\ ctxDone /\ pc = "await" => Len(history) = cut

IInv == /\ TypeOK /\ ControlInv /\ StateMatchesResult
        /\ AnsweredInv /\ StepInv /\ CancelInv

-----------------------------------------------------------------------------
\* Abbreviations that are expanded everywhere.
USE DEF MayBegin, Exhausted, CtxAlive, Known, AfterTool, NextStep, Finish

\* The life cycle: an agent starts once, from idle, and ends once.
LEMMA LifeCycle ==
  ASSUME NEW k \in Kind
  PROVE  /\ Working[k] \in State \ (Terminal \cup {"idle"})
         /\ \A s \in Terminal, n \in State : ~Permitted(s, n)
         /\ Permitted("idle", Working[k])
         /\ Transition(Working[k], "done") = "done"
         /\ Transition(Working[k], "failed") = "failed"
         /\ \A s \in Terminal, n \in State : Transition(s, n) = s
BY DEF Kind, Working, State, Terminal, Permitted, Transition, validTransitions

\* A conversation that grows by one message.
LEMMA Grow ==
  ASSUME NEW h \in Seq(Message), NEW m \in Message
  PROVE  /\ Append(h, m) \in Seq(Message)
         /\ Len(Append(h, m)) = Len(h) + 1
         /\ \A i \in 1..Len(h) : Append(h, m)[i] = h[i]
         /\ Append(h, m)[Len(h) + 1] = m
OBVIOUS

\* Its responses are one more if the message is a response.
LEMMA TurnsGrow ==
  ASSUME NEW h \in Seq(Message), NEW m \in Message
  PROVE  Turns(Append(h, m)) = IF m.role = "assistant" THEN Turns(h) \cup {Len(h) + 1}
                                                       ELSE Turns(h)
<1> DEFINE g == Append(h, m)
<1>1. /\ DOMAIN h = 1..Len(h) /\ DOMAIN g = 1..(Len(h) + 1) /\ Len(h) \in Nat
      /\ \A i \in 1..Len(h) : g[i] = h[i]
      /\ g[Len(h) + 1] = m
  OBVIOUS
<1> HIDE DEF g
<1> QED BY <1>1 DEF Turns, g

\* The number of responses, which is finite.
LEMMA TurnsCount ==
  ASSUME NEW h \in Seq(Message)
  PROVE  /\ IsFiniteSet(Turns(h)) /\ Cardinality(Turns(h)) \in Nat
         /\ \A m \in Message : Cardinality(Turns(Append(h, m))) =
              IF m.role = "assistant" THEN Cardinality(Turns(h)) + 1
                                      ELSE Cardinality(Turns(h))
<1>1. DOMAIN h = 1..Len(h) /\ Len(h) \in Nat
  OBVIOUS
<1>2. Turns(h) \in SUBSET (1..Len(h))
  BY <1>1 DEF Turns
<1>3. IsFiniteSet(1..Len(h))
  BY <1>1, FS_Interval
<1>4. IsFiniteSet(Turns(h)) /\ Cardinality(Turns(h)) \in Nat
  BY <1>2, <1>3, FS_Subset, FS_CardinalityType
<1>5. Len(h) + 1 \notin Turns(h)
  BY <1>1, <1>2
<1>6. Cardinality(Turns(h) \cup {Len(h) + 1}) = Cardinality(Turns(h)) + 1
  BY <1>4, <1>5, FS_AddElement
<1> QED BY <1>4, <1>6, TurnsGrow

\* The messages of the model, and the calls of a response.
LEMMA Messages ==
  /\ User \in Message /\ User.role = "user" /\ <<User>> \in Seq(Message)
  /\ \A calls \in Seq(ToolName) : /\ Assistant(calls) \in Message
                                  /\ Assistant(calls).role = "assistant"
                                  /\ Assistant(calls).calls = calls
  /\ \A name \in ToolName, ok \in BOOLEAN : /\ Tool(name, ok) \in Message
                                            /\ Tool(name, ok).role = "tool"
                                            /\ Tool(name, ok).ok = ok
                                            /\ Tool(name, ok).calls = <<name>>
BY DEF Message, User, Assistant, Tool

\* The bound on a response leaves a sequence of tool names.
LEMMA BatchType == Batches \subseteq Seq(ToolName)
BY DEF Batches, BoundedSeq, SeqOf

\* The Results that Run returns.
LEMMA ResultType ==
  ASSUME NEW n \in BOOLEAN, NEW o \in Content \cup {"max steps reached", "no output"},
         NEW e \in {"nil", "state", "ctx", "llm"}
  PROVE  Res(n, o, e) \in Results
BY DEF Res, Results

-----------------------------------------------------------------------------
\* A new instance satisfies the invariant, also when ctx is already done.
LEMMA FreshIInv == ctxDone \in BOOLEAN /\ kind \in Kind /\ AgentInit => IInv
<1> SUFFICES ASSUME ctxDone \in BOOLEAN, kind \in Kind, AgentInit PROVE IInv
  OBVIOUS
<1>1. Turns(history) = {}
  BY DEF AgentInit, Turns
<1>2. Cardinality(Turns(history)) = 0
  BY <1>1, FS_EmptySet
<1>3. TypeOK
  <2>1. history \in Seq(Message) /\ pending \in Seq(ToolName)
    BY DEF AgentInit
  <2>2. step \in 0..maxReActSteps
    BY StepsAssumption DEF AgentInit
  <2>3. result \in Results
    BY ContentAssumption, ResultType DEF AgentInit, NoResult
  <2>4. sm \in State
    BY DEF AgentInit, State
  <2> QED BY <2>1, <2>2, <2>3, <2>4 DEF TypeOK, AgentInit, Message
<1>4. ControlInv /\ StateMatchesResult
  BY DEF AgentInit, ControlInv, StateMatchesResult, Loop
<1>5. AnsweredInv
  BY <1>1 DEF AgentInit, AnsweredInv
<1>6. StepInv
  BY <1>2 DEF AgentInit, StepInv
<1>7. CancelInv
  BY DEF AgentInit, CancelInv, OneBatchAfterCancel
<1> QED BY <1>3, <1>4, <1>5, <1>6, <1>7 DEF IInv

\* What TypeOK says of the conversation, in terms of Message.
LEMMA Types == TypeOK <=>
  /\ ctxDone \in BOOLEAN /\ cut \in Nat /\ kind \in Kind /\ sm \in State
  /\ pc \in Loop \cup {"idle", "returned"}
  /\ runs \in Nat /\ step \in 0..maxReActSteps
  /\ history \in Seq(Message) /\ pending \in Seq(ToolName) /\ result \in Results
BY DEF TypeOK, Message, Loop

\* Every step keeps the types.
LEMMA NextTypeOK == IInv /\ [Next]_vars => TypeOK'
<1> SUFFICES ASSUME IInv, [Next]_vars PROVE TypeOK'
  OBVIOUS
<1> DEFINE T == /\ ctxDone \in BOOLEAN /\ cut \in Nat /\ kind \in Kind /\ sm \in State
                /\ pc \in Loop \cup {"idle", "returned"}
                /\ runs \in Nat /\ step \in 0..maxReActSteps
                /\ history \in Seq(Message) /\ pending \in Seq(ToolName)
                /\ result \in Results
<1>0. T
  BY Types DEF IInv
<1> SUFFICES T'
  BY Types, PTL
<1>1. CASE UNCHANGED vars
  BY <1>0, <1>1 DEF vars, agentVars
<1>2. CASE Begin
  <2>1. history' \in Seq(Message)
    BY <1>0, <1>2, Messages DEF Begin
  <2>2. step' \in {0, step} /\ runs' = runs + 1
    BY <1>2 DEF Begin
  <2>3. sm' \in State
    BY <1>0, <1>2, LifeCycle DEF Begin, Transition
  <2>4. Res(FALSE, "", "state") \in Results
    BY ContentAssumption, ResultType
  <2>5. result' \in Results
    BY <1>0, <1>2, <2>4 DEF Begin
  <2>6. pc' \in {"top", "request", "returned"}
    BY <1>2 DEF Begin
  <2>7. UNCHANGED <<ctxDone, kind, cut, pending>>
    BY <1>2 DEF Begin
  <2> QED BY <1>0, <2>1, <2>2, <2>3, <2>5, <2>6, <2>7, StepsAssumption DEF Loop
<1>3. ASSUME LoopHead \/ LLMError \/ (\E text \in Content : Answer(text))
             \/ (\E calls \in Batches : AskTools(calls) /\ kind = "verification")
      PROVE  T'
  <2>1. UNCHANGED <<ctxDone, kind, runs, step, history, cut, pending>>
    BY <1>3 DEF LoopHead, LLMError, Answer, AskTools, ReAct
  <2>2. sm' \in State
    BY <1>0, <1>3 DEF LoopHead, LLMError, Answer, AskTools, Transition, State, ReAct
  <2>3. /\ Res(TRUE, "max steps reached", "nil") \in Results
        /\ Res(TRUE, "", "ctx") \in Results /\ Res(FALSE, "", "llm") \in Results
        /\ Res(TRUE, "no output", "nil") \in Results
        /\ \A text \in Content : Res(TRUE, text, "nil") \in Results
    BY ContentAssumption, ResultType
  <2>4. result' \in Results
    BY <1>0, <1>3, <2>3 DEF LoopHead, LLMError, Answer, AskTools, ReAct
  <2>5. pc' \in {"request", "returned"}
    BY <1>3 DEF LoopHead, LLMError, Answer, AskTools, ReAct
  <2> QED BY <1>0, <2>1, <2>2, <2>4, <2>5 DEF Loop
<1>4. CASE Send
  BY <1>0, <1>4 DEF Send, Loop
<1>5. ASSUME NEW calls \in Batches, AskTools(calls), kind # "verification" PROVE T'
  <2>1. calls \in Seq(ToolName)
    BY BatchType
  <2>2. history' = Append(history, Assistant(calls)) /\ pending' = calls /\ pc' = "tools"
        /\ UNCHANGED <<ctxDone, kind, sm, runs, step, cut, result>>
    BY <1>5 DEF AskTools
  <2>3. history' \in Seq(Message)
    BY <1>0, <2>1, <2>2, Messages, Grow
  <2> QED BY <1>0, <2>1, <2>2, <2>3 DEF Loop
<1>6. ASSUME NEW ok \in BOOLEAN, ExecuteTool(ok) PROVE T'
  <2>1. Head(pending) \in ToolName /\ Tail(pending) \in Seq(ToolName)
    BY <1>0, <1>6 DEF ExecuteTool
  <2>2. history' = Append(history, Tool(Head(pending), ok)) /\ pending' = Tail(pending)
        /\ UNCHANGED <<ctxDone, kind, sm, pc, runs, step, cut, result>>
    BY <1>6 DEF ExecuteTool
  <2>3. history' \in Seq(Message)
    BY <1>0, <2>1, <2>2, Messages, Grow
  <2> QED BY <1>0, <2>1, <2>2, <2>3
<1>7. CASE ToolsDone
  <2>1. step < maxReActSteps
    BY <1>7 DEF ToolsDone, IInv, ControlInv
  <2> QED BY <1>0, <1>7, <2>1, StepsAssumption DEF ToolsDone, Loop
<1>8. CASE Cancel
  BY <1>0, <1>8 DEF Cancel
<1> QED BY <1>1, <1>2, <1>3, <1>4, <1>5, <1>6, <1>7, <1>8 DEF Next, Work

-----------------------------------------------------------------------------
\* What the steps do to the conversation: Run starts one, a response or an
\* observation is appended, a batch is complete or ctx is cancelled, and the
\* rest leaves it alone: Run goes on, or returns with a state for its result.
Starts ==
  /\ pc = "idle" /\ pc' = IF kind \in ReAct THEN "top" ELSE "request"
  /\ sm' = Working[kind] /\ history' = <<User>> /\ step' = 0
  /\ UNCHANGED <<ctxDone, kind, cut, pending>>
Responds(calls) ==
  /\ pc = "await" /\ pc' = "tools" /\ kind \in ReAct
  /\ history' = Append(history, Assistant(calls)) /\ pending' = calls
  /\ UNCHANGED <<ctxDone, kind, sm, step, cut, result>>
Observes(ok) ==
  /\ pc = "tools" /\ pending # <<>> /\ (ok => Known(Head(pending)))
  /\ history' = Append(history, Tool(Head(pending), ok)) /\ pending' = Tail(pending)
  /\ UNCHANGED <<ctxDone, kind, sm, pc, step, cut, result>>
Completes ==
  /\ pc = "tools" /\ pc' = "top" /\ pending = <<>> /\ step' = step + 1
  /\ UNCHANGED <<ctxDone, kind, sm, history, cut, pending, result>>
Interrupts ==
  /\ ~ctxDone /\ ctxDone' = TRUE /\ cut' = Len(history)
  /\ UNCHANGED <<kind, sm, pc, step, history, pending, result>>
GoesOn ==
  /\ \/ pc' = pc
     \/ pc = "top" /\ pc' = "request" /\ step # maxReActSteps
     \/ pc = "request" /\ pc' = "await" /\ ~ctxDone
  /\ UNCHANGED <<ctxDone, kind, sm, step, history, cut, pending, result>>
Returns ==
  /\ pc' = "returned"
  /\ \/ /\ pc \in {"top", "request", "await"} /\ sm' = "failed"
        /\ \/ result' = Res(TRUE, "max steps reached", "nil")
           \/ result' = Res(TRUE, "", "ctx")
           \/ result' = Res(FALSE, "", "llm")
     \/ /\ pc = "await" /\ sm' = "done"
        /\ \E text \in (Content \ {""}) \cup {"no output"} :
             result' = Res(TRUE, text, "nil")
     \/ /\ pc = "returned" /\ sm' = sm
        /\ result' = Res(FALSE, "", "state")
  /\ UNCHANGED <<ctxDone, kind, step, history, cut, pending>>

\* Every step is one of these.
LEMMA Moves ==
  ASSUME IInv, [Next]_vars
  PROVE  \/ Starts \/ Completes \/ Interrupts \/ GoesOn \/ Returns
         \/ \E calls \in Seq(ToolName) : Responds(calls)
         \/ \E ok \in BOOLEAN : Observes(ok)
<1> USE DEF IInv
<1>0. kind \in Kind /\ pc \in Loop \cup {"idle", "returned"}
  BY Types
<1>1. /\ pc = "idle" => sm = "idle"
      /\ pc = "returned" => sm \in Terminal
      /\ pc \in Loop => sm = Working[kind]
  BY DEF ControlInv, StateMatchesResult
<1>2. CASE UNCHANGED vars
  BY <1>2 DEF vars, agentVars, GoesOn
<1>3. CASE Begin
  <2>1. CASE pc = "idle"
    BY <1>0, <1>1, <1>3, <2>1, LifeCycle DEF Begin, ReAct, Kind, Starts
  <2>2. CASE pc = "returned"
    <3>1. ~Permitted(sm, Working[kind]) /\ Transition(sm, sm) = sm
      BY <1>0, <1>1, <2>2, LifeCycle DEF Terminal, State
    <3> QED BY <1>3, <2>2, <3>1 DEF Begin, Returns
  <2> QED BY <1>3, <2>1, <2>2 DEF Begin
<1>4. CASE LoopHead
  BY <1>0, <1>1, <1>4, LifeCycle DEF LoopHead, Loop, GoesOn, Returns
<1>5. CASE LLMError
  BY <1>0, <1>1, <1>5, LifeCycle DEF LLMError, Loop, Returns
<1>6. ASSUME NEW text \in Content, Answer(text) PROVE Returns
  BY <1>0, <1>1, <1>6, LifeCycle DEF Answer, Loop, Returns
<1>7. ASSUME NEW calls \in Batches, AskTools(calls) PROVE Responds(calls) \/ Returns
  BY <1>0, <1>1, <1>7, LifeCycle DEF AskTools, Loop, Responds, Returns
<1>8. ASSUME NEW ok \in BOOLEAN, ExecuteTool(ok) PROVE Observes(ok)
  BY <1>8 DEF ExecuteTool, Observes
<1>9. CASE ToolsDone \/ Send \/ Cancel
  BY <1>9 DEF ToolsDone, Send, Cancel, Completes, GoesOn, Interrupts
<1> QED BY <1>2, <1>3, <1>4, <1>5, <1>6, <1>7, <1>8, <1>9, BatchType DEF Next, Work

\* Every step keeps the relation of pc to the other variables.
LEMMA NextControlInv == IInv /\ [Next]_vars => ControlInv' /\ StateMatchesResult'
<1> SUFFICES ASSUME IInv, [Next]_vars PROVE ControlInv' /\ StateMatchesResult'
  OBVIOUS
<1>0. /\ kind \in Kind /\ pc \in Loop \cup {"idle", "returned"}
      /\ history \in Seq(Message)
      /\ step \in 0..maxReActSteps /\ maxReActSteps \in Nat \ {0}
  BY Types, StepsAssumption DEF IInv
<1>c. ControlInv /\ StateMatchesResult
  BY DEF IInv
<1>1. CASE Starts
  <2>1. history' # <<>> /\ history'[1] = User
    BY <1>1 DEF Starts
  <2> QED BY <1>0, <1>c, <1>1, <2>1 DEF Starts, ControlInv, StateMatchesResult, Loop
<1>2. ASSUME NEW calls \in Seq(ToolName), Responds(calls)
      PROVE  ControlInv' /\ StateMatchesResult'
  <2>1. history' # <<>> /\ history'[1] = User
    <3>1. history # <<>> /\ Assistant(calls) \in Message
      BY <1>c, <1>2, Messages DEF Responds, ControlInv, Loop
    <3> QED BY <1>0, <1>c, <1>2, <3>1, Grow DEF Responds, ControlInv
  <2> QED BY <1>0, <1>c, <1>2, <2>1 DEF Responds, ControlInv, StateMatchesResult, Loop
<1>3. ASSUME NEW ok \in BOOLEAN, Observes(ok)
      PROVE  ControlInv' /\ StateMatchesResult'
  <2>1. history' # <<>> /\ history'[1] = User
    <3>1. history # <<>> /\ Head(pending) \in ToolName
      BY <1>c, <1>3, Types DEF Observes, ControlInv, Loop, IInv
    <3>2. Tool(Head(pending), ok) \in Message
      BY <3>1, Messages
    <3> QED BY <1>0, <1>c, <1>3, <3>1, <3>2, Grow DEF Observes, ControlInv
  <2> QED BY <1>0, <1>c, <1>3, <2>1 DEF Observes, ControlInv, StateMatchesResult, Loop
<1>4. CASE Completes
  BY <1>0, <1>c, <1>4 DEF Completes, ControlInv, StateMatchesResult, Loop
<1>5. CASE Interrupts
  BY <1>0, <1>c, <1>5 DEF Interrupts, ControlInv, StateMatchesResult, Loop
<1>6. CASE GoesOn
  <2>1. \/ pc' = pc
        \/ /\ pc \in {"top", "request"} /\ pc' \in {"request", "await"}
           /\ step < maxReActSteps
    BY <1>0, <1>c, <1>6 DEF GoesOn, ControlInv
  <2>2. UNCHANGED <<kind, sm, step, history, pending, result>>
    BY <1>6 DEF GoesOn
  <2> QED BY <1>0, <1>c, <2>1, <2>2 DEF ControlInv, StateMatchesResult, Loop
<1>7. CASE Returns
  <2>1. pc' = "returned" /\ UNCHANGED <<step, history, pending>> /\ pc # "tools"
    BY <1>7 DEF Returns
  <2>2. ControlInv'
    BY <1>c, <2>1 DEF ControlInv, Loop
  <2>3. StateMatchesResult'
    <3>1. ASSUME sm' = "failed",
                 NEW named \in BOOLEAN, NEW e \in {"ctx", "llm"}, result' = Res(named, "", e)
          PROVE  StateMatchesResult'
      <4>1. result'.err \in {"ctx", "llm"}
        BY <3>1 DEF Res
      <4> QED BY <3>1, <4>1 DEF StateMatchesResult, Terminal
    <3>4. CASE sm' = "failed" /\ result' = Res(TRUE, "max steps reached", "nil")
      <4>1. /\ result'.err = "nil" /\ result'.named = TRUE
            /\ result'.output # ""
        BY <3>4 DEF Res
      <4> QED BY <3>4, <4>1 DEF StateMatchesResult, Terminal
    <3>2. ASSUME sm' = "done", NEW text \in (Content \ {""}) \cup {"no output"},
                 result' = Res(TRUE, text, "nil")
          PROVE  StateMatchesResult'
      <4>1. /\ result'.err = "nil" /\ result'.named = TRUE
            /\ result'.output # ""
        BY <3>2 DEF Res
      <4> QED BY <3>2, <4>1 DEF StateMatchesResult, Terminal
    <3>3. CASE pc = "returned" /\ sm' = sm /\ result' = Res(FALSE, "", "state")
      <4>1. result'.err = "state" /\ sm \in Terminal
        BY <1>c, <3>3 DEF Res, StateMatchesResult
      <4> QED BY <3>3, <4>1 DEF StateMatchesResult
    <3> QED BY <1>7, <3>1, <3>2, <3>3, <3>4 DEF Returns
  <2> QED BY <2>2, <2>3
<1> QED BY <1>1, <1>2, <1>3, <1>4, <1>5, <1>6, <1>7, Moves

\* Every step of the loop is one response.
LEMMA NextStepInv == IInv /\ [Next]_vars => StepInv'
<1> SUFFICES ASSUME IInv, [Next]_vars PROVE StepInv'
  OBVIOUS
<1>0. history \in Seq(Message) /\ pending \in Seq(ToolName) /\ step \in Nat /\ StepInv
  BY Types, StepsAssumption DEF IInv
<1>1. CASE Starts
  <2>1. Turns(<<User>>) = {}
    BY Messages DEF Turns
  <2>2. Cardinality(Turns(history')) = 0 /\ step' = 0 /\ pc' # "tools"
    BY <1>1, <2>1, FS_EmptySet DEF Starts
  <2> QED BY <2>2 DEF StepInv
<1>2. ASSUME NEW calls \in Seq(ToolName), Responds(calls) PROVE StepInv'
  <2>1. Cardinality(Turns(history')) = Cardinality(Turns(history)) + 1
    BY <1>0, <1>2, Messages, TurnsCount DEF Responds
  <2> QED BY <1>0, <1>2, <2>1 DEF Responds, StepInv
<1>3. ASSUME NEW ok \in BOOLEAN, Observes(ok) PROVE StepInv'
  <2>1. Head(pending) \in ToolName
    BY <1>0, <1>3 DEF Observes
  <2>2. /\ Tool(Head(pending), ok) \in Message
        /\ Tool(Head(pending), ok).role = "tool"
    BY <2>1, Messages
  <2>3. Cardinality(Turns(history')) = Cardinality(Turns(history))
    BY <1>0, <1>3, <2>2, TurnsCount DEF Observes
  <2> QED BY <1>0, <1>3, <2>3 DEF Observes, StepInv
<1>4. CASE Completes
  BY <1>0, <1>4 DEF Completes, StepInv
<1>5. CASE Interrupts \/ GoesOn \/ Returns
  BY <1>0, <1>5 DEF Interrupts, GoesOn, Returns, StepInv
<1> QED BY <1>1, <1>2, <1>3, <1>4, <1>5, Moves

\* Every step keeps the observations in the order of the calls, those that are
\* still to come included.
LEMMA NextAnsweredInv == IInv /\ [Next]_vars => AnsweredInv'
<1> SUFFICES ASSUME IInv, [Next]_vars PROVE AnsweredInv'
  OBVIOUS
<1>0. /\ history \in Seq(Message) /\ pending \in Seq(ToolName)
      /\ Len(history) \in Nat /\ Len(pending) \in Nat /\ DOMAIN history = 1..Len(history)
      /\ \A i \in DOMAIN history : history[i].calls \in Seq(ToolName)
  <2>1. history \in Seq(Message) /\ pending \in Seq(ToolName)
    BY Types DEF IInv
  <2>2. \A i \in DOMAIN history : history[i] \in Message
    BY <2>1
  <2> QED BY <2>1, <2>2 DEF Message
<1>n. Len(history) \in Nat /\ Len(pending) \in Nat
  BY <1>0
<1>a. AnsweredInv /\ ControlInv
  BY DEF IInv
<1>1. CASE Starts
  <2>1. history' = <<User>> /\ pending' = <<>>
    BY <1>a, <1>1 DEF Starts, ControlInv
  <2>2. DOMAIN history' = {1} /\ history'[1].role = "user"
    BY <2>1, Messages
  <2> QED BY <2>1, <2>2 DEF AnsweredInv, Turns
<1>2. ASSUME NEW calls \in Seq(ToolName), Responds(calls) PROVE AnsweredInv'
  <2> DEFINE n == Len(history) + 1
  <2>1. pending = <<>> /\ pending' = calls
    BY <1>a, <1>2 DEF Responds, ControlInv
  <2>2. /\ history' \in Seq(Message) /\ Len(history') = n /\ DOMAIN history' = 1..n
        /\ \A i \in DOMAIN history : history'[i] = history[i]
        /\ history'[n].role = "assistant" /\ history'[n].calls = calls
        /\ Turns(history') = Turns(history) \cup {n}
    BY <1>0, <1>2, Messages, Grow, TurnsGrow DEF Responds
  <2>3. ASSUME NEW i \in Turns(history')
        PROVE  /\ i + Len(history'[i].calls) <= Len(history') + Len(pending')
               /\ \A j \in DOMAIN history'[i].calls :
                    /\ Due(i + j)' = <<history'[i].calls[j]>>
                    /\ i + j <= Len(history') => history'[i + j].role = "tool"
    <3>1. CASE i = n
      BY <1>0, <2>1, <2>2, <3>1 DEF Due
    <3>2. CASE i \in Turns(history)
      <4>1. i \in 1..Len(history) /\ history'[i] = history[i]
        BY <1>0, <2>2, <3>2 DEF Turns
      <4>2. /\ i + Len(history[i].calls) <= Len(history)
            /\ \A j \in DOMAIN history[i].calls :
                 /\ Due(i + j) = <<history[i].calls[j]>>
                 /\ i + j <= Len(history) => history[i + j].role = "tool"
        BY <1>0, <1>a, <2>1, <3>2 DEF AnsweredInv
      <4>3. \A j \in DOMAIN history[i].calls : i + j \in 1..Len(history)
        BY <1>0, <4>1, <4>2
      <4>4. \A j \in DOMAIN history[i].calls : Due(i + j)' = Due(i + j)
        BY <1>0, <2>2, <4>3 DEF Due
      <4> QED BY <1>0, <2>1, <2>2, <4>1, <4>2, <4>3, <4>4
    <3> QED BY <2>2, <3>1, <3>2
  <2>4. ASSUME NEW i \in DOMAIN history', history'[i].role = "tool"
        PROVE  \E j \in Turns(history') : j < i /\ i - j <= Len(history'[j].calls)
    <3>1. i \in DOMAIN history /\ history[i].role = "tool"
      BY <1>0, <2>2, <2>4
    <3>2. PICK j \in Turns(history) : j < i /\ i - j <= Len(history[j].calls)
      BY <1>a, <3>1 DEF AnsweredInv
    <3>3. history'[j] = history[j]
      BY <2>2, <3>2 DEF Turns
    <3> QED BY <2>2, <3>2, <3>3
  <2>5. Len(history') + Len(pending') = n + Len(history'[n].calls)
    BY <2>1, <2>2
  <2> QED BY <2>2, <2>3, <2>4, <2>5 DEF AnsweredInv
<1>3. ASSUME NEW ok \in BOOLEAN, Observes(ok) PROVE AnsweredInv'
  <2> DEFINE n == Len(history) + 1
  <2>1. /\ pending # <<>> /\ Head(pending) = pending[1] /\ Head(pending) \in ToolName
        /\ Len(pending') = Len(pending) - 1
        /\ \A k \in 1..Len(pending') : pending'[k] = pending[k + 1]
    BY <1>0, <1>3 DEF Observes
  <2>2. /\ history' \in Seq(Message) /\ Len(history') = n /\ DOMAIN history' = 1..n
        /\ \A i \in DOMAIN history : history'[i] = history[i]
        /\ history'[n].role = "tool" /\ history'[n].calls = <<pending[1]>>
        /\ Turns(history') = Turns(history)
    BY <1>0, <1>3, <2>1, Messages, Grow, TurnsGrow DEF Observes
  <2>d. ASSUME NEW m \in 1..(Len(history) + Len(pending)) PROVE Due(m)' = Due(m)
    <3>1. CASE m <= Len(history)
      <4>1. m \in DOMAIN history /\ m <= Len(history')
        BY <1>0, <2>2, <2>d, <3>1
      <4>2. Due(m)' = history'[m].calls /\ Due(m) = history[m].calls
        BY <3>1, <4>1 DEF Due
      <4> QED BY <2>2, <4>1, <4>2
    <3>2. CASE m = n
      BY <1>0, <2>2, <2>d, <3>2 DEF Due
    <3>3. CASE m > n
      <4>1. m - n \in 1..Len(pending') /\ m - Len(history) = (m - n) + 1
        BY <1>0, <2>1, <2>d, <3>3
      <4>2. ~(m <= Len(history)) /\ ~(m <= Len(history')) /\ m - Len(history') = m - n
        BY <1>n, <2>2, <2>d, <3>3
      <4>3. Due(m) = <<pending[(m - n) + 1]>> /\ Due(m)' = <<pending'[m - n]>>
        BY <4>1, <4>2 DEF Due
      <4> QED BY <2>1, <4>1, <4>3
    <3> QED BY <1>n, <2>d, <3>1, <3>2, <3>3
  <2>3. ASSUME NEW i \in Turns(history')
        PROVE  /\ i + Len(history'[i].calls) <= Len(history') + Len(pending')
               /\ \A j \in DOMAIN history'[i].calls :
                    /\ Due(i + j)' = <<history'[i].calls[j]>>
                    /\ i + j <= Len(history') => history'[i + j].role = "tool"
    <3>1. i \in 1..Len(history) /\ i \in Turns(history) /\ history'[i] = history[i]
      BY <1>0, <2>2 DEF Turns
    <3>2. /\ i + Len(history[i].calls) <= Len(history) + Len(pending)
          /\ \A j \in DOMAIN history[i].calls :
               /\ Due(i + j) = <<history[i].calls[j]>>
               /\ i + j <= Len(history) => history[i + j].role = "tool"
      BY <1>a, <3>1 DEF AnsweredInv
    <3>3. history[i].calls \in Seq(ToolName)
      BY <1>0, <3>1
    <3>4. ASSUME NEW j \in DOMAIN history[i].calls
          PROVE  /\ Due(i + j)' = Due(i + j)
                 /\ i + j <= Len(history') => history'[i + j].role = "tool"
      <4>1. i + j \in 1..(Len(history) + Len(pending))
        BY <1>0, <3>1, <3>2, <3>3
      <4>2. Due(i + j)' = Due(i + j)
        BY <4>1, <2>d
      <4>3. i + j <= Len(history') => history'[i + j].role = "tool"
        BY <1>0, <2>2, <3>2, <4>1
      <4> QED BY <4>2, <4>3
    <3>5. i + Len(history[i].calls) <= Len(history') + Len(pending')
      BY <1>0, <2>1, <2>2, <3>2
    <3> QED BY <3>1, <3>2, <3>4, <3>5
  <2>4. PICK k \in Turns(history) :
          Len(history) + Len(pending) = k + Len(history[k].calls)
    BY <1>a, <2>1 DEF AnsweredInv
  <2>5. k \in 1..Len(history) /\ history'[k] = history[k]
    BY <1>0, <2>2, <2>4 DEF Turns
  <2>6. ASSUME NEW i \in DOMAIN history', history'[i].role = "tool"
        PROVE  \E j \in Turns(history') : j < i /\ i - j <= Len(history'[j].calls)
    <3>1. CASE i = n
      BY <1>0, <2>1, <2>2, <2>4, <2>5, <3>1
    <3>2. CASE i \in DOMAIN history
      <4>1. PICK j \in Turns(history) : j < i /\ i - j <= Len(history[j].calls)
        BY <1>a, <2>2, <2>6, <3>2 DEF AnsweredInv
      <4>2. history'[j] = history[j]
        BY <2>2, <4>1 DEF Turns
      <4> QED BY <2>2, <4>1, <4>2
    <3> QED BY <1>0, <2>2, <3>1, <3>2
  <2>7. Len(history') + Len(pending') = k + Len(history'[k].calls)
    <3>1. Len(history[k].calls) \in Nat
      BY <1>0, <2>5
    <3>2. Len(history') = Len(history) + 1 /\ Len(pending') = Len(pending) - 1
      BY <2>1, <2>2
    <3> QED BY <1>n, <2>4, <2>5, <3>1, <3>2
  <2> QED BY <2>2, <2>3, <2>4, <2>6, <2>7 DEF AnsweredInv
<1>4. CASE Completes \/ Interrupts \/ GoesOn \/ Returns
  <2>1. UNCHANGED <<history, pending>>
    BY <1>4 DEF Completes, Interrupts, GoesOn, Returns
  <2> QED BY <1>a, <2>1 DEF AnsweredInv, Due
<1> QED BY <1>1, <1>2, <1>3, <1>4, Moves

\* After the cancellation there is at most the rest of one batch.
LEMMA NextCancelInv == IInv /\ [Next]_vars => CancelInv'
<1> SUFFICES ASSUME IInv, [Next]_vars PROVE CancelInv'
  OBVIOUS
<1>0. /\ history \in Seq(Message) /\ pending \in Seq(ToolName) /\ cut \in Nat
      /\ Len(history) \in Nat /\ CancelInv /\ ControlInv /\ ctxDone \in BOOLEAN
  <2>1. history \in Seq(Message) /\ pending \in Seq(ToolName)
    BY Types DEF IInv
  <2> QED BY <2>1, Types DEF IInv
<1>1. CASE Starts
  <2>1. Len(history') = 1 /\ cut' = cut /\ pc' # "await"
    BY <1>1 DEF Starts
  <2> QED BY <1>0, <2>1 DEF CancelInv, OneBatchAfterCancel
<1>2. ASSUME NEW calls \in Seq(ToolName), Responds(calls) PROVE CancelInv'
  <2>1. Len(history') = Len(history) + 1 /\ pc' = "tools" /\ UNCHANGED <<ctxDone, cut>>
    BY <1>0, <1>2, Messages, Grow DEF Responds
  <2>2. ctxDone => Len(history) = cut
    BY <1>0, <1>2 DEF Responds, CancelInv
  <2> QED BY <1>0, <2>1, <2>2 DEF CancelInv, OneBatchAfterCancel
<1>3. ASSUME NEW ok \in BOOLEAN, Observes(ok) PROVE CancelInv'
  <2>1. Head(pending) \in ToolName /\ pc' = "tools" /\ UNCHANGED <<ctxDone, cut>>
    BY <1>0, <1>3 DEF Observes
  <2>2. /\ Len(history') = Len(history) + 1
        /\ \A i \in 1..Len(history) : history'[i] = history[i]
        /\ history'[Len(history) + 1].role = "tool"
    BY <1>0, <1>3, <2>1, Messages, Grow DEF Observes
  <2>3. ASSUME ctxDone, NEW i \in (cut + 1)..Len(history'),
               NEW k \in (cut + 1)..Len(history'), i < k, history'[i].role = "tool"
        PROVE  history'[k].role = "tool"
    <3>1. CASE k = Len(history) + 1
      BY <2>2, <3>1
    <3>2. CASE k # Len(history) + 1
      <4>1. i \in 1..Len(history) /\ k \in (cut + 1)..Len(history) /\ k \in 1..Len(history)
            /\ i \in (cut + 1)..Len(history)
        BY <1>0, <2>2, <2>3, <3>2
      <4> QED BY <1>0, <2>2, <2>3, <4>1 DEF CancelInv, OneBatchAfterCancel
    <3> QED BY <3>1, <3>2
  <2> QED BY <2>1, <2>3 DEF CancelInv, OneBatchAfterCancel
<1>4. CASE Interrupts
  BY <1>0, <1>4 DEF Interrupts, CancelInv, OneBatchAfterCancel
<1>5. CASE Completes \/ GoesOn \/ Returns
  <2>1. /\ UNCHANGED <<ctxDone, history, cut>>
        /\ ctxDone /\ pc' = "await" => pc = "await"
    BY <1>5 DEF Completes, GoesOn, Returns
  <2> QED BY <1>0, <2>1 DEF CancelInv, OneBatchAfterCancel
<1> QED BY <1>1, <1>2, <1>3, <1>4, <1>5, Moves

\* Every step preserves the invariant.
LEMMA NextIInv == IInv /\ [Next]_vars => IInv'
BY NextTypeOK, NextControlInv, NextStepInv, NextAnsweredInv, NextCancelInv DEF IInv

-----------------------------------------------------------------------------
\* A completed conversation is well formed.
LEMMA WellFormed == IInv => ConversationWellFormed
<1> SUFFICES ASSUME IInv, pc \in {"request", "await"} PROVE ConversationWellFormed!2
  BY DEF ConversationWellFormed
<1>0. /\ history \in Seq(Message) /\ DOMAIN history = 1..Len(history)
      /\ pending = <<>> /\ Len(pending) = 0 /\ Len(history) \in Nat
      /\ history # <<>> /\ history[1] = User
  BY Types DEF IInv, ControlInv, Loop
<1>1. Head(history) = User
  BY <1>0
<1>2. ASSUME NEW i \in DOMAIN history, history[i].role = "assistant"
      PROVE  /\ i + Len(history[i].calls) <= Len(history)
             /\ \A j \in DOMAIN history[i].calls :
                  /\ history[i + j].role = "tool"
                  /\ history[i + j].calls = <<history[i].calls[j]>>
  <2>1. /\ i + Len(history[i].calls) <= Len(history)
        /\ \A j \in DOMAIN history[i].calls :
             /\ Due(i + j) = <<history[i].calls[j]>>
             /\ i + j <= Len(history) => history[i + j].role = "tool"
    BY <1>0, <1>2 DEF IInv, AnsweredInv, Turns
  <2>2. history[i].calls \in Seq(ToolName) /\ i \in Nat
    <3>1. history[i] \in Message
      BY <1>0
    <3> QED BY <1>0, <3>1 DEF Message
  <2>3. \A j \in DOMAIN history[i].calls : i + j <= Len(history)
    BY <1>0, <2>1, <2>2
  <2> QED BY <2>1, <2>3 DEF Due
<1>3. ASSUME NEW i \in DOMAIN history, history[i].role = "tool"
      PROVE  \E j \in 1..(i - 1) : /\ history[j].role = "assistant"
                                   /\ i - j <= Len(history[j].calls)
  <2>1. PICK j \in Turns(history) : j < i /\ i - j <= Len(history[j].calls)
    BY <1>3 DEF IInv, AnsweredInv
  <2>2. j \in 1..(i - 1) /\ history[j].role = "assistant"
    BY <1>0, <2>1 DEF Turns
  <2> QED BY <2>1, <2>2
<1> QED BY <1>1, <1>2, <1>3

\* The invariant bounds the responses by the steps.
LEMMA Bounded == IInv => CostBound
<1> SUFFICES ASSUME IInv PROVE CostBound
  OBVIOUS
<1>1. step \in 0..maxReActSteps /\ maxReActSteps \in Nat
  BY Types, StepsAssumption DEF IInv
<1>2. Turns(history) = {i \in DOMAIN history : history[i].role = "assistant"}
  BY DEF Turns
<1>3. CASE pc \in {"request", "await", "tools"}
  BY <1>1, <1>2, <1>3 DEF CostBound, IInv, StepInv, ControlInv
<1>4. CASE pc \notin {"request", "await", "tools"}
  BY <1>1, <1>2, <1>4 DEF CostBound, IInv, StepInv
<1> QED BY <1>3, <1>4

\* IInv is an inductive invariant of one agent.
THEOREM Inductive == Spec => []IInv
<1>1. Init => IInv
  BY FreshIInv DEF Init
<1> QED BY <1>1, NextIInv, PTL DEF Spec

\* The variables keep their types, for any registry and any bounds.
THEOREM TypeCorrect == Spec => []TypeOK
BY Inductive, PTL DEF IInv

\* The state an agent is left in agrees with what its caller got.
THEOREM StateAgrees == Spec => []StateMatchesResult
BY Inductive, PTL DEF IInv

\* Whatever tools the LLM asks for, known or not, and however they end, the
\* conversation it is sent is well formed.
THEOREM ConversationIsWellFormed == Spec => []ConversationWellFormed
BY Inductive, WellFormed, PTL

\* An instance never asks for more than maxReActSteps responses.
THEOREM CostIsBounded == Spec => []CostBound
BY Inductive, Bounded, PTL

\* After the cancellation at most one batch of tools is executed.
THEOREM OneBatch == Spec => []OneBatchAfterCancel
BY Inductive, PTL DEF IInv, CancelInv

\* A second Run of an instance changes neither its state nor its conversation.
THEOREM UsedOnce == Spec => SingleUse
<1>1. IInv /\ [Next]_vars => [(sm \in Terminal) => (UNCHANGED <<sm, history>>)]_vars
  <2> SUFFICES ASSUME IInv, [Next]_vars, sm \in Terminal PROVE UNCHANGED <<sm, history>>
    OBVIOUS
  <2>1. pc = "returned"
    BY Types, LifeCycle DEF IInv, ControlInv, Terminal
  <2> QED BY <2>1, Moves DEF Starts, Responds, Observes, Completes, Interrupts,
                             GoesOn, Returns
<1> QED BY <1>1, Inductive, PTL DEF Spec, SingleUse

==============================================================================
