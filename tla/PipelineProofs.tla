---------------------------- MODULE PipelineProofs ---------------------------
(***************************************************************************)
(* Proofs, for any number of payments, any texts and any operator, about   *)
(* the process of cmd/sentinel: it uses the one guard as module            *)
(* TransactionGuard allows, each stage's agent keeps the invariants of     *)
(* module ReActAgent, and the gates of main and the conversation agree     *)
(* with what the payment tool did.                                         *)
(***************************************************************************)
EXTENDS Pipeline, ReActAgentProofs

\* The theorems about the guard, for the calls of one agent.
GuardProofs == INSTANCE TransactionGuardProofs
  WITH Agent <- {"agent"}, OwnerOf <- [c \in Call |-> "agent"], pc <- wait

\* The two results that the gates in front of the third stage ask for.
Reviewed == /\ results.research.err = "nil"
            /\ results.verification.err = "nil"
            /\ results.verification.output \in Mentioning

\* An agent belongs to the stage it was made for, and the stages follow in
\* their order with the results they ask for.
MainInv ==
  /\ stage \in Kind \cup Stopped /\ phase \in {"dispatch", "agent", "collected"}
  /\ results \in [Kind -> Results]
  /\ phase = "agent" => stage \in Kind /\ kind = stage
  /\ stage = "verification" => results.research.err = "nil"
  /\ stage = "execution" => Reviewed
  /\ kind = "execution" =>
       stage \in {"execution", "ended"} /\ phase # "dispatch" /\ Reviewed

\* The payments placed by calls that are over, and those the LLM was shown.
Placed == {c \in Call \ {call} : wait[c] = "placed"}
ShownIn(h) == {i \in DOMAIN h : h[i].role = "tool" /\ h[i].ok /\ h[i].calls = <<Pay>>}

\* The payment tool is called by the agent of the third stage, one call at a
\* time, and the two sets are of one size.
LedgerInv ==
  /\ call \in Call \cup {NoCall}
  /\ wait \in [Call -> {"new", "select", "placed", "failed"}]
  /\ kind # "execution" => \A c \in Call : wait[c] = "new"
  /\ call # NoCall => phase = "agent" /\ Paying /\ wait[call] # "new"
  /\ \A c \in Call \ {call} : wait[c] # "select"
  /\ Cardinality(Placed) = Cardinality(ShownIn(history))

PInv == IInv /\ MainInv /\ LedgerInv

-----------------------------------------------------------------------------
\* What the theorems about the guard assume of its constants.
LEMMA GuardAssumptions ==
  /\ GuardProofs!OwnerAssumption /\ GuardProofs!AmountAssumption
  /\ GuardProofs!OperatorAssumption /\ GuardProofs!OneAgent
BY GuardAssumption DEF GuardProofs!OwnerAssumption, GuardProofs!AmountAssumption,
                       GuardProofs!OperatorAssumption, GuardProofs!OneAgent

\* The steps of an agent leave ctx alone.
LEMMA AgentLeavesCtx == Begin \/ Work => UNCHANGED ctxDone
BY DEF Begin, Work, LoopHead, LLMError, ToolsDone, Answer, AskTools, ExecuteTool, Send

\* Every step of the process is a step of its guard, or leaves the guard alone.
LEMMA GuardStep == [PipelineNext]_pipelineVars => [Guard!Next]_(Guard!vars)
<1> SUFFICES ASSUME [PipelineNext]_pipelineVars PROVE [Guard!Next]_(Guard!vars)
  OBVIOUS
<1>1. CASE UNCHANGED <<ctxDone, guardVars>>
  BY <1>1 DEF guardVars, Guard!vars
<1>2. CASE MainStep \/ RunAgent \/ LeaveTool \/ UNCHANGED pipelineVars
  <2>1. UNCHANGED <<ctxDone, guardVars>>
    BY <1>2, AgentLeavesCtx
       DEF MainStep, Dispatch, Collect, AfterResearch, AfterVerification, AfterExecution,
           RunAgent, LeaveTool, ExecuteTool, pipelineVars, vars
  <2> QED BY <1>1, <2>1
<1>3. CASE EnterTool
  <2>1. call' \in Call /\ Guard!Execute(call')
    BY <1>3 DEF EnterTool, NewCalls
  <2> QED BY <2>1 DEF Guard!Next
<1>4. CASE WaitOver
  BY <1>4 DEF WaitOver, Guard!Next
<1>5. ASSUME NEW c \in Call, ReadAnswer(c) PROVE [Guard!Next]_(Guard!vars)
  BY <1>5 DEF ReadAnswer, Guard!Next
<1>6. CASE Operator
  BY <1>6 DEF Operator, Guard!Next
<1>7. CASE Signal
  BY <1>7 DEF Signal, Cancel, guardVars, Guard!Next, Guard!Cancel, Guard!readerVars
<1> QED BY <1>2, <1>3, <1>4, <1>5, <1>6, <1>7 DEF PipelineNext

\* The process uses its guard as module TransactionGuard allows: one agent, one
\* call at a time, and readers that live as long as the process.
THEOREM ImplementsGuard == PipelineSpec => Guard!Spec
<1>1. PipelineInit => Guard!Init
  BY DEF PipelineInit
<1> QED BY <1>1, GuardStep, PTL DEF PipelineSpec, Guard!Spec

\* The same in terms of the module whose theorems are used, definition by
\* definition.
LEMMA SameGuard == Guard!Spec => GuardProofs!Spec
<1> USE DEF Guard!Nobody, GuardProofs!Nobody, Guard!None, GuardProofs!None,
            Guard!Blank, GuardProofs!Blank, Guard!Racing, GuardProofs!Racing,
            Guard!readerVars, GuardProofs!readerVars
<1>1. Guard!Init => GuardProofs!Init
  BY DEF Guard!Init, GuardProofs!Init
<1>2. ASSUME NEW c \in Call, Guard!Read(c) PROVE GuardProofs!Read(c)
  <2>1. Guard!Scan(c) => GuardProofs!Scan(c)
    BY DEF Guard!Scan, GuardProofs!Scan
  <2>2. Guard!RacedScan(c) => GuardProofs!RacedScan(c)
    BY DEF Guard!RacedScan, GuardProofs!RacedScan, Guard!Torn, GuardProofs!Torn
  <2>3. Guard!RacedRepeat(c) => GuardProofs!RacedRepeat(c)
    BY DEF Guard!RacedRepeat, GuardProofs!RacedRepeat
  <2>4. Guard!ScanEnds(c) => GuardProofs!ScanEnds(c)
    BY DEF Guard!ScanEnds, GuardProofs!ScanEnds, Guard!EndToken, GuardProofs!EndToken,
           Guard!Closed, GuardProofs!Closed
  <2>5. Guard!Text(c) => GuardProofs!Text(c)
    BY DEF Guard!Text, GuardProofs!Text
  <2>6. Guard!Send(c) => GuardProofs!Send(c)
    BY DEF Guard!Send, GuardProofs!Send, Guard!Deliverable, GuardProofs!Deliverable
  <2> QED BY <1>2, <2>1, <2>2, <2>3, <2>4, <2>5, <2>6 DEF Guard!Read, GuardProofs!Read
<1>3. ASSUME NEW c \in Call PROVE Guard!Execute(c) => GuardProofs!Execute(c)
  BY DEF Guard!Execute, GuardProofs!Execute,
         Guard!RequiresApproval, GuardProofs!RequiresApproval
<1>4. ASSUME NEW c \in Call
      PROVE  /\ Guard!SelectAnswer(c) => GuardProofs!SelectAnswer(c)
             /\ Guard!SelectCancel(c) => GuardProofs!SelectCancel(c)
  BY DEF Guard!SelectAnswer, GuardProofs!SelectAnswer, Guard!Outcome, GuardProofs!Outcome,
         Guard!SelectCancel, GuardProofs!SelectCancel,
         Guard!Interrupted, GuardProofs!Interrupted
<1>5. /\ Guard!TypeLine => GuardProofs!TypeLine
      /\ Guard!CloseStdin => GuardProofs!CloseStdin
      /\ Guard!Cancel => GuardProofs!Cancel
  BY DEF Guard!TypeLine, GuardProofs!TypeLine, Guard!Line, GuardProofs!Line,
         Guard!CloseStdin, GuardProofs!CloseStdin, Guard!Cancel, GuardProofs!Cancel
<1>6. [Guard!Next]_(Guard!vars) => [GuardProofs!Next]_(GuardProofs!vars)
  <2>1. Guard!Next => GuardProofs!Next
    BY <1>2, <1>3, <1>4, <1>5 DEF Guard!Next, GuardProofs!Next
  <2> QED BY <2>1 DEF Guard!vars, GuardProofs!vars
<1> QED BY <1>1, <1>6, PTL DEF Guard!Spec, GuardProofs!Spec

\* Until the shutdown signal every payment above the threshold carries the
\* approval that the operator typed for it.
THEOREM OperatorApproves == Disciplined => (PipelineSpec => []PaidAsApproved)
<1>1. GuardProofs!OwnLineInv => PaidAsApproved
  BY DEF PaidAsApproved, GuardProofs!OwnLineInv, Guard!RequiresApproval,
         GuardProofs!RequiresApproval
<1> SUFFICES ASSUME Disciplined PROVE PipelineSpec => []PaidAsApproved
  OBVIOUS
<1>2. GuardProofs!Spec => []GuardProofs!OwnLineInv
  BY GuardAssumptions, GuardProofs!OwnLineStays
<1> QED BY <1>1, <1>2, ImplementsGuard, SameGuard, PTL

\* What PlacedOnYes says of the guard, in terms of the process.
PaidOnYes ==
  \A c \in Call : wait[c] = "placed" /\ Guard!RequiresApproval(amount[c]) =>
    reader[c] = "finished" /\ heard[c].says = "yes"

\* Whatever is typed, when, and for which prompt, and after the signal too: the
\* process pays nothing above the threshold before the reader of that payment's
\* own prompt has heard a yes.
THEOREM ConsentComesFirst == PipelineSpec => []PaidOnYes
<1>1. GuardProofs!PlacedOnYes => PaidOnYes
  BY DEF PaidOnYes, GuardProofs!PlacedOnYes, Guard!RequiresApproval,
         GuardProofs!RequiresApproval
<1>2. GuardProofs!Spec => []GuardProofs!PlacedOnYes
  BY GuardAssumptions, GuardProofs!PlacedOnlyOnYes
<1> QED BY <1>1, <1>2, ImplementsGuard, SameGuard, PTL

-----------------------------------------------------------------------------
\* main starts a fresh agent in every stage; every other step is one of the
\* agent's own, or leaves the agent alone.
Fresh == /\ phase = "dispatch" /\ stage \in Kind
         /\ kind' = stage /\ phase' = "agent" /\ AgentInit'
         /\ UNCHANGED <<ctxDone, stage, results, call, guardVars>>

LEMMA AgentStep == [PipelineNext]_pipelineVars => [Next]_vars \/ Fresh
<1> SUFFICES ASSUME [PipelineNext]_pipelineVars PROVE [Next]_vars \/ Fresh
  OBVIOUS
<1>1. CASE Dispatch
  BY <1>1 DEF Dispatch, Fresh, AgentInit
<1>2. CASE RunAgent \/ LeaveTool \/ Signal
  BY <1>2 DEF RunAgent, LeaveTool, Signal, Next, Work
<1>3. CASE Collect \/ AfterResearch \/ AfterVerification \/ AfterExecution
  BY <1>3 DEF Collect, AfterResearch, AfterVerification, AfterExecution
<1>4. CASE EnterTool
  BY <1>4 DEF EnterTool, Guard!Execute, vars
<1>5. ASSUME NEW c \in Call, ReadAnswer(c) PROVE UNCHANGED vars
  BY <1>5 DEF ReadAnswer, vars, Guard!Read, Guard!Scan, Guard!RacedScan,
              Guard!RacedRepeat, Guard!ScanEnds, Guard!Text, Guard!Send
<1>6. CASE WaitOver \/ Operator
  BY <1>6 DEF WaitOver, Operator, vars, Guard!SelectAnswer, Guard!SelectCancel,
              Guard!TypeLine, Guard!CloseStdin
<1>7. CASE UNCHANGED pipelineVars
  BY <1>7 DEF pipelineVars
<1> QED BY <1>1, <1>2, <1>3, <1>4, <1>5, <1>6, <1>7 DEF PipelineNext, MainStep

\* Every step of the process keeps the invariant of the agent.
LEMMA PipelineIInv == IInv /\ [PipelineNext]_pipelineVars => IInv'
<1> SUFFICES ASSUME IInv, [PipelineNext]_pipelineVars PROVE IInv'
  OBVIOUS
<1>1. CASE [Next]_vars
  BY <1>1, NextIInv
<1>2. CASE Fresh
  <2>1. ctxDone' \in BOOLEAN /\ kind' \in Kind /\ AgentInit'
    BY <1>2, Types DEF Fresh, IInv
  <2>2. (ctxDone \in BOOLEAN /\ kind \in Kind /\ AgentInit)' => IInv'
    BY FreshIInv, PTL
  <2> QED BY <2>1, <2>2
<1> QED BY <1>1, <1>2, AgentStep

\* The gates of main: each stage has the results it asks for.
LEMMA NextMainInv == IInv /\ MainInv /\ [PipelineNext]_pipelineVars => MainInv'
<1> SUFFICES ASSUME IInv, MainInv, [PipelineNext]_pipelineVars PROVE MainInv'
  OBVIOUS
<1>0. /\ stage \in Kind \cup Stopped /\ phase \in {"dispatch", "agent", "collected"}
      /\ results \in [Kind -> Results] /\ result \in Results
      /\ Kind = {"research", "verification", "execution"} /\ Stopped = {"ended", "fatal"}
      /\ Res(TRUE, "", "ctx") \in Results
  BY Types, ResultType, ContentAssumption DEF IInv, MainInv, Kind, Stopped
<1>1. CASE Dispatch
  <2>1. stage \in Kind /\ phase = "dispatch" /\ kind # "execution"
    BY <1>1 DEF Dispatch, MainInv
  <2>2. CASE Fresh
    <3>1. /\ UNCHANGED <<stage, results>> /\ kind' = stage /\ phase' = "agent"
      BY <2>2 DEF Fresh
    <3> QED BY <1>0, <2>1, <3>1 DEF MainInv, Reviewed
  <2>3. CASE /\ results' = [results EXCEPT ![stage] = Res(TRUE, "", "ctx")]
             /\ phase' = "collected" /\ UNCHANGED <<kind, stage>>
    BY <1>0, <2>1, <2>3 DEF MainInv, Reviewed
  <2> QED BY <1>1, <2>2, <2>3 DEF Dispatch, Fresh, AgentInit, vars, agentVars
<1>2. CASE Collect
  <2>1. /\ stage \in Kind /\ phase = "agent" /\ phase' = "collected"
        /\ results' = [results EXCEPT ![stage] = result] /\ UNCHANGED <<kind, stage>>
    BY <1>2 DEF Collect, vars, agentVars
  <2> QED BY <1>0, <2>1 DEF MainInv, Reviewed
<1>3. CASE AfterResearch
  <2>1. /\ stage = "research" /\ phase = "collected" /\ phase' = "dispatch"
        /\ stage' \in {"fatal", "verification"} /\ UNCHANGED <<kind, results>>
        /\ stage' = "verification" => results.research.err = "nil"
    BY <1>3 DEF AfterResearch, vars, agentVars
  <2> QED BY <1>0, <2>1 DEF MainInv, Reviewed
<1>4. CASE AfterVerification
  <2>1. /\ stage = "verification" /\ phase = "collected" /\ phase' = "dispatch"
        /\ stage' \in {"execution", "ended"} /\ UNCHANGED <<kind, results>>
        /\ stage' = "execution" => /\ results.verification.err = "nil"
                                   /\ results.verification.output \in Mentioning
    BY <1>4 DEF AfterVerification, AfterReview, vars, agentVars
  <2> QED BY <1>0, <2>1 DEF MainInv, Reviewed
<1>5. CASE AfterExecution
  BY <1>0, <1>5 DEF AfterExecution, MainInv, Reviewed, vars, agentVars
<1>6. CASE UNCHANGED <<kind, mainVars>>
  BY <1>6 DEF mainVars, MainInv, Reviewed
<1>7. CASE RunAgent \/ EnterTool \/ LeaveTool \/ WaitOver \/ Operator \/ Signal
           \/ (\E c \in Call : ReadAnswer(c)) \/ UNCHANGED pipelineVars
  <2>1. UNCHANGED kind
    BY <1>7 DEF RunAgent, EnterTool, LeaveTool, WaitOver, Operator, Signal, ReadAnswer,
                pipelineVars, vars, agentVars, Begin, Work, LoopHead, Send, LLMError,
                ToolsDone, Answer, AskTools, ExecuteTool, Cancel
  <2>2. UNCHANGED mainVars
    BY <1>7 DEF RunAgent, EnterTool, LeaveTool, WaitOver, Operator, Signal, ReadAnswer,
                pipelineVars
  <2> QED BY <1>6, <2>1, <2>2
<1> QED BY <1>1, <1>2, <1>3, <1>4, <1>5, <1>7 DEF PipelineNext, MainStep

-----------------------------------------------------------------------------
\* The payments shown grow by a message that is one.
LEMMA ShownCount ==
  ASSUME NEW h \in Seq(Message), NEW m \in Message
  PROVE  /\ m.role # "tool" \/ ~m.ok \/ m.calls # <<Pay>> =>
              ShownIn(Append(h, m)) = ShownIn(h)
         /\ m.role = "tool" /\ m.ok /\ m.calls = <<Pay>> =>
              Cardinality(ShownIn(Append(h, m))) = Cardinality(ShownIn(h)) + 1
<1> DEFINE g == Append(h, m)
<1>1. /\ DOMAIN h = 1..Len(h) /\ DOMAIN g = 1..(Len(h) + 1) /\ Len(h) \in Nat
      /\ \A i \in 1..Len(h) : g[i] = h[i]
      /\ g[Len(h) + 1] = m
  OBVIOUS
<1>2. ShownIn(h) \in SUBSET (1..Len(h)) /\ IsFiniteSet(1..Len(h))
  BY <1>1, FS_Interval DEF ShownIn
<1>3. IsFiniteSet(ShownIn(h)) /\ Len(h) + 1 \notin ShownIn(h)
  BY <1>1, <1>2, FS_Subset
<1>4. Cardinality(ShownIn(h) \cup {Len(h) + 1}) = Cardinality(ShownIn(h)) + 1
  BY <1>3, FS_AddElement
<1> HIDE DEF g
<1>5. m.role # "tool" \/ ~m.ok \/ m.calls # <<Pay>> => ShownIn(g) = ShownIn(h)
  BY <1>1 DEF ShownIn
<1>6. m.role = "tool" /\ m.ok /\ m.calls = <<Pay>> =>
        ShownIn(g) = ShownIn(h) \cup {Len(h) + 1}
  BY <1>1 DEF ShownIn
<1> QED BY <1>4, <1>5, <1>6 DEF g

\* Outside the payment tool the agent shows no payment to the LLM.
LEMMA NoneShown ==
  ASSUME IInv, [Next]_vars, ~Paying
  PROVE  ShownIn(history') = ShownIn(history)
<1>0. history \in Seq(Message) /\ pending \in Seq(ToolName)
  BY Types DEF IInv
<1>1. CASE Starts
  <2>1. history = <<>> /\ history' = <<User>> /\ User.role = "user"
    BY <1>1, Messages DEF Starts, IInv, ControlInv
  <2> QED BY <2>1 DEF ShownIn
<1>2. ASSUME NEW calls \in Seq(ToolName), Responds(calls)
      PROVE  ShownIn(history') = ShownIn(history)
  BY <1>0, <1>2, Messages, ShownCount DEF Responds
<1>3. ASSUME NEW ok \in BOOLEAN, Observes(ok)
      PROVE  ShownIn(history') = ShownIn(history)
  <2> DEFINE m == Tool(Head(pending), ok)
  <2>1. Head(pending) \in ToolName /\ history' = Append(history, m)
    BY <1>0, <1>3 DEF Observes
  <2>2. m \in Message /\ m.ok = ok /\ m.calls = <<Head(pending)>>
    BY <2>1, Messages
  <2>3. ~ok \/ Head(pending) # Pay
    BY <1>3 DEF Observes, Paying
  <2> HIDE DEF m
  <2> QED BY <1>0, <2>1, <2>2, <2>3, ShownCount
<1>4. CASE Completes \/ Interrupts \/ GoesOn \/ Returns
  BY <1>4 DEF Completes, Interrupts, GoesOn, Returns
<1> QED BY <1>1, <1>2, <1>3, <1>4, Moves

\* The payment tool belongs to the execution agent.
LEMMA PayingExecutes == IInv /\ Paying => kind = "execution"
BY Types, ToolAssumption DEF IInv, Paying, Known

\* Every step keeps the ledger and the conversation in agreement.
LEMMA NextLedgerInv ==
  IInv /\ MainInv /\ LedgerInv /\ [PipelineNext]_pipelineVars => LedgerInv'
<1> SUFFICES ASSUME IInv, MainInv, LedgerInv, [PipelineNext]_pipelineVars PROVE LedgerInv'
  OBVIOUS
<1>0. /\ history \in Seq(Message) /\ pending \in Seq(ToolName)
      /\ wait \in [Call -> {"new", "select", "placed", "failed"}]
      /\ NoCall \notin Call /\ call \in Call \cup {NoCall}
  BY Types, CallAssumption DEF IInv, LedgerInv
<1>1. CASE UNCHANGED <<kind, pc, pending, history, phase, call, wait>>
  BY <1>1 DEF LedgerInv, Paying, Placed, Known
<1>2. CASE Fresh
  <2>1. call = NoCall /\ \A c \in Call : wait[c] = "new"
    BY <1>2 DEF Fresh, MainInv, LedgerInv
  <2>2. history' = <<>> /\ UNCHANGED <<call, wait>>
    BY <1>2 DEF Fresh, AgentInit, guardVars
  <2>3. Placed' = {} /\ ShownIn(history') = {}
    BY <2>1, <2>2 DEF Placed, ShownIn
  <2>4. Cardinality(Placed') = Cardinality(ShownIn(history'))
    BY <2>3
  <2> QED BY <1>0, <2>1, <2>2, <2>4 DEF LedgerInv
<1>3. CASE /\ call = NoCall
           /\ UNCHANGED <<kind, history, call, wait>>
  BY <1>3 DEF LedgerInv, Placed
<1>4. CASE MainStep
  <2>1. CASE Fresh
    BY <1>2, <2>1
  <2>2. CASE ~Fresh
    <3>1. UNCHANGED <<kind, history, call, wait>>
      BY <1>4, <2>2 DEF MainStep, Dispatch, Collect, AfterResearch, AfterVerification,
           AfterExecution, vars, agentVars, guardVars, Fresh, AgentInit
    <3>2. phase # "agent" \/ pc = "returned"
      BY <1>4 DEF MainStep, Dispatch, Collect, AfterResearch, AfterVerification,
                  AfterExecution
    <3>3. call = NoCall
      BY <3>2 DEF LedgerInv, Paying
    <3> QED BY <1>3, <3>1, <3>3
  <2> QED BY <2>1, <2>2
<1>5. CASE RunAgent
  <2>1. /\ ~Paying /\ [Next]_vars /\ UNCHANGED <<kind, call, wait>>
    BY <1>5 DEF RunAgent, Next, guardVars, Begin, Work, LoopHead, Send, LLMError,
                ToolsDone, Answer, AskTools, ExecuteTool
  <2>2. call = NoCall
    BY <2>1 DEF LedgerInv
  <2>3. Cardinality(Placed') = Cardinality(ShownIn(history'))
    BY <2>1, NoneShown DEF LedgerInv, Placed
  <2> QED BY <1>0, <2>1, <2>2, <2>3 DEF LedgerInv
<1>6. CASE EnterTool
  <2>1. /\ call = NoCall /\ call' \in Call /\ wait[call'] = "new"
        /\ phase = "agent" /\ Paying
        /\ \E v \in {"select", "placed", "failed"} : wait' = [wait EXCEPT ![call'] = v]
        /\ UNCHANGED <<kind, pc, pending, history, phase>>
    BY <1>6 DEF EnterTool, NewCalls, Guard!Execute, agentVars, mainVars
  <2>2. /\ wait' \in [Call -> {"new", "select", "placed", "failed"}]
        /\ wait'[call'] # "new" /\ \A c \in Call \ {call'} : wait'[c] = wait[c]
    BY <1>0, <2>1
  <2>3. Placed' = Placed
    BY <1>0, <2>1, <2>2 DEF Placed
  <2>4. Paying' /\ kind' = "execution"
    BY <2>1, PayingExecutes DEF Paying, Known
  <2>5. Cardinality(Placed') = Cardinality(ShownIn(history'))
    BY <2>1, <2>3 DEF LedgerInv
  <2> QED BY <1>0, <2>1, <2>2, <2>4, <2>5 DEF LedgerInv
<1>7. CASE LeaveTool
  <2> DEFINE ok == wait[call] = "placed"
             m == Tool(Pay, ok)
  <2>1. /\ call \in Call /\ call' = NoCall /\ wait[call] \in {"placed", "failed"}
        /\ history' = Append(history, m) /\ UNCHANGED <<kind, wait>>
        /\ kind = "execution"
    BY <1>0, <1>7, PayingExecutes
       DEF LeaveTool, ExecuteTool, LedgerInv, Paying, guardVars, mainVars
  <2>2. m \in Message /\ m.role = "tool" /\ m.ok = ok /\ m.calls = <<Pay>>
    BY Messages, ToolAssumption
  <2>3. IsFiniteSet(Placed) /\ call \notin Placed
    BY CallAssumption, FS_Subset DEF Placed
  <2>4. Placed' = IF ok THEN Placed \cup {call} ELSE Placed
    BY <1>0, <2>1 DEF Placed
  <2> HIDE DEF m
  <2>5. CASE ok
    <3>1. Cardinality(Placed') = Cardinality(Placed) + 1
      BY <2>3, <2>4, <2>5, FS_AddElement
    <3>2. Cardinality(ShownIn(history')) = Cardinality(ShownIn(history)) + 1
      BY <1>0, <2>1, <2>2, <2>5, ShownCount
    <3> QED BY <1>0, <2>1, <3>1, <3>2 DEF LedgerInv
  <2>6. CASE ~ok
    <3>1. ShownIn(history') = ShownIn(history)
      BY <1>0, <2>1, <2>2, <2>6, ShownCount
    <3>2. Cardinality(Placed') = Cardinality(ShownIn(history'))
      BY <2>4, <2>6, <3>1 DEF LedgerInv
    <3> QED BY <1>0, <2>1, <3>2 DEF LedgerInv
  <2> QED BY <2>5, <2>6
<1>8. CASE WaitOver
  <2>1. PICK c \in Call : Guard!SelectAnswer(c) \/ Guard!SelectCancel(c)
    BY <1>8 DEF WaitOver
  <2>2. /\ wait[c] = "select" /\ UNCHANGED <<kind, pc, pending, history, phase, call>>
        /\ \E v \in {"placed", "failed"} : wait' = [wait EXCEPT ![c] = v]
    BY <1>8, <2>1 DEF WaitOver, Guard!SelectAnswer, Guard!SelectCancel, Guard!Outcome,
                      agentVars, mainVars
  <2>3. c = call
    BY <2>2 DEF LedgerInv
  <2>4. /\ wait' \in [Call -> {"new", "select", "placed", "failed"}]
        /\ wait'[call] # "new" /\ \A d \in Call \ {call} : wait'[d] = wait[d]
    BY <1>0, <2>2, <2>3
  <2>5. Placed' = Placed /\ kind = "execution" /\ Paying'
    BY <2>2, <2>3, <2>4, PayingExecutes, CallAssumption
       DEF Placed, LedgerInv, Paying, Known
  <2>6. Cardinality(Placed') = Cardinality(ShownIn(history'))
    BY <2>2, <2>5 DEF LedgerInv
  <2> QED BY <1>0, <2>2, <2>4, <2>5, <2>6 DEF LedgerInv
<1>9. CASE Operator \/ Signal \/ UNCHANGED pipelineVars
  BY <1>1, <1>9 DEF Operator, Signal, Cancel, pipelineVars, vars, agentVars, mainVars,
                    guardVars, Guard!TypeLine, Guard!CloseStdin
<1>10. ASSUME NEW c \in Call, ReadAnswer(c) PROVE LedgerInv'
  BY <1>1, <1>10 DEF ReadAnswer, agentVars, mainVars, Guard!Read, Guard!Scan,
                     Guard!RacedScan, Guard!RacedRepeat, Guard!ScanEnds, Guard!Text,
                     Guard!Send
<1> QED BY <1>4, <1>5, <1>6, <1>7, <1>8, <1>9, <1>10 DEF PipelineNext

-----------------------------------------------------------------------------
\* The process starts without a conversation and without a payment.
LEMMA PipelineInitInv == PipelineInit => PInv
<1> SUFFICES ASSUME PipelineInit PROVE PInv
  OBVIOUS
<1>1. ctxDone = FALSE /\ wait = [c \in Call |-> "new"] /\ kind = "research"
  BY DEF PipelineInit, Guard!Init
<1>2. IInv
  BY <1>1, FreshIInv DEF PipelineInit, Kind
<1>3. MainInv
  <2>1. NoResult \in Results
    BY ContentAssumption, ResultType DEF NoResult
  <2> QED BY <2>1 DEF PipelineInit, MainInv, Kind
<1>4. LedgerInv
  <2>1. Placed = {} /\ ShownIn(history) = {}
    BY <1>1 DEF PipelineInit, AgentInit, Placed, ShownIn
  <2>2. Cardinality(Placed) = Cardinality(ShownIn(history))
    BY <2>1
  <2> QED BY <1>1, <2>2 DEF PipelineInit, LedgerInv
<1> QED BY <1>2, <1>3, <1>4 DEF PInv

\* PInv is an inductive invariant of the process.
THEOREM PipelineInductive == PipelineSpec => []PInv
<1>1. PInv /\ [PipelineNext]_pipelineVars => PInv'
  BY PipelineIInv, NextMainInv, NextLedgerInv DEF PInv
<1> QED BY PipelineInitInv, <1>1, PTL DEF PipelineSpec

\* Money moves only after a research and a verification that count.
THEOREM ReviewComesFirst == PipelineSpec => []PaidOnlyAfterReview
<1>1. PInv => PaidOnlyAfterReview
  BY DEF PInv, LedgerInv, MainInv, PaidOnlyAfterReview, Reviewed
<1> QED BY <1>1, PipelineInductive, PTL

\* The conversation of the third stage shows the payments that were placed.
THEOREM PaymentsAreShown == PipelineSpec => []PaymentsShown
<1>1. PInv => PaymentsShown
  BY DEF PInv, LedgerInv, PaymentsShown, Placed, ShownIn
<1> QED BY <1>1, PipelineInductive, PTL

\* Whatever the payment tool and the operator do, in every stage the agent
\* sends well-formed conversations, within its bound, and after the signal it
\* executes one batch at most.
THEOREM AgentsBehave ==
  PipelineSpec => [](ConversationWellFormed /\ CostBound /\ OneBatchAfterCancel)
<1>1. PInv => ConversationWellFormed /\ CostBound /\ OneBatchAfterCancel
  BY WellFormed, Bounded DEF PInv, IInv, CancelInv
<1> QED BY <1>1, PipelineInductive, PTL

==============================================================================
