-------------------------- MODULE OrchestratorProofs -------------------------
(***************************************************************************)
(* Proofs, for every batch and every MAX_WORKERS, of the invariants that   *)
(* module Orchestrator states.  The counters are tied to sets of           *)
(* goroutines: sem to those that hold a token, wg to those that have not   *)
(* exited, and the results to those that are past their send.              *)
(***************************************************************************)
EXTENDS Orchestrator, FiniteSetTheorems, TLAPS

\* The goroutines that have put their result in the channel.
Sent == {t \in Task : pc[t] \in {"release", "done", "exited"}}
Elements(s) == {s[i] : i \in DOMAIN s}
Collected == Elements(results) \cup Elements(resultCh)

\* What Run's own progress says of the goroutines.
MainInv ==
  /\ main = "idle" => /\ \A t \in Task : pc[t] = "new"
                      /\ results = <<>> /\ resultCh = <<>> /\ ~runErr
  /\ main \in {"spawning", "ranging"} => Task # {}
  /\ main \in {"ranging", "returned"} => \A t \in Task : pc[t] # "new"
  /\ closed => main \in {"ranging", "returned"}

\* A goroutine that is about to send has a result of its own to send.
SendInv == \A t \in Task :
  pc[t] \in {"send", "skip"} => out[t] \in Result /\ out[t].from = t

WaitGroupInv == /\ main # "idle" => wg = Cardinality(Task \ Exited)
                /\ closed => wg = 0

IInv == TypeOK /\ WorkerBound /\ MainInv /\ WaitGroupInv /\ SendInv

-----------------------------------------------------------------------------
\* Abbreviations that are expanded everywhere.
USE DEF envVars, callerVars, Charge, RoomInSem, CtxDone, AfterSend, AllDone, CtxErr

\* The clamp of orchestrator.New: the semaphore always has a place.
LEMMA NewPositive == New \in Nat \ {0}
BY WorkersAssumption DEF New

\* Subsets of the batch are finite, so each has a natural cardinality.
LEMMA SubsetCardinality ==
  ASSUME NEW S \in SUBSET Task
  PROVE  IsFiniteSet(S) /\ Cardinality(S) \in Nat
BY TaskAssumption, FS_Subset, FS_CardinalityType

\* Adding or removing one task changes a cardinality by one.
LEMMA AddTask ==
  ASSUME NEW S \in SUBSET Task, NEW t \in Task, t \notin S
  PROVE  Cardinality(S \cup {t}) = Cardinality(S) + 1
BY SubsetCardinality, FS_AddElement

\* The same for a task that leaves.
LEMMA RemoveTask ==
  ASSUME NEW S \in SUBSET Task, NEW t \in S
  PROVE  Cardinality(S \ {t}) = Cardinality(S) - 1 /\ Cardinality(S) > 0
<1>1. IsFiniteSet(S) /\ Cardinality(S) \in Nat
  BY SubsetCardinality
<1>2. Cardinality(S \ {t}) = Cardinality(S) - 1
  BY <1>1, FS_RemoveElement
<1>3. Cardinality(S) # 0
  BY <1>1, FS_EmptySet
<1> QED BY <1>1, <1>2, <1>3

\* The shape of every result a goroutine may be about to send.
LEMMA ResultShape ==
  ASSUME NEW t \in Task, NEW i \in Task \cup {""},
         NEW e \in {"nil", "cancelled", "nofactory", "agent"}
  PROVE  LET r == [from |-> t, id |-> i, err |-> e]
         IN  r \in Result /\ r.from = t
BY DEF Result

-----------------------------------------------------------------------------
\* The invariant holds before Run is called.
LEMMA InitIInv == Init => IInv
<1> SUFFICES ASSUME Init PROVE IInv
  OBVIOUS
<1>1. TypeOK
  <2>1. resultCh \in Seq(Result) /\ results \in Seq(Result)
    BY DEF Init
  <2>2. out \in [Task -> Result \cup {NoResult}]
    BY DEF Init
  <2>3. sem \in Nat /\ wg \in Nat
    BY DEF Init
  <2> QED BY <2>1, <2>2, <2>3, Zenon DEF Init, TypeOK
<1>2. WorkerBound
  <2>1. Holders = {}
    BY DEF Init, Holders, Holding
  <2> QED BY <2>1, FS_EmptySet, NewPositive DEF Init, WorkerBound
<1>3. MainInv /\ WaitGroupInv /\ SendInv
  BY DEF Init, MainInv, WaitGroupInv, SendInv
<1> QED BY <1>1, <1>2, <1>3 DEF IInv

\* Every step preserves the invariant: a step of one goroutine leaves the
\* others where they are, and moves each counter with the set it counts.
LEMMA NextIInv == IInv /\ [Next]_vars => IInv'
<1> SUFFICES ASSUME IInv, [Next]_vars PROVE IInv'
  OBVIOUS
<1> USE DEF IInv
<1>subsets. Holders \in SUBSET Task /\ Task \ Exited \in SUBSET Task
  BY DEF Holders
<1>capacity. New' = New /\ New \in Nat \ {0}
  BY NewPositive DEF New
<1>1. CASE UNCHANGED vars
  BY <1>1 DEF vars, TypeOK, WorkerBound, MainInv, WaitGroupInv, SendInv, Holders,
              Exited, Holding
<1>2. CASE Cancel
  BY <1>2 DEF Cancel, TypeOK, WorkerBound, MainInv, WaitGroupInv, SendInv, Holders,
              Exited, Holding
<1>3. ASSUME NEW ty \in TaskType, RegisterFactory(ty) PROVE IInv'
  BY <1>3 DEF RegisterFactory, TypeOK, WorkerBound, MainInv, WaitGroupInv,
              SendInv, Holders, Exited, Holding
<1>4. CASE Call
  <2>1. TypeOK'
    <3>1. Cardinality(Task) \in Nat
      BY SubsetCardinality
    <3> QED BY <1>4, <3>1 DEF Call, TypeOK
  <2>2. WorkerBound'
    BY <1>4 DEF Call, WorkerBound, Holders, Holding
  <2>3. MainInv' /\ SendInv'
    BY <1>4 DEF Call, MainInv, SendInv
  <2>4. WaitGroupInv'
    <3>1. (Task \ Exited)' = Task
      BY <1>4 DEF Call, MainInv, Exited
    <3>2. ~closed
      BY <1>4 DEF Call, MainInv
    <3> QED BY <1>4, <3>1, <3>2 DEF Call, WaitGroupInv
  <2> QED BY <2>1, <2>2, <2>3, <2>4
<1>5. ASSUME NEW t \in Task, Spawn(t) PROVE IInv'
  <2>1. TypeOK'
    BY <1>5 DEF Spawn, TypeOK, Goto
  <2>2. Holders' = Holders /\ Exited' = Exited
    BY <1>5 DEF Spawn, TypeOK, Goto, Holders, Holding, Exited
  <2>3. WorkerBound' /\ WaitGroupInv'
    BY <1>5, <2>2, <1>capacity DEF Spawn, WorkerBound, WaitGroupInv
  <2>4. MainInv' /\ SendInv'
    BY <1>5 DEF Spawn, MainInv, SendInv, TypeOK, Goto
  <2> QED BY <2>1, <2>3, <2>4
<1>6. CASE StartRange
  BY <1>6 DEF StartRange, TypeOK, WorkerBound, MainInv, WaitGroupInv, SendInv, Holders,
              Exited, Holding
<1>7. ASSUME NEW t \in Task, AcquireSlot(t) PROVE IInv'
  <2>1. TypeOK'
    BY <1>7 DEF AcquireSlot, TypeOK, Goto
  <2>2. Holders' = Holders \cup {t} /\ t \notin Holders /\ Exited' = Exited
    BY <1>7 DEF AcquireSlot, TypeOK, Goto, Holders, Holding, Exited
  <2>3. Cardinality(Holders') = Cardinality(Holders) + 1
    BY <2>2, <1>subsets, AddTask
  <2>4. WorkerBound' /\ WaitGroupInv'
    BY <1>7, <2>2, <2>3, <1>capacity
       DEF AcquireSlot, WorkerBound, WaitGroupInv, TypeOK
  <2>5. MainInv' /\ SendInv'
    BY <1>7 DEF AcquireSlot, MainInv, SendInv, TypeOK, Goto
  <2> QED BY <2>1, <2>4, <2>5
<1>8. ASSUME NEW t \in Task, GiveUp(t) PROVE IInv'
  <2>1. TypeOK'
    <3>1. [from |-> t, id |-> t, err |-> "cancelled"] \in Result
      BY DEF Result
    <3> QED BY <1>8, <3>1 DEF GiveUp, TypeOK, Goto
  <2>2. Holders' = Holders /\ Exited' = Exited
    BY <1>8 DEF GiveUp, TypeOK, Goto, Holders, Holding, Exited
  <2>3. WorkerBound' /\ WaitGroupInv'
    BY <1>8, <2>2, <1>capacity DEF GiveUp, WorkerBound, WaitGroupInv
  <2>4. MainInv' /\ SendInv'
    BY <1>8 DEF GiveUp, MainInv, SendInv, TypeOK, Goto, Result
  <2> QED BY <2>1, <2>3, <2>4
<1>9. ASSUME NEW t \in Task, LookupFactory(t) PROVE IInv'
  <2>1. TypeOK'
    <3>1. [from |-> t, id |-> t, err |-> "nofactory"] \in Result
      BY DEF Result
    <3> QED BY <1>9, <3>1 DEF LookupFactory, TypeOK, Goto
  <2>2. Holders' = Holders /\ Exited' = Exited
    BY <1>9 DEF LookupFactory, TypeOK, Goto, Holders, Holding, Exited
  <2>3. WorkerBound' /\ WaitGroupInv'
    BY <1>9, <2>2, <1>capacity DEF LookupFactory, WorkerBound, WaitGroupInv
  <2>4. MainInv' /\ SendInv'
    <3>1. CASE TypeOf[t] \in factories
      BY <1>9, <3>1 DEF LookupFactory, MainInv, SendInv, TypeOK, Goto
    <3>2. CASE TypeOf[t] \notin factories
      <4>1. out' = [out EXCEPT ![t] = [from |-> t, id |-> t, err |-> "nofactory"]]
        BY <1>9, <3>2 DEF LookupFactory
      <4>2. out'[t] \in Result /\ out'[t].from = t
        BY <4>1, ResultShape DEF TypeOK
      <4> QED BY <1>9, <4>1, <4>2 DEF LookupFactory, MainInv, SendInv, TypeOK, Goto
    <3> QED BY <3>1, <3>2
  <2> QED BY <2>1, <2>3, <2>4
<1>10. ASSUME NEW t \in Task, AgentReturns(t) PROVE IInv'
  <2>1. \A r \in AgentResult(t) : r \in Result /\ r.from = t
    <3>1. \A r \in AgentResult(t) :
             \/ r = [from |-> t, id |-> t, err |-> "nil"]
             \/ r = [from |-> t, id |-> "", err |-> "agent"]
             \/ r = [from |-> t, id |-> t, err |-> "cancelled"]
      BY Zenon DEF AgentResult
    <3>2. \A i \in Task \cup {""}, e \in {"nil", "cancelled", "nofactory", "agent"} :
             LET r == [from |-> t, id |-> i, err |-> e]
             IN  r \in Result /\ r.from = t
      BY ResultShape
    <3> QED BY <3>1, <3>2
  <2>2. TypeOK'
    <3>1. PICK r \in Result : out' = [out EXCEPT ![t] = r]
      BY <1>10, <2>1 DEF AgentReturns
    <3> QED BY <1>10, <3>1 DEF AgentReturns, TypeOK, Goto
  <2>3. Holders' = Holders /\ Exited' = Exited
    BY <1>10 DEF AgentReturns, TypeOK, Goto, Holders, Holding, Exited
  <2>4. WorkerBound' /\ WaitGroupInv'
    BY <1>10, <2>3, <1>capacity DEF AgentReturns, WorkerBound, WaitGroupInv
  <2>5. MainInv' /\ SendInv'
    BY <1>10, <2>1 DEF AgentReturns, MainInv, SendInv, TypeOK, Goto
  <2> QED BY <2>2, <2>4, <2>5
<1>11. ASSUME NEW t \in Task, Send(t) PROVE IInv'
  <2>1. out[t] \in Result /\ Append(resultCh, out[t]) \in Seq(Result)
    BY <1>11 DEF Send, TypeOK, SendInv
  <2>2. TypeOK'
    BY <1>11, <2>1 DEF Send, TypeOK, Goto
  <2>3. Holders' = Holders /\ Exited' = Exited
    BY <1>11 DEF Send, TypeOK, Goto, Holders, Holding, Exited
  <2>4. WorkerBound' /\ WaitGroupInv'
    BY <1>11, <2>3, <1>capacity DEF Send, WorkerBound, WaitGroupInv
  <2>5. MainInv' /\ SendInv'
    BY <1>11, <2>1 DEF Send, MainInv, SendInv, TypeOK, Goto
  <2> QED BY <2>2, <2>4, <2>5
<1>12. ASSUME NEW t \in Task, ReleaseSlot(t) PROVE IInv'
  <2>1. Holders' = Holders \ {t} /\ t \in Holders /\ Exited' = Exited
    BY <1>12 DEF ReleaseSlot, TypeOK, Goto, Holders, Holding, Exited
  <2>2. Cardinality(Holders') = Cardinality(Holders) - 1 /\ Cardinality(Holders) > 0
    BY <2>1, <1>subsets, RemoveTask
  <2>3. TypeOK'
    BY <1>12, <2>2 DEF ReleaseSlot, TypeOK, Goto, WorkerBound
  <2>4. WorkerBound'
    <3>1. sem' = sem - 1 /\ sem = Cardinality(Holders) /\ sem <= New
      BY <1>12 DEF ReleaseSlot, WorkerBound
    <3> QED BY <2>1, <2>2, <3>1, <1>capacity DEF WorkerBound, TypeOK
  <2>waitgroup. WaitGroupInv'
    BY <1>12, <2>1 DEF ReleaseSlot, WaitGroupInv
  <2>5. MainInv' /\ SendInv'
    BY <1>12 DEF ReleaseSlot, MainInv, SendInv, TypeOK, Goto
  <2> QED BY <2>3, <2>4, <2>waitgroup, <2>5
<1>13. ASSUME NEW t \in Task, Done(t) PROVE IInv'
  <2>1. /\ (Task \ Exited)' = (Task \ Exited) \ {t}
        /\ t \in Task \ Exited
        /\ Holders' = Holders
    BY <1>13 DEF Done, TypeOK, Goto, Holders, Holding, Exited
  <2>2. /\ Cardinality((Task \ Exited)') = Cardinality(Task \ Exited) - 1
        /\ Cardinality(Task \ Exited) > 0
    BY <2>1, <1>subsets, RemoveTask
  <2>3. main # "idle"
    BY <1>13 DEF Done, MainInv
  <2>4. ~closed
    BY <2>2, <2>3 DEF WaitGroupInv
  <2>5. TypeOK'
    BY <1>13, <2>2, <2>3 DEF Done, TypeOK, Goto, WaitGroupInv
  <2>6. WorkerBound' /\ WaitGroupInv'
    BY <1>13, <2>1, <2>2, <2>3, <2>4, <1>capacity
       DEF Done, WorkerBound, WaitGroupInv, TypeOK
  <2>7. MainInv' /\ SendInv'
    BY <1>13 DEF Done, MainInv, SendInv, TypeOK, Goto
  <2> QED BY <2>5, <2>6, <2>7
<1>14. CASE CloseResults
  BY <1>14 DEF CloseResults, TypeOK, WorkerBound, MainInv, WaitGroupInv,
               SendInv, Holders, Exited, Holding
<1>15. CASE Collect
  <2>1. Head(resultCh) \in Result /\ Tail(resultCh) \in Seq(Result)
    BY <1>15 DEF Collect, TypeOK
  <2>2. TypeOK'
    BY <1>15, <2>1 DEF Collect, TypeOK
  <2> QED BY <1>15, <2>2 DEF Collect, WorkerBound, MainInv, WaitGroupInv,
                             SendInv, Holders, Exited, Holding
<1>16. CASE Return
  BY <1>16 DEF Return, TypeOK, WorkerBound, MainInv, WaitGroupInv, SendInv,
               Holders, Exited, Holding
<1>17. CASE Terminated
  BY <1>1, <1>17 DEF Terminated
<1> QED
  BY <1>1, <1>2, <1>3, <1>4, <1>5, <1>6, <1>7, <1>8, <1>9, <1>10, <1>11,
     <1>12, <1>13, <1>14, <1>15, <1>16, <1>17 DEF Next, Main, Goroutine

-----------------------------------------------------------------------------
\* IInv is an inductive invariant of Run.
THEOREM Inductive == Spec => []IInv
BY InitIInv, NextIInv, PTL DEF Spec

\* The variables keep their types: neither counter goes below zero.
THEOREM TypeCorrect == Spec => []TypeOK
BY Inductive, PTL DEF IInv

\* At most maxWorkers goroutines hold a token, and the channel counts them.
THEOREM WorkersBounded == Spec => []WorkerBound
BY Inductive, PTL DEF IInv

\* The channel is closed only once no goroutine can send on it.
THEOREM NeverSendsAfterClose == Spec => []NoSendAfterClose
<1>1. IInv => NoSendAfterClose
  <2> SUFFICES ASSUME IInv, closed PROVE Exited = Task
    BY DEF NoSendAfterClose
  <2>1. Cardinality(Task \ Exited) = 0
    BY DEF IInv, MainInv, WaitGroupInv
  <2>2. Task \ Exited = {}
    BY <2>1, SubsetCardinality, FS_EmptySet
  <2> QED BY <2>2 DEF Exited
<1> QED BY <1>1, Inductive, PTL

\* The steps that a goroutine, Run itself or the closing goroutine can take now.
GoroutineMoves(t) == \/ pc[t] = "select" /\ (RoomInSem \/ CtxDone)
                     \/ pc[t] \in {"lookup", "release", "done"}
                     \/ pc[t] \in {"send", "skip"} /\ Len(resultCh) < Cardinality(Task)
RunMoves == \/ main \in {"idle", "spawning"}
            \/ main = "ranging" /\ (resultCh # <<>> \/ closed \/ AllDone)

\* Run is never stuck on the semaphore, the channel or the WaitGroup, whatever
\* MAX_WORKERS is: until it returns some goroutine can go on, or an agent is at
\* work, which is all that Run ever waits for.
THEOREM WaitsOnlyForAgents ==
  Spec => [](main = "returned" \/ RunMoves
               \/ \E t \in Task : GoroutineMoves(t) \/ pc[t] = "run")
<1>1. IInv => \/ main = "returned" \/ RunMoves
              \/ \E t \in Task : GoroutineMoves(t) \/ pc[t] = "run"
  <2> SUFFICES ASSUME IInv, main # "returned", ~RunMoves
               PROVE  \E t \in Task : GoroutineMoves(t) \/ pc[t] = "run"
    OBVIOUS
  <2>1. main = "ranging" /\ resultCh = <<>> /\ wg # 0
    BY DEF IInv, TypeOK, RunMoves
  <2>2. Task \ Exited # {}
    BY <2>1, FS_EmptySet DEF IInv, WaitGroupInv
  <2>3. PICK t \in Task : pc[t] # "exited"
    BY <2>2 DEF Exited
  <2>4. pc[t] # "new" /\ pc \in [Task -> {"new", "select", "lookup", "run", "send",
                                          "skip", "release", "done", "exited"}]
    BY <2>1 DEF IInv, MainInv, TypeOK
  <2>5. Len(resultCh) < Cardinality(Task)
    <3>1. Cardinality(Task) > 0
      BY RemoveTask
    <3> QED BY <2>1, <3>1
  <2>6. CASE pc[t] = "select" /\ ~RoomInSem
    <3>1. Cardinality(Holders) # 0
      BY <2>6, NewPositive DEF IInv, WorkerBound, TypeOK
    <3>2. Holders # {}
      BY <3>1, FS_EmptySet
    <3>3. PICK h \in Task : pc[h] \in Holding
      BY <3>2 DEF Holders
    <3> QED BY <2>5, <3>3 DEF Holding, GoroutineMoves
  <2>7. CASE ~(pc[t] = "select" /\ ~RoomInSem)
    BY <2>3, <2>4, <2>5, <2>7 DEF GoroutineMoves
  <2> QED BY <2>6, <2>7
<1> QED BY <1>1, Inductive, PTL

\* When Run returns it leaves no goroutine behind, also after a cancellation,
\* and all tokens are back in the semaphore.
THEOREM LeavesNothingBehind ==
  Spec => [](main = "returned" => Exited = Task /\ sem = 0)
<1> DEFINE ReturnInv == main = "returned" => closed \/ Task = {}
<1>1. Init => ReturnInv
  BY DEF Init
<1>2. ReturnInv /\ [Next]_vars => ReturnInv'
  BY DEF Next, vars, Cancel, RegisterFactory, Main, Call, StartRange, Collect, Return,
         Spawn, CloseResults, Goroutine, AcquireSlot, GiveUp, LookupFactory, Send,
         ReleaseSlot, Done, AgentReturns, Terminated
<1>3. IInv /\ NoSendAfterClose /\ ReturnInv =>
        (main = "returned" => Exited = Task /\ sem = 0)
  <2> SUFFICES ASSUME IInv, NoSendAfterClose, ReturnInv, main = "returned"
               PROVE  Exited = Task /\ sem = 0
    OBVIOUS
  <2>1. Exited = Task
    BY DEF NoSendAfterClose, Exited
  <2>2. Holders = {}
    BY <2>1 DEF Exited, Holders, Holding
  <2> QED BY <2>1, <2>2, FS_EmptySet DEF IInv, WorkerBound
<1> QED BY <1>1, <1>2, <1>3, Inductive, NeverSendsAfterClose, PTL DEF Spec

-----------------------------------------------------------------------------
(* The results: one of each goroutine that is past its send, either still in *)
(* the channel or in the slice; none after a cancellation goes unreported.   *)
ResultInv ==
  /\ Len(results) + Len(resultCh) = Cardinality(Sent)
  /\ {r.from : r \in Collected} = Sent
  /\ main = "returned" => Sent = Task /\ resultCh = <<>>

CancelInv ==
  /\ ~cancelled => \A t \in Task : pc[t] \in {"send", "skip"}
                                     => out[t].err # "cancelled"
  /\ ~cancelled => \A r \in Collected : r.err # "cancelled"
  /\ main = "returned" /\ ~runErr /\ cancelled =>
       \A r \in Elements(results) : r.err # "cancelled"

\* A send or a collection adds one result to a slice.
LEMMA ElementsAppend ==
  ASSUME NEW s \in Seq(Result), NEW e \in Result
  PROVE  /\ Elements(Append(s, e)) = Elements(s) \cup {e}
         /\ Len(Append(s, e)) = Len(s) + 1
<1> DEFINE a == Append(s, e)
<1>1. Len(s) \in Nat /\ Len(a) = Len(s) + 1
  OBVIOUS
<1>2. DOMAIN s = 1..Len(s) /\ DOMAIN a = 1..(Len(s) + 1)
  BY <1>1
<1>3. a[Len(s) + 1] = e /\ \A i \in 1..Len(s) : a[i] = s[i]
  BY <1>1
<1>4. \A i \in 1..(Len(s) + 1) : i = Len(s) + 1 \/ i \in 1..Len(s)
  BY <1>1
<1>5. Len(s) + 1 \in DOMAIN a /\ DOMAIN s \subseteq DOMAIN a
  BY <1>1, <1>2
<1>6. \A x : x \in Elements(a) <=> x = e \/ x \in Elements(s)
  <2> HIDE DEF a
  <2> QED BY <1>2, <1>3, <1>4, <1>5 DEF Elements
<1> QED BY <1>1, <1>6

\* A collection takes one result out of the channel.
LEMMA ElementsHeadTail ==
  ASSUME NEW s \in Seq(Result), s # <<>>
  PROVE  /\ Elements(s) = {Head(s)} \cup Elements(Tail(s))
         /\ Len(s) = Len(Tail(s)) + 1
         /\ Head(s) \in Result /\ Tail(s) \in Seq(Result)
<1>1. Len(s) \in Nat /\ Len(s) # 0 /\ Tail(s) \in Seq(Result)
  OBVIOUS
<1>2. DOMAIN s = 1..Len(s) /\ DOMAIN Tail(s) = 1..(Len(s) - 1)
  BY <1>1
<1>3. \A i \in 1..(Len(s) - 1) : Tail(s)[i] = s[i + 1]
  BY <1>1
<1>4. Head(s) = s[1]
  OBVIOUS
<1>5. \A i \in 1..Len(s) : i = 1 \/ i - 1 \in 1..(Len(s) - 1)
  BY <1>1
<1>6. ASSUME NEW x \in Elements(s) PROVE x = Head(s) \/ x \in Elements(Tail(s))
  <2>1. PICK i \in 1..Len(s) : x = s[i]
    BY <1>2, <1>6 DEF Elements
  <2>2. CASE i = 1
    BY <2>1, <2>2, <1>4
  <2>3. CASE i # 1
    <3>1. i - 1 \in 1..(Len(s) - 1) /\ x = Tail(s)[i - 1]
      BY <2>1, <2>3, <1>1, <1>3
    <3> QED BY <3>1, <1>2 DEF Elements
  <2> QED BY <2>2, <2>3
<1>7. ASSUME NEW x \in Elements(Tail(s)) PROVE x \in Elements(s)
  <2>1. PICK i \in 1..(Len(s) - 1) : x = s[i + 1]
    BY <1>2, <1>3, <1>7 DEF Elements
  <2> QED BY <2>1, <1>1, <1>2 DEF Elements
<1>8. Head(s) \in Elements(s)
  BY <1>1, <1>2, <1>4 DEF Elements
<1> QED BY <1>1, <1>6, <1>7, <1>8

\* No result has been sent before Run is called.
LEMMA InitResultInv == Init => ResultInv /\ CancelInv
<1> SUFFICES ASSUME Init PROVE ResultInv /\ CancelInv
  OBVIOUS
<1>1. Sent = {} /\ Collected = {} /\ Len(results) = 0 /\ Len(resultCh) = 0
  BY DEF Init, Sent, Collected, Elements
<1> QED BY <1>1, FS_EmptySet DEF Init, ResultInv, CancelInv

\* Steps that neither send nor collect nor return.
LEMMA ResultFrame ==
  ASSUME ResultInv, UNCHANGED <<results, resultCh>>, Sent' = Sent,
         main' = "returned" => main = "returned"
  PROVE  ResultInv'
<1>1. Collected' = Collected
  BY DEF Collected, Elements
<1> QED BY <1>1 DEF ResultInv

\* The results sent stay one per goroutine that is past its send.
LEMMA NextResultInv ==
  ASSUME IInv, ResultInv, [Next]_vars
  PROVE  ResultInv'
<1> USE DEF IInv
<1>1. CASE UNCHANGED vars \/ Cancel \/ Terminated \/ StartRange \/ CloseResults
  <2>1. UNCHANGED <<pc, results, resultCh>> /\ (main' = "returned" => main = "returned")
    BY <1>1 DEF vars, Cancel, Terminated, StartRange, CloseResults
  <2>2. Sent' = Sent
    BY <2>1 DEF Sent
  <2> QED BY <2>1, <2>2, ResultFrame
<1>2. ASSUME NEW ty \in TaskType, RegisterFactory(ty) PROVE ResultInv'
  BY <1>2, ResultFrame DEF RegisterFactory, Sent
<1>3. CASE Call
  <2>1. Sent' = Sent /\ Sent = {} /\ UNCHANGED <<results, resultCh>>
    BY <1>3 DEF Call, Sent, MainInv
  <2>2. CASE Task = {}
    <3>1. Collected' = Collected /\ resultCh' = <<>>
      BY <2>1, <1>3 DEF Collected, Elements, Call, MainInv
    <3> QED BY <2>1, <2>2, <3>1 DEF ResultInv
  <2>3. CASE Task # {}
    BY <1>3, <2>1, <2>3, ResultFrame DEF Call
  <2> QED BY <2>2, <2>3
<1>4. ASSUME NEW t \in Task,
             Spawn(t) \/ AcquireSlot(t) \/ GiveUp(t) \/ LookupFactory(t)
               \/ AgentReturns(t) \/ ReleaseSlot(t) \/ Done(t)
      PROVE  ResultInv'
  <2>1. UNCHANGED <<results, resultCh, main>>
    BY <1>4 DEF Spawn, AcquireSlot, GiveUp, LookupFactory, AgentReturns,
                ReleaseSlot, Done
  <2>2. \E l : /\ pc' = [pc EXCEPT ![t] = l]
               /\ l \in {"release", "done", "exited"}
                    <=> pc[t] \in {"release", "done", "exited"}
    BY <1>4 DEF Spawn, AcquireSlot, GiveUp, LookupFactory, AgentReturns,
                ReleaseSlot, Done, Goto
  <2>3. Sent' = Sent
    BY <2>2 DEF Sent, TypeOK
  <2> QED BY <2>1, <2>3, ResultFrame
<1>5. ASSUME NEW t \in Task, Send(t) PROVE ResultInv'
  <2>1. Sent' = Sent \cup {t} /\ t \notin Sent
    BY <1>5 DEF Send, Goto, Sent, TypeOK
  <2>2. Cardinality(Sent') = Cardinality(Sent) + 1
    BY <2>1, AddTask DEF Sent
  <2>3. out[t] \in Result /\ out[t].from = t
    BY <1>5 DEF Send, SendInv
  <2>4. /\ Elements(resultCh') = Elements(resultCh) \cup {out[t]}
        /\ Len(resultCh') = Len(resultCh) + 1
    BY <1>5, <2>3, ElementsAppend DEF Send, TypeOK
  <2>5. Collected' = Collected \cup {out[t]}
    BY <1>5, <2>4 DEF Send, Collected, Elements
  <2>6. Len(results') + Len(resultCh') = Cardinality(Sent')
    <3>1. Len(results) \in Nat /\ Len(resultCh) \in Nat
      BY DEF TypeOK
    <3> QED BY <1>5, <2>2, <2>4, <3>1, SubsetCardinality DEF Send, ResultInv, Sent
  <2>7. {r.from : r \in Collected'} = Sent'
    BY <2>1, <2>3, <2>5 DEF ResultInv
  <2>8. main' # "returned"
    BY <1>5, <2>1 DEF Send, ResultInv
  <2> QED BY <2>6, <2>7, <2>8 DEF ResultInv
<1>6. CASE Collect
  <2>1. /\ Elements(resultCh) = {Head(resultCh)} \cup Elements(resultCh')
        /\ Len(resultCh) = Len(resultCh') + 1
        /\ Head(resultCh) \in Result
    BY <1>6, ElementsHeadTail DEF Collect, TypeOK
  <2>2. /\ Elements(results') = Elements(results) \cup {Head(resultCh)}
        /\ Len(results') = Len(results) + 1
    BY <1>6, <2>1, ElementsAppend DEF Collect, TypeOK
  <2>3. Collected' = Collected /\ Sent' = Sent
    BY <1>6, <2>1, <2>2 DEF Collected, Collect, Sent
  <2>4. Len(results') + Len(resultCh') = Len(results) + Len(resultCh)
    <3>1. /\ Len(results) \in Nat /\ Len(resultCh) \in Nat
          /\ Len(resultCh') \in Nat
      BY <1>6, ElementsHeadTail DEF Collect, TypeOK
    <3> QED BY <2>1, <2>2, <3>1
  <2> QED BY <1>6, <2>3, <2>4 DEF Collect, ResultInv
<1>7. CASE Return
  <2>1. Task \ Exited = {}
    BY <1>7, SubsetCardinality, FS_EmptySet DEF Return, MainInv, WaitGroupInv
  <2>2. Sent = Task /\ Sent' = Sent
    BY <1>7, <2>1 DEF Sent, Exited, Return
  <2>3. Collected' = Collected
    BY <1>7 DEF Return, Collected, Elements
  <2> QED BY <1>7, <2>2, <2>3 DEF Return, ResultInv
<1> QED
  BY <1>1, <1>2, <1>3, <1>4, <1>5, <1>6, <1>7 DEF Next, Main, Goroutine

\* A result that reports a cancellation follows the cancellation.
LEMMA NextCancelInv ==
  ASSUME IInv, ResultInv, CancelInv, [Next]_vars
  PROVE  CancelInv'
<1> USE DEF IInv
<1> DEFINE AboutToSend == {t \in Task : pc[t] \in {"send", "skip"}}
<1>1. CASE UNCHANGED vars \/ Terminated \/ StartRange \/ CloseResults
  BY <1>1 DEF vars, Terminated, StartRange, CloseResults, CancelInv,
              Collected, Elements
<1>2. CASE Cancel
  BY <1>2 DEF Cancel, CancelInv, Collected, Elements
<1>3. ASSUME NEW ty \in TaskType, RegisterFactory(ty) PROVE CancelInv'
  BY <1>3 DEF RegisterFactory, CancelInv, Collected, Elements
<1>4. CASE Call
  <2>1. results = <<>>
    BY <1>4 DEF Call, MainInv
  <2> QED BY <1>4, <2>1 DEF Call, CancelInv, Collected, Elements
<1>5. ASSUME NEW t \in Task,
             Spawn(t) \/ AcquireSlot(t) \/ ReleaseSlot(t) \/ Done(t)
      PROVE  CancelInv'
  <2>1. UNCHANGED <<cancelled, main, out, resultCh, results, runErr>>
    BY <1>5 DEF Spawn, AcquireSlot, ReleaseSlot, Done
  <2>2. \A u \in Task : pc'[u] \in {"send", "skip"} => pc[u] \in {"send", "skip"}
    BY <1>5 DEF Spawn, AcquireSlot, ReleaseSlot, Done, Goto, TypeOK
  <2> QED BY <2>1, <2>2 DEF CancelInv, Collected, Elements
<1>6. ASSUME NEW t \in Task, GiveUp(t) PROVE CancelInv'
  BY <1>6 DEF GiveUp, CancelInv, Collected, Elements
<1>7. ASSUME NEW t \in Task, LookupFactory(t) \/ AgentReturns(t)
      PROVE  CancelInv'
  <2>1. UNCHANGED <<cancelled, main, resultCh, results, runErr>>
    BY <1>7 DEF LookupFactory, AgentReturns
  <2>2. \A u \in Task \ {t} : pc'[u] = pc[u] /\ out'[u] = out[u]
    BY <1>7 DEF LookupFactory, AgentReturns, Goto, TypeOK
  <2>3. ~cancelled /\ pc'[t] \in {"send", "skip"} => out'[t].err # "cancelled"
    <3>1. CASE LookupFactory(t)
      BY <3>1 DEF LookupFactory, Goto, TypeOK
    <3>2. CASE AgentReturns(t) /\ ~cancelled
      <4>1. \A r \in AgentResult(t) :
               \/ r = [from |-> t, id |-> t, err |-> "nil"]
               \/ r = [from |-> t, id |-> "", err |-> "agent"]
        BY <3>2, Zenon DEF AgentResult
      <4>2. out'[t] \in AgentResult(t)
        BY <3>2 DEF AgentReturns, TypeOK
      <4>3. \A i \in {t, ""}, e \in {"nil", "agent"} :
               [from |-> t, id |-> i, err |-> e].err # "cancelled"
        OBVIOUS
      <4>4. out'[t].err # "cancelled"
        BY <4>1, <4>2, <4>3, Zenon
      <4> QED BY <4>4
    <3> QED BY <1>7, <3>1, <3>2
  <2> QED BY <2>1, <2>2, <2>3 DEF CancelInv, Collected, Elements
<1>8. ASSUME NEW t \in Task, Send(t) PROVE CancelInv'
  <2>1. out[t] \in Result
    BY <1>8 DEF Send, SendInv
  <2>2. Elements(resultCh') = Elements(resultCh) \cup {out[t]}
    BY <1>8, <2>1, ElementsAppend DEF Send, TypeOK
  <2>3. Collected' = Collected \cup {out[t]}
    BY <1>8, <2>2 DEF Send, Collected, Elements
  <2>4. ~cancelled => out[t].err # "cancelled"
    BY <1>8 DEF Send, CancelInv
  <2>5. \A u \in Task : pc'[u] \in {"send", "skip"}
                         => pc[u] \in {"send", "skip"} /\ out'[u] = out[u]
    BY <1>8 DEF Send, Goto, TypeOK
  <2>6. Elements(results') = Elements(results)
    BY <1>8 DEF Send
  <2> QED BY <1>8, <2>3, <2>4, <2>5, <2>6 DEF Send, CancelInv
<1>9. CASE Collect
  <2>1. /\ Elements(resultCh) = {Head(resultCh)} \cup Elements(resultCh')
        /\ Head(resultCh) \in Result
    BY <1>9, ElementsHeadTail DEF Collect, TypeOK
  <2>2. Elements(results') = Elements(results) \cup {Head(resultCh)}
    BY <1>9, <2>1, ElementsAppend DEF Collect, TypeOK
  <2>3. Collected' = Collected
    BY <2>1, <2>2 DEF Collected
  <2> QED BY <1>9, <2>3 DEF Collect, CancelInv
<1>10. CASE Return
  BY <1>10 DEF Return, CancelInv, Collected, Elements
<1> QED
  BY <1>1, <1>2, <1>3, <1>4, <1>5, <1>6, <1>7, <1>8, <1>9, <1>10
     DEF Next, Main, Goroutine

\* The three invariants hold together.
LEMMA ResultsInductive == Spec => [](IInv /\ ResultInv /\ CancelInv)
BY InitIInv, NextIInv, InitResultInv, NextResultInv, NextCancelInv, PTL DEF Spec

\* When Run returns the slice holds exactly one result of each task.
THEOREM OneResultEach == Spec => []OneResultPerTask
<1>1. IInv /\ ResultInv => OneResultPerTask
  <2> SUFFICES ASSUME IInv, ResultInv, main = "returned"
               PROVE  /\ Len(results) = Cardinality(Task)
                      /\ {results[i].from : i \in DOMAIN results} = Task
    BY DEF OneResultPerTask
  <2>1. Len(resultCh) = 0 /\ Elements(resultCh) = {}
    BY DEF ResultInv, Elements
  <2>2. Len(results) = Cardinality(Task)
    BY <2>1 DEF ResultInv, IInv, TypeOK
  <2>3. {r.from : r \in Elements(results)} = Task
    BY <2>1 DEF ResultInv, Collected
  <2> QED BY <2>2, <2>3 DEF Elements
<1> QED BY <1>1, ResultsInductive, PTL

\* A task that was given up or stopped never hides behind a nil error of Run.
THEOREM CancellationReported == Spec => []CancelReported
<1>1. CancelInv => CancelReported
  BY DEF CancelInv, CancelReported, Collected, Elements
<1> QED BY <1>1, ResultsInductive, PTL

\* The result channel is never full when a goroutine wants to send: the send
\* after ctx.Done() cannot block either.
THEOREM SendsNeverBlock ==
  Spec => [](\A t \in Task : pc[t] \in {"send", "skip"}
                              => Len(resultCh) < Cardinality(Task))
<1>1. IInv /\ ResultInv => \A t \in Task : pc[t] \in {"send", "skip"}
                                           => Len(resultCh) < Cardinality(Task)
  <2> SUFFICES ASSUME IInv, ResultInv, NEW t \in Task, pc[t] \in {"send", "skip"}
               PROVE  Len(resultCh) < Cardinality(Task)
    OBVIOUS
  <2>1. Sent \in SUBSET (Task \ {t})
    BY DEF Sent
  <2>2. Cardinality(Sent) <= Cardinality(Task \ {t})
    BY <2>1, SubsetCardinality, FS_Subset
  <2>3. Cardinality(Task \ {t}) = Cardinality(Task) - 1
    BY RemoveTask
  <2>4. Len(results) \in Nat /\ Len(resultCh) \in Nat
    BY DEF IInv, TypeOK
  <2>5. Cardinality(Sent) \in Nat /\ Cardinality(Task) \in Nat
    BY SubsetCardinality DEF Sent
  <2> QED BY <2>2, <2>3, <2>4, <2>5 DEF ResultInv
<1> QED BY <1>1, ResultsInductive, PTL

-----------------------------------------------------------------------------
(* Run implements the batch of module TaskBatch.                             *)
\* What the batch sees of a goroutine.
LEMMA StatusOf ==
  ASSUME NEW t \in Task
  PROVE  /\ BatchStatus[t] = "queued" <=> pc[t] \in {"new", "select"}
         /\ BatchStatus[t] = "running" <=> pc[t] \in Holding
         /\ BatchStatus[t] \in {"queued", "running", "finished"}
<1>1. CASE pc[t] \in {"new", "select"}
  BY <1>1 DEF BatchStatus, Holding
<1>2. CASE pc[t] \in Holding
  BY <1>2 DEF BatchStatus, Holding
<1>3. CASE pc[t] \notin {"new", "select"} /\ pc[t] \notin Holding
  BY <1>3 DEF BatchStatus
<1> QED BY <1>1, <1>2, <1>3

\* The initial states map to the initial state of the batch.
LEMMA InitBatch == Init => Batch!Init
<1> SUFFICES ASSUME Init PROVE Batch!Init
  OBVIOUS
<1>1. BatchStatus = [t \in Task |-> "queued"]
  BY StatusOf DEF Init, BatchStatus
<1>2. BatchReturned = FALSE /\ BatchAnswered = {}
  BY DEF Init, BatchReturned, BatchAnswered
<1> QED BY <1>1, <1>2 DEF Init, Batch!Init

\* A goroutine that moves between places with the same abstract status, while
\* everything the batch shows stays, is a stutter.
LEMMA BatchStutter ==
  ASSUME TypeOK, UNCHANGED <<cancelled, main, results, runErr>>,
         \A u \in Task : BatchStatus'[u] = BatchStatus[u]
  PROVE  UNCHANGED Batch!vars
<1>1. BatchStatus' = BatchStatus
  BY DEF BatchStatus
<1>2. BatchReturned' = BatchReturned /\ BatchAnswered' = BatchAnswered
  BY DEF BatchReturned, BatchAnswered
<1> QED BY <1>1, <1>2 DEF Batch!vars

\* A goroutine's step as the batch sees it.
LEMMA BatchMove ==
  ASSUME TypeOK, NEW t \in Task, NEW l, pc' = [pc EXCEPT ![t] = l], TypeOK'
  PROVE  \A u \in Task \ {t} : BatchStatus'[u] = BatchStatus[u]
BY DEF BatchStatus, TypeOK

\* Every step of Run is a step of the batch, or a stutter.
LEMMA NextBatch ==
  ASSUME IInv, IInv', ResultInv, [Next]_vars
  PROVE  [Batch!Next]_(Batch!vars)
<1> USE DEF IInv
<1>1. CASE UNCHANGED vars \/ Terminated \/ CloseResults \/ StartRange
  <2>1. UNCHANGED <<pc, cancelled, results, runErr>>
        /\ BatchReturned' = BatchReturned /\ BatchAnswered' = BatchAnswered
    BY <1>1 DEF vars, Terminated, CloseResults, StartRange, BatchReturned,
                BatchAnswered
  <2> QED BY <2>1 DEF BatchStatus, Batch!vars
<1>2. CASE Cancel
  <2>1. /\ BatchStatus' = BatchStatus /\ BatchReturned' = BatchReturned
        /\ BatchAnswered' = BatchAnswered
    BY <1>2 DEF Cancel, BatchStatus, BatchReturned, BatchAnswered
  <2> QED BY <1>2, <2>1 DEF Cancel, Batch!Cancel, Batch!Next
<1>3. ASSUME NEW ty \in TaskType, RegisterFactory(ty)
      PROVE  UNCHANGED Batch!vars
  BY <1>3, BatchStutter DEF RegisterFactory, BatchStatus
<1>4. CASE Call
  <2>1. BatchStatus' = BatchStatus /\ UNCHANGED <<cancelled, runErr>>
    BY <1>4 DEF Call, BatchStatus
  <2>2. CASE Task # {}
    BY <1>4, <2>1, <2>2 DEF Call, BatchReturned, BatchAnswered, Batch!vars
  <2>3. CASE Task = {}
    <3>1. ~BatchReturned /\ BatchReturned' = TRUE
      BY <1>4, <2>3 DEF Call, BatchReturned
    <3>2. BatchAnswered' = Task
      BY <1>4, <2>3 DEF Call, BatchAnswered, MainInv
    <3>3. runErr' = FALSE
      BY <1>4 DEF Call, MainInv
    <3> QED BY <2>1, <2>3, <3>1, <3>2, <3>3 DEF Batch!Return, Batch!Next
  <2> QED BY <2>2, <2>3
<1>5. ASSUME NEW t \in Task,
             Spawn(t) \/ LookupFactory(t) \/ AgentReturns(t) \/ Done(t)
      PROVE  UNCHANGED Batch!vars
  <2>1. UNCHANGED <<cancelled, main, results, runErr>>
    BY <1>5 DEF Spawn, LookupFactory, AgentReturns, Done
  <2>2. PICK l : pc' = [pc EXCEPT ![t] = l]
    BY <1>5 DEF Spawn, LookupFactory, AgentReturns, Done, Goto
  <2>3. BatchStatus'[t] = BatchStatus[t]
    BY <1>5 DEF Spawn, LookupFactory, AgentReturns, Done, Goto, TypeOK,
                BatchStatus, Holding
  <2> QED BY <2>1, <2>2, <2>3, BatchMove, BatchStutter
<1>6. ASSUME NEW t \in Task, AcquireSlot(t) PROVE Batch!Next
  <2>1. BatchStatus[t] = "queued" /\ BatchStatus'[t] = "running"
    BY <1>6 DEF AcquireSlot, Goto, TypeOK, BatchStatus, Holding
  <2>2. BatchStatus' = [BatchStatus EXCEPT ![t] = "running"]
    <3>1. \A u \in Task \ {t} : BatchStatus'[u] = BatchStatus[u]
      BY <1>6, BatchMove DEF AcquireSlot, Goto
    <3> QED BY <2>1, <3>1 DEF BatchStatus
  <2>3. Batch!Running = Holders
    BY StatusOf DEF Batch!Running, Holders
  <2>4. Batch!Cardinality(Batch!Running) < New
    <3>1. Cardinality(Holders) < New
      BY <1>6 DEF AcquireSlot, WorkerBound
    <3> QED BY <2>3, <3>1 DEF Batch!Cardinality, Cardinality, Batch!IsFiniteSet, IsFiniteSet
  <2>5. UNCHANGED <<cancelled, BatchReturned, BatchAnswered, runErr>>
    BY <1>6 DEF AcquireSlot, BatchReturned, BatchAnswered
  <2> QED BY <2>1, <2>2, <2>4, <2>5 DEF Batch!Start, Batch!Next
<1>7. ASSUME NEW t \in Task, GiveUp(t) PROVE Batch!Next
  <2>1. BatchStatus[t] = "queued" /\ BatchStatus'[t] = "finished"
    BY <1>7 DEF GiveUp, Goto, TypeOK, BatchStatus, Holding
  <2>2. BatchStatus' = [BatchStatus EXCEPT ![t] = "finished"]
    BY <1>7, <2>1, BatchMove DEF GiveUp, Goto, BatchStatus
  <2>3. UNCHANGED <<cancelled, BatchReturned, BatchAnswered, runErr>>
    BY <1>7 DEF GiveUp, BatchReturned, BatchAnswered
  <2> QED BY <1>7, <2>1, <2>2, <2>3 DEF GiveUp, Batch!GiveUp, Batch!Next
<1>8. ASSUME NEW t \in Task, Send(t) PROVE UNCHANGED Batch!vars
  <2>1. BatchStatus'[t] = BatchStatus[t]
    BY <1>8 DEF Send, Goto, TypeOK, BatchStatus, Holding
  <2> QED BY <1>8, <2>1, BatchMove, BatchStutter DEF Send, Goto
<1>9. ASSUME NEW t \in Task, ReleaseSlot(t) PROVE Batch!Next
  <2>1. BatchStatus[t] = "running" /\ BatchStatus'[t] = "finished"
    BY <1>9 DEF ReleaseSlot, Goto, TypeOK, BatchStatus, Holding
  <2>2. BatchStatus' = [BatchStatus EXCEPT ![t] = "finished"]
    BY <1>9, <2>1, BatchMove DEF ReleaseSlot, Goto, BatchStatus
  <2>3. UNCHANGED <<cancelled, BatchReturned, BatchAnswered, runErr>>
    BY <1>9 DEF ReleaseSlot, BatchReturned, BatchAnswered
  <2> QED BY <2>1, <2>2, <2>3 DEF Batch!Finish, Batch!Next
<1>10. CASE Collect
  BY <1>10 DEF Collect, BatchStatus, BatchReturned, BatchAnswered, Batch!vars
<1>11. CASE Return
  <2>1. BatchStatus' = BatchStatus /\ UNCHANGED cancelled
    BY <1>11 DEF Return, BatchStatus
  <2>2. Task \ Exited = {}
    BY <1>11, SubsetCardinality, FS_EmptySet DEF Return, MainInv, WaitGroupInv
  <2>3. \A t \in Task : BatchStatus[t] = "finished"
    BY <2>2, StatusOf DEF Exited, Holding
  <2>4. Task # {} /\ runErr' = cancelled
    BY <1>11 DEF Return, MainInv
  <2>5. ~BatchReturned /\ BatchReturned' = TRUE
    BY <1>11 DEF Return, BatchReturned
  <2>6. {r.from : r \in Elements(results)} = Task
    BY <1>11, <2>2 DEF Return, ResultInv, Collected, Elements, Sent, Exited
  <2>7. BatchAnswered' = Task
    BY <1>11, <2>6 DEF Return, BatchAnswered, Elements
  <2>8. runErr' = (cancelled /\ Task # {})
    <3>1. CASE cancelled = TRUE
      BY <2>4, <3>1, Zenon
    <3>2. CASE cancelled = FALSE
      BY <2>4, <3>2, Zenon
    <3> QED BY <3>1, <3>2 DEF TypeOK
  <2>9. Batch!Return
    BY <2>1, <2>3, <2>5, <2>7, <2>8, Zenon DEF Batch!Return
  <2> QED BY <2>9 DEF Batch!Next
<1> QED
  BY <1>1, <1>2, <1>3, <1>4, <1>5, <1>6, <1>7, <1>8, <1>9, <1>10, <1>11
     DEF Next, Main, Goroutine

\* Orchestrator.Run, with all its channels and goroutines, does only what the
\* batch of module TaskBatch allows.
THEOREM Implements == Spec => ImplementsTaskBatch
BY InitBatch, NextBatch, ResultsInductive, PTL
   DEF Spec, ImplementsTaskBatch, Batch!Spec

==============================================================================
