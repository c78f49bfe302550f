# Verification of Sentinel-Go

TLA+ models of the Sentinel-Go financial research agent, the TLC runs that
check them on small instances, and proofs, checked by TLAPS, of their most
important properties for every instance. `PROJECT.json` lists the runs, the
mutants, the source lines behind every definition, the hazards and the theorems.

## 1. The system

`cmd/sentinel` drives three stages (research, verification, execution). Each is
one call of `Orchestrator.Run` on a batch of one task; the orchestrator builds a
fresh agent from a factory; the agent talks to an LLM provider and calls tools
from its registry; the one tool that moves money asks the transaction guard,
which asks the operator on stdin. One context, cancelled by SIGINT or SIGTERM,
goes through all of it.

| Component | State | Operations | Interacts by | Hard behaviour | Correct when |
|---|---|---|---|---|---|
| Orchestrator | factory map (RWMutex); per Run: semaphore channel, result channel, WaitGroup | `New`, `RegisterFactory`, `Run` | goroutine per task, channels, ctx | select between semaphore and ctx; who closes the channel; clamp of MAX_WORKERS | at most maxWorkers agents, one result per task, no send after close, always returns |
| Agents | `StateMachine`, conversation, loop counter | `Run`, `CurrentState` | provider and registry calls with ctx | cancellation between steps, failing tools, endless tool requests, reuse | state agrees with result, conversation well formed, bounded steps |
| Tool registry | map (RWMutex), filled at startup | `Register`, `Schemas`, `Execute` | called by the agents | unknown names | an agent reaches only its own tools |
| PlaceUPITransaction, TransactionGuard | threshold, one shared `bufio.Scanner` | `Execute`, `RequestApproval` | goroutine and one-place channel per prompt, stdin, ctx | races on the scanner, readers left behind, no timeout | nothing above the threshold without an approval; a cancelled wait ends |
| Pipeline (`main`) | results of the stages | the three stages and their gates | calls `Run` | failed or cancelled stages, free-text verdict | money moves only after an approving review |
| LLM providers | none (HTTP client) | `CompleteWithTools`, converters | HTTP with ctx | grouping of tool results, IDs, truncated replies, bad arguments | the LLM sees the conversation that took place |
| Config | process environment | `Load`, `Validate` | environment, `.env`; `main` at startup | partial effect of an error, empty, NaN and out-of-range values | shell wins over file; nothing but a written number opens the operator's gate |
| InMemoryStore | map and history behind a RWMutex | `Store`, `Retrieve`, `Delete`, `GetHistory`, `AddHistoryEntry` | not wired into `main` | slice handed out and read without the lock, early return under it | a history somebody got does not change; no entry is lost |
| SafetyRuleChecker | rule list, no lock | `CheckPrompt`, `CheckResponse`, `AddRule` | not wired into `main` | append races with the range loop and with itself | what passes contains no keyword it was known to block |
| Quote, news and balance tools | none | `Execute` | HTTP with ctx | truncation below zero, no previous close | numbers close to the truth and of the right sign |

## 2. Modules

| Module | Models |
|---|---|
| `TaskBatch` | what `Run` promises its caller: abstract specification |
| `Orchestrator` | `orchestrator.go`: the detailed `Run`; implements `TaskBatch` |
| `OrchestratorProofs` | proofs about both |
| `TransactionGuard` | `guard.go` and `transaction.go` |
| `TransactionGuardProofs` | proofs about it |
| `AgentStates` | states and transition table of `agent.go`, `state.go` |
| `ReActAgent` | `Run` of the three agents, with `Registry.Execute` |
| `ReActAgentProofs` | proofs about it |
| `Pipeline` | `main.go`, extends `ReActAgent` and contains `TransactionGuard` as `Guard` |
| `PipelineProofs` | proofs about it, on top of those of the agents and of the guard |
| `ProviderWire` | the converters of `internal/llm` and a conversation that goes through them |
| `ProviderWireProofs` | proofs about it, with induction and lemmas about folds |
| `Config` | `config.Load` and what `main` does with the settings |
| `GoSlice` | slices and `append` of the Go runtime (external) |
| `MemoryStore` | `memory.go`, extends `GoSlice` |
| `MemoryStoreProofs` | proofs about it, with lemmas about `append` |
| `SafetyChecker` | `checker.go`, extends `GoSlice` |
| `SafetyCheckerProofs` | proofs about it |
| `MarketTools` | `stock.go`, `news.go`, `upi.go` |
| `StandaloneProofs` | proofs about `Config` and `MarketTools` |
| `MC*` | instances for TLC; `MCStandalone` is the sum of `Config`, `MarketTools`, `MemoryStore`, `SafetyChecker` and `ProviderWire` |

Modules with checked properties have a section of deliberately wrong variants of
their definitions: no specification uses them. For every property of a passing
run, `PROJECT.json` names the one whose substitution makes TLC refute it.

### Orchestrator

One action per channel operation of each goroutine. `pc[t]` follows the goroutine
of task `t`: `new` (not started), `select`, `lookup`, `run` (inside `agent.Run`),
`send`, `release` (the deferred `<-sem`), `done` (the deferred `wg.Done`),
`exited`; `skip` is the send of the `ctx.Done()` branch, which holds no token.
`sem` and `wg` are the two counters, kept as counters so that the invariants
can relate them to the goroutines they should count. `main` is the caller. The
agent is the action `AgentReturns`, any of the three forms of result the agents
return. `Result.from` is a history field for the sender.

`TaskBatch` has no goroutines: tasks are queued, running or finished, at most
`Slots` run, one that is queued may be given up only after the cancellation, and
the call returns when every task has finished. The refinement maps a goroutine
that holds a token to running, and the results to the answered set.

### TransactionGuard

Each call of the tool is a call `c` with the state of `Execute` (`pc`), of the
goroutine of its prompt (`reader`) and of its channel (`answer`). `token` is the
scanner's shared token: `Scan` sets it and `Text` reads it in a later step.
While two readers are between the two, the code has a data race: `RacedScan` and
`RacedRepeat` allow a lost line, an old token, a repeated line or a torn text. A
panic of the scanner under the race would end the process and is left out. The
spellings "yes" and "y", in any case, are one answer; a line too long for the
scanner ends it like EOF does. A line carries the prompt it was typed for, so that
the properties can say whose approval it was. Threshold and amounts are integers.

### ReActAgent and Pipeline

`pc` is the place in `Run`: `top` (loop head: step bound, then `ctx.Done()`),
`request` (before the request is sent), `await`, `tools` (the batch of the last
response). The verification agent has one request, no loop and no look at `ctx`.
`cut` is a history field: the length of the conversation when the context was
cancelled. In `ReActAgent` a tool call, prompt included, is the one step
`ExecuteTool`.

`Pipeline` adds main's stages and gates, and takes the payment tool apart. As each
stage is a batch of one, `Orchestrator.Run` is two steps: dispatch to a fresh agent
(or give up), and collect. When the next tool call of the execution agent is a
payment, `EnterTool` starts a call of `TransactionGuard` (its `Execute`), which
runs through the guard's own actions: `ReadAnswer` for the reader goroutine,
`WaitOver` for the select, `Operator` for the terminal. `LeaveTool` is the
`ExecuteTool` of the agent with the outcome of that call. `call` names the call
under way, and `wait` is the guard's `pc`. The context and the signal are one for
agent, stages and guard. A reader left behind by a cancelled prompt goes on across
tool calls, and so do lines that were typed and not read. `EnterTool` needs a call that has not
been used: the number of payments of one process is bounded by the set `Call`.
`PaymentsShown` counts: as many placed calls as messages that report one.

### Config

The actions are the lines of the file: skipped, exported, malformed. `env` is the
environment, `shell` what it was at the start and `read` the assignments so far,
which the properties need. A value is a member of a small set; what
`strconv` makes of it is given by the constants `IntOf` and `FloatOf`, so that an
empty text, a typo or an out-of-range number is one with no entry there. `ValueOf`
is the stripping of an inline comment as the code does it, with the case in which the
comment becomes the value. `settings` has the three fields that `main` uses.

`Precedence` is about the environment and about those settings. What a variable should
have (`Given`) leaves that case open, because the comment at config.go:132 has the comment
stripped and the code does not: `CommentsStripped` says what the comment says, and
`config_comment` refutes it. An exported but empty variable counts as set by the shell,
so the default is used and not the file; the documents do not say which they mean.

### GoSlice, MemoryStore, SafetyChecker

A slice is a header (array and length) over a heap of arrays; `append` writes in
place when the array has room and copies to a larger one otherwise. `MemoryStore`
has one step per lock, body and unlock of a method, and three for the body of
`AddHistoryEntry`: the time stamp (`clock` may stand still between two), the append
and the assignment of the header it returned. An entry is a record of its time and of
the call that made it. The map has one key.

`SafetyChecker` takes `AddRule` apart into the words it reads and writes, as nothing
orders them against the other calls: the load of array and length in either order
(`LoadArray`, `LoadLen`), the allocation (`AppendRule`), and the stores of the length, of
the array where it is new and of the element, in any order (`StoreLen`, `StoreArray`,
`StoreElement`). A check copies the header too in two steps (`RangeArray`, `RangeLen`)
and then goes through the keywords. A place that was not written yet, or lies behind
the end of an array, holds `Garbage`, which may match or crash; so does a place for
which two calls race (`Raced`: a string is two words itself). `todo` and `unread` are what
is left to load or store; `alone` and `due` are history fields for the property. The
capacity word of a header is left out: the capacity is that of the array, so that an
append past the end of an array, after a pointer and a capacity of two different
headers, is not in the model.

### MarketTools

The exits of the three `Execute` methods, and the arithmetic of the quote. Prices
are exact multiples of `1/Scale` rupee, so `roundTo` is integer arithmetic with
the truncation of `int()`.

### ProviderWire

Replies are sequences of text and call blocks with a stop reason. `to...` and
`from...` are the converters, `Receive` adds what the agents append to the
conversation. The loops over the messages are folds, one step per message
(`AntMessage`, `GeminiMessage`); `CallsOf` is the loop that collects the calls of a
reply. What a service may send is an assumption, in `ApiReply`: it stops
for tools only when it names one, and may be cut by the token limit anywhere.

## 3. Runs

| Run | Instance | Shows |
|---|---|---|
| `orchestrator` | 3 tasks, 1 type, MAX_WORKERS 0 | safety and liveness of `Run`, refinement of `TaskBatch` |
| `orchestrator_attribution` | same | violated: a result need not name its task |
| `guard_sequential` | 2 calls, 1 agent, one line per prompt | approval by one's own line, readers and waits |
| `guard_concurrent` | 2 calls, 2 agents, 3 lines typed freely | what survives the race on the scanner |
| `guard_crossed` | 2 calls, 2 agents | violated: one prompt's yes approves the other transaction |
| `guard_hang` | 2 calls, 1 agent | violated: nothing ends an unanswered prompt |
| `agent` | 3 steps, batches up to 2, 2 runs, one readable tool and the payment tool | the loop against any LLM |
| `pipeline` | 2 steps, batches up to 2, 2 payments, 2 lines, an approving and an empty verdict | the stages end to end, with the operator |
| `pipeline_verdict` | same, and a rejection that quotes the word | violated: that rejection is executed |
| `standalone` | 3 settings, 2 lines; prices around one rupee; 2 goroutines with 3 calls each; 3 `AddRule` calls and a check of one word; 2 functions, 2 blocks per reply, 3 requests, each provider | precedence and gate, rounding, snapshots and locks, rules, well-formed requests and faithful echo |
| `config_comment` | same | violated: a comment is taken for the value |
| `wire_truncated` | the wire part of `standalone` | violated: a truncated reply is final |

Bounds. Three tasks on one worker is the least instance in which one task runs,
one waits and one gives up; the factory of the single type can appear before,
between and after the lookups; MAX_WORKERS 0 exercises the clamp (larger values
are covered by the proofs). Two calls are enough for a race or a leaked reader
to touch another prompt, three lines for one line more than prompts. In `agent`
`maxReActSteps` is 3 instead of 10: every branch of the loop is reached on its
first, a middle and its last step. Two runs show reuse. Three requests let a
second batch follow a first in the wire format. Amounts are 0 (refused),
500 (at the threshold, free) and 501. In `pipeline` a response asks for no more
payments than there are calls left, which is a bound; two payments can
be made by one response or by two, one prompt after the other, and two lines are
one for each prompt. In `standalone` two lines let the first and the second
line of one variable differ, three calls per goroutine let one hold a history while
the other appends in place and by a copy, and three rules let two calls overlap
and a third follow; a text of one keyword is enough, as a check passes over the others.
The parts of `standalone` share nothing, so a behaviour exercises one of them. Price 0 is the missing field, and 985 to 1015 tenths of a paisa
have every last digit on both sides of the previous close.

In `guard_*`, `agent`, `pipeline*`, `standalone`, `config_comment` and `wire_truncated` deadlock
is not checked, because a
finished (or, in the guard, a waiting) system has no step left. `Orchestrator`
has an explicit `Terminated` step, and deadlock is checked.

Fairness. Only steps the process takes by itself are fair: the Go scheduler runs
a goroutine that can run (`Orchestrator!Fairness`, `TransactionGuard!Fairness`).
An agent is fair only once the context is cancelled, when every provider and
tool returns; otherwise `ReturnsIfAgentsDo` assumes explicitly that agents
return. The operator, the signal and the end of stdin are never fair. In
`ReActAgent` weak fairness of the agent's work says that each LLM and tool call
returns in the end: the HTTP clients have timeouts; a prompt has none, so there it
is an assumption on the operator (`guard_hang` shows it is one). `Pipeline` does
without that assumption: only steps of the process are fair, `PipelineEnds` has it
as a condition that no prompt stays unanswered, and `SignalEnds` needs no condition.

## 4. Disagreements between code and documentation

The six violation runs, each with its quotation in `PROJECT.json`: results
without a task ID; answers that cross between concurrent prompts; a prompt with no
timeout; the substring test on the verdict; truncated replies taken as final; an inline
comment that is not stripped.

Some of what the code does is unusual and denied by no document. The properties
there say what still holds, and a note under "hazards" says so: a fall is rounded
towards zero (`ChangeRounded` bounds the error), malformed tool arguments are shown to
the LLM as null (`CallsEchoed`), one of two overlapping `AddRule` calls may be lost
(`AddedRulesBlock` speaks of the others), a payment may be asked for twice
(`PaymentsShown`, `CostBound`).

## 5. Proofs

`OrchestratorProofs`, for every finite batch, type assignment and MAX_WORKERS
(assumptions `TaskAssumption`, `TypeAssumption`, `WorkersAssumption`).
`WorkerBound` is not inductive alone: releasing a token needs to know that `sem`
is the number of holders, `CloseResults` needs that `wg` is the number of
goroutines not yet exited, and both need `pc` typed. `IInv` is `TypeOK`,
`WorkerBound`, `MainInv` (what the caller's progress says of the goroutines),
`WaitGroupInv` and `SendInv` (whoever is about to send has a result of its own).
`ResultInv` adds that results in the slice and in the channel are exactly those
of the goroutines past their send, one each, hence `OneResultPerTask` and
`SendsNeverBlock`; `CancelInv` that a cancelled result implies the cancellation,
hence `CancelReported`. `WaitsOnlyForAgents` is the absence of deadlock: some
goroutine can go on, or an agent is at work, until `Run` returns, and
`LeavesNothingBehind` says that then all have exited. Both, like
`OnlyTheOperatorHoldsUp` below, spell out the guards of the steps in place of
`ENABLED`. `Implements` maps each action to its abstract step or to a stutter.

`TransactionGuardProofs`, for any set of calls and agents. The invariant `IInv` says
that a channel holds what its reader heard, that a reader exists only for a prompt,
and that a yes on its way implies that something was typed: hence `PlacedOnYes` and
`SilenceIsNotConsent`, which hold under the race. `OwnLineApproves` assumes one
agent (`OneAgent`) and one line per prompt (`Disciplined`), both hypotheses of the theorem;
its invariant `LineInv` follows the only line from stdin through the token to the
reader. It holds until the shutdown signal, after which a leaked reader breaks it.
`OnlyTheOperatorHoldsUp` (with `ReaderInv`) is the safety core of the liveness of a
prompt: it can go on, or its reader waits for a line on an open stdin.

`ReActAgentProofs`, for any registry, step bound, batch size and number of runs
(`StepsAssumption`, `BoundAssumption`, `ContentAssumption`, `ToolAssumption`). `Moves`
sums up the steps by what they do to the conversation: start it, append a response,
append an observation, complete a batch, or leave it alone. The invariant `IInv` is
`TypeOK`, `StateMatchesResult` and

- `ControlInv`: what the place in `Run` says of state, conversation and pending calls;
- `AnsweredInv`: each response is followed by one tool message per call, in order,
  when the calls still pending are counted in. `ConversationWellFormed` speaks of the
  conversation that is sent, where nothing is pending, and is not inductive: the
  hazard is a batch that is cut between two calls;
- `StepInv`: the counter of the loop is the number of responses, hence `CostBound`;
- `CancelInv`: the response under way when the context is cancelled would be the next
  message, hence `OneBatchAfterCancel`.

`PipelineProofs`, for any payments, texts and operator, extends these proofs and uses
those of the guard. `ImplementsGuard` is a refinement: every step of the process is a
step of `Guard` or leaves it alone. The theorems of `TransactionGuardProofs` are
taken over through an `INSTANCE` of that module; their assumptions about the constants
are proved for the values given (`GuardAssumptions`), one agent among them. Hence
`OperatorApproves`, with `Disciplined` (one line per prompt) as a hypothesis, and
`ConsentComesFirst`, without it.

`PInv` is the agent's `IInv`, which holds of each stage's fresh agent (`AgentStep`: main, the
guard and the readers leave the agent alone, or start a new one), `MainInv` (what each
stage knows of the results before it) and `LedgerInv` (only the execution agent calls
the payment tool, one call at a time, and the calls that are over and placed are as
many as the messages that report one): hence `ReviewComesFirst`, `PaymentsAreShown` and
`AgentsBehave`.

`SafetyCheckerProofs`, for any number of `AddRule` calls (`RuleAssumption`). A torn
header, a lost rule and an append that overwrites another's are all possible, so the
invariant says what they cannot touch. `PrefixInv`: for some `n`, the first `n` places
are the same in every array that may still become the list's (`LiveArrays`), every such
length (`LiveLens`) is at least `n`, every place where an element is still to be written
(`Pending`) is beyond `n`, and these places hold the defaults and the rules added alone
(`Settled`). What a check has to find (`due`) is among the first `m <= n`, which each part of
its header that it has loaded leaves it (`Checked`). `NothingNew` covers the steps that
add nothing to these sets; `AppendKeeps` shows that a new array begins with the
common places. `AloneInv` is what lets a rule become settled: an `AddRule` nobody
overlaps works on the header of the list, and what it has stored of its own is there,
so that its last store, whichever that is, leaves a list that shows the rule
(`StoreKeeps`).

`ProviderWireProofs`, for any functions and bounds (`BlocksAssumption`). The converters
are folds, and the library's induction theorems take an operator as a parameter; the
module derives induction over numbers and sequences in set form (`NumberInduction`,
`SequenceInduction`: a set that has `<<>>` and every `Append` has all sequences) from
the fact that `Nat` is well founded, and from it the equations of `FoldLeft`,
`FlattenSeq` and `CallsOf` (`CallsEquations`, `FlattenEquations`, `AntEquations`,
`GeminiEquations`). `WireBatch` is what the converters do to a batch: the response
becomes one turn, and its results become one turn each (OpenAI) or one turn together,
whatever the conversation before. No property about requests is inductive, as the next
request is made from `messages` anew: `MessagesInv` says of the request that would be
sent now that it is well formed (`Sendable`) and shows the calls that were `asked`,
`RequestInv` the same of the last one that was sent. `Heard` relates a reply to what the
agent makes of it, `SendableGrows` and `ShownGrows` what a batch adds. `EveryCallHeeded`
speaks of the conversation itself (`KeptGrows`).

`StandaloneProofs`. `Config`, for every set of variables, texts, comment and amounts, and
files of any length (assumptions `KeyAssumption`, `ParseAssumption`, `TextAssumption`).
`EnvGiven` is the half of `Precedence` about the environment, inductive once the
environment and the lines are typed (`EnvInv`): a line's value is never `Absent`, hence a
variable that a line has set is not set again. The half about the settings follows from
it and from `LoadedInv`, that the settings in use are what the fallbacks make of the
environment; so does `GateAlwaysHolds`.

`MarketTools`, for all prices and every scale (`PriceAssumption`): `Rounding`
bounds `roundTo` by the truncation of a quotient (`Division`, `Truncation`), and
`QuoteInvariant` says that a quote is always made by `Change` and `Percent`.

`MemoryStoreProofs`, for any number of goroutines and calls and histories of any
length. `LockInv` (a writer is alone in the lock) is inductive. `Appended` and
`AppendedView` say what an append leaves where it was. `HeapInv` is why a snapshot
is stable: a header that shares the array of the store's history is no longer than
that, and an append writes behind it. `OrderInv` places every timestamp: in the
history, in its order, or in the hand of the one writer, who has the latest; an entry
is there once because the call that made it is.

Only model-checked: liveness (`ReturnsOnCancel`, `ReturnsIfAgentsDo`, `CancelReleases`,
`EofDrains`, `AnswerHeeded`, `RunReturns`, `PipelineEnds`, `SignalEnds`), which needs
fairness and `ENABLED`. Every safety invariant and action property of the passing runs
is a theorem. `OwnLineApproves` and `OperatorApproves` are conditional on one agent
and `Disciplined`; the run `guard_crossed` shows what happens with two agents.

## 6. Not modelled

`Config.Validate`, which changes nothing and has no caller; HTTP, JSON syntax,
prompts, logging and printing; the legacy `GenerateResponse` stubs; tool schema
conversion, which copies fields; `pkg/types`, which only declares; the error of
binary fractions; the preference of a RWMutex for waiting writers; the capacity word of a slice header; a panic of the
scanner under its data race. The map of the store
has one key: no method relates two.

## 7. Plan

1. Done: all modules of the table; proofs of every safety invariant and action
   property, of the refinement of `TaskBatch` by `Orchestrator`, and of the
   refinement of `TransactionGuard` by `Pipeline`.
2. To come: shorter proofs of the lemmas about sequences; the same "can always go on"
   theorem for the process as a whole (`Pipeline`), from `OnlyTheOperatorHoldsUp`.
