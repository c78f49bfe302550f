--------------------------- MODULE TransactionGuard --------------------------
(***************************************************************************)
(* PlaceUPITransaction.Execute and the TransactionGuard it asks for        *)
(* approval (internal/tools/transaction.go, internal/safety/guard.go).     *)
(* All calls share one guard, hence one bufio.Scanner on stdin; every      *)
(* prompt starts a goroutine that reads one line and leaves the answer in  *)
(* a channel of its own, and a call that is cancelled leaves its reader    *)
(* behind.                                                                 *)
(***************************************************************************)
EXTENDS Integers, Sequences

CONSTANTS Call,        \* the invocations of the tool
          Agent,       \* the execution agents that make them
          OwnerOf,     \* which agent makes which call
          Amount,      \* the values of amount_inr
          Threshold,   \* TRANSACTION_THRESHOLD_INR
          MaxLines,    \* bound: lines the operator types
          Disciplined  \* the operator types one line per prompt at most

ASSUME OwnerAssumption == OwnerOf \in [Call -> Agent]
ASSUME AmountAssumption == Amount \subseteq Int /\ Threshold \in Int
ASSUME OperatorAssumption == MaxLines \in Nat /\ Disciplined \in BOOLEAN

VARIABLES
  ctxDone,  \* ctx.Done() is closed
  pc,       \* each call: new, waiting in the select, placed or failed
  amount,   \* its amount_inr
  reader,   \* the goroutine of its prompt
  heard,    \* what that goroutine got from the scanner
  answer,   \* the one-place channel between the two
  token,    \* the scanner's token, the result of the latest Scan
  stdin,    \* lines typed and not yet scanned
  eof,      \* nothing more will come: stdin closed, or a line too long
  typed     \* the lines typed so far

vars == <<ctxDone, pc, amount, reader, heard, answer, token, stdin, eof, typed>>
readerVars == <<reader, heard, token, stdin>>

\* A line the operator typed, and the prompt it was meant for. Torn lines are
\* what a racing read of the scanner's token may yield, Blank is the text of a
\* nil token, None an empty channel and Closed the answer that carries an error.
Nobody == "nobody"
Line == [says : {"yes", "no"}, to : Call]
Torn == [says : {"yes", "no"}, to : {Nobody}]
Blank == [says |-> "no", to |-> Nobody]
None == [says |-> "nothing", to |-> Nobody]
Closed == [says |-> "closed", to |-> Nobody]

Live == {"scan", "text", "send"}
Racing(c) == \E d \in Call \ {c} : reader[d] \in {"scan", "text"}

-----------------------------------------------------------------------------
(* Deliberately wrong variants of definitions below, one per plausible bug.  *)
(* No specification uses them; they show what each property can detect.      *)
Interrupted_Timeout == TRUE             \* a timeout that abandons the reader
Interrupted_Never == FALSE              \* a plain receive instead of the select
Outcome_ErrIgnored(a) == IF a.says = "no" THEN "failed" ELSE "placed"
Outcome_AskAgain(a) == IF a.says = "yes" THEN "placed" ELSE "select"
Deliverable_Unbuffered(c) == pc[c] = "select"         \* make(chan answer)
EndToken_Marked == Closed               \* EOF is marked in the shared token

-----------------------------------------------------------------------------
RequiresApproval(a) == a > Threshold

\* What the steps of RequestApproval test or compute.
Interrupted == ctxDone                                \* <-ctx.Done()
Outcome(a) == IF a.says = "yes" THEN "placed" ELSE "failed"
Deliverable(c) == answer[c] = None                    \* make(chan answer, 1)
EndToken == Blank                                     \* Scan's at EOF

Init == /\ ctxDone = FALSE
        /\ pc = [c \in Call |-> "new"]
        /\ amount = [c \in Call |-> 0]
        /\ reader = [c \in Call |-> "none"]
        /\ heard = [c \in Call |-> None]
        /\ answer = [c \in Call |-> None]
        /\ token = Blank
        /\ stdin = <<>>
        /\ eof = FALSE
        /\ typed = <<>>

\* Execute up to the select of RequestApproval: bad parameters fail, an amount
\* up to the threshold is placed without a look at ctx, any other prints its
\* prompt and starts a reader. An agent makes its calls one after the other.
Execute(c) ==
  /\ pc[c] = "new"
  /\ \A d \in Call : OwnerOf[d] = OwnerOf[c] => pc[d] # "select"
  /\ \E a \in Amount, ids \in BOOLEAN :
       /\ amount' = [amount EXCEPT ![c] = a]
       /\ \/ /\ ~ids \/ a <= 0
             /\ pc' = [pc EXCEPT ![c] = "failed"]
             /\ UNCHANGED reader
          \/ /\ ids /\ a > 0 /\ ~RequiresApproval(a)
             /\ pc' = [pc EXCEPT ![c] = "placed"]
             /\ UNCHANGED reader
          \/ /\ ids /\ a > 0 /\ RequiresApproval(a)
             /\ pc' = [pc EXCEPT ![c] = "select"]
             /\ reader' = [reader EXCEPT ![c] = "scan"]
  /\ UNCHANGED <<ctxDone, heard, answer, token, stdin, eof, typed>>

-----------------------------------------------------------------------------
\* The reader's g.scanner.Scan(), alone with the scanner.
Scan(c) == /\ reader[c] = "scan"
           /\ ~Racing(c)
           /\ stdin # <<>>
           /\ token' = Head(stdin)
           /\ stdin' = Tail(stdin)
           /\ reader' = [reader EXCEPT ![c] = "text"]
           /\ UNCHANGED <<ctxDone, pc, amount, heard, answer, eof, typed>>

\* The same while another reader is in Scan or Text: a data race on the
\* scanner's buffer and token. The line read may be lost to this reader, which
\* then goes on reading, and the token may be the old one, the new one or torn.
RacedScan(c) ==
  /\ reader[c] = "scan"
  /\ Racing(c)
  /\ stdin # <<>>
  /\ token' \in {token, Head(stdin)} \cup Torn
  /\ stdin' = Tail(stdin)
  /\ reader' \in {reader, [reader EXCEPT ![c] = "text"]}
  /\ UNCHANGED <<ctxDone, pc, amount, heard, answer, eof, typed>>

\* Another outcome of the race: the line the other reader is taking is found
\* in the buffer and returned a second time.
RacedRepeat(c) ==
  /\ reader[c] = "scan"
  /\ Racing(c)
  /\ token # Blank
  /\ reader' = [reader EXCEPT ![c] = "text"]
  /\ UNCHANGED <<ctxDone, pc, amount, heard, answer, token, stdin, eof, typed>>

\* Scan sets the token to nil and returns false, now and for later readers.
ScanEnds(c) ==
  /\ reader[c] = "scan"
  /\ eof /\ stdin = <<>>
  /\ token' = EndToken
  /\ heard' = [heard EXCEPT ![c] = Closed]
  /\ reader' = [reader EXCEPT ![c] = "send"]
  /\ UNCHANGED <<ctxDone, pc, amount, answer, stdin, eof, typed>>

\* g.scanner.Text() reads the shared token, whoever scanned it.
Text(c) == /\ reader[c] = "text"
           /\ heard' = [heard EXCEPT ![c] = token]
           /\ reader' = [reader EXCEPT ![c] = "send"]
           /\ UNCHANGED <<ctxDone, pc, amount, answer, token, stdin, eof, typed>>

\* The channel has one place, so the send succeeds with nobody receiving.
Send(c) == /\ reader[c] = "send"
           /\ Deliverable(c)
           /\ answer' = [answer EXCEPT ![c] = heard[c]]
           /\ reader' = [reader EXCEPT ![c] = "finished"]
           /\ UNCHANGED <<ctxDone, pc, amount, heard, token, stdin, eof, typed>>

Read(c) == \/ Scan(c) \/ RacedScan(c) \/ RacedRepeat(c) \/ ScanEnds(c)
           \/ Text(c) \/ Send(c)

-----------------------------------------------------------------------------
\* The select. With an answer there and ctx done, Go picks either branch.
SelectAnswer(c) ==
  /\ pc[c] = "select"
  /\ answer[c] # None
  /\ pc' = [pc EXCEPT ![c] = Outcome(answer[c])]
  /\ UNCHANGED <<ctxDone, amount, readerVars, answer, eof, typed>>

SelectCancel(c) ==
  /\ pc[c] = "select"
  /\ Interrupted
  /\ pc' = [pc EXCEPT ![c] = "failed"]
  /\ UNCHANGED <<ctxDone, amount, readerVars, answer, eof, typed>>

-----------------------------------------------------------------------------
\* The operator answers a prompt that is waiting.
TypeLine == /\ ~eof
            /\ Len(typed) < MaxLines
            /\ \E l \in Line :
                 /\ pc[l.to] = "select"
                 /\ Disciplined => \A i \in DOMAIN typed : typed[i].to # l.to
                 /\ stdin' = Append(stdin, l)
                 /\ typed' = Append(typed, l)
            /\ UNCHANGED <<ctxDone, pc, amount, reader, heard, answer, token, eof>>

CloseStdin == /\ ~eof
              /\ eof' = TRUE
              /\ UNCHANGED <<ctxDone, pc, amount, readerVars, answer, typed>>

\* SIGINT or SIGTERM.
Cancel == /\ ~ctxDone
          /\ ctxDone' = TRUE
          /\ UNCHANGED <<pc, amount, readerVars, answer, eof, typed>>

Next == \/ TypeLine \/ CloseStdin \/ Cancel
        \/ \E c \in Call : Execute(c) \/ Read(c) \/ SelectAnswer(c) \/ SelectCancel(c)

Spec == Init /\ [][Next]_vars

\* Only the Go scheduler is fair: the operator need not type, stdin need not
\* close, and nobody need interrupt the process.
Fairness == \A c \in Call : /\ WF_vars(Read(c))
                            /\ WF_vars(SelectAnswer(c) \/ SelectCancel(c))

FairSpec == Spec /\ Fairness

-----------------------------------------------------------------------------
\* The variables keep their types.
TypeOK ==
  /\ ctxDone \in BOOLEAN /\ eof \in BOOLEAN
  /\ pc \in [Call -> {"new", "select", "placed", "failed"}]
  /\ amount \in [Call -> Amount \cup {0}]
  /\ reader \in [Call -> {"none", "finished"} \cup Live]
  /\ heard \in [Call -> Line \cup Torn \cup {None, Closed}]
  /\ answer \in [Call -> Line \cup Torn \cup {None, Closed}]
  /\ token \in Line \cup Torn
  /\ stdin \in Seq(Line) /\ typed \in Seq(Line)

\* A call above the threshold is placed only after its own reader has finished
\* with a "yes" from the scanner: EOF, a refusal or a cancelled wait never get
\* there, even when the reader is raced (guard.go:37-39).
PlacedOnYes ==
  \A c \in Call : pc[c] = "placed" /\ RequiresApproval(amount[c]) =>
    reader[c] = "finished" /\ heard[c].says = "yes"

\* While the operator has typed nothing, nothing above the threshold has been
\* placed, whatever was cancelled, closed or left behind.
SilenceIsNotConsent ==
  typed = <<>> => \A c \in Call : RequiresApproval(amount[c]) => pc[c] # "placed"

\* Until the shutdown signal a reader outlives no call: the line on stdin is
\* always read for a prompt that is still waiting (guard.go:62-84).
LeakOnlyAfterCancel ==
  ~ctxDone => \A c \in Call : reader[c] \in Live => pc[c] = "select"

\* With one agent and an operator who types one line per prompt, until the
\* shutdown signal, a transaction is approved by the line typed for it.
ApprovedByOwnLine ==
  [][\A c \in Call : pc[c] = "select" /\ pc'[c] = "placed" /\ ~ctxDone
                       => heard[c].to = c]_vars

\* Cancellation always frees a call that waits for the operator
\* (guard.go:16-19).
CancelReleases == ctxDone ~> (\A c \in Call : pc[c] # "select")

\* Once stdin is closed no reader stays behind and no call keeps waiting.
EofDrains ==
  eof ~> (\A c \in Call : pc[c] # "select" /\ reader[c] \notin Live)

\* With one agent, a line typed for a prompt always ends that prompt's wait.
AnswerHeeded ==
  \A c \in Call : (\E i \in DOMAIN stdin : stdin[i].to = c) ~> (pc[c] # "select")

\* What guard.go:38 says, "Returns nil only on explicit approval", for any
\* number of agents: the approving line was typed for this very prompt.
\* Checked where it fails: the calls share one scanner.
ExplicitApproval ==
  \A c \in Call : pc[c] = "placed" /\ RequiresApproval(amount[c]) => heard[c].to = c

\* What README.md:516 says, that the process never hangs indefinitely waiting
\* for human input. Checked where it fails: nothing ever times out.
WaitEnds == \A c \in Call : (pc[c] = "select") ~> (pc[c] # "select")

==============================================================================
