------------------------ MODULE TransactionGuardProofs -----------------------
(***************************************************************************)
(* Proofs, for any number of calls and agents, any amounts and threshold,  *)
(* of the safety invariants of module TransactionGuard: they hold although *)
(* the readers race on the scanner.                                        *)
(***************************************************************************)
EXTENDS TransactionGuard, TLAPS

\* The channel holds nothing until the reader has finished, and then what it
\* heard; a call that has not begun has no reader.
ChannelInv ==
  \A c \in Call : /\ answer[c] # None => reader[c] = "finished" /\ answer[c] = heard[c]
                  /\ pc[c] = "new" => reader[c] = "none"

\* With nothing typed there is no "yes" anywhere.
SilenceInv ==
  typed = <<>> => /\ stdin = <<>> /\ token.says # "yes"
                  /\ \A c \in Call : heard[c].says # "yes"

IInv == TypeOK /\ ChannelInv /\ PlacedOnYes /\ LeakOnlyAfterCancel /\ SilenceInv

-----------------------------------------------------------------------------
\* Abbreviations that are expanded everywhere.
USE DEF Interrupted, Outcome, Deliverable, EndToken

\* The texts that stand for no line are not approvals, and not each other.
LEMMA Texts ==
  /\ Blank \in Torn /\ Blank.says # "yes"
  /\ None.says # "yes" /\ Closed.says # "yes"
  /\ None \notin Line \cup Torn \cup {Closed}
BY DEF Blank, None, Closed, Line, Torn

\* The invariant holds before the first call.
LEMMA InitIInv == Init => IInv
<1> SUFFICES ASSUME Init PROVE IInv
  OBVIOUS
<1>1. TypeOK
  <2>1. stdin \in Seq(Line) /\ typed \in Seq(Line)
    BY DEF Init
  <2>2. token \in Line \cup Torn
    BY Texts DEF Init
  <2>3. /\ amount \in [Call -> Amount \cup {0}]
        /\ heard \in [Call -> Line \cup Torn \cup {None, Closed}]
        /\ answer \in [Call -> Line \cup Torn \cup {None, Closed}]
        /\ pc \in [Call -> {"new", "select", "placed", "failed"}]
        /\ reader \in [Call -> {"none", "finished"} \cup Live]
    BY DEF Init
  <2> QED BY <2>1, <2>2, <2>3, Zenon DEF Init, TypeOK
<1>2. ChannelInv /\ PlacedOnYes /\ LeakOnlyAfterCancel
  BY DEF Init, ChannelInv, PlacedOnYes, LeakOnlyAfterCancel, Live
<1>3. SilenceInv
  BY Texts DEF Init, SilenceInv
<1> QED BY <1>1, <1>2, <1>3 DEF IInv

\* Every step keeps the types, a racing read of the scanner included.
LEMMA NextTypeOK == TypeOK /\ [Next]_vars => TypeOK'
<1> SUFFICES ASSUME TypeOK, [Next]_vars PROVE TypeOK'
  OBVIOUS
<1> USE DEF TypeOK
<1>1. CASE UNCHANGED vars
  BY <1>1 DEF vars
<1>2. ASSUME NEW c \in Call, Execute(c) PROVE TypeOK'
  BY <1>2 DEF Execute, Live
<1>3. ASSUME NEW c \in Call, Scan(c) \/ RacedScan(c) PROVE TypeOK'
  <2>1. Head(stdin) \in Line /\ Tail(stdin) \in Seq(Line)
    BY <1>3 DEF Scan, RacedScan
  <2>2. reader' \in [Call -> {"none", "finished"} \cup Live]
    BY <1>3 DEF Scan, RacedScan, Live
  <2>3. token' \in Line \cup Torn
    BY <1>3, <2>1 DEF Scan, RacedScan
  <2> QED BY <1>3, <2>1, <2>2, <2>3 DEF Scan, RacedScan
<1>4. ASSUME NEW c \in Call, RacedRepeat(c) \/ Text(c) \/ Send(c) PROVE TypeOK'
  BY <1>4 DEF RacedRepeat, Text, Send, Live
<1>5. ASSUME NEW c \in Call, ScanEnds(c) PROVE TypeOK'
  BY <1>5, Texts DEF ScanEnds, Live
<1>6. ASSUME NEW c \in Call, SelectAnswer(c) \/ SelectCancel(c) PROVE TypeOK'
  BY <1>6 DEF SelectAnswer, SelectCancel, readerVars
<1>7. CASE TypeLine
  BY <1>7 DEF TypeLine
<1>8. CASE CloseStdin \/ Cancel
  BY <1>8 DEF CloseStdin, Cancel, readerVars
<1> QED BY <1>1, <1>2, <1>3, <1>4, <1>5, <1>6, <1>7, <1>8 DEF Next, Read

\* Every step preserves the invariant.
LEMMA NextIInv == IInv /\ [Next]_vars => IInv'
<1> SUFFICES ASSUME IInv, [Next]_vars PROVE IInv'
  OBVIOUS
<1> USE DEF IInv, RequiresApproval
<1>t. TypeOK'
  BY NextTypeOK
<1>1. CASE UNCHANGED vars
  BY <1>1, <1>t DEF vars, ChannelInv, PlacedOnYes, LeakOnlyAfterCancel, SilenceInv
<1>2. ASSUME NEW c \in Call, Execute(c) PROVE IInv'
  <2>1. ChannelInv' /\ LeakOnlyAfterCancel' /\ SilenceInv'
    BY <1>2 DEF Execute, TypeOK, ChannelInv, LeakOnlyAfterCancel, SilenceInv, Live
  <2>2. PlacedOnYes'
    BY <1>2 DEF Execute, TypeOK, ChannelInv, PlacedOnYes
  <2> QED BY <1>t, <2>1, <2>2
<1>3. ASSUME NEW c \in Call, Scan(c) \/ RacedScan(c) PROVE IInv'
  <2>1. stdin # <<>> /\ UNCHANGED <<ctxDone, pc, amount, heard, answer, eof, typed>>
    BY <1>3 DEF Scan, RacedScan
  <2>2. SilenceInv'
    BY <2>1 DEF SilenceInv
  <2>3. /\ reader[c] = "scan"
        /\ \A d \in Call \ {c} : reader'[d] = reader[d]
        /\ reader'[c] \in {"scan", "text"}
    BY <1>3 DEF Scan, RacedScan, TypeOK
  <2>4. ChannelInv' /\ PlacedOnYes' /\ LeakOnlyAfterCancel'
    BY <2>1, <2>3 DEF ChannelInv, PlacedOnYes, LeakOnlyAfterCancel, Live
  <2> QED BY <1>t, <2>2, <2>4
<1>4. ASSUME NEW c \in Call, RacedRepeat(c) PROVE IInv'
  BY <1>4, <1>t DEF RacedRepeat, TypeOK, ChannelInv, PlacedOnYes,
                    LeakOnlyAfterCancel, SilenceInv, Live
<1>5. ASSUME NEW c \in Call, Text(c) \/ ScanEnds(c) PROVE IInv'
  <2>1. /\ reader[c] \in {"scan", "text"}
        /\ reader' = [reader EXCEPT ![c] = "send"]
        /\ UNCHANGED <<ctxDone, pc, amount, answer, stdin, eof, typed>>
        /\ heard' \in {[heard EXCEPT ![c] = token], [heard EXCEPT ![c] = Closed]}
        /\ token' \in {token, Blank}
    BY <1>5 DEF Text, ScanEnds
  <2>2. ChannelInv' /\ PlacedOnYes' /\ LeakOnlyAfterCancel'
    BY <2>1 DEF TypeOK, ChannelInv, PlacedOnYes, LeakOnlyAfterCancel, Live
  <2>3. SilenceInv'
    BY <2>1, Texts DEF TypeOK, SilenceInv
  <2> QED BY <1>t, <2>2, <2>3
<1>6. ASSUME NEW c \in Call, Send(c) PROVE IInv'
  BY <1>6, <1>t DEF Send, TypeOK, ChannelInv, PlacedOnYes, LeakOnlyAfterCancel,
                    SilenceInv, Live
<1>7. ASSUME NEW c \in Call, SelectAnswer(c) PROVE IInv'
  BY <1>7, <1>t DEF SelectAnswer, readerVars, TypeOK, ChannelInv, PlacedOnYes,
                    LeakOnlyAfterCancel, SilenceInv, Live
<1>8. ASSUME NEW c \in Call, SelectCancel(c) PROVE IInv'
  BY <1>8, <1>t DEF SelectCancel, readerVars, TypeOK, ChannelInv, PlacedOnYes,
                    LeakOnlyAfterCancel, SilenceInv, Live
<1>9. CASE TypeLine
  <2>1. typed' # <<>>
    BY <1>9 DEF TypeLine, TypeOK
  <2> QED BY <1>9, <1>t, <2>1 DEF TypeLine, ChannelInv, PlacedOnYes,
                                  LeakOnlyAfterCancel, SilenceInv
<1>10. CASE CloseStdin \/ Cancel
  BY <1>10, <1>t DEF CloseStdin, Cancel, readerVars, ChannelInv, PlacedOnYes,
                     LeakOnlyAfterCancel, SilenceInv
<1> QED BY <1>1, <1>2, <1>3, <1>4, <1>5, <1>6, <1>7, <1>8, <1>9, <1>10
        DEF Next, Read

\* IInv is an inductive invariant of the guard and its calls.
THEOREM Inductive == Spec => []IInv
BY InitIInv, NextIInv, PTL DEF Spec

\* The variables keep their types.
THEOREM TypeCorrect == Spec => []TypeOK
BY Inductive, PTL DEF IInv

\* Above the threshold a call is placed only on a "yes" its own reader heard.
THEOREM PlacedOnlyOnYes == Spec => []PlacedOnYes
BY Inductive, PTL DEF IInv

\* Before the shutdown signal no reader outlives its call.
THEOREM NoLeakBeforeCancel == Spec => []LeakOnlyAfterCancel
BY Inductive, PTL DEF IInv

\* With nothing typed nothing above the threshold is placed.
THEOREM SilenceNeverApproves == Spec => []SilenceIsNotConsent
<1>1. IInv => SilenceIsNotConsent
  BY DEF IInv, SilenceIsNotConsent, SilenceInv, PlacedOnYes
<1> QED BY <1>1, Inductive, PTL

-----------------------------------------------------------------------------
\* What a reader has heard is never None, and a reader is there, or its answer,
\* as long as the call waits.
ReaderInv ==
  \A c \in Call : /\ reader[c] = "send" => heard[c] # None
                  /\ reader[c] = "finished" => answer[c] # None
                  /\ pc[c] = "select" => reader[c] # "none"

\* Every step keeps it: the channel is filled once and never emptied.
LEMMA NextReaderInv == IInv /\ ReaderInv /\ [Next]_vars => ReaderInv'
<1> SUFFICES ASSUME IInv, ReaderInv, [Next]_vars PROVE ReaderInv'
  OBVIOUS
<1>t. /\ pc \in [Call -> {"new", "select", "placed", "failed"}]
      /\ reader \in [Call -> {"none", "finished"} \cup Live]
      /\ heard \in [Call -> Line \cup Torn \cup {None, Closed}]
      /\ answer \in [Call -> Line \cup Torn \cup {None, Closed}]
      /\ token \in Line \cup Torn
  BY DEF IInv, TypeOK
<1>1. CASE UNCHANGED vars \/ TypeLine \/ CloseStdin \/ Cancel
  BY <1>1 DEF vars, TypeLine, CloseStdin, Cancel, readerVars, ReaderInv
<1>2. ASSUME NEW c \in Call, Execute(c) PROVE ReaderInv'
  BY <1>t, <1>2 DEF Execute, ReaderInv, IInv, ChannelInv
<1>3. ASSUME NEW c \in Call, Scan(c) \/ RacedScan(c) \/ RacedRepeat(c) PROVE ReaderInv'
  BY <1>t, <1>3 DEF Scan, RacedScan, RacedRepeat, ReaderInv
<1>4. ASSUME NEW c \in Call, ScanEnds(c) \/ Text(c) PROVE ReaderInv'
  BY <1>t, <1>4, Texts DEF ScanEnds, Text, ReaderInv
<1>5. ASSUME NEW c \in Call, Send(c) PROVE ReaderInv'
  BY <1>t, <1>5 DEF Send, ReaderInv
<1>6. ASSUME NEW c \in Call, SelectAnswer(c) \/ SelectCancel(c) PROVE ReaderInv'
  BY <1>t, <1>6 DEF SelectAnswer, SelectCancel, readerVars, ReaderInv
<1> QED BY <1>1, <1>2, <1>3, <1>4, <1>5, <1>6 DEF Next, Read

\* The steps that the select of a call and its reader can take now, and what a
\* reader waits for that cannot take any.
CallMoves(c) == pc[c] = "select" /\ (Interrupted \/ answer[c] # None)
ReaderMoves(c) == \/ reader[c] = "scan" /\ (stdin # <<>> \/ eof)
                  \/ reader[c] = "text"
                  \/ reader[c] = "send" /\ Deliverable(c)
AwaitsLine(c) == reader[c] = "scan" /\ stdin = <<>> /\ ~eof

\* The only thing that ever holds up a prompt is an operator who types nothing,
\* on a stdin that stays open: no answer is lost between scanner, channel and
\* select, and a reader whose call is gone finds room for its answer.
THEOREM OnlyTheOperatorHoldsUp ==
  Spec => [](\A c \in Call :
               /\ pc[c] = "select" => CallMoves(c) \/ ReaderMoves(c) \/ AwaitsLine(c)
               /\ reader[c] \in Live => ReaderMoves(c) \/ AwaitsLine(c))
<1>1. Init => ReaderInv
  BY DEF Init, ReaderInv
<1>2. IInv /\ ReaderInv => \A c \in Call :
        /\ pc[c] = "select" => CallMoves(c) \/ ReaderMoves(c) \/ AwaitsLine(c)
        /\ reader[c] \in Live => ReaderMoves(c) \/ AwaitsLine(c)
  BY DEF IInv, TypeOK, ChannelInv, ReaderInv, CallMoves, ReaderMoves, AwaitsLine, Live
<1> QED BY <1>1, <1>2, NextReaderInv, Inductive, PTL DEF Spec

-----------------------------------------------------------------------------
(* One agent, and an operator who types one line per prompt.                 *)
OneAgent == \A c, d \in Call : OwnerOf[c] = OwnerOf[d]
WasTyped(c) == \E i \in DOMAIN typed : typed[i].to = c

\* The only line on its way is the one typed for the only prompt that waits.
LineInv ==
  /\ \A c, d \in Call : pc[c] = "select" /\ pc[d] = "select" => c = d
  /\ \A c \in Call : pc[c] = "select" => reader[c] # "none"
  /\ stdin # <<>> => /\ stdin = <<Head(stdin)>> /\ WasTyped(Head(stdin).to)
                    /\ pc[Head(stdin).to] = "select"
                    /\ reader[Head(stdin).to] = "scan"
  /\ \A c \in Call : pc[c] = "select" /\ reader[c] = "text" => token.to = c
  /\ \A c \in Call : pc[c] = "select" /\ reader[c] \in {"send", "finished"}
                       => heard[c] = Closed \/ heard[c].to = c
  /\ \A c \in Call : pc[c] = "select" /\ reader[c] # "scan" => eof \/ WasTyped(c)

SeqInv == ~ctxDone => LineInv

\* The first line on stdin was typed for a call.
LEMMA HeadLine ==
  ASSUME TypeOK, stdin # <<>>
  PROVE  Head(stdin) \in Line /\ Head(stdin).to \in Call
<1>1. Head(stdin) \in Line
  BY DEF TypeOK
<1> QED BY <1>1 DEF Line

\* With one agent and one line per prompt the line on stdin, in the token or
\* heard stays the one typed for the call that is waiting.
LEMMA NextSeqInv ==
  ASSUME OneAgent, Disciplined, IInv, SeqInv, [Next]_vars
  PROVE  SeqInv'
<1> SUFFICES ASSUME ~ctxDone' PROVE LineInv'
  BY DEF SeqInv
<1> USE DEF IInv
<1>0. ~ctxDone /\ LineInv /\ TypeOK
  BY DEF SeqInv, Next, vars, Execute, Read, Scan, RacedScan, RacedRepeat,
         ScanEnds, Text, Send, SelectAnswer, SelectCancel, TypeLine,
         CloseStdin, Cancel, readerVars
<1>waits. \A c \in Call : reader[c] \in Live => pc[c] = "select" /\ ~Racing(c)
  BY <1>0 DEF LeakOnlyAfterCancel, LineInv, Racing, Live
<1>1. CASE UNCHANGED vars
  BY <1>0, <1>1 DEF vars, LineInv, WasTyped
<1>2. ASSUME NEW c \in Call, Execute(c) PROVE LineInv'
  <2>1. \A d \in Call : pc[d] # "select"
    BY <1>2 DEF Execute, OneAgent
  <2>2. stdin = <<>>
    BY <1>0, <2>1, HeadLine DEF LineInv
  <2>3. /\ UNCHANGED <<heard, token, stdin, eof, typed>>
        /\ \A d \in Call \ {c} : pc'[d] = pc[d]
        /\ pc'[c] = "select" => reader'[c] = "scan"
    BY <1>0, <1>2 DEF Execute, TypeOK
  <2> QED BY <2>1, <2>2, <2>3 DEF LineInv, WasTyped
<1>3. ASSUME NEW c \in Call, Scan(c) PROVE LineInv'
  <2>1. pc[c] = "select" /\ Head(stdin) \in Line /\ Head(stdin).to \in Call
    BY <1>0, <1>3, <1>waits, HeadLine DEF Scan, Live
  <2>2. Head(stdin).to = c /\ WasTyped(c)
    BY <1>0, <1>3, <2>1 DEF Scan, LineInv
  <2>3. stdin' = <<>> /\ token'.to = c
    BY <1>0, <1>3, <2>2 DEF Scan, LineInv
  <2>4. /\ UNCHANGED <<pc, heard, eof, typed>>
        /\ reader' = [reader EXCEPT ![c] = "text"]
    BY <1>3 DEF Scan
  <2> QED BY <1>0, <2>1, <2>2, <2>3, <2>4 DEF LineInv, WasTyped, TypeOK
<1>4. ASSUME NEW c \in Call, RacedScan(c) \/ RacedRepeat(c) PROVE FALSE
  BY <1>4, <1>waits DEF RacedScan, RacedRepeat, Live
<1>5. ASSUME NEW c \in Call, ScanEnds(c) PROVE LineInv'
  <2>1. pc[c] = "select" /\ stdin = <<>> /\ eof
    BY <1>5, <1>waits DEF ScanEnds, Live
  <2>2. /\ UNCHANGED <<pc, stdin, eof, typed>>
        /\ reader' = [reader EXCEPT ![c] = "send"]
        /\ heard' = [heard EXCEPT ![c] = Closed]
    BY <1>5 DEF ScanEnds
  <2> QED BY <1>0, <2>1, <2>2 DEF LineInv, WasTyped, TypeOK
<1>6. ASSUME NEW c \in Call, Text(c) PROVE LineInv'
  <2>1. pc[c] = "select" /\ token.to = c
    BY <1>0, <1>6, <1>waits DEF Text, Live, LineInv
  <2>2. /\ UNCHANGED <<pc, token, stdin, eof, typed>>
        /\ reader[c] = "text"
        /\ reader' = [reader EXCEPT ![c] = "send"]
        /\ heard' = [heard EXCEPT ![c] = token]
    BY <1>6 DEF Text
  <2>3. stdin # <<>> => Head(stdin).to \in Call
    BY <1>0, HeadLine
  <2> QED BY <1>0, <2>1, <2>2, <2>3 DEF LineInv, WasTyped, TypeOK
<1>7. ASSUME NEW c \in Call, Send(c) PROVE LineInv'
  <2>1. stdin # <<>> => Head(stdin).to \in Call
    BY <1>0, HeadLine
  <2> QED BY <1>0, <1>7, <2>1 DEF Send, LineInv, WasTyped, TypeOK
<1>8. ASSUME NEW c \in Call, SelectAnswer(c) \/ SelectCancel(c) PROVE LineInv'
  <2>1. reader[c] = "finished" /\ pc[c] = "select"
    BY <1>0, <1>8 DEF SelectAnswer, SelectCancel, ChannelInv
  <2>2. /\ UNCHANGED <<reader, heard, token, stdin, eof, typed>>
        /\ \A d \in Call \ {c} : pc'[d] = pc[d]
        /\ pc'[c] # "select"
    BY <1>0, <1>8 DEF SelectAnswer, SelectCancel, readerVars, TypeOK
  <2>3. stdin # <<>> => Head(stdin).to \in Call \ {c}
    BY <1>0, <2>1, HeadLine DEF LineInv
  <2> QED BY <1>0, <2>1, <2>2, <2>3 DEF LineInv, WasTyped
<1>9. CASE TypeLine
  <2>1. PICK l \in Line : /\ pc[l.to] = "select" /\ ~WasTyped(l.to)
                          /\ stdin' = Append(stdin, l)
                          /\ typed' = Append(typed, l)
    BY <1>9 DEF TypeLine, WasTyped
  <2>2. l.to \in Call /\ ~eof
    BY <1>9 DEF TypeLine, Line
  <2>3. stdin = <<>>
    BY <1>0, <2>1, <2>2, HeadLine DEF LineInv
  <2>4. reader[l.to] = "scan"
    BY <1>0, <2>1, <2>2 DEF LineInv
  <2>5. stdin' = <<l>> /\ Head(stdin') = l
    BY <2>1, <2>3
  <2>6. WasTyped(l.to)' /\ \A c \in Call : WasTyped(c) => WasTyped(c)'
    <3>1. /\ typed \in Seq(Line) /\ typed' = Append(typed, l)
          /\ Len(typed) \in Nat
      BY <1>0, <2>1 DEF TypeOK
    <3>2. /\ \A i \in DOMAIN typed : i \in DOMAIN typed' /\ typed'[i] = typed[i]
          /\ Len(typed) + 1 \in DOMAIN typed' /\ typed'[Len(typed) + 1] = l
      BY <3>1
    <3> QED BY <3>2 DEF WasTyped
  <2>7. UNCHANGED <<pc, reader, heard, token, eof>>
    BY <1>9 DEF TypeLine
  <2> QED BY <1>0, <2>1, <2>2, <2>4, <2>5, <2>6, <2>7 DEF LineInv
<1>10. CASE CloseStdin
  BY <1>0, <1>10 DEF CloseStdin, readerVars, LineInv, WasTyped
<1>11. CASE Cancel
  BY <1>11 DEF Cancel
<1> QED BY <1>1, <1>2, <1>3, <1>4, <1>5, <1>6, <1>7, <1>8, <1>9, <1>10, <1>11
        DEF Next, Read

\* The step that approves a call takes the line that was typed for it.
LEMMA ApprovingStep ==
  ASSUME IInv, SeqInv, [Next]_vars, ~ctxDone,
         NEW c \in Call, pc[c] = "select", pc'[c] = "placed"
  PROVE  heard[c].to = c /\ UNCHANGED heard
<1>1. SelectAnswer(c)
  BY DEF IInv, TypeOK, Next, vars, Read, Execute, Scan, RacedScan, RacedRepeat,
         ScanEnds, Text, Send, SelectAnswer, SelectCancel, TypeLine,
         CloseStdin, Cancel
<1>2. answer[c].says = "yes" /\ answer[c] # None
  BY <1>1 DEF SelectAnswer, IInv, TypeOK
<1>3. heard[c] # Closed /\ reader[c] = "finished"
  BY <1>2, Texts DEF IInv, ChannelInv
<1> QED BY <1>1, <1>3 DEF SeqInv, LineInv, SelectAnswer, readerVars

\* Until the shutdown signal, what was approved is what its own line approved.
OwnLineInv ==
  ~ctxDone => \A c \in Call : pc[c] = "placed" /\ RequiresApproval(amount[c])
                                => heard[c].to = c

\* No later step changes what the reader of a placed call has heard.
LEMMA NextOwnLineInv ==
  ASSUME IInv, SeqInv, OwnLineInv, [Next]_vars
  PROVE  OwnLineInv'
<1> SUFFICES ASSUME ~ctxDone', NEW c \in Call,
                    pc'[c] = "placed", RequiresApproval(amount[c])'
             PROVE  heard'[c].to = c
  BY DEF OwnLineInv
<1> USE DEF IInv
<1>0. ~ctxDone /\ TypeOK
  BY DEF Next, vars, Execute, Read, Scan, RacedScan, RacedRepeat,
         ScanEnds, Text, Send, SelectAnswer, SelectCancel, TypeLine,
         CloseStdin, Cancel, readerVars
<1>1. CASE pc[c] = "placed"
  <2>1. amount'[c] = amount[c]
    BY <1>0, <1>1 DEF TypeOK, Next, vars, Execute, Read, Scan, RacedScan, RacedRepeat,
         ScanEnds, Text, Send, SelectAnswer, SelectCancel, TypeLine,
         CloseStdin, Cancel
  <2>2. reader[c] = "finished" /\ heard[c].to = c
    BY <1>0, <1>1, <2>1 DEF PlacedOnYes, OwnLineInv, RequiresApproval
  <2>3. heard'[c] = heard[c]
    BY <1>0, <2>2 DEF TypeOK, Next, vars, Execute, Read, Scan, RacedScan, RacedRepeat,
         ScanEnds, Text, Send, SelectAnswer, SelectCancel, TypeLine,
         CloseStdin, Cancel, readerVars
  <2> QED BY <2>2, <2>3
<1>2. CASE pc[c] = "select"
  BY <1>0, <1>2, ApprovingStep
<1>3. CASE pc[c] \in {"new", "failed"}
  <2>1. Execute(c)
    BY <1>0, <1>3 DEF TypeOK, Next, vars, Execute, Read, Scan, RacedScan, RacedRepeat,
         ScanEnds, Text, Send, SelectAnswer, SelectCancel, TypeLine,
         CloseStdin, Cancel
  <2> QED BY <1>0, <2>1 DEF TypeOK, Execute, RequiresApproval
<1> QED BY <1>0, <1>1, <1>2, <1>3 DEF TypeOK

\* Before the first call there is nothing to approve.
LEMMA InitSequential == Init => SeqInv /\ OwnLineInv
BY DEF Init, SeqInv, LineInv, OwnLineInv

\* One agent at a time, and one line per prompt: until the shutdown signal a
\* transaction is approved by the line that was typed for it.
THEOREM OwnLineApproves ==
  ASSUME OneAgent, Disciplined
  PROVE  Spec => ApprovedByOwnLine
<1>1. IInv /\ SeqInv /\ [Next]_vars => SeqInv'
  BY NextSeqInv
<1>2. IInv /\ SeqInv /\ [Next]_vars =>
        [\A c \in Call : pc[c] = "select" /\ pc'[c] = "placed" /\ ~ctxDone
                           => heard[c].to = c]_vars
  BY ApprovingStep
<1> QED BY InitSequential, <1>1, <1>2, Inductive, PTL DEF Spec, ApprovedByOwnLine

\* And it stays so: whatever is placed above the threshold carries the
\* operator's own approval, until the shutdown signal.
THEOREM OwnLineStays ==
  ASSUME OneAgent, Disciplined
  PROVE  Spec => []OwnLineInv
<1>1. IInv /\ SeqInv /\ [Next]_vars => SeqInv'
  BY NextSeqInv
<1>2. IInv /\ SeqInv /\ OwnLineInv /\ [Next]_vars => OwnLineInv'
  BY NextOwnLineInv
<1> QED BY InitSequential, <1>1, <1>2, Inductive, PTL DEF Spec

==============================================================================
