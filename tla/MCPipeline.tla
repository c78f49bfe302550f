----------------------------- MODULE MCPipeline ------------------------------
(* The registries of cmd/sentinel/main.go, and the verdicts that matter: an  *)
(* approval, none, and (for the run that needs it) a rejection that quotes   *)
(* the word.  Amounts are in rupees around the default threshold of 500.     *)
EXTENDS Pipeline

CONSTANTS c1, c2, c3

MCApproving == {"approve"}
QuotedToo == MCApproving \cup {"reject, not APPROVED"}
MCContent == Mentioning \cup {""}
MCToolName == {"Fetch", "Place"}
MCRegistry == [k \in Kind |-> CASE k = "research" -> {"Fetch"}
                               [] k = "execution" -> {"Place"}
                               [] OTHER -> {}]
MCAmount == {500, 501}

==============================================================================
