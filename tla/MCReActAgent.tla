---------------------------- MODULE MCReActAgent -----------------------------
(* The registries of cmd/sentinel/main.go with one read-only tool standing   *)
(* for the three, and short conversations.                                   *)
EXTENDS ReActAgent

MCContent == {"", "report"}
MCToolName == {"Fetch", "Place"}
MCRegistry == [k \in Kind |-> CASE k = "research" -> {"Fetch"}
                               [] k = "execution" -> {"Place"}
                               [] OTHER -> {}]

==============================================================================
