----------------------------- MODULE MCStandalone ----------------------------
(* The components that share no state with the agents: the loading of the    *)
(* configuration, the read-only tools, the wire format of the providers, and *)
(* the store and the rule checker, which main does not use.  They share none *)
(* with each other either, so each behaviour exercises one of them and       *)
(* leaves the others as they start.                                          *)
EXTENDS Config, MarketTools, MemoryStore, SafetyChecker, ProviderWire

CONSTANTS g1, g2, r1, r2, r3

VARIABLE part  \* the component that is exercised

parts == <<configVars, toolVars, storeVars, checkerVars, vars, part>>

\* For each setting an empty value, good ones and bad ones; for the threshold
\* also what parses to no number and what is out of range.
MCText == [LLM_PROVIDER |-> {"", "anthropic", "antropic"},
           MAX_WORKERS |-> {"", "8", "eight"},
           TRANSACTION_THRESHOLD_INR |-> {"", "800", "NaN", "1e999"}]
MCIntOf == [t \in {"8", "800"} |-> IF t = "8" THEN 8 ELSE 800]
MCFloatOf ==
  [t \in {"8", "800", "NaN"} |->
     [nan |-> t = "NaN", val |-> CASE t = "8" -> 8 [] t = "800" -> 800 [] OTHER -> 0]]
MCAmount == {500, 501, 801}

\* In tenths of a paisa: no price, one rupee, and around it.
MCPrice == {0} \cup 985..1015

\* One default keyword, a new one in two spellings, and an empty one.
MCDefault == <<"hack">>
MCToLower == [w \in {"Scam", "scam", ""} |-> IF w = "" THEN "" ELSE "scam"]
MCRuleOf == [a \in Adder |-> CASE a = r1 -> "Scam" [] a = r2 -> "" [] OTHER -> "scam"]

\* Two functions: two blocks in a reply may be two calls of one, or one of each.
MCName == {"FetchStockQuote", "FetchMarketNews"}

StandaloneInit ==
  /\ ConfigInit /\ ToolInit /\ StoreInit /\ RulesInit /\ Init
  /\ part \in {"config", "tools", "store", "checker", "wire"}
  /\ part # "config" => \A k \in Key : shell[k] = Absent
  /\ part # "tools" => tool = "FetchStockQuote"
  /\ part # "wire" => provider = "gemini"

StandaloneNext ==
  /\ UNCHANGED part
  /\ \/ part = "config" /\ ConfigNext /\ UNCHANGED <<toolVars, storeVars, checkerVars, vars>>
     \/ part = "tools" /\ ToolNext /\ UNCHANGED <<configVars, storeVars, checkerVars, vars>>
     \/ part = "store" /\ StoreNext /\ UNCHANGED <<configVars, toolVars, checkerVars, vars>>
     \/ part = "checker" /\ RulesNext /\ UNCHANGED <<configVars, toolVars, storeVars, vars>>
     \/ part = "wire" /\ Next /\ UNCHANGED <<configVars, toolVars, storeVars, checkerVars>>

StandaloneSpec == StandaloneInit /\ [][StandaloneNext]_parts

==============================================================================
