--------------------------- MODULE MCOrchestrator ----------------------------
(* Three tasks of one type, so that one of them waits for a token, and so    *)
(* that the factory may be registered before, between and after the lookups. *)
EXTENDS Orchestrator

CONSTANTS t1, t2, t3

MCTask == {t1, t2, t3}
MCTaskType == {"research"}
MCTypeOf == [t \in Task |-> "research"]

==============================================================================
