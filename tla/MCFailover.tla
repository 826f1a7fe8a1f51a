----------------------------- MODULE MCFailover -----------------------------
(* Instances of ModelFailover: one primary provider and fallbacks, families  *)
(* of one and two providers, and timers of a few units each.                 *)
EXTENDS ModelFailover, TLC

MCListed2   == <<"openai", "deepseek">>
MCPriority2 == [p \in {"openai", "deepseek"} |-> IF p = "openai" THEN 1 ELSE 10]
MCFamily2   == [p \in {"openai", "deepseek"} |-> p]

\* Nothing tells callers of the same kind apart.
MCSymmetry == Permutations(Callers)

MCListed3   == <<"mimo-1", "mimo-2", "deepseek">>
MCPriority3 == [p \in {"mimo-1", "mimo-2", "deepseek"} |-> IF p = "deepseek" THEN 10 ELSE 1]
MCFamily3   == [p \in {"mimo-1", "mimo-2", "deepseek"} |->
                   IF p = "deepseek" THEN "deepseek" ELSE "mimo"]

MCCooldowns == [rate_limit |-> 1, server |-> 1, timeout |-> 1, auth |-> 3]
MCShort     == [rate_limit |-> 1, server |-> 1, timeout |-> 1, auth |-> 1]
=============================================================================
