----------------------------- MODULE MCGateway -----------------------------
(***************************************************************************)
(* Gateway on small instances: the policies and orders an owner moves      *)
(* between, chosen so that each check of the gateway matters.              *)
(***************************************************************************)
EXTENDS Gateway, TLC

Open == [enabled |-> TRUE, allowed |-> {}, allowCloud |-> TRUE, guard |-> FALSE]
Guarded == [Open EXCEPT !.guard = TRUE]
Locked == [Open EXCEPT !.allowCloud = FALSE]
OnlyOpenAI == [Open EXCEPT !.allowed = {"openai"}]

AllPolicies == {Guarded, Locked, OnlyOpenAI}
QwenFirst == <<"qwen", "openai">>
Orders == {<<"openai", "qwen">>, <<"openai">>}

Symmetry == Permutations(Caller)
=============================================================================
