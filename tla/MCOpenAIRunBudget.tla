------------------------- MODULE MCOpenAIRunBudget -------------------------
(* Model checking of OpenAIRunBudget: processes and calls are             *)
(* interchangeable.                                                        *)
EXTENDS OpenAIRunBudget, TLC

MCSymmetry == Permutations(Processes) \cup Permutations(Calls)
=============================================================================
