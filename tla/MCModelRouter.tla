----------------------------- MODULE MCModelRouter -----------------------------
\* Instances of ModelRouter: MODEL_CHAINS of model_router.py:21-25 for safety,
\* two of its chains for liveness.
EXTENDS ModelRouter, TLC

CONSTANTS opus, sonnet, haiku, c1, c2

MCModel == {opus, sonnet, haiku}
MCComplexity == {"fast", "standard", "complex"}
MODEL_CHAINS == [fast     |-> <<haiku, sonnet>>,
                 standard |-> <<sonnet, haiku>>,
                 complex  |-> <<opus, sonnet>>]

TwoModels == {sonnet, haiku}
TwoTasks == {"fast", "standard"}
TwoChains == [fast |-> <<haiku, sonnet>>, standard |-> <<sonnet, haiku>>]

Callers == {c1, c2}
Symmetry == Permutations(Callers)
================================================================================
