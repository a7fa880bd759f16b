----------------------------- MODULE MCLLMGateway -----------------------------
(* openai falls back on deepseek; deepseek has no chain of its own.        *)
EXTENDS LLMGateway

CONSTANTS r1, r2

MCProviders == {"openai", "deepseek"}
MCChain == [p \in {"openai"} |-> <<"openai", "deepseek">>]
MCLimit == [w \in Windows |-> 2]
=============================================================================
