---------------------------- MODULE MCFallbackChain ----------------------------
(* A small instance of FallbackChain for TLC. *)
EXTENDS FallbackChain, TLC

CONSTANTS r1, r2, openai, anthropic, ollama, gpt, claude, unclaimed

TwoRequests == {r1, r2}
ThreeProviders == {openai, anthropic, ollama}
ThreeModels == {gpt, claude, unclaimed}
RequestSymmetry == Permutations(Callers)

\* The last rule is shadowed by the first; nothing claims the third model.
SomeRoutes == <<[claims |-> {gpt}, provider |-> openai],
                [claims |-> {claude}, provider |-> anthropic],
                [claims |-> {gpt, claude}, provider |-> ollama]>>

\* One chain; anthropic is a member of it and a provider in its own right.
OneChain == [head \in {openai} |-> <<openai, anthropic, ollama>>]

\* One of each: rejected though the vendor is at fault, rejected because the
\* caller is, and worth another provider.
SomeFailings == {[what |-> "status", status |-> 401], [what |-> "status", status |-> 429],
                 [what |-> "inexpressible", status |-> 0]}
=============================================================================
