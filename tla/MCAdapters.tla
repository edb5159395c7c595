----------------------------- MODULE MCAdapters -----------------------------
(* Small instances of Adapters for TLC: one conversation with an adapter of *)
(* each vendor and two mocks, or with Anthropic's alone.                    *)
EXTENDS Adapters

FiveVendors == {"claude", "llama", "gpt", "echo", "script"}
FourDialects == [v \in FiveVendors |->
    CASE v = "claude" -> "anthropic" [] v = "llama" -> "ollama" [] v = "gpt" -> "openai" [] OTHER -> "mock"]

\* A reply that calls a tool, and then nothing but failures.
Scripts == [v \in FiveVendors |->
    IF v = "script" THEN <<Reply(1, <<Call(VendorId(1), "look", "whole")>>, "none"), Raises>> ELSE <<>>]

Plain == [stream |-> TRUE, options |-> FALSE, usage |-> FALSE, wants |-> {},
          tools |-> <<"look">>, choice |-> "unset", cap |-> 0, oldCap |-> 0]

SomeManners == {
    Plain,
    [Plain EXCEPT !.stream = FALSE, !.cap = 1],
    [Plain EXCEPT !.options = TRUE, !.usage = TRUE, !.choice = "look"],
    [Plain EXCEPT !.wants = {"top_logprobs"}]}

SomeSayings == {{"text"}, {"blank"}, {"linked_image"}}
OneSaying == {{"text"}}
OneManner == {Plain}
Claude == {"claude"}
ClaudesDialect == [v \in Claude |-> "anthropic"]
NoScript == [v \in Claude |-> <<>>]

=============================================================================
