------------------------------- MODULE Dialects -------------------------------
(***************************************************************************)
(* How the adapters put a conversation into each vendor's dialect, and what *)
(* they refuse to send (providers/anthropic.py, providers/ollama.py,        *)
(* providers/openai.py).                                                    *)
(***************************************************************************)
EXTENDS Contract

\* _reject_unsupported: the parameters a vendor has no equivalent for.
Unsupported(dialect) ==
    CASE dialect = "anthropic" -> {"n", "seed", "logprobs", "top_logprobs", "logit_bias",
                                   "frequency_penalty", "presence_penalty", "prediction",
                                   "service_tier", "store", "structured"}
      [] dialect = "ollama"    -> {"n", "logprobs", "top_logprobs", "logit_bias", "prediction",
                                   "service_tier", "store"}
      [] OTHER                 -> {}

Supported(dialect, q) == /\ q.wants \cap Unsupported(dialect) = {}
                         /\ dialect = "ollama" => q.choice \in {"unset", "auto"}

\* Mutant: an empty string is no object.
ArgumentsTakenStrict(args) == args = "whole"

\* _tool_arguments: an empty string is an empty object; nothing but an object
\* is taken.
ArgumentsTaken(args) == args \in {"nothing", "whole"}

Foreign(dialect) ==
    CASE dialect = "anthropic" -> {"audio"}
      [] dialect = "ollama"    -> {"audio", "linked_image"}
      [] OTHER                 -> {}

Expressible(dialect, history) ==
    \A i \in DOMAIN history :
        /\ history[i].parts \cap Foreign(dialect) = {}
        /\ dialect \in {"anthropic", "ollama"} =>
              \A call \in Range(history[i].calls) : ArgumentsTaken(call.args)

-----------------------------------------------------------------------------
(* Anthropic: no system messages, blocks instead of content, results as     *)
(* user turns, and never two turns of one speaker in a row.                 *)
Block(kind, id) == [kind |-> kind, id |-> id]

\* What of a message becomes content: all of a user's parts, an empty string
\* as well; of an assistant's turn, what is not empty.
Shown(m) == IF m.role = "assistant" THEN m.parts \ {"blank"} ELSE m.parts

Blocks(m) ==
    IF m.role = "tool"
    THEN <<Block("tool_result", m.of)>>
    ELSE [i \in 1 .. Cardinality(Shown(m)) |-> Block("content", NoId)]
            \o [i \in DOMAIN m.calls |-> Block("tool_use", m.calls[i].id)]

Speaker(m) == IF m.role = "assistant" THEN "assistant" ELSE "user"

Spoken(m) == m.role \notin {"system", "developer"}

\* Mutant: every message is a turn of its own.
AddTurnEach(turns, m) ==
    IF ~Spoken(m) \/ Blocks(m) = <<>>
    THEN turns
    ELSE Append(turns, [role |-> Speaker(m), content |-> Blocks(m)])

\* One turn for all a speaker says in a row; a message without blocks is none.
AddTurn(turns, m) ==
    IF ~Spoken(m) \/ Blocks(m) = <<>>
    THEN turns
    ELSE IF turns # <<>> /\ Last(turns).role = Speaker(m)
         THEN [turns EXCEPT ![Len(turns)].content = @ \o Blocks(m)]
         ELSE Append(turns, [role |-> Speaker(m), content |-> Blocks(m)])

\* The turns that the first messages of a history make.
TurnsUpto(history) ==
    LET turns[n \in 0 .. Len(history)] ==
            IF n = 0 THEN <<>> ELSE AddTurn(turns[n - 1], history[n])
    IN turns
AnthropicTurns(history) == TurnsUpto(history)[Len(history)]

HasBlock(turn, kind, id) == \E i \in DOMAIN turn.content : turn.content[i] = Block(kind, id)

\* What Anthropic takes, as the adapter's docstring has it.
AnthropicTakes(turns) ==
    /\ \A t \in DOMAIN turns : turns[t].content # <<>>
    /\ \A t \in 2 .. Len(turns) : turns[t].role # turns[t - 1].role
    /\ \A t \in DOMAIN turns : \A i \in DOMAIN turns[t].content :
          turns[t].content[i].kind = "tool_result" =>
              \E u \in 1 .. t - 1 : HasBlock(turns[u], "tool_use", turns[t].content[i].id)

-----------------------------------------------------------------------------
(* Ollama: the contract's list, developer spelled system, a call without    *)
(* its id, a result with the name of the call it answers: the last one so   *)
(* far that had its id.                                                     *)
CallsSoFar(history, i) == {j \in 1 .. i - 1 : history[i].of \in IdsIn(history[j])}

CalledName(history, i) ==
    IF history[i].role # "tool" \/ CallsSoFar(history, i) = {}
    THEN NoName
    ELSE (CHOOSE call \in Range(history[Max(CallsSoFar(history, i))].calls) :
             call.id = history[i].of).name

OllamaMessages(history) ==
    [i \in DOMAIN history |->
        [role |-> IF history[i].role = "developer" THEN "system" ELSE history[i].role,
         calls |-> [c \in DOMAIN history[i].calls |-> history[i].calls[c].name],
         tool |-> CalledName(history, i)]]

\* Ollama matches a result to a call by name: there is one before it.
OllamaTakes(messages) ==
    \A i \in DOMAIN messages : messages[i].role = "tool" =>
        \E j \in 1 .. i - 1 : messages[i].tool \in Range(messages[j].calls)

=============================================================================
