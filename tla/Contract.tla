------------------------------ MODULE Contract ------------------------------
(***************************************************************************)
(* The unified contract (contracts/chat.py, contracts/messages.py): the    *)
(* conversation a caller sends, what is refused before any provider is     *)
(* picked, and how a client puts a streamed answer together again.         *)
(***************************************************************************)
EXTENDS Integers, SequencesExt

CONSTANTS Names,    \* of the functions a model may be offered
          NoId, NoName

\* What a message is made of; blank is a content that is an empty string, and
\* a message without parts has none.
Parts == {"text", "blank", "refusal", "inline_image", "linked_image", "audio"}

\* The argument string of a call: a fragment is all of it, its beginning or
\* the rest; anything else in a row is not JSON.
Joined(args, fragment) ==
    CASE fragment = "nothing"                     -> args
      [] args = "nothing" /\ fragment # "rest"    -> fragment
      [] args = "begun" /\ fragment = "rest"      -> "whole"
      [] OTHER                                    -> "garbled"

Call(id, name, args) == [name |-> name, id |-> id, args |-> args]

\* A message: a caller's, an answer kept as history (with how it ended), or
\* the result of a call.
Message(role, parts) == [role |-> role, parts |-> parts, calls |-> <<>>, of |-> NoId, finish |-> "none"]
Result(call) == [Message("tool", {"text"}) EXCEPT !.of = call.id]
Turn(parts, calls, finish) == [Message("assistant", parts) EXCEPT !.calls = calls, !.finish = finish]

IdsIn(m) == {call.id : call \in Range(m.calls)}

Calls(history) == UNION {Range(history[i].calls) : i \in DOMAIN history}

\* A function with one more argument, or another value there.
With(f, at, value) == [x \in DOMAIN f \cup {at} |-> IF x = at THEN value ELSE f[x]]

-----------------------------------------------------------------------------
(* Everything a request carries beside its messages: which parameters the  *)
(* caller set, the tools it declares and the one it insists on, the two    *)
(* spellings of its output cap (0: unset).                                 *)
ToolChoices == {"unset", "auto", "none", "required"} \cup Names
Manner == [stream : BOOLEAN, options : BOOLEAN, usage : BOOLEAN, wants : SUBSET STRING,
           tools : Seq(Names), choice : ToolChoices, cap : Nat, oldCap : Nat]

EffectiveMaxTokens(q) == IF q.cap # 0 THEN q.cap ELSE q.oldCap

Coherent(q) ==
    /\ q.cap # 0 /\ q.oldCap # 0 => q.cap = q.oldCap
    /\ "top_logprobs" \in q.wants => "logprobs" \in q.wants
    /\ q.options => q.stream
    /\ IsInjective(q.tools)
    /\ q.choice \in Names => q.choice \in Range(q.tools)

\* An assistant message must carry at least something.
SaysSomething(m) == m.role = "assistant" => m.parts # {} \/ m.calls # <<>>

\* Every tool result must follow an assistant message containing its call.
ResultsHaveCalls(history) ==
    \A i \in DOMAIN history : history[i].role = "tool" =>
        \E j \in 1 .. i - 1 : history[i].of \in IdsIn(history[j])

-----------------------------------------------------------------------------
(* Chunks, and what a client has of an answer: the fragments of text it has *)
(* shown, the calls by index, the reason it was given, whether it was told  *)
(* the usage.                                                               *)
Role == [kind |-> "role"]
Text == [kind |-> "text"]
Opening(at, id, name) == [kind |-> "call", at |-> at, id |-> id, name |-> name]
Arguments(at, fragment) == [kind |-> "args", at |-> at, fragment |-> fragment]
Finished(reason) == [kind |-> "finish", reason |-> reason]
Usage == [kind |-> "usage"]

NoAnswer == [begun |-> FALSE, text |-> 0, calls |-> <<>>, finish |-> "none", usage |-> FALSE, end |-> "open"]

\* The call at an index, as far as the client has it; an index nobody opened
\* is a call without a name.
CallAt(calls, at) == IF at \in DOMAIN calls THEN calls[at] ELSE Call(NoId, NoName, "nothing")

Extended(calls, at, fragment) ==
    With(calls, at, [CallAt(calls, at) EXCEPT !.args = Joined(@, fragment)])

Assembled(answer, chunk) ==
    CASE chunk.kind = "role"   -> [answer EXCEPT !.begun = TRUE]
      [] chunk.kind = "text"   -> [answer EXCEPT !.text = @ + 1]
      [] chunk.kind = "call"   ->
            [answer EXCEPT !.calls =
                With(@, chunk.at, Call(chunk.id, chunk.name, CallAt(@, chunk.at).args))]
      [] chunk.kind = "args"   ->
            [answer EXCEPT !.calls = Extended(@, chunk.at, chunk.fragment)]
      [] chunk.kind = "finish" -> [answer EXCEPT !.finish = chunk.reason]
      [] chunk.kind = "usage"  -> [answer EXCEPT !.usage = TRUE]

\* An answer after each of a stream's chunks, and after all of them.
After(answer, chunks) ==
    LET after[n \in 0 .. Len(chunks)] ==
            IF n = 0 THEN answer ELSE Assembled(after[n - 1], chunks[n])
    IN after
Completed(answer, chunks) == After(answer, chunks)[Len(chunks)]

\* The calls of an answer, numbered from zero on the wire, as a list.
Listed(calls) == [i \in 1 .. Cardinality(DOMAIN calls) |-> calls[i - 1]]

\* A finished answer as the next turn of the conversation.  One in a single
\* piece has no content where it has no text; a client that put fragments
\* together has an empty string.
AsTurn(answer, streamed) ==
    Turn(IF answer.text > 0 THEN {"text"} ELSE IF streamed THEN {"blank"} ELSE {},
         Listed(answer.calls), answer.finish)

=============================================================================
