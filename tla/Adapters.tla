------------------------------- MODULE Adapters -------------------------------
(***************************************************************************)
(* One caller's conversation with the provider adapters (providers/*.py):   *)
(* every turn may go to another vendor, as routes and fallbacks send it.    *)
(* The adapter puts the history into the vendor's dialect, reads the        *)
(* vendor's events one by one and yields chunks; the relay hands them on    *)
(* (streaming.py); the client puts the answer together, keeps it, runs the  *)
(* tools it calls and comes back with the results.                          *)
(*                                                                         *)
(* A generator that has yielded goes no further before its chunk is taken:  *)
(* a vendor's next event is read when out is empty.  Each action reads one  *)
(* event and yields all its chunks.                                         *)
(***************************************************************************)
EXTENDS Dialects

CONSTANTS
    Nobody,
    Vendors, Dialect,   \* the adapters mounted, and what each one speaks
    Replies,            \* MockProvider.replies: each vendor's script
    Manners,            \* the requests a caller may make
    Sayings,            \* what a caller's messages may be made of
    MaxMessages,        \* bound: messages of a conversation
    MaxStreamed,        \* bound: messages of a conversation whose answer is streamed
    MaxText,            \* bound: fragments of text of an answer
    MaxBlocks           \* bound: blocks, or calls, of an answer

VARIABLES
    history,    \* the caller's messages
    trimmed,    \* the caller dropped the oldest of them
    phase,      \* composing, streaming, waiting, over or refused
    why,        \* why the request was refused
    via,        \* the vendor asked
    manner,     \* the request made
    told,       \* what the vendor has said: text, calls, whether it is done
    local,      \* the adapter's locals, and where the vendor stands
    out,        \* chunks yielded and not yet taken
    got,        \* what the client has of the answer
    billed,     \* StreamRecord.usage is known
    served      \* how far a mock's script has been replayed

vars == <<history, trimmed, phase, why, via, manner, told, local, out, got, billed, served>>
asked == <<history, trimmed, phase, why, via, manner, served>>
relayed == <<got, billed>>

Raises == [raises |-> TRUE]
Reply(text, calls, finish) == [raises |-> FALSE, text |-> text, calls |-> calls, finish |-> finish]

ASSUME AdaptersAssumption ==
    /\ DOMAIN Dialect = Vendors /\ DOMAIN Replies = Vendors
    /\ \A v \in Vendors : Dialect[v] \in {"openai", "anthropic", "ollama", "mock"}
    /\ Sayings \subseteq SUBSET Parts
    /\ MaxMessages \in Nat /\ MaxStreamed \in Nat /\ MaxText \in Nat /\ MaxBlocks \in Nat
    /\ Manners \subseteq Manner

\* A script's replies are answers a vendor could give.
Ids == [no : Nat, by : {"vendor", "adapter"}, name : Names \cup {NoName}]
Finishes == {"stop", "length", "tool_calls", "content_filter"}
Scripted == [raises : {FALSE}, text : Nat, finish : Finishes \cup {"none"},
             calls : Seq([name : Names, id : Ids, args : {"nothing", "begun", "whole"}])]
ASSUME ScriptsAssumption ==
    \A v \in Vendors :
        /\ Replies[v] \in Seq(Scripted \cup {Raises})
        /\ \A i \in DOMAIN Replies[v] : Replies[v][i] # Raises =>
              LET reply == Replies[v][i]
              IN /\ \A m, n \in DOMAIN reply.calls : reply.calls[m].id = reply.calls[n].id => m = n
                 /\ reply.finish # "length" => \A n \in DOMAIN reply.calls : reply.calls[n].args # "begun"
                 /\ reply.finish \notin {"length", "none"} =>
                       (reply.finish = "tool_calls") = (reply.calls # <<>>)

Silence == [text |-> 0, calls |-> <<>>, marked |-> FALSE]
NoLocals == [started |-> FALSE, blocks |-> 0, open |-> "none", ordinals |-> <<>>,
             calls |-> 0, stop |-> "none", done |-> FALSE]

Init == /\ history = <<>> /\ trimmed = FALSE
        /\ phase = "composing" /\ why = "none"
        /\ via = Nobody /\ manner = Nobody
        /\ told = Silence /\ local = NoLocals /\ out = <<>>
        /\ got = NoAnswer /\ billed = FALSE
        /\ served = [v \in Vendors |-> 0]

-----------------------------------------------------------------------------
(* Ids.  A vendor issues fresh ones; Ollama issues none, so the adapter     *)
(* makes one of the call's place in the answer and its name.                *)
VendorId(no) == [no |-> no, by |-> "vendor", name |-> NoName]
ToolCallId(position, name) == [no |-> position, by |-> "adapter", name |-> name]

Issued == {call.id : call \in Calls(history) \cup Range(told.calls)}
FreshId(k) == VendorId(Max({0} \cup {id.no : id \in Issued}) + k)

-----------------------------------------------------------------------------
(* The client.                                                              *)
Awaited == /\ history # <<>>
           /\ Last(history).calls # <<>>

Say(role, parts) ==
    /\ phase = "composing" /\ ~Awaited
    /\ Len(history) < MaxMessages
    /\ history' = Append(history, Message(role, parts))
    /\ UNCHANGED <<trimmed, phase, why, via, manner, told, local, out, got, billed, served>>

\* The tools were run: a result for every call of the last turn.
AnswerCalls ==
    /\ phase = "composing" /\ Awaited
    /\ Len(history) + Len(Last(history).calls) <= MaxMessages
    /\ history' = history \o [i \in DOMAIN Last(history).calls |-> Result(Last(history).calls[i])]
    /\ UNCHANGED <<trimmed, phase, why, via, manner, told, local, out, got, billed, served>>

\* The oldest message goes; a conversation without any is a new one.
Trim ==
    /\ phase = "composing" /\ history # <<>>
    /\ history' = Tail(history)
    /\ trimmed' = (Tail(history) # <<>>)
    /\ UNCHANGED <<phase, why, via, manner, told, local, out, got, billed, served>>

\* Back to composing, with the answer or without it.
Leave ==
    /\ phase' = "composing" /\ why' = "none"
    /\ told' = Silence /\ local' = NoLocals /\ out' = <<>>
    /\ got' = NoAnswer /\ billed' = FALSE
    /\ via' = Nobody /\ manner' = Nobody
    /\ UNCHANGED <<trimmed, served>>

\* A trimmed conversation is asked once more, to see how it is taken.
Keep == /\ phase = "over" /\ got.end = "clean" /\ ~trimmed /\ Len(history) < MaxMessages
        /\ history' = Append(history, AsTurn(got, manner.stream))
        /\ Leave

Drop == phase \in {"over", "refused"} /\ Leave /\ UNCHANGED history

-----------------------------------------------------------------------------
(* MockProvider: no vendor at all.  The last reply of a script repeats.     *)
ScriptedOutcome(v) == Replies[v][served[v] + 1]

\* _forced_tool_name and _derive_reply: a reply that fits the request.
DerivedReply(q) ==
    IF q.choice \in Names
    THEN Reply(0, <<Call(FreshId(1), q.choice, "whole")>>, "none")
    ELSE IF q.choice = "required" /\ q.tools # <<>>
         THEN Reply(0, <<Call(FreshId(1), q.tools[1], "whole")>>, "none")
         ELSE Reply(2, <<>>, "none")

Outcome(v, q) == IF Replies[v] = <<>> THEN DerivedReply(q) ELSE ScriptedOutcome(v)

\* _render: the output cap is applied to whatever the reply was, and the
\* reason inferred when the script gives none.
Truncated(reply, q) == EffectiveMaxTokens(q) # 0 /\ reply.text > EffectiveMaxTokens(q)
Rendered(reply, q) ==
    [reply EXCEPT !.text = IF Truncated(reply, q) THEN EffectiveMaxTokens(q) ELSE @,
                  !.finish = IF Truncated(reply, q) THEN "length"
                             ELSE IF @ # "none" THEN @
                             ELSE IF reply.calls # <<>> THEN "tool_calls" ELSE "stop"]

\* _deltas: a call is opened and then given its arguments.
Half(k) == (k + 1) \div 2
CallDelta(k, position, call) ==
    IF k % 2 = 1 THEN Opening(position, call.id, call.name) ELSE Arguments(position, call.args)
Deltas(reply) ==
    [i \in 1 .. reply.text |-> Text]
        \o [k \in 1 .. 2 * Len(reply.calls) |-> CallDelta(k, Half(k) - 1, reply.calls[Half(k)])]

Zeroed(calls) == [at \in 0 .. Len(calls) - 1 |-> calls[at + 1]]
AsAnswer(reply) ==
    [begun |-> TRUE, text |-> reply.text, calls |-> Zeroed(reply.calls),
     finish |-> reply.finish, usage |-> TRUE, end |-> "clean"]

\* Whoever wrote the script starts it again, at any time.
Reset(v) ==
    /\ served' = [served EXCEPT ![v] = 0]
    /\ UNCHANGED <<history, trimmed, phase, why, via, manner, told, local, out, got, billed>>

-----------------------------------------------------------------------------
(* A request: the contract first, then the adapter's dialect.              *)
Reason(v, q) ==
    CASE ~(\A i \in DOMAIN history : SaysSomething(history[i])) -> "empty"
      [] ~Coherent(q)                            -> "incoherent"
      [] ~ResultsHaveCalls(history)              -> "dangling"
      [] ~Supported(Dialect[v], q)               -> "unsupported"
      [] ~Expressible(Dialect[v], history)       -> "inexpressible"
      [] OTHER                                   -> "none"

\* What is streamed is explored from short conversations; longer ones are
\* answered in one piece.
Bounded(q) == q.stream => Len(history) <= MaxStreamed /\ ~trimmed

Asking == phase = "composing" /\ history # <<>> /\ Last(history).role # "assistant"

Refuse(v, q) ==
    /\ Asking /\ Reason(v, q) # "none"
    /\ phase' = "refused" /\ why' = Reason(v, q)
    /\ UNCHANGED <<history, trimmed, via, manner, told, local, out, got, billed, served>>

Send(v, q) ==
    /\ Asking /\ Reason(v, q) = "none"
    /\ Dialect[v] # "mock" /\ Bounded(q)
    /\ phase' = IF q.stream THEN "streaming" ELSE "waiting"
    /\ via' = v /\ manner' = q
    /\ UNCHANGED <<history, trimmed, why, told, local, out, got, billed, served>>

\* The gateway asks for the usage of every stream (metered), so the mock's
\* last chunk carries it.
AskMock(v, q) ==
    LET outcome == Outcome(v, q)
        reply == Rendered(outcome, q)
    IN /\ Asking /\ Reason(v, q) = "none"
       /\ Dialect[v] = "mock" /\ Bounded(q)
       /\ via' = v /\ manner' = q
       /\ served' = [served EXCEPT ![v] = IF @ + 1 < Len(Replies[v]) THEN @ + 1 ELSE @]
       /\ IF outcome.raises
          THEN /\ phase' = "over" /\ got' = [got EXCEPT !.end = "failed"]
               /\ UNCHANGED <<told, local, out, billed>>
          ELSE /\ phase' = IF q.stream THEN "streaming" ELSE "over"
               /\ told' = [text |-> reply.text, calls |-> Zeroed(reply.calls), marked |-> TRUE]
               /\ local' = [local EXCEPT !.done = TRUE]
               /\ out' = IF q.stream
                         THEN <<Role>> \o Deltas(reply) \o <<Finished(reply.finish), Usage>>
                         ELSE <<>>
               /\ got' = IF q.stream THEN got ELSE AsAnswer(reply)
               /\ billed' = ~q.stream
       /\ UNCHANGED <<history, trimmed, why>>

-----------------------------------------------------------------------------
(* Reading a vendor's stream.                                               *)
Reading(dialect) == /\ phase = "streaming" /\ out = <<>> /\ ~local.done
                    /\ Dialect[via] = dialect

SaysText == told' = [told EXCEPT !.text = @ + 1]
SaysCall(id, name, args) ==
    told' = [told EXCEPT !.calls = With(@, Cardinality(DOMAIN @), Call(id, name, args))]
SaysArguments(fragment) ==
    LET at == Cardinality(DOMAIN told.calls) - 1
    IN /\ Joined(told.calls[at].args, fragment) # "garbled"
       /\ told' = [told EXCEPT !.calls[at].args = Joined(@, fragment)]
SaysDone == told' = [told EXCEPT !.marked = TRUE]
SaysNothing == told' = told

Complete == \A at \in DOMAIN told.calls : told.calls[at].args # "begun"
Fragments == {"begun", "rest", "whole"}

(* Anthropic narrates blocks, numbered from zero whatever their type; the   *)
(* contract numbers the calls.                                              *)

\* Mutant: a call numbered by its block.
NextOrdinalOfBlock == local.blocks

NextOrdinal == Cardinality(DOMAIN local.ordinals)
OrdinalOf(block) == IF block \in DOMAIN local.ordinals THEN local.ordinals[block] ELSE 0
CurrentBlock == local.blocks - 1

MessageStart ==
    /\ Reading("anthropic") /\ ~local.started
    /\ local' = [local EXCEPT !.started = TRUE]
    /\ out' = <<Role>>
    /\ SaysNothing /\ UNCHANGED <<asked, relayed>>

BlockStart(kind) ==
    /\ Reading("anthropic") /\ local.started
    /\ local.open = "none" /\ local.stop = "none" /\ Complete
    /\ local.blocks < MaxBlocks
    /\ local' = [local EXCEPT !.blocks = @ + 1, !.open = kind,
                              !.ordinals = IF kind = "tool_use"
                                           THEN With(@, local.blocks, NextOrdinal) ELSE @]
    /\ UNCHANGED <<asked, relayed>>

\* A text block may begin with some of its text.
TextBlock(filled) ==
    /\ BlockStart("text")
    /\ IF filled
       THEN told.text < MaxText /\ SaysText /\ out' = <<Text>>
       ELSE SaysNothing /\ out' = <<>>

ToolBlock(name) ==
    /\ BlockStart("tool_use")
    /\ SaysCall(FreshId(1), name, "nothing")
    /\ out' = <<Opening(NextOrdinal, FreshId(1), name)>>

\* thinking, or whatever is added next.
OtherBlock == BlockStart("other") /\ SaysNothing /\ out' = <<>>

TextDelta ==
    /\ Reading("anthropic") /\ local.open = "text" /\ told.text < MaxText
    /\ SaysText /\ out' = <<Text>>
    /\ UNCHANGED <<local, asked, relayed>>

InputDelta(fragment) ==
    /\ Reading("anthropic") /\ local.open = "tool_use"
    /\ SaysArguments(fragment)
    /\ out' = <<Arguments(OrdinalOf(CurrentBlock), fragment)>>
    /\ UNCHANGED <<local, asked, relayed>>

\* The arguments of a call the vendor runs itself, in a block that was skipped.
AdditiveDelta(fragment) ==
    /\ Reading("anthropic") /\ local.open = "other"
    /\ SaysNothing
    /\ out' = <<Arguments(OrdinalOf(CurrentBlock), fragment)>>
    /\ UNCHANGED <<local, asked, relayed>>

BlockStop ==
    /\ Reading("anthropic") /\ local.open # "none"
    /\ local' = [local EXCEPT !.open = "none"]
    /\ SaysNothing /\ UNCHANGED <<out, asked, relayed>>

StopReason(reason) ==
    CASE reason = "max_tokens" -> "length"
      [] reason = "tool_use"   -> "tool_calls"
      [] reason = "refusal"    -> "content_filter"
      [] OTHER                 -> "stop"

\* A vendor says it stopped for its tools when it called some, and leaves a
\* call incomplete only at its token limit.
StopsFor(reason) == \/ reason = "max_tokens"
                    \/ Complete /\ (reason = "tool_use") = (told.calls # <<>>)

MessageDelta(reason) ==
    /\ Reading("anthropic") /\ local.started
    /\ local.open = "none" /\ local.stop = "none" /\ StopsFor(reason)
    /\ local' = [local EXCEPT !.stop = reason]
    /\ SaysNothing /\ UNCHANGED <<out, asked, relayed>>

\* Mutant: the reason is left out of the last chunk.
EndingUnmarked(reason) == <<Usage>>

Ending(reason) == <<Finished(reason), Usage>>

MessageStop ==
    /\ Reading("anthropic") /\ local.stop # "none"
    /\ SaysDone
    /\ local' = [local EXCEPT !.done = TRUE]
    /\ out' = Ending(StopReason(local.stop))
    /\ UNCHANGED <<asked, relayed>>

(* Ollama: every line is a message; the calls on it come whole and are      *)
(* numbered on from those of earlier lines.                                 *)
DoneReason(reason, calls) ==
    IF calls > 0 /\ reason = "stop" THEN "tool_calls" ELSE IF reason = "length" THEN "length" ELSE "stop"

\* Mutant: calls numbered from zero on every line.
PositionOnLine(i) == i - 1

Position(i) == local.calls + i - 1

LineCalls(names) ==
    [k \in 1 .. 2 * Len(names) |->
        CallDelta(k, Position(Half(k)),
                  Call(ToolCallId(Position(Half(k)), names[Half(k)]), names[Half(k)], "whole"))]

OllamaLine(filled, names, done) ==
    LET sofar == local.calls + Len(names)
        place == Cardinality(DOMAIN told.calls)
    IN /\ Reading("ollama")
       /\ sofar <= MaxBlocks /\ (filled => told.text < MaxText)
       /\ told' = [text |-> told.text + (IF filled THEN 1 ELSE 0),
                   calls |-> [at \in 0 .. place + Len(names) - 1 |->
                       IF at < place THEN told.calls[at]
                       ELSE Call(ToolCallId(at, names[at - place + 1]), names[at - place + 1], "whole")],
                   marked |-> done # "more"]
       /\ local' = [local EXCEPT !.started = TRUE, !.calls = sofar, !.done = done # "more"]
       /\ out' = (IF local.started THEN <<>> ELSE <<Role>>)
                    \o (IF filled THEN <<Text>> ELSE <<>>)
                    \o LineCalls(names)
                    \o (IF done = "more" THEN <<>> ELSE Ending(DoneReason(done, sofar)))
       /\ UNCHANGED <<asked, relayed>>

(* OpenAI: the vendor's chunks are the contract's; each is validated and    *)
(* passed on.                                                               *)
Passes(chunk, stand) ==
    /\ out' = <<chunk>>
    /\ local' = stand
    /\ UNCHANGED <<asked, relayed>>

Talking == Reading("openai") /\ local.started /\ local.stop = "none"

ChunkRole == /\ Reading("openai") /\ ~local.started
             /\ SaysNothing /\ Passes(Role, [local EXCEPT !.started = TRUE])
ChunkText == /\ Talking /\ told.text < MaxText
             /\ SaysText /\ Passes(Text, local)
ChunkCall(name) == /\ Talking /\ Complete /\ local.calls < MaxBlocks
                   /\ SaysCall(FreshId(1), name, "nothing")
                   /\ Passes(Opening(local.calls, FreshId(1), name), [local EXCEPT !.calls = @ + 1])
ChunkArguments(fragment) == /\ Talking /\ told.calls # <<>>
                            /\ SaysArguments(fragment)
                            /\ Passes(Arguments(local.calls - 1, fragment), local)
ChunkFinish(reason) == /\ Talking /\ StopsFor(reason)
                       /\ SaysDone
                       /\ Passes(Finished(StopReason(reason)), [local EXCEPT !.stop = reason])
ChunkUsage == /\ Reading("openai") /\ local.stop # "none" /\ local.open = "none"
              /\ SaysNothing /\ Passes(Usage, [local EXCEPT !.open = "billed"])
StreamDone == /\ Reading("openai") /\ local.open = "billed"
              /\ local' = [local EXCEPT !.done = TRUE]
              /\ SaysNothing /\ UNCHANGED <<out, asked, relayed>>

\* The vendor's connection ends: nothing tells the adapter that it ended
\* early.
HangUp ==
    /\ phase = "streaming" /\ out = <<>> /\ ~local.done
    /\ local' = [local EXCEPT !.done = TRUE]
    /\ UNCHANGED <<told, out, asked, relayed>>

\* A status of 400 or more, a transport failure, an error event, a body that
\* is not JSON, a call without its id or name, a chunk the contract refuses.
Breaks ==
    /\ phase \in {"streaming", "waiting"} /\ out = <<>> /\ ~local.done
    /\ got' = [got EXCEPT !.end = "failed"]
    /\ phase' = "over"
    /\ UNCHANGED <<history, trimmed, why, via, manner, told, local, out, billed, served>>

-----------------------------------------------------------------------------
(* The relay: usage is recorded and handed on only to a caller who asked.   *)
Observed(chunk, q) == chunk.kind # "usage" \/ q.usage

Deliver ==
    /\ phase = "streaming" /\ out # <<>>
    /\ got' = IF Observed(Head(out), manner) THEN Assembled(got, Head(out)) ELSE got
    /\ billed' = (billed \/ Head(out).kind = "usage")
    /\ out' = Tail(out)
    /\ UNCHANGED <<told, local, asked>>

Ends ==
    /\ phase = "streaming" /\ out = <<>> /\ local.done
    /\ got' = [got EXCEPT !.end = "clean"]
    /\ phase' = "over"
    /\ UNCHANGED <<history, trimmed, why, via, manner, told, local, out, billed, served>>

\* An answer in one piece (_decode): the vendor's document, folded.
WholeAnswer(text, names, reason) ==
    LET ollama == Dialect[via] = "ollama"
        calls == [i \in DOMAIN names |->
                     Call(IF ollama THEN ToolCallId(i - 1, names[i]) ELSE FreshId(i), names[i], "whole")]
        finish == IF ollama THEN DoneReason(IF reason = "max_tokens" THEN "length" ELSE "stop", Len(names))
                  ELSE StopReason(reason)
    IN /\ phase = "waiting" /\ Len(history) < MaxMessages /\ ~trimmed
       /\ ollama \/ reason = "max_tokens" \/ (reason = "tool_use") = (names # <<>>)
       /\ got' = AsAnswer(Reply(text, calls, finish))
       /\ told' = [text |-> text, calls |-> Zeroed(calls), marked |-> TRUE]
       /\ billed' = TRUE
       /\ phase' = "over"
       /\ UNCHANGED <<history, trimmed, why, via, manner, local, out, served>>

-----------------------------------------------------------------------------
NameLists == UNION {[1 .. n -> Names] : n \in 0 .. MaxBlocks}
Reasons == {"end_turn", "max_tokens", "tool_use", "refusal"}

Converse ==
    \/ Say("system", {"text"})
    \/ \E parts \in Sayings : Say("user", parts)
    \/ AnswerCalls \/ Trim \/ Keep \/ Drop
    \/ \E v \in Vendors, q \in Manners : Refuse(v, q) \/ Send(v, q) \/ AskMock(v, q)
    \/ \E v \in Vendors : Dialect[v] = "mock" /\ Reset(v)

Narrate ==
    \/ MessageStart \/ OtherBlock \/ TextDelta \/ BlockStop \/ MessageStop
    \/ \E filled \in BOOLEAN : TextBlock(filled)
    \/ \E name \in Names : ToolBlock(name) \/ ChunkCall(name)
    \/ \E fragment \in Fragments :
          InputDelta(fragment) \/ ChunkArguments(fragment)
    \/ \E reason \in Reasons : MessageDelta(reason) \/ ChunkFinish(reason)
    \/ \E filled \in BOOLEAN, names \in NameLists, done \in {"more", "stop", "length"} :
          OllamaLine(filled, names, done)
    \/ ChunkRole \/ ChunkText \/ ChunkUsage \/ StreamDone
    \/ HangUp \/ Breaks
    \/ \E text \in 0 .. MaxText, names \in NameLists, reason \in Reasons :
          WholeAnswer(text, names, reason)

Next == Converse \/ Narrate \/ Deliver \/ Ends

Spec == Init /\ [][Next]_vars

\* The vendor adds a type of block that has argument deltas of its own.
AdditiveSpec == Init /\ [][Next \/ \E fragment \in Fragments : AdditiveDelta(fragment)]_vars

-----------------------------------------------------------------------------
\* Every variable has its type; a client's calls are numbered from zero
\* without gaps, as ToolCallDelta.index promises.
TypeOK ==
    /\ Len(history) <= MaxMessages
    /\ \A i \in DOMAIN history :
          /\ history[i].role \in {"user", "system", "assistant", "tool"}
          /\ history[i].parts \subseteq Parts
          /\ history[i].finish \in {"none", "stop", "length", "tool_calls", "content_filter"}
    /\ trimmed \in BOOLEAN /\ billed \in BOOLEAN
    /\ phase \in {"composing", "streaming", "waiting", "over", "refused"}
    /\ why \in {"none", "empty", "incoherent", "dangling", "unsupported", "inexpressible"}
    /\ via \in Vendors \cup {Nobody} /\ manner \in Manners \cup {Nobody}
    /\ local.blocks \in 0 .. MaxBlocks /\ local.calls \in 0 .. MaxBlocks
    /\ DOMAIN got.calls = 0 .. Cardinality(DOMAIN got.calls) - 1
    /\ got.text \in Nat /\ got.end \in {"open", "clean", "failed"}
    /\ \A v \in Vendors : served[v] <= Len(Replies[v])

\* What is sent is what the vendor takes: Anthropic's turns alternate, none
\* is empty and every result follows its call; every result Ollama is sent
\* names a call before it; whatever was merged, dropped, trimmed or answered
\* by another vendor on the way (anthropic.py:10-19, ollama.py:135-136).
SentIsTaken ==
    phase \in {"streaming", "waiting"} =>
        CASE Dialect[via] = "anthropic" -> AnthropicTakes(AnthropicTurns(history))
          [] Dialect[via] = "ollama"    -> OllamaTakes(OllamaMessages(history))
          [] OTHER                      -> ResultsHaveCalls(history)

\* Nothing an adapter hands out is refused when it comes back: a conversation
\* made of whole answers and the results of their calls passes the contract
\* and can be put into every dialect, whoever answered (ollama.py:10-13 "so a
\* caller can send the matching tool message straight back").  An answer in
\* one piece without a word or a call is no ordinary one: messages.py:119
\* refuses it.
Ordinary(m) == IF m.role = "assistant" THEN m.finish \notin {"none", "length"} /\ SaysSomething(m)
               ELSE m.parts \subseteq {"text", "blank", "inline_image"}
TurnsComeBack ==
    why \in {"empty", "dangling", "inexpressible"} =>
        trimmed \/ \E i \in DOMAIN history : ~Ordinary(history[i])

\* What the client has and what is on its way is what the vendor said, call
\* for call and fragment for fragment; an answer that ends in order says why
\* it finished and was billed, unless its vendor hung up before it was done
\* (anthropic.py:426-434, base.py:41-49).
Agrees(answer) == answer.text = told.text /\ answer.calls = told.calls
AnswerKept ==
    /\ phase = "streaming" => Agrees(Completed(got, out))
    /\ got.end = "clean" =>
          /\ Agrees(got)
          /\ (got.finish # "none") = told.marked
          /\ told.marked /\ Dialect[via] # "openai" => billed

Stream == INSTANCE AnswerStream WITH answer <- got

\* Every adapter implements AnswerStream.
KeepsStream == Stream!Spec

=============================================================================
