----------------------------- MODULE AnswerStream -----------------------------
(***************************************************************************)
(* What a caller may rely on in a streamed answer, whichever vendor serves  *)
(* it (providers/base.py, contracts/chat.py): chunks in order, calls        *)
(* numbered from zero without gaps and told apart by their ids, arguments   *)
(* that join up to whole objects unless the answer was cut for length, at   *)
(* most one reason to finish, nothing after it but the usage.  Adapters is  *)
(* shown to implement it.                                                   *)
(***************************************************************************)
EXTENDS Contract

VARIABLE answer

Count == Cardinality(DOMAIN answer.calls)
Saying == answer.end = "open" /\ answer.finish = "none"

Begin == answer' = NoAnswer

Lead == Saying /\ ~answer.begun /\ answer' = Assembled(answer, Role)
Speak == Saying /\ answer' = Assembled(answer, Text)

Open(id, name) == /\ Saying
                  /\ \A at \in DOMAIN answer.calls : answer.calls[at].id # id
                  /\ answer' = Assembled(answer, Opening(Count, id, name))

Extend(at, fragment) == /\ Saying
                        /\ at \in DOMAIN answer.calls
                        /\ Joined(answer.calls[at].args, fragment) # "garbled"
                        /\ answer' = Assembled(answer, Arguments(at, fragment))

\* Unless it was cut for length, an answer that calls says so and every call
\* is complete.
Finish(reason) == /\ Saying
                  /\ reason # "length" =>
                        /\ (reason = "tool_calls") = (Count > 0)
                        /\ \A at \in DOMAIN answer.calls : answer.calls[at].args # "begun"
                  /\ answer' = Assembled(answer, Finished(reason))

Bill == /\ answer.end = "open" /\ answer.finish # "none" /\ ~answer.usage
        /\ answer' = Assembled(answer, Usage)

End == answer.end = "open" /\ answer' = [answer EXCEPT !.end = "clean"]
Fail == answer.end = "open" /\ answer' = [answer EXCEPT !.end = "failed"]

\* A call as its opening chunk names it.
Opened == {<<answer'.calls[at].id, answer'.calls[at].name>> : at \in DOMAIN answer'.calls}

Next == \/ Begin \/ Lead \/ Speak \/ Bill \/ End \/ Fail
        \/ \E call \in Opened : Open(call[1], call[2])
        \/ \E at \in DOMAIN answer.calls, fragment \in {"nothing", "begun", "rest", "whole"} :
              Extend(at, fragment)
        \/ \E reason \in {"stop", "length", "tool_calls", "content_filter"} : Finish(reason)

\* An answer that was not streamed arrives finished.
Whole == /\ answer = NoAnswer
         /\ answer'.end = "clean" /\ answer'.finish # "none"
         /\ answer'.finish # "length" => (answer'.finish = "tool_calls") = (answer'.calls # <<>>)

Spec == answer = NoAnswer /\ [][Next \/ Whole]_answer

=============================================================================
