------------------------------ MODULE Providers ------------------------------
(***************************************************************************)
(* The transcript as the model providers get it (models.py): AgentLoop's   *)
(* items become the messages of a request, a message per item but for the  *)
(* calls of a turn, and for Anthropic their results, which share one. A    *)
(* message is represented by the places of its first and its last item.    *)
(***************************************************************************)
EXTENDS AgentLoop

\* (mutant of Shares) Every result is a message of its own.
Shares_CallsOnly(h, i, shared) ==
    i > 1 /\ h[i].kind = "call" /\ h[i - 1].kind = "call"

\* Item i goes into the message of the item before it.
Shares(h, i, shared) ==
    i > 1 /\ h[i].kind \in shared /\ h[i - 1].kind = h[i].kind

\* The messages of a transcript.
Messages(h, shared) ==
    {m \in (1..Len(h)) \X (1..Len(h)) :
        /\ m[1] <= m[2]
        /\ \A i \in m[1]..m[2] : Shares(h, i, shared) <=> i # m[1]
        /\ m[2] < Len(h) => ~Shares(h, m[2] + 1, shared)}

AnthropicMessages(h) == Messages(h, {"call", "result"})
OpenAIMessages(h) == Messages(h, {"call"})

AnthropicRole(kind) == IF kind \in {"assistant", "call"} THEN "assistant" ELSE "user"
OpenAIRole(kind) == IF kind = "result" THEN "tool" ELSE AnthropicRole(kind)

-----------------------------------------------------------------------------
(***************************************************************************)
(* The services (external): what they take.                                *)
(***************************************************************************)
CallIds(h, m) == {h[i].id : i \in {x \in m[1]..m[2] : h[x].kind = "call"}}
ResultsFor(h, m, id) == {y \in m[1]..m[2] : h[y] = ResultItem(id)}

\* A conversation begins with the user, and the message after one with calls has a
\* result for each of them.
AnthropicAccepts(h) ==
    /\ h # <<>> /\ AnthropicRole(h[1].kind) = "user"
    /\ \A m \in AnthropicMessages(h) : \A id \in CallIds(h, m) :
          \E next \in AnthropicMessages(h) :
             next[1] = m[2] + 1 /\ Cardinality(ResultsFor(h, next, id)) = 1

\* The tool messages right after a message with calls have a result for each of them.
ToolMessagesAfter(h, m) ==
    {x \in OpenAIMessages(h) :
        /\ x[1] > m[2]
        /\ \A y \in OpenAIMessages(h) :
              y[1] \in (m[2] + 1)..x[1] => OpenAIRole(h[y[1]].kind) = "tool"}
OpenAIAccepts(h) ==
    \A m \in OpenAIMessages(h) : \A id \in CallIds(h, m) :
        Cardinality({x \in ToolMessagesAfter(h, m) : ResultsFor(h, x, id) # {}}) = 1

-----------------------------------------------------------------------------
\* models.py 255-300, 468-521, with agent.py and compaction.py: whatever was interrupted,
\* compacted or resumed before, a request that is sent has a result for every call, where
\* the provider looks for it (unless the program was killed in the middle of a turn).
RequestsAnswered ==
    used.crashes = 0 /\ At("respond") =>
        AnthropicAccepts(mem.hist) /\ OpenAIAccepts(mem.hist)

=============================================================================
