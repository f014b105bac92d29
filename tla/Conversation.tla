---------------------------- MODULE Conversation -----------------------------
(***************************************************************************)
(* The messages an agent run sends to its language model: AgentRunner's    *)
(* loop (agent/runner.py) and their translation by the two HTTP backends   *)
(* (agent/llm.py).  AgentRunner has the run's budgets and records.         *)
(*                                                                         *)
(* A text is only empty or not.  A response is [text, calls, grounded]; a  *)
(* call is [id, tool], its id NoId if the model gave none.                 *)
(***************************************************************************)
EXTENDS Integers, Sequences

CONSTANTS
  NoId,             \* a call without an id
  Permitted,        \* the tools this run may call
  MaxSteps,         \* max_steps
  GroundingRetries  \* grounding_retries

UserText == [role |-> "user", text |-> TRUE, calls |-> << >>, results |-> << >>]
Assistant(text, calls) == [role |-> "assistant", text |-> text, calls |-> calls, results |-> << >>]
Answers(results) == [role |-> "user", text |-> FALSE, calls |-> << >>, results |-> results]

\* Missing ids become the tool's name (OpenAI backend).
ParseCall(c) == [id |-> IF c.id = NoId THEN c.tool ELSE c.id, tool |-> c.tool]
ParseCalls(calls) == [i \in DOMAIN calls |-> ParseCall(calls[i])]

\* Mutant: a call that is not permitted is dropped.
ExecutePermitted(calls) ==
  LET allowed == SelectSeq(calls, LAMBDA c : c.tool \in Permitted)
  IN  [i \in DOMAIN allowed |-> [call_id |-> allowed[i].id, refused |-> FALSE]]

\* Every call is answered: refused, failed, or with the tool's text.
Execute(calls) ==
  [i \in DOMAIN calls |-> [call_id |-> calls[i].id, refused |-> calls[i].tool \notin Permitted]]

\* A run: the messages so far, the retries left, whether it goes on.
Started == [messages |-> <<UserText>>, retries |-> GroundingRetries, steps |-> 0, open |-> TRUE]

Ends(run) == [run EXCEPT !.steps = @ + 1, !.open = FALSE]

Continues(run, more) ==
  [run EXCEPT !.messages = @ \o more, !.steps = @ + 1, !.open = run.steps + 1 < MaxSteps]

\* An answer ends the run, or is sent back once with what is not grounded.
OnAnswer(run, response) ==
  IF response.grounded \/ run.retries = 0 \/ run.steps + 1 = MaxSteps THEN Ends(run)
  ELSE [Continues(run, <<Assistant(response.text, << >>), UserText>>)
          EXCEPT !.retries = @ - 1]

OnCalls(run, response) ==
  LET calls == ParseCalls(response.calls)
  IN  Continues(run, <<Assistant(response.text, calls), Answers(Execute(calls))>>)

Turn(run, response) ==
  IF ~ run.open THEN run
  ELSE IF response.calls = << >> THEN OnAnswer(run, response)
  ELSE OnCalls(run, response)

RunScript(script) ==
  LET after[k \in 0 .. Len(script)] ==
        IF k = 0 THEN Started ELSE Turn(after[k - 1], script[k])
  IN  after[Len(script)]

\* AnthropicClient._encode: one message each, its blocks in order.
Blocks(m) ==
  (IF m.text THEN <<[type |-> "text", id |-> NoId]>> ELSE << >>)
  \o [i \in DOMAIN m.calls |-> [type |-> "tool_use", id |-> m.calls[i].id]]
  \o [i \in DOMAIN m.results |-> [type |-> "tool_result", id |-> m.results[i].call_id]]

EncodeAnthropic(messages) ==
  [k \in DOMAIN messages |-> [role |-> messages[k].role, content |-> Blocks(messages[k])]]

\* OpenAICompatClient._encode: a tool message for each result, then the text.
ToolMessages(m) ==
  [i \in DOMAIN m.results |-> [role |-> "tool", text |-> TRUE, ids |-> <<m.results[i].call_id>>]]

OwnMessage(m) ==
  IF m.role = "assistant"
  THEN <<[role |-> "assistant", text |-> m.text, ids |-> [i \in DOMAIN m.calls |-> m.calls[i].id]]>>
  ELSE IF m.text THEN <<[role |-> "user", text |-> TRUE, ids |-> << >>]>>
  ELSE << >>

EncodeOpenAI(messages) ==
  LET out[k \in 0 .. Len(messages)] ==
        IF k = 0 THEN <<[role |-> "system", text |-> TRUE, ids |-> << >>]>>
        ELSE out[k - 1] \o (ToolMessages(messages[k]) \o OwnMessage(messages[k]))
  IN  out[Len(messages)]

=============================================================================
