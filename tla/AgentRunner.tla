----------------------------- MODULE AgentRunner -----------------------------
(***************************************************************************)
(* One run of the agent loop (agent/runner.py): ask the model, execute the *)
(* tools it asks for, feed their results back, until it answers or a       *)
(* budget is used up.  The model and the tools are external.               *)
(*                                                                         *)
(* Of an answer we keep what becomes of it: whether it has any text, and   *)
(* whether check_grounding accepts it.  Which tools are called, and        *)
(* whether they fail, is left out: the loop goes on in the same way.       *)
(***************************************************************************)
EXTENDS Integers

CONSTANTS
  MaxSteps,          \* max_steps
  MaxTokens,         \* max_total_tokens
  GroundingRetries,  \* grounding_retries
  TurnTokens,        \* what a turn may cost
  MaxToolCalls       \* bound: how many tools a turn asks for

ASSUME RunnerConstants ==
  /\ MaxSteps \in Nat \ {0}
  /\ MaxTokens \in Nat \ {0}
  /\ GroundingRetries \in Nat
  /\ TurnTokens \subseteq Nat
  /\ MaxToolCalls \in Nat

VARIABLES
  phase,        \* the await the run is in
  result,       \* AgentResult
  retriesLeft,  \* how often an ungrounded answer may still be sent back
  toolCalls,    \* tool calls of this turn that are still to be executed
  failed,       \* the loop has raised
  overspent     \* history: turns asked for although the tokens were used up

runnerVars == <<phase, result, retriesLeft, toolCalls, failed, overspent>>

Texts == {"blank", "grounded", "ungrounded"}

Result == [answer: Texts \cup {"none", "placeholder"},
           stop: {"max_steps", "answered", "token_budget"},
           grounding: {"unchecked", "ok", "failed"},
           steps: Nat,
           tokens: Nat]

Fresh == [answer |-> "none", stop |-> "max_steps", grounding |-> "unchecked",
          steps |-> 0, tokens |-> 0]

RunnerTypeOK ==
  /\ phase \in {"off", "list", "llm", "tools", "save"}
  /\ result \in Result
  /\ retriesLeft \in 0 .. GroundingRetries
  /\ toolCalls \in 0 .. MaxToolCalls
  /\ failed \in BOOLEAN
  /\ overspent \in Nat

Begins(at) ==
  /\ phase' = at
  /\ result' = Fresh
  /\ retriesLeft' = GroundingRetries
  /\ toolCalls' = 0
  /\ failed' = FALSE
  /\ overspent' = 0

RunnerInit ==
  /\ phase = "off"
  /\ result = Fresh
  /\ retriesLeft = GroundingRetries
  /\ toolCalls = 0
  /\ failed = FALSE
  /\ overspent = 0

StartRun == Begins("list")

\* The run is over or cancelled: its variables are gone.
NoRun == Begins("off")

ListTools ==
  /\ phase = "list"
  /\ phase' = "llm"
  /\ UNCHANGED <<result, retriesLeft, toolCalls, failed, overspent>>

Spent == result.tokens >= MaxTokens

\* The model responds, at some cost.
Responds(cost, answer, stop, grounding) ==
  /\ phase = "llm"
  /\ result' = [answer |-> answer, stop |-> stop, grounding |-> grounding,
                steps |-> result.steps + 1, tokens |-> result.tokens + cost]
  /\ overspent' = IF Spent THEN overspent + 1 ELSE overspent
  /\ UNCHANGED failed

AsksForTools(cost, n) ==
  /\ Responds(cost, result.answer, result.stop, result.grounding)
  /\ toolCalls' = n
  /\ phase' = "tools"
  /\ UNCHANGED retriesLeft

\* An answer that passes the check, or that is not sent back any more.
AnswersForGood(cost, text) ==
  /\ text # "ungrounded" \/ retriesLeft = 0 \/ result.steps + 1 = MaxSteps
  /\ Responds(cost, text, "answered", IF text = "ungrounded" THEN "failed" ELSE "ok")
  /\ phase' = "save"
  /\ UNCHANGED <<retriesLeft, toolCalls>>

\* An ungrounded answer goes back to the model, with feedback.
AnswerSentBack(cost) ==
  /\ retriesLeft > 0
  /\ result.steps + 1 # MaxSteps
  /\ Responds(cost, "ungrounded", "answered", "failed")
  /\ retriesLeft' = retriesLeft - 1
  /\ UNCHANGED <<phase, toolCalls>>

CallTool ==
  /\ phase = "tools"
  /\ toolCalls > 1
  /\ toolCalls' = toolCalls - 1
  /\ UNCHANGED <<phase, result, retriesLeft, failed, overspent>>

\* Mutant: the token budget is not looked at.
GoesOnOverBudget ==
  /\ phase = "tools" /\ toolCalls = 1
  /\ result.steps < MaxSteps
  /\ toolCalls' = 0
  /\ phase' = "llm"
  /\ UNCHANGED <<result, retriesLeft, failed, overspent>>

\* The last tool of the turn, with budget for another turn.
GoesOn ==
  /\ phase = "tools" /\ toolCalls = 1
  /\ ~Spent /\ result.steps < MaxSteps
  /\ toolCalls' = 0
  /\ phase' = "llm"
  /\ UNCHANGED <<result, retriesLeft, failed, overspent>>

\* The last tool of the turn, without: an answer that was sent back stands.
RunsOutOfBudget ==
  /\ phase = "tools" /\ toolCalls = 1
  /\ Spent \/ result.steps = MaxSteps
  /\ result' = [result EXCEPT !.stop = IF Spent THEN "token_budget" ELSE @,
                              !.answer = IF @ = "none" THEN "placeholder" ELSE @]
  /\ toolCalls' = 0
  /\ phase' = "save"
  /\ UNCHANGED <<retriesLeft, failed, overspent>>

\* Listing the tools or the model raises: the run is recorded as an error.
RunRaises ==
  /\ phase \in {"list", "llm"}
  /\ phase' = "save"
  /\ failed' = TRUE
  /\ UNCHANGED <<result, retriesLeft, toolCalls, overspent>>

RunnerStep ==
  \/ ListTools
  \/ \E cost \in TurnTokens :
       \/ \E n \in 1 .. MaxToolCalls : AsksForTools(cost, n)
       \/ \E text \in Texts : AnswersForGood(cost, text)
       \/ AnswerSentBack(cost)
  \/ CallTool
  \/ GoesOn
  \/ RunsOutOfBudget
  \/ RunRaises

-----------------------------------------------------------------------------
\* However a run goes, at most grounding_retries turns are asked for once its
\* tokens are used up, and never more than max_steps in all: the token check
\* after the tools misses only answers that are sent back (_loop).
RunIsBounded == overspent <= GroundingRetries /\ result.steps <= MaxSteps

=============================================================================
