------------------------------- MODULE Completion -------------------------------
(***************************************************************************)
(* One call of the OpenAI-compatible refinement provider of                *)
(* src/refinement/providers/openai_compatible.py: the loop that finds an   *)
(* output budget the server accepts and the answer fits into, around the   *)
(* loop that sends a request again when the server is overloaded.          *)
(*                                                                         *)
(* The inference lock lets one call at a time use the provider. The server *)
(* has a limit above which it refuses a budget, and needs a number of      *)
(* tokens for the answer; it may also fail at any request. Constants of    *)
(* the code are its own numbers.                                           *)
(***************************************************************************)
EXTENDS Naturals

CONSTANTS
  Words,        \* numbers of words of the texts to refine
  Visible,      \* budgets generate_custom is called with
  Ceilings,     \* max_output_tokens; 0 is none
  Limits,       \* budgets above which a server answers 413
  Needs,        \* tokens a server needs for an answer
  MaxRetries    \* max_retries, of groq only

MinOutputTokens == 256       \* _MIN_OUTPUT_TOKENS
TokensPerWord == 3           \* _OUTPUT_TOKENS_PER_INPUT_WORD
ThinkingTokens == 2048       \* RefinementEngine.THINKING_BUDGET_TOKENS
HiddenOverhead == 1024       \* _THINKING_UNSUPPRESSABLE_OVERHEAD_TOKENS
SchemaMinimum == 128         \* LM_STUDIO_SCHEMA_MIN_OUTPUT_TOKENS
Smallest == 128              \* the last budget after a 413
Growth == 2                  \* _BUDGET_GROWTH_FACTOR
MaxGrowths == 3              \* _MAX_BUDGET_GROWTHS

VARIABLES
  kind,           \* "groq", "lm_studio"
  schema, thinks, \* the model's force_text_schema, thinking_unsuppressable
  ceiling,        \* the user's max_output_tokens
  limit, need,    \* the server's
  call,           \* "idle", "list" (a GET of the models), "chat"
  refining,       \* the call is refine, not generate_custom
  first,          \* request_tokens of the first request
  budget, growths,\* request_tokens, budget_growths
  attempt,        \* of the request
  outcome         \* of the last call

model == <<kind, schema, thinks, ceiling>>
server == <<limit, need>>
cvars == <<model, server, call, refining, first, budget, growths, attempt, outcome>>

Larger(m, n) == IF m < n THEN n ELSE m
Smaller(m, n) == IF m < n THEN m ELSE n

Outcomes == {"none", "whole", "truncated", "kept", "empty", "models",
             "refused", "too_large", "unreachable"}

TypeOK ==
  /\ kind \in {"groq", "lm_studio"} /\ schema \in BOOLEAN /\ thinks \in BOOLEAN
  /\ ceiling \in Ceilings /\ limit \in Limits /\ need \in Needs
  /\ call \in {"idle", "list", "chat"} /\ refining \in BOOLEAN
  /\ growths \in 0..MaxGrowths /\ attempt \in 0..MaxRetries
  /\ call = "chat" => budget > 0 /\ first > 0
  /\ outcome \in Outcomes

Init ==
  /\ \/ kind = "groq" /\ schema = FALSE /\ thinks = FALSE
     \/ kind = "lm_studio" /\ schema \in BOOLEAN /\ thinks \in BOOLEAN
  /\ ceiling \in Ceilings /\ limit \in Limits /\ need \in Needs
  /\ call = "idle" /\ refining = FALSE
  /\ first = 0 /\ budget = 0 /\ growths = 0 /\ attempt = 0
  /\ outcome = "none"

-----------------------------------------------------------------------------
(* Budgets *)

Capped(n) == IF ceiling > 0 THEN Smaller(n, ceiling) ELSE n

RefinementMaxTokens(words, thinking) ==
  Capped(Larger(MinOutputTokens, words * TokensPerWord)
           + (IF thinking THEN ThinkingTokens ELSE 0))

\* What the first request asks for.
RequestTokens(visible, thinking) ==
  Larger(visible, IF schema THEN SchemaMinimum ELSE 1)
    + (IF thinks /\ ~thinking THEN HiddenOverhead ELSE 0)

\* The budget after a 413, if there is one to try.
SmallerRetryBudget(n) ==
  IF n <= Smallest THEN {} ELSE {Larger(Smallest, n \div 2)}

\* Mutant: the first growth is the last.
GrowOnce(n, g) ==
  IF g >= 1 \/ (ceiling > 0 /\ n >= ceiling) THEN {} ELSE {Capped(n * Growth)}

\* The budget after an answer that was cut off, if there is one to try.
GrowBudgetIfTruncated(n, g) ==
  IF g >= MaxGrowths \/ (ceiling > 0 /\ n >= ceiling) THEN {}
  ELSE {Capped(n * Growth)}

-----------------------------------------------------------------------------
(* Calls *)

Ends(how) ==
  /\ call' = "idle" /\ outcome' = how
  /\ refining' = FALSE /\ first' = 0 /\ budget' = 0 /\ growths' = 0 /\ attempt' = 0

Chat(visible, thinking) ==
  /\ call' = "chat" /\ outcome' = "none"
  /\ first' = RequestTokens(visible, thinking) /\ budget' = first'
  /\ growths' = 0 /\ attempt' = 0

\* refine; an empty text, or one that should_skip_refinement knows to be good,
\* is returned as it is.
Refine(words, thinking) ==
  /\ call = "idle"
  /\ \/ Ends("kept")
     \/ refining' = TRUE /\ Chat(RefinementMaxTokens(words, thinking), thinking)
  /\ UNCHANGED <<model, server>>

GenerateCustom(visible) ==
  /\ call = "idle"
  /\ refining' = FALSE /\ Chat(visible, FALSE)
  /\ UNCHANGED <<model, server>>

\* load, and the test and the list of models of the settings view. Without a
\* model or a key nothing is sent.
ListModels ==
  /\ call = "idle"
  /\ \/ Ends("refused")
     \/ /\ call' = "list" /\ outcome' = "none" /\ attempt' = 0
        /\ UNCHANGED <<refining, first, budget, growths>>
  /\ UNCHANGED <<model, server>>

\* 429, 498, 500, 502, 503, a timeout, or no connection: only groq has retries.
Retry ==
  /\ call # "idle"
  /\ kind = "groq" /\ attempt < MaxRetries
  /\ attempt' = attempt + 1
  /\ UNCHANGED <<model, server, call, refining, first, budget, growths, outcome>>

GiveUp ==
  /\ call # "idle"
  /\ kind = "groq" => attempt = MaxRetries
  /\ Ends("unreachable")
  /\ UNCHANGED <<model, server>>

\* 401, 403, 404, 422; or an answer _parse_chat_response cannot read.
Refused ==
  /\ call # "idle"
  /\ Ends("refused")
  /\ UNCHANGED <<model, server>>

Listed ==
  /\ call = "list"
  /\ Ends("models")
  /\ UNCHANGED <<model, server>>

\* The loop goes on with another budget.
Again(n) ==
  /\ budget' = n /\ attempt' = 0
  /\ UNCHANGED <<call, refining, first, outcome>>

\* 413.
TooLarge ==
  /\ call = "chat" /\ budget > limit
  /\ \/ \E n \in SmallerRetryBudget(budget) : Again(n) /\ UNCHANGED growths
     \/ SmallerRetryBudget(budget) = {} /\ Ends("too_large")
  /\ UNCHANGED <<model, server>>

\* finish_reason "stop".
Answered ==
  /\ call = "chat" /\ budget <= limit /\ budget >= need
  /\ \/ Ends("whole")
     \/ Ends(IF refining THEN "refused" ELSE "empty")   \* reasoning only
  /\ UNCHANGED <<model, server>>

\* finish_reason "length".
CutOff ==
  /\ call = "chat" /\ budget <= limit /\ budget < need
  /\ \/ \E n \in GrowBudgetIfTruncated(budget, growths) :
          Again(n) /\ growths' = growths + 1
     \/ GrowBudgetIfTruncated(budget, growths) = {} /\ Ends("truncated")
  /\ UNCHANGED <<model, server>>

Reply == Retry \/ GiveUp \/ Refused \/ Listed \/ TooLarge \/ Answered \/ CutOff

Next ==
  \/ \E w \in Words, thinking \in BOOLEAN : Refine(w, thinking)
  \/ \E v \in Visible : GenerateCustom(v)
  \/ ListModels
  \/ Reply

Spec == Init /\ [][Next]_cvars

\* A request is answered, fails, or times out.
Fairness == WF_cvars(Reply)

FairSpec == Spec /\ Fairness

-----------------------------------------------------------------------------
(* Properties *)

\* "Hard stop on the grow-retry loop so a misbehaving model (or metered API)
\* cannot trigger unbounded regeneration": a call ends, although a budget that
\* grew may be refused and one that was halved cut off again.
CallsEnd == call = "chat" ~> call = "idle"

\* "Three doublings = 8x the seed", and no growth beyond the ceiling.
SpendIsBounded ==
  /\ budget <= 8 * first
  /\ ceiling > 0 => budget <= Larger(first, ceiling)

\* The loop corrects itself: an answer is cut off only by the user's ceiling, by
\* the growth limit, or if the server does not accept twice what it needs. (With
\* less room than that, halving and doubling may step over the budget that fits.)
CutOffForAReason ==
  [][call = "chat" /\ outcome' = "truncated" =>
       \/ ceiling > 0 /\ ceiling < need
       \/ 8 * first < need
       \/ limit < 2 * need]_cvars
===============================================================================
