--------------------------- MODULE RuntimeBudget ---------------------------
(***************************************************************************)
(* evaluate_budget: five dimensions, each with a closed range of limits    *)
(* and of observed values.  Limits and observations are functions on the   *)
(* dimensions; an incomplete or non-integer mapping is a function with an  *)
(* out-of-range value, since the code treats both alike.                   *)
(***************************************************************************)
EXTENDS Integers

Dimensions ==
  {"CONCURRENT_TASKS", "TASK_SECONDS", "RETRIES", "TOOL_CALLS", "MODEL_TOKENS"}

\* LIMIT_TO_OBSERVED: the largest limit of each dimension.  The largest
\* representable observation is one more, so that an excess can be reported.
LimitMax ==
  [d \in Dimensions |->
     CASE d = "CONCURRENT_TASKS" -> 1024
       [] d = "TASK_SECONDS"     -> 86400
       [] d = "RETRIES"          -> 100
       [] d = "TOOL_CALLS"       -> 10000
       [] d = "MODEL_TOKENS"     -> 10000000]

LimitMin(d) == IF d \in {"CONCURRENT_TASKS", "TASK_SECONDS"} THEN 1 ELSE 0

ObservedMax(d) == LimitMax[d] + 1

ValidBudgetInput(limits, observed) ==
  \A d \in Dimensions :
    /\ limits[d] \in LimitMin(d)..LimitMax[d]
    /\ observed[d] \in 0..ObservedMax(d)

ExceededDimensions(limits, observed) ==
  {d \in Dimensions : observed[d] > limits[d]}

\* MALFORMED stands for BudgetValidationError, which verify_admission maps to it.
EvaluateBudget(limits, observed) ==
  IF ~ValidBudgetInput(limits, observed) THEN "MALFORMED"
  ELSE IF ExceededDimensions(limits, observed) # {} THEN "BUDGET_EXCEEDED"
  ELSE "NO_REASON"
=============================================================================
