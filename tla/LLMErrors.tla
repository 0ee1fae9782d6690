------------------------------- MODULE LLMErrors -------------------------------
(* How the LLM clients and the router read an error.  An error is the HTTP   *)
(* status it carries (0 when it carries none), the phrases its text contains *)
(* and the sentinel errors it wraps; the reactions hang on these predicates. *)
EXTENDS Integers, Sequences, FiniteSets, SequencesExt, FiniteSetsExt

Err(code, says, wraps, after) == [ok |-> FALSE, code |-> code, says |-> says, wraps |-> wraps, after |-> after]
HTTPError(code, says) == Err(code, says, {}, 0)
PlainError == Err(0, {}, {}, 0)
DeadlineExceeded == Err(0, {"deadline exceeded"}, {"deadline"}, 0)
Canceled == Err(0, {"context canceled"}, {"canceled"}, 0)

\* What a completion returns: an error, or the actions the model answered with.
IsError(e) == DOMAIN e = {"ok", "code", "says", "wraps", "after"} /\ ~e.ok /\ e.after \in Nat
Actions == [tool : STRING, path : STRING, marks : SUBSET STRING, asserts : Nat]
IsResult(r) == IF r.ok THEN r.acts \in Seq(Actions) ELSE IsError(r)

\* The elements of s at the positions in I, in their order.
Selected(s, I) ==
    LET upTo[n \in 0..Len(s)] ==
          IF n = 0 THEN <<>> ELSE IF n \in I THEN Append(upTo[n - 1], s[n]) ELSE upTo[n - 1]
    IN  upTo[Len(s)]

\* fmt.Errorf("%w (...): %v", ErrCreditExhausted, err): the text stays, the HTTP error is gone.
ErrCreditExhausted(e) == Err(0, e.says \cup {"credit exhausted"}, {"credit"}, 0)

\* The text of an HTTP error begins with its status.
Text(e) == e.says \cup (CASE e.code = 429 -> {"429"} [] e.code = 503 -> {"503"} [] OTHER -> {})
Mentions(e, phrases) == Text(e) \cap phrases # {}

CreditPhrases == {"credit balance is too low", "insufficient_quota", "exceeded your current quota", "arrearage",
                  "credit exhausted"}
ModelPhrases == {"model_not_found", "no longer available", "model does not exist"}

isCreditExhausted(e) ==
    \/ "credit" \in e.wraps \/ e.code = 402 \/ Mentions(e, CreditPhrases)
    \/ e.code # 0 /\ "billing details" \in e.says
    \/ e.code = 429 /\ "credit" \in e.says

\* A 404 of the route is not about the model.
isModelNotFoundOrDeprecated(e) ==
    \/ Mentions(e, ModelPhrases)
    \/ e.code = 404 /\ "endpoint" \notin e.says

looksLikeRouterUnavailable(e) == e.code >= 500 /\ "router.unavailable" \in e.says

isNonRetryableHTTPError(e) == e.code \in {400, 401, 403, 404, 405, 422} \/ looksLikeRouterUnavailable(e)

isRateLimitOrQuota(e) == e.code = 429 \/ (e.code # 402 /\ Mentions(e, {"429", "rate limit", "resource_exhausted"}))

isTimeoutOrNetworkError(e) ==
    \/ e.wraps \cap {"deadline", "canceled"} # {}
    \/ e.code \in {408, 502, 503, 504}
    \/ Mentions(e, {"deadline exceeded", "timeout", "connection refused"})

shouldSkipModelFallback(e) ==
    /\ ~isModelNotFoundOrDeprecated(e)
    /\ \/ isRateLimitOrQuota(e) \/ isTimeoutOrNetworkError(e)
       \/ e.code \in {400, 401, 403, 405, 422, 502, 503, 504}

\* Of an HTTP error only the status counts.
isTransientError(e) ==
    IF e.code # 0 THEN e.code \in {408, 429} \/ e.code >= 500
    ELSE Mentions(e, {"429", "503", "overloaded", "timeout", "deadline exceeded"})

\* The wait the provider asks for, 0 when it asks for none.
parseRetryDelay(e) == e.after

isEvictionError(e) ==
    \/ isCreditExhausted(e) \/ isModelNotFoundOrDeprecated(e)
    \/ e.code \in {401, 402, 404}
    \/ Mentions(e, {"payment required", "401 unauthorized", "account is in good standing"})

isTimeoutOrCanceled(e) ==
    e.wraps \cap {"deadline", "canceled"} # {} \/ Mentions(e, {"deadline exceeded", "context canceled", "timeout"})
================================================================================
