------------------------------- MODULE LLMClient -------------------------------
(* One completion of one provider: the request that is reshaped when the     *)
(* provider rejects an option, the ladder of retries, keys and models around *)
(* it, and the reading of the answer.  The state of a call is a record and   *)
(* every operator here maps it, with an answer of the provider, to the next. *)
EXTENDS LLMErrors

CONSTANTS Clients,      \* name |-> [kind, model, keys, retries, skipCredit, extras, streaming, fits, routine]
          Catalogs,     \* name |-> the models the provider lists, [name, rank, version, family]
          Unrecognised  \* the models of the catalogs that the provider's parser does not know

-----------------------------------------------------------------------------
(* The answer: pieces of text, some of them JSON objects, some in fences. *)

Pieces == [fence : STRING, kind : STRING, valid : BOOLEAN, acts : Seq(Actions)]
IsAnswer(a) == IF a.ok THEN a.body \in Seq(Pieces) ELSE IsError(a)

\* ExtractJSONBlock: what a model thinks aloud and what stands in a fence of a programming
\* language is cut out; the last object with the keys of the envelope is the answer.
stripFencedCodeBlocks(body) == {i \in DOMAIN body : body[i].fence \in {"none", "json"}}
findTopLevelJSONBlocks(body) == {i \in DOMAIN body : body[i].kind \in {"envelope", "object"}}
ExtractJSONBlock(body) ==
    {i \in stripFencedCodeBlocks(body) \cap findTopLevelJSONBlocks(body) : body[i].kind = "envelope"}

\* LenientUnmarshal: elements that are no actions are dropped, one action may stand alone.
LenientUnmarshal(s) == [ok |-> TRUE, acts |-> Selected(s.acts, {i \in DOMAIN s.acts : s.acts[i].tool # ""})]

parseAndUnmarshal(body) ==
    LET found == ExtractJSONBlock(body)
    IN  IF found = {} \/ ~body[Max(found)].valid THEN PlainError ELSE LenientUnmarshal(body[Max(found)])

-----------------------------------------------------------------------------
(* One Call of a provider client. *)

MaxSends(kind) == IF kind = "gemini" THEN 2 ELSE 3

\* Which options a request carries: the ones this process has seen a model reject are left out.
openaiOptions(cl, model, caps) ==
    {o \in {"json", "max", "temp"} \cup cl.extras : <<model, o>> \notin caps} \ (IF "thinking" \in cl.extras THEN {"temp"} ELSE {})
anthropicOptions(model, caps) == {"max", "cache"} \cup {o \in {"temp"} : <<model, o>> \notin caps}
geminiOptions(cl) == {"system"} \cup (cl.extras \cap {"schema"})

StartCall(cl, model, caps) ==
    [kind |-> cl.kind, model |-> model, sends |-> 0, streaming |-> cl.kind = "openai" /\ cl.streaming,
     opts |-> CASE cl.kind = "openai" -> openaiOptions(cl, model, caps)
                [] cl.kind = "anthropic" -> anthropicOptions(model, caps)
                [] OTHER -> geminiOptions(cl)]

Rejected(pc, e, o) == e.code = 400 /\ o \in pc.opts /\ o \in e.says

\* The extra parameter a 400 is about: the one it names, or any.
looksLikeExtraBodyRejection(pc, e) ==
    LET extra == pc.opts \ {"json", "max", "temp"}
        named == extra \cap e.says
    IN  IF named # {} THEN {CHOOSE k \in named : TRUE}
        ELSE IF extra # {} /\ "unknown parameter" \in e.says THEN {CHOOSE k \in extra : TRUE}
        ELSE {}

\* The options dropped for another try, in the order they are looked for; "again" retries the
\* same shape.
adaptOptionsForError(pc, e) ==
    IF e.code = 400 /\ "json" \in pc.opts /\ "json_schema" \in e.says THEN {"again"}
    ELSE IF e.code = 400 /\ "json" \in pc.opts /\ e.says \cap {"json", "unknown parameter"} # {} THEN {"json"}
    ELSE IF looksLikeRouterUnavailable(e) /\ pc.opts \cap {"json", "max"} # {} THEN {"json", "max"}
    ELSE IF Rejected(pc, e, "temp") THEN {"temp"}
    ELSE IF Rejected(pc, e, "max") THEN {"max"}
    ELSE IF e.code = 400 THEN looksLikeExtraBodyRejection(pc, e)
    ELSE {}

\* Thinking that used up the output is asked for again with more room.
adaptAnthropic(pc, e) ==
    IF Rejected(pc, e, "temp") THEN {"temp"}
    ELSE IF Rejected(pc, e, "max") THEN {"max"}
    ELSE IF Rejected(pc, e, "cache") THEN {"cache"}
    ELSE IF e.code = 200 /\ "max_tokens" \in e.says /\ pc.sends < 2 THEN {"again"}
    ELSE {}

adaptGemini(pc, e) ==
    IF Rejected(pc, e, "system") THEN {"system"} ELSE {o \in {"schema"} : Rejected(pc, e, o)}

Adapt(pc, e) ==
    CASE pc.kind = "openai" -> adaptOptionsForError(pc, e)
      [] pc.kind = "anthropic" -> adaptAnthropic(pc, e)
      [] OTHER -> adaptGemini(pc, e)

\* What the process remembers of a rejection.
MarkUnsupported(pc, dropped) ==
    CASE pc.kind = "openai" -> {<<pc.model, o>> : o \in dropped \ {"again"}}
      [] pc.kind = "anthropic" -> {<<pc.model, o>> : o \in dropped \cap {"temp"}}
      [] OTHER -> {}

\* sendCompletionStreaming: a stream that breaks or stays empty is tried again as a plain POST,
\* a rejection or a timeout is not.
StreamBroke(pc, a) ==
    pc.streaming /\ IF a.ok THEN a.body = <<>> ELSE a.code = 0 /\ ~isTimeoutOrCanceled(a)

\* The content of a response: without a content block it is an error at the two dialects.
parseResponse(pc, a) == IF a.body = <<>> /\ pc.kind # "openai" THEN PlainError ELSE a

\* One request and its answer: a rejected option is dropped; the last rejection keeps its status
\* only at the OpenAI dialect.
Send(pc, a, caps) ==
    LET dropped == Adapt(pc, a)
        next == [pc EXCEPT !.sends = @ + 1, !.opts = @ \ dropped]
        done(r) == [pc |-> pc, caps |-> caps, result |-> <<r>>]
    IN  IF StreamBroke(pc, a) THEN [pc |-> [pc EXCEPT !.streaming = FALSE], caps |-> caps, result |-> <<>>]
        ELSE IF a.ok THEN done(parseResponse(pc, a))
        ELSE IF dropped = {} THEN done(IF a.code = 200 THEN PlainError ELSE a)
        ELSE [pc |-> next, caps |-> caps \cup MarkUnsupported(pc, dropped),
              result |-> IF next.sends < MaxSends(pc.kind) THEN <<>>
                         ELSE <<IF pc.kind = "openai" THEN a ELSE PlainError>>]

-----------------------------------------------------------------------------
(* The catalog and the model to fall back to. *)

parseCatalogModels(models) == {m \in models : m.name \notin Unrecognised}

\* The best first.
sortProviderModels(models) ==
    SetToSortSeq(parseCatalogModels(models),
                 LAMBDA x, y : x.rank > y.rank \/ (x.rank = y.rank /\ x.version > y.version))

isModelPrefixMatch(m, family) == m.family = family

\* selectFallbackModel: down the ladder from a known model; for an unknown one the best of its
\* lineage, and then the best.  <<>> when there is none.
selectFallbackModel(family, current, models, blacklist) ==
    LET sorted == sortProviderModels(models)
        at == SelectInSeq(sorted, LAMBDA m : m.name = current)
        free(s) == SelectSeq(s, LAMBDA m : m.name \notin blacklist /\ m.name # current)
        kin == SelectSeq(free(sorted), LAMBDA m : isModelPrefixMatch(m, family))
        pick(s) == IF s = <<>> THEN <<>> ELSE <<s[1].name>>
    IN  IF at > 0 THEN pick(free(SubSeq(sorted, at + 1, Len(sorted))))
        ELSE IF kin # <<>> THEN pick(kin)
        ELSE pick(free(sorted))

\* resolveLatestModel does not ask whether the model is blacklisted.
resolveLatestModel(models) == LET s == sortProviderModels(models) IN IF s = <<>> THEN "latest" ELSE s[1].name

-----------------------------------------------------------------------------
(* Client.Complete: the ladder. *)

maxRetries(cl) == IF cl.retries = 0 THEN 5 ELSE cl.retries

getNextAPIKey(cl, index) == IF cl.keys = 0 THEN 0 ELSE (index % cl.keys) + 1

\* adjustForRoutineTask asks what the model can do, with a key of its own from the pool.
adjustForRoutineTask(cl) == IF cl.routine THEN 1 ELSE 0

\* A prompt that is too large, or a missing key, ends the call before it begins.
Ladder(name, index, caps) ==
    LET cl == Clients[name]
        key == getNextAPIKey(cl, index)
        base == [name |-> name, phase |-> "call", model |-> cl.model, key |-> key, first |-> key, attempt |-> 0,
                 fallbacks |-> 0, credit |-> FALSE, calls |-> 1, reminded |-> FALSE,
                 pc |-> StartCall(cl, cl.model, caps), result |-> PlainError]
    IN  IF ~cl.fits \/ key = 0 THEN [base EXCEPT !.phase = "done", !.calls = 0]
        ELSE IF cl.model = "latest" THEN [base EXCEPT !.phase = "latest", !.calls = 0]
        ELSE base

Finish(l, r) == [l EXCEPT !.phase = "done", !.result = r]

\* A stream that broke is not tried again as long as the model is the same.
CallAgain(l, caps) ==
    LET pc == StartCall(Clients[l.name], l.model, caps)
    IN  [l EXCEPT !.phase = "call", !.calls = @ + 1,
                  !.pc = IF l.phase \in {"latest", "catalog"} THEN pc ELSE [pc EXCEPT !.streaming = l.pc.streaming]]

\* resolveLatestModel, when the catalog could be read.
Resolved(l, read, caps) ==
    CallAgain([l EXCEPT !.model = IF read THEN resolveLatestModel(Catalogs[l.name]) ELSE "latest"], caps)

\* The error that is left when the ladder ends.
LastError(l, e) ==
    IF l.credit /\ Clients[l.name].skipCredit THEN ErrCreditExhausted(e)
    ELSE IF isRateLimitOrQuota(e) THEN [e EXCEPT !.says = @ \cup {"rate limit"}] ELSE e

\* No retry any more: fall back to another model, once, or give up.
Exhausted(l, e) ==
    IF ~(l.credit /\ Clients[l.name].skipCredit) /\ ~shouldSkipModelFallback(e) /\ l.fallbacks < 1
    THEN [l EXCEPT !.phase = "catalog", !.result = e]
    ELSE Finish(l, LastError(l, e))

\* getNextLowerModel, when the catalog could be read.
FellBack(l, read, caps, blacklist) ==
    LET m == IF read THEN selectFallbackModel(Clients[l.name].model, l.model, Catalogs[l.name], blacklist) ELSE <<>>
    IN  IF m = <<>> THEN Finish(l, LastError(l, l.result))
        ELSE CallAgain([l EXCEPT !.model = m[1], !.fallbacks = @ + 1, !.attempt = 0, !.key = l.first, !.credit = FALSE], caps)

\* A failed attempt.  Rotate tells whether another key of the pool is taken at once.
Rotate(l, e) == isRateLimitOrQuota(e) /\ l.attempt < Clients[l.name].keys - 1

CreditStop(l, e) == isCreditExhausted(e) /\ Clients[l.name].skipCredit

Failed(l, e, index, caps) ==
    LET cl == Clients[l.name]
        k == [l EXCEPT !.credit = @ \/ isCreditExhausted(e)]
    IN  IF isModelNotFoundOrDeprecated(e) THEN Exhausted(l, e)
        ELSE IF CreditStop(l, e) \/ isNonRetryableHTTPError(e) THEN Exhausted(k, e)
        ELSE IF Rotate(l, e) /\ l.attempt < maxRetries(cl)
             THEN CallAgain([k EXCEPT !.attempt = @ + 1, !.key = getNextAPIKey(cl, index)], caps)
        ELSE IF isRateLimitOrQuota(e) \/ l.attempt = maxRetries(cl) THEN Exhausted(k, e)
        ELSE [k EXCEPT !.phase = "backoff"]

\* An answer that is no envelope is asked for once more, with the key the call began with.
Answered(l, a, caps) ==
    LET r == parseAndUnmarshal(a.body)
    IN  IF r.ok \/ l.reminded THEN Finish(l, r)
        ELSE [CallAgain([l EXCEPT !.key = l.first, !.reminded = TRUE], caps) EXCEPT !.result = r]

\* What the provider's result does to the ladder; a reminder that fails leaves the first error.
Advance(l, r, index, caps) ==
    IF r.ok THEN Answered(l, r, caps)
    ELSE IF l.reminded THEN Finish(l, l.result)
    ELSE Failed(l, r, index, caps)

Blacklists(l, r) == ~r.ok /\ ~l.reminded /\ isModelNotFoundOrDeprecated(r)
TakesKey(l, r) ==
    /\ ~r.ok /\ ~l.reminded /\ ~isModelNotFoundOrDeprecated(r) /\ ~CreditStop(l, r)
    /\ ~isNonRetryableHTTPError(r) /\ Rotate(l, r)

\* No ladder asks the provider more often than this.
CallBound(l) == 2 * (maxRetries(Clients[l.name]) + 1) + 1
================================================================================
