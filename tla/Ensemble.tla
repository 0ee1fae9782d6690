-------------------------------- MODULE Ensemble --------------------------------
(* A candidate of the router that asks several models: the eight strategies.  *)
(* The state of one completion is a record; an operator maps it, with what a  *)
(* member answers or a timer that fires, to the next.  A configuration is     *)
(* [strategy, members, extra, min, soft, fallback, early, fast, heavy, topic]: *)
(* the number of members, whether there is a synthesizer (tie-breaker,        *)
(* standard tier), the quorum and the flags, the members of the two other     *)
(* tiers of the adaptive strategy, and what its prompt is about.              *)
EXTENDS LLMErrors

Writes == {"write_file", "create_story", "create_file"}
Stubs == {"todo", "panic", "pass", "elided"}

\* ValidateCodeResponse: something is done, and no file written is empty, too long, a stub or
\* Go that does not parse.
ValidateCodeResponse(acts) ==
    acts # <<>> /\ \A i \in DOMAIN acts :
        acts[i].tool \in Writes => acts[i].marks \cap ({"empty", "long", "broken_go"} \cup Stubs) = {}

\* ScoreCodeResponse.
ScoreCodeResponse(acts) ==
    LET score(a) ==
          IF a.tool \notin Writes THEN 0
          ELSE IF "empty" \in a.marks THEN -200
          ELSE (IF "long" \in a.marks THEN -100 ELSE 20)
               - 50 * Cardinality(a.marks \cap Stubs)
               + (IF "broken_go" \in a.marks THEN -150 ELSE IF "go" \in a.marks THEN 50 ELSE 0)
               + 5 * a.asserts
        sum[k \in 0..Len(acts)] == IF k = 0 THEN 0 ELSE sum[k - 1] + score(acts[k])
    IN  IF acts = <<>> THEN -1000 ELSE 100 + sum[Len(acts)]

\* MergeActions: the first action for a tool and a path counts.
MergeActions(lists) ==
    LET all == FlattenSeq(lists)
    IN  Selected(all, {k \in DOMAIN all : \A i \in 1..(k - 1) : all[i].tool # all[k].tool \/ all[i].path # all[k].path})

extractPassedFlag(acts) ==
    LET k == SelectInSeq(acts, LAMBDA a : a.tool = "submit_audit" /\ a.marks \cap {"passed", "rejected"} # {})
    IN  IF k = 0 THEN "none" ELSE IF "passed" \in acts[k].marks THEN "passed" ELSE "rejected"

\* isUnanimous: of answers that are no verdicts only the first two are compared, by length.
isUnanimous(got) ==
    LET flag(i) == extractPassedFlag(got[i].acts)
    IN  IF flag(1) = "none" THEN Len(got[1].acts) = Len(got[2].acts)
        ELSE \A i \in DOMAIN got : flag(i) = flag(1)

\* promoteBestResult: the first of the highest score.
promoteBestResult(got) ==
    LET score(i) == ScoreCodeResponse(got[i].acts)
    IN  got[Min({i \in DOMAIN got : \A j \in DOMAIN got : score(j) <= score(i)})].acts

-----------------------------------------------------------------------------
(* The course of a completion. *)

\* A role configured with any other strategy has no ensemble.
EnsembleStrategies ==
    {"parallel", "serial", "consensus", "race", "cascade", "decomposed", "best_of_n_scored", "adaptive"}

EnsembleConfigs ==
    [strategy : STRING, members : Nat, extra : BOOLEAN, min : Nat, soft : BOOLEAN, fallback : BOOLEAN, early : BOOLEAN,
     fast : Nat, heavy : Nat, topic : STRING]

\* The adaptive strategy chooses a tier; a tier of several members is itself an ensemble.
classifyAndSelect(cfg) ==
    IF cfg.topic = "heavy" /\ cfg.heavy > 0 THEN "heavy"
    ELSE IF cfg.topic = "fast" /\ cfg.fast > 0 THEN "fast"
    ELSE IF cfg.extra THEN "standard"
    ELSE IF cfg.heavy > 0 THEN "heavy"
    ELSE "fast"

fallbackTier(cfg) == IF cfg.extra THEN "standard" ELSE IF cfg.heavy > 0 THEN "heavy" ELSE "fast"

TierSize(cfg, tier) == CASE tier = "heavy" -> cfg.heavy [] tier = "fast" -> cfg.fast [] OTHER -> 1

buildEnsembleCandidate(cfg) ==
    LET tier == classifyAndSelect(cfg)
        adaptive == cfg.strategy = "adaptive"
        n == IF adaptive THEN TierSize(cfg, tier) ELSE cfg.members
        strategy == IF ~adaptive THEN cfg.strategy
                    ELSE IF n = 1 THEN "single"
                    ELSE IF tier = "heavy" THEN "parallel"
                    ELSE "race"
    IN  [strategy |-> strategy, n |-> n, open |-> IF strategy \in {"serial", "cascade"} THEN {1} ELSE 1..n,
         min |-> Min({Max({IF adaptive THEN 2 ELSE cfg.min, 1}), n}), extra |-> cfg.extra, armed |-> cfg.soft,
         fallback |-> cfg.fallback \/ adaptive, early |-> cfg.early,
         again |-> adaptive /\ fallbackTier(cfg) # tier, phase |-> "members",
         got |-> <<>>, last |-> PlainError, result |-> PlainError]

Win(x, acts) == [x EXCEPT !.phase = "done", !.open = {}, !.result = [ok |-> TRUE, acts |-> acts]]

\* The adaptive strategy has its fallback tier still to ask.
Fail(x, e) ==
    IF x.again THEN [x EXCEPT !.phase = "standard", !.open = {}, !.again = FALSE]
    ELSE [x EXCEPT !.phase = "done", !.open = {}, !.result = e]

AskExtra(x) == [x EXCEPT !.phase = "extra", !.open = {}]

\* Without members the synthesizer or the tie-breaker answers, when there is one.
Begin(x) ==
    IF x.n > 0 THEN x
    ELSE IF x.strategy \in {"parallel", "consensus"} /\ x.extra THEN AskExtra(x)
    ELSE Fail(x, PlainError)

\* The answers in the order of the members.
InOrder(x) ==
    LET who == Selected([i \in 1..x.n |-> i], {x.got[k].i : k \in DOMAIN x.got})
    IN  [k \in DOMAIN who |-> CHOOSE g \in Range(x.got) : g.i = who[k]]

\* ParallelClient, once it stops collecting.
Synthesize(x) ==
    IF x.got = <<>> THEN (IF x.fallback /\ x.extra THEN AskExtra(x) ELSE Fail(x, PlainError))
    ELSE IF Len(x.got) = 1 \/ ~x.extra THEN Win(x, promoteBestResult(x.got))
    ELSE AskExtra(x)

\* ConsensusClient, once every voter has answered.
Vote(x) ==
    LET got == InOrder(x)
    IN  IF got = <<>> THEN (IF x.extra THEN AskExtra(x) ELSE Fail(x, PlainError))
        ELSE IF Len(got) = 1 \/ ~x.extra THEN Win(x, got[1].acts)
        ELSE IF isUnanimous(got) THEN Win(x, got[1].acts)
        ELSE AskExtra([x EXCEPT !.got = got])

\* ScoredClient and DecomposedClient: without an action there is nothing to choose from or to
\* merge; an error of the latter is only its text.
NoActions(x) == \A k \in DOMAIN x.got : x.got[k].acts = <<>>
PickScored(x) ==
    LET fit == {g \in Range(x.got) : g.acts # <<>>}
        before(g, h) == LET a == ScoreCodeResponse(g.acts)
                            b == ScoreCodeResponse(h.acts)
                        IN  a > b \/ (a = b /\ g.i <= h.i)
    IN  IF NoActions(x) THEN Fail(x, x.last) ELSE Win(x, (CHOOSE g \in fit : \A h \in fit : before(g, h)).acts)
Merge(x) ==
    LET got == InOrder(x)
    IN  IF NoActions(x) THEN Fail(x, [x.last EXCEPT !.code = 0, !.wraps = {}])
        ELSE Win(x, MergeActions([k \in DOMAIN got |-> got[k].acts]))

\* SerialClient and CascadeClient after the last stage, or once the time is up.
LastStage(x) == IF x.got = <<>> THEN Fail(x, x.last) ELSE Win(x, Last(x.got).acts)

Decide(x) ==
    CASE x.strategy = "parallel" -> Synthesize(x)
      [] x.strategy = "consensus" -> Vote(x)
      [] x.strategy = "best_of_n_scored" -> PickScored(x)
      [] x.strategy = "decomposed" -> Merge(x)
      [] x.strategy \in {"serial", "cascade"} -> LastStage(x)
      [] OTHER -> Fail(x, x.last)

\* Member i answers.
Arrive(x, i, r) ==
    LET y == [x EXCEPT !.open = @ \ {i}, !.got = IF r.ok THEN Append(@, [i |-> i, acts |-> r.acts]) ELSE @,
                       !.last = IF r.ok THEN @ ELSE r]
        valid == r.ok /\ ValidateCodeResponse(r.acts)
    IN  IF x.strategy = "single" THEN (IF r.ok THEN Win(y, r.acts) ELSE Fail(y, r))
        ELSE IF x.strategy = "race" /\ valid THEN Win(y, r.acts)
        ELSE IF x.strategy = "cascade" /\ valid THEN Win(y, r.acts)
        ELSE IF x.strategy = "serial" /\ ~r.ok /\ ~x.fallback THEN Fail(y, r)
        ELSE IF x.strategy = "serial" /\ x.early /\ i < x.n /\ valid THEN Win(y, r.acts)
        ELSE IF x.strategy \in {"serial", "cascade"} /\ i < x.n THEN [y EXCEPT !.open = {i + 1}]
        ELSE IF x.strategy = "parallel" /\ Len(y.got) >= x.min THEN Decide(y)
        ELSE IF y.open = {} THEN Decide(y)
        ELSE y

ExtraArrivesOrFails(x, r) == IF r.ok THEN Win(x, r.acts) ELSE Fail(x, r)

\* The synthesizer or the tie-breaker answers; when it fails, what the members said stands.
ExtraArrives(x, r) ==
    IF r.ok THEN Win(x, r.acts)
    ELSE IF x.got = <<>> THEN Fail(x, r)
    ELSE IF x.strategy = "parallel" THEN Win(x, promoteBestResult(x.got))
    ELSE Win(x, x.got[1].acts)

\* The fallback tier of the adaptive strategy has the last word.
StandardArrives(x, r) == [x EXCEPT !.phase = "done", !.result = r]

\* The soft timer of the parallel strategy fires once.
SoftTimer(x) == IF x.got # <<>> THEN Decide([x EXCEPT !.armed = FALSE]) ELSE [x EXCEPT !.armed = FALSE]

\* The time of the whole ensemble is up: members in flight fail, the parallel strategy stops
\* listening, and a synthesizer keeps the caller's context.
Expire(x) ==
    IF x.strategy = "serial" /\ ~x.fallback THEN Fail(x, DeadlineExceeded)
    ELSE Decide([x EXCEPT !.open = {}, !.last = DeadlineExceeded])

\* An ensemble gives up only if no answer it received was fit for use; a serial one may be told
\* to give up when a stage fails.
Kept(x) ==
    (x.phase = "done" /\ ~x.result.ok /\ (x.strategy # "serial" \/ x.fallback))
        => \A k \in DOMAIN x.got : ~ValidateCodeResponse(x.got[k].acts)
================================================================================
