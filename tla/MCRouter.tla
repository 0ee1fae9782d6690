------------------------------- MODULE MCRouter -------------------------------
(* The providers, the roles and the answers of the bounded run of Router. *)
EXTENDS Router

Client(kind, model, keys) ==
    [kind |-> kind, model |-> model, keys |-> keys, retries |-> 1, skipCredit |-> TRUE, extras |-> {}, streaming |-> FALSE,
     fits |-> TRUE, routine |-> FALSE]

A == <<"a", "m1">>
A2 == <<"a", "m3">>
B == <<"b", "m1">>
C == <<"c", "m1">>
L == <<"l", "latest">>
G == <<"g", "m1">>
D == <<"default", "">>
Huge == <<"huge", "">>
MCClients ==
    A :> [Client("openai", "m1", 2) EXCEPT !.routine = TRUE, !.streaming = TRUE]
    @@ A2 :> Client("openai", "m3", 1)
    @@ B :> [Client("openai", "m1", 1) EXCEPT !.extras = {"thinking"}]
    @@ C :> [Client("anthropic", "m1", 2) EXCEPT !.skipCredit = FALSE]
    @@ L :> Client("openai", "latest", 1)
    @@ G :> [Client("gemini", "m1", 1) EXCEPT !.extras = {"schema"}]
    @@ D :> Client("openai", "m1", 0)
    @@ Huge :> [Client("openai", "m1", 1) EXCEPT !.fits = FALSE]

Model(name, rank, version) == [name |-> name, rank |-> rank, version |-> version, family |-> IF rank = 1 THEN "m1" ELSE "big"]
Listed == {Model("m0", 1, 1), Model("m1", 1, 2), Model("m2", 1, 3), Model("m9", 2, 1), Model("odd", 3, 1)}
MCCatalogs == [n \in DOMAIN MCClients |-> IF n = A2 THEN {Model("odd", 3, 1)} ELSE Listed]

-----------------------------------------------------------------------------
(* Answers. *)

Act(tool, path, marks) == [tool |-> tool, path |-> path, marks |-> marks, asserts |-> 0]
Good == Act("write_file", "app.go", {"go"})
Stub == Act("write_file", "app.go", {"todo"})
Verdict(mark) == Act("submit_audit", "", {mark})
Piece(fence, kind, valid, acts) == [fence |-> fence, kind |-> kind, valid |-> valid, acts |-> acts]
Says(pieces) == [ok |-> TRUE, body |-> pieces]
Fine == Says(<<Piece("go", "object", TRUE, <<>>), Piece("json", "envelope", TRUE, <<Good>>)>>)
Silence == Says(<<>>)
Prose == Says(<<Piece("none", "text", FALSE, <<>>)>>)
Truncated == Says(<<Piece("none", "envelope", FALSE, <<Good>>)>>)

Unauthorized == HTTPError(401, {})
RateLimited == HTTPError(429, {})
Later == [HTTPError(429, {}) EXCEPT !.after = 2]
Overloaded == HTTPError(503, {})
GoneModel == HTTPError(404, {})
ServerError == HTTPError(500, {})
Rejects(o) == HTTPError(400, {o})
RouterDown == HTTPError(503, {"router.unavailable"})
Broke == HTTPError(402, {})

Only(set) == [n \in DOMAIN MCClients |-> set]

Result(acts) == [ok |-> TRUE, acts |-> acts]
MCMembers == {Result(<<Good>>), Result(<<Stub>>), PlainError}
Verdicts == {Result(<<Verdict("passed")>>), Result(<<Verdict("rejected")>>), DeadlineExceeded}

-----------------------------------------------------------------------------
(* Configurations. *)

Spec_(provider, model) == [provider |-> provider, model |-> model, window |-> 0, hedge |-> "unset", limit |-> 0]
Three == "a" :> Spec_("openai", "m1") @@ "b" :> Spec_("together", "m1") @@ "c" :> Spec_("anthropic", "m1")
Ref(name, models) == [name |-> name, models |-> models, inline |-> FALSE]
Setting(refs) == [NoSetting EXCEPT !.providers = refs]

Base ==
    [kind |-> "router", role |-> "planner", specs |-> Three, agents |-> <<>>, roles |-> <<>>, priority |-> <<"a", "b", "c">>,
     default |-> TRUE, prompt |-> 1, override |-> "", adaptive |-> FALSE, hedging |-> FALSE, reads |-> {TRUE}, limit |-> 0,
     used |-> 0, maxCalls |-> 0, answers |-> Only({Fine}), spent |-> {}, catalogs |-> {TRUE},
     members |-> MCMembers, durations |-> {"normal"}, hard |-> FALSE, cancels |-> FALSE, ticks |-> FALSE,
     callers |-> {"c1"}, rounds |-> 1]

Both == {"c1", "c2"}

\* Two requests hedge over three providers that refuse keys and calls.
Hedged == [Base EXCEPT !.hedging = TRUE, !.callers = Both, !.ticks = TRUE,
                       !.answers = A :> {Unauthorized, Fine} @@ B :> {Fine, RateLimited} @@ C :> {Unauthorized} @@ Only({Fine})]

\* Two requests, twice, near the daily limit.
Metered == [Base EXCEPT !.hedging = TRUE, !.callers = Both, !.rounds = 2, !.limit = 3, !.priority = <<"b", "c">>]

\* One after the other, with providers that time out, slow answers and a caller that gives up.
Sequential == [Base EXCEPT !.rounds = 2, !.cancels = TRUE, !.durations = {"fast", "slow", "over"},
                           !.answers = Only({Fine, DeadlineExceeded})]

\* Everyone cools down: the emergency recovery, beside another request.
Emergency == {[Base EXCEPT !.callers = Both, !.ticks = TRUE, !.priority = <<"b", "c">>,
                           !.answers = B :> {Later, Overloaded, Unauthorized} @@ C :> {RateLimited, Fine} @@ Only({Fine})],
              [Base EXCEPT !.rounds = 3, !.ticks = TRUE, !.priority = <<"b", "c">>,
                           !.answers = Only({RateLimited, Unauthorized, Fine})]}

\* The ladder of one client: every answer, a pool of keys of which one is spent.
Climb(name, answers) ==
    [Base EXCEPT !.specs = name[1] :> Spec_("openai", name[2]), !.priority = <<name[1]>>, !.answers = Only(answers),
                 !.catalogs = {TRUE, FALSE}]
Faults == {Fine, Silence, Prose, Truncated, Overloaded, RateLimited, GoneModel, ServerError, Broke, PlainError, DeadlineExceeded}
Ladders == {[Climb(A, Faults) EXCEPT !.spent = {2}], Climb(L, Faults), Climb(A2, {GoneModel, ServerError, Fine}),
            Climb(B, {Fine, Rejects("json"), Rejects("json_schema"), Rejects("temp"), Rejects("max"),
                      Rejects("thinking"), Rejects("unknown parameter"), RouterDown}),
            Climb(C, {Fine, Silence, Rejects("temp"), Rejects("max"), Rejects("cache"), HTTPError(200, {"max_tokens"}), Broke}),
            Climb(G, {Fine, Rejects("system"), Rejects("schema"), Unauthorized}),
            Climb(D, {Fine}), Climb(Huge, {Fine})}

\* The order of the candidates: a large prompt, an override, a role with entries of its own, a
\* provider over its limit, a store that cannot be read, and roles without candidates.
Ordered == {[Base EXCEPT !.adaptive = TRUE, !.prompt = 50000, !.answers = Only({ServerError, Unauthorized})],
            [Base EXCEPT !.override = "m3", !.role = "auditor", !.hedging = TRUE, !.cancels = TRUE,
                         !.agents = "qa" :> Setting(<<Ref("a", <<"m1", "m3">>), Ref("nobody", <<>>), Ref("b", <<>>)>>)],
            [Base EXCEPT !.rounds = 3, !.specs = [Three EXCEPT !["a"].limit = 2, !["a"].hedge = "off", !["b"].hedge = "on"],
                         !.limit = 9, !.reads = {TRUE, FALSE}],
            [Base EXCEPT !.specs = <<>>, !.priority = <<>>], [Base EXCEPT !.role = "devops"]}

\* The ensembles.
Ens(strategy, n, extra) ==
    [strategy |-> strategy, members |-> n, extra |-> extra, min |-> 2, soft |-> TRUE, fallback |-> TRUE, early |-> FALSE,
     fast |-> 0, heavy |-> 0, topic |-> "plain"]
Together(cfg) == [Base EXCEPT !.role = "fallback", !.priority = <<"b">>, !.hard = TRUE,
                              !.roles = "last_resort" :> [NoSetting EXCEPT !.ensemble = <<cfg>>]]
Voting(cfg) == [Together(cfg) EXCEPT !.members = Verdicts]
Adaptive(fast, heavy, extra, topic) ==
    [Ens("adaptive", 0, extra) EXCEPT !.fast = fast, !.heavy = heavy, !.topic = topic]
Ensembles == {Together(Ens("parallel", 3, TRUE)), Together(Ens("parallel", 2, FALSE)), Together(Ens("parallel", 0, TRUE)),
              Together(Ens("serial", 3, FALSE)),
              Together([Ens("serial", 2, FALSE) EXCEPT !.early = TRUE, !.fallback = FALSE]),
              Voting(Ens("consensus", 3, TRUE)), Voting(Ens("consensus", 2, FALSE)), Together(Ens("race", 2, FALSE)),
              Together(Ens("cascade", 2, FALSE)), Together(Ens("decomposed", 2, FALSE)),
              [Together(Ens("best_of_n_scored", 2, FALSE)) EXCEPT !.hedging = TRUE, !.rounds = 2, !.durations = {"slow"},
                                                                    !.answers = Only({Fine, Unauthorized})],
              Together(Adaptive(2, 2, TRUE, "heavy")), Together(Adaptive(2, 0, TRUE, "fast")),
              Together(Adaptive(1, 2, FALSE, "fast")), Together(Adaptive(0, 0, TRUE, "plain"))}

\* FailoverClient: two callers, a budget of calls and of tokens, a store that fails.
Failover == {[Base EXCEPT !.kind = "failover", !.callers = Both, !.rounds = 2, !.limit = 2, !.maxCalls = 3, !.ticks = TRUE,
                          !.priority = <<"b", "c">>, !.answers = Only({Fine, RateLimited})],
             [Base EXCEPT !.kind = "failover", !.reads = {TRUE, FALSE}, !.limit = 2, !.cancels = TRUE]}

MCModes == {Hedged, Metered, Sequential} \cup Emergency \cup Ladders \cup Ordered \cup Ensembles \cup Failover
MCNames == {"a", "b", "c", "l", "g", "default", "huge", "ensemble"}
================================================================================
