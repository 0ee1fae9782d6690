--------------------------------- MODULE Router ---------------------------------
(* The LLM router under concurrent callers: the candidates of a role, hedged  *)
(* and sequential completion, evictions, cooldowns and penalties shared by    *)
(* all requests, the emergency recovery and the daily token budget; and the   *)
(* older FailoverClient.  A candidate is a provider client (LLMClient) or an  *)
(* ensemble (Ensemble).  Time is the counters that Tick runs down.            *)
EXTENDS LLMClient, Ensemble

CONSTANTS Callers,        \* the goroutines that ask for completions
          Names,          \* the names candidates can have
          Modes,          \* the configurations, see Mode fields at their use
          EvictionTicks, EmergencyTicks, CooldownTicks, RateLimitTicks

\* A name that no provider entry has is a provider itself in the priority list and in a
\* shorthand, and is passed over in a reference.
Shorthand(name) == [provider |-> name, model |-> "", window |-> 0, hedge |-> "unset", limit |-> 0]
SpecIn(m, name) == IF name \in DOMAIN m.specs THEN m.specs[name] ELSE Shorthand(name)

\* FailoverClient keeps one budget for each model: backends that serve the same share it.
Models == {k[2] : k \in DOMAIN Clients}

\* The models a reference of a role stands for.
SpecOfRef(m, r) == IF r.inline THEN Shorthand(r.name) ELSE SpecIn(m, r.name)
ModelsOfRef(m, r) == IF r.models # <<>> THEN r.models ELSE <<SpecOfRef(m, r).model>>
Found(m, r) == r.inline \/ r.name \in DOMAIN m.specs

\* A configuration is well formed: numbers are numbers, and every model it names has a client.
WellFormed(m) ==
    /\ m.callers \subseteq Callers /\ m.callers # {}
    /\ m.rounds \in Nat /\ m.prompt \in Nat /\ m.used \in Nat /\ m.limit \in Nat
    /\ \A r \in m.members : IsResult(r)
    /\ \A k \in DOMAIN Clients : \A a \in m.answers[k] : IsAnswer(a)
    /\ m.priority \in Seq(Names)
    /\ \A i \in DOMAIN m.priority : <<m.priority[i], SpecIn(m, m.priority[i]).model>> \in DOMAIN Clients
    /\ \A b \in {m.agents, m.roles} : \A role \in DOMAIN b :
         /\ b[role].ensemble \in Seq(EnsembleConfigs)
         /\ b[role].providers \in Seq([name : STRING, models : Seq(STRING), inline : BOOLEAN])
         /\ \A i \in DOMAIN b[role].providers :
              LET r == b[role].providers[i]
              IN  Found(m, r) => /\ r.name \in Names
                                 /\ \A k \in DOMAIN ModelsOfRef(m, r) : <<r.name, ModelsOfRef(m, r)[k]>> \in DOMAIN Clients

ASSUME ConfigAssumption ==
    /\ IsFiniteSet(Callers) /\ {"default", "ensemble"} \subseteq Names /\ <<"default", "">> \in DOMAIN Clients
    /\ EvictionTicks \in Nat /\ EmergencyTicks \in Nat /\ CooldownTicks \in Nat /\ RateLimitTicks \in Nat
    /\ \A m \in Modes : WellFormed(m)

VARIABLES mode,       \* the configuration of the run
          evicted,    \* name |-> ticks until the eviction ends (evictedUntil)
          cooling,    \* name |-> ticks until the cooldown ends (cooldowns)
          penalty,    \* name |-> PenaltyScore of the latency tracker
          usage,      \* the budget store: [total, named, models], and as a ghost the longest
                      \* completion recorded
          clients,    \* what the clients share: [blacklist, caps, index, catalogs]
          callCount,  \* FailoverClient.callCount
          req,        \* caller |-> its request
          calls       \* caller |-> slot |-> <<>> or <<the completion in flight or collected>>

vars == <<mode, evicted, cooling, penalty, usage, clients, callCount, req, calls>>

Slots == {"p", "s"}

-----------------------------------------------------------------------------
(* The candidates of a role. *)

NoSetting == [providers |-> <<>>, ensemble |-> <<>>, timeout |-> FALSE]

\* getRoleSetting: the agents block, then the roles block, each with the roles that stand in
\* for one another.
Configured(s) == s.providers # <<>> \/ s.ensemble # <<>> \/ s.timeout
AgentChain(role) ==
    CASE role = "auditor" -> <<"auditor", "qa", "product_manager">>
      [] role \in {"fallback", "sovereign_rescue"} -> <<"sovereign_rescue", "fallback">>
      [] OTHER -> <<role>>
RoleChain(role) ==
    CASE role = "auditor" -> <<"qa", "orchestrator">>
      [] role = "fallback" -> <<"fallback", "last_resort", "unblocker">>
      [] role \in {"product_manager", "spike", "sovereign_rescue"} -> <<>>
      [] OTHER -> <<role>>
getRoleSetting(role) ==
    LET in(block, chain) ==
          LET found == Selected(chain, {k \in DOMAIN chain : chain[k] \in DOMAIN block /\ Configured(block[chain[k]])})
          IN  IF found = <<>> THEN <<>> ELSE <<block[found[1]]>>
        all == in(mode.agents, AgentChain(role)) \o in(mode.roles, RoleChain(role))
    IN  IF all = <<>> THEN NoSetting ELSE all[1]

GetModelContextWindow(provider, model) ==
    IF provider = "gemini" THEN 1048576
    ELSE IF provider = "anthropic" THEN 200000
    ELSE IF model = "compact" THEN 32768
    ELSE 128000

\* buildClientForSpec and the record around it.
Candidate(name, spec, model) ==
    [name |-> name, provider |-> spec.provider, model |-> model, client |-> <<name, model>>,
     window |-> IF spec.window > 0 THEN spec.window ELSE GetModelContextWindow(spec.provider, model)]

SpecOf(name) == SpecIn(mode, name)

Deduplicated(cands) ==
    Selected(cands, {k \in DOMAIN cands : \A i \in 1..(k - 1) : cands[i].provider # cands[k].provider \/ cands[i].model # cands[k].model})

EnsembleCandidate(cfg) ==
    [name |-> "ensemble", provider |-> "ensemble", model |-> cfg.strategy, client |-> <<"ensemble">>, window |-> 0]

buildCandidatesForRole(role) ==
    LET setting == getRoleSetting(role)
        refs == Selected(setting.providers, {i \in DOMAIN setting.providers : Found(mode, setting.providers[i])})
        ofRef(r) == [i \in DOMAIN ModelsOfRef(mode, r) |-> Candidate(r.name, SpecOfRef(mode, r), ModelsOfRef(mode, r)[i])]
        named == FlattenSeq([i \in DOMAIN refs |-> ofRef(refs[i])])
        global == [i \in DOMAIN mode.priority |->
                     LET spec == SpecOf(mode.priority[i]) IN Candidate(mode.priority[i], spec, spec.model)]
        ensemble == setting.ensemble # <<>> /\ setting.ensemble[1].strategy \in EnsembleStrategies
        all == (IF ensemble THEN <<EnsembleCandidate(setting.ensemble[1])>> ELSE <<>>) \o Deduplicated(named \o global)
    IN  IF all = <<>> /\ mode.default THEN <<Candidate("default", SpecOf("default"), "")>> ELSE all

RemovedRoles == {"architect", "security", "performance", "docs", "devops"}
ResolveCandidatesForRole(role) == IF role \in RemovedRoles THEN <<>> ELSE buildCandidatesForRole(role)

-----------------------------------------------------------------------------
(* Their order for one request. *)

FilterAndPrioritizeCandidatesByContext(cands, tokens) ==
    LET window(c) == IF c.window > 0 THEN c.window ELSE GetModelContextWindow(c.provider, c.model)
        fitting == Selected(cands, {i \in DOMAIN cands : tokens + 512 <= window(cands[i])})
        score(c) == IF window(c) >= 1048576 THEN 300
                    ELSE IF window(c) >= 200000 THEN 200
                    ELSE IF window(c) >= 128000 THEN 100
                    ELSE 10
        of(n) == Selected(fitting, {i \in DOMAIN fitting : score(fitting[i]) = n})
    IN  IF Len(cands) <= 1 \/ tokens = 0 \/ fitting = <<>> THEN cands
        ELSE IF mode.adaptive /\ tokens > 40000 THEN of(300) \o of(200) \o of(100) \o of(10)
        ELSE fitting

\* ApplyDynamicDemotion moves a candidate back by its penalty; the one that slides into its
\* place is not looked at.
Demote(s, i, by) ==
    LET to == Min({i + by, Len(s)})
    IN  [k \in DOMAIN s |-> CASE k = to -> s[i] [] k >= i /\ k < to -> s[k + 1] [] OTHER -> s[k]]
ApplyDynamicDemotion(cands) ==
    LET acc[i \in 0..Len(cands)] ==
          IF i = 0 THEN [list |-> cands, seen |-> {}]
          ELSE LET before == acc[i - 1]
                   n == before.list[i].name
               IN  IF n \in before.seen THEN before
                   ELSE [list |-> Demote(before.list, i, penalty[n]), seen |-> before.seen \cup {n}]
    IN  acc[Len(cands)].list

\* A read of the budget store that fails keeps the candidate.
filterByProviderTokenLimit(cands, read) ==
    LET limit(i) == SpecOf(cands[i].name).limit
    IN  Selected(cands, {i \in DOMAIN cands : limit(i) = 0 \/ ~read \/ usage.named[cands[i].name] < limit(i)})

\* Either model may contain the other: an entry without a model matches every one.
PrioritizeCandidatesByModel(cands, model) ==
    LET match == {i \in DOMAIN cands : cands[i].model \in {model, ""}}
    IN  IF model = "" THEN cands ELSE Selected(cands, match) \o Selected(cands, DOMAIN cands \ match)

OrderedCandidates(read) ==
    PrioritizeCandidatesByModel(
        filterByProviderTokenLimit(
            ApplyDynamicDemotion(
                FilterAndPrioritizeCandidatesByContext(ResolveCandidatesForRole(mode.role), mode.prompt)), read),
        mode.override)

Barred(name) == evicted[name] > 0 \/ cooling[name] > 0
filterEligibleCandidates(cands) == Selected(cands, {i \in DOMAIN cands : ~Barred(cands[i].name)})

\* hedgeDelayFor: whether the delay is not negative; how long it is shows in when the timer fires.
hedgeDelayFor(name) ==
    LET h == SpecOf(name).hedge IN h \in {"on", "delay"} \/ (h = "unset" /\ mode.hedging)

\* The candidate that is not evicted and whose cooldown ends first.
selectEmergencyRecoveryCandidate(cands) ==
    LET open == {i \in DOMAIN cands : evicted[cands[i].name] = 0}
        first == {i \in open : \A j \in open : cooling[cands[i].name] <= cooling[cands[j].name]}
    IN  IF open = {} THEN <<>> ELSE <<cands[Min(first)]>>

-----------------------------------------------------------------------------
(* A request and its completions. *)

NoReq == [pc |-> "idle", left |-> 0, cands |-> <<>>, queue |-> <<>>, at |-> 1, launched |-> FALSE, failures |-> 0, errored |-> FALSE,
          dead |-> FALSE, tried |-> {}, skipped |-> {}, outcome |-> "none"]

Init ==
    /\ mode \in Modes
    /\ evicted = [n \in Names |-> 0] /\ cooling = [n \in Names |-> 0] /\ penalty = [n \in Names |-> 0]
    /\ usage = [total |-> mode.used, named |-> [n \in Names |-> 0], models |-> [m \in Models |-> 0], longest |-> 0]
    /\ clients = [blacklist |-> {}, caps |-> {}, catalogs |-> {}, index |-> [c \in DOMAIN Clients |-> 0]]
    /\ callCount = 0
    /\ req = [c \in Callers |-> [NoReq EXCEPT !.left = IF c \in mode.callers THEN mode.rounds ELSE 0]]
    /\ calls = [c \in Callers |-> [s \in Slots |-> <<>>]]

Took(index, name, n) == [index EXCEPT ![name] = IF Clients[name].keys = 0 THEN 0 ELSE (@ + n) % Clients[name].keys]

\* A prompt too large takes no key; the model of a call that is not "latest" is settled at once.
KeysAtStart(name) ==
    IF ~Clients[name].fits THEN 0
    ELSE 1 + (IF Clients[name].model = "latest" THEN 0 ELSE adjustForRoutineTask(Clients[name]))

IsEnsemble(cand) == cand.client = <<"ensemble">>

\* client.Complete(ctx, prompt) begins in a slot of the caller, the others being as they are in cs.
Launch(cs, c, slot, cand) ==
    IF IsEnsemble(cand)
    THEN /\ calls' = [cs EXCEPT ![c][slot] =
                        <<[cand |-> cand, x |-> Begin(buildEnsembleCandidate(getRoleSetting(mode.role).ensemble[1]))]>>]
         /\ UNCHANGED clients
    ELSE /\ calls' = [cs EXCEPT ![c][slot] =
                        <<[cand |-> cand, x |-> Ladder(cand.client, clients.index[cand.client], clients.caps)]>>]
         /\ clients' = [clients EXCEPT !.index = Took(@, cand.client, KeysAtStart(cand.client))]

Ends(c, outcome) ==
    req' = [req EXCEPT ![c] = [req[c] EXCEPT !.pc = "idle", !.left = @ - 1, !.outcome = outcome]]

BudgetSpentLate(read) == mode.limit > 0 /\ read /\ usage.total > mode.limit

\* A read that fails lets the request pass.
BudgetSpent(read) == mode.limit > 0 /\ read /\ usage.total >= mode.limit

\* Complete: the daily limit, the candidates, and hedging when two of them are not barred.
Complete(c) ==
    /\ mode.kind = "router" /\ req[c].pc = "idle" /\ req[c].left > 0
    /\ \E read \in mode.reads :
         LET cands == OrderedCandidates(read)
             eligible == filterEligibleCandidates(cands)
             fresh == [NoReq EXCEPT !.left = req[c].left, !.cands = cands]
             hedged == Len(cands) >= 2 /\ Len(eligible) >= 2 /\ hedgeDelayFor(eligible[1].name)
         IN  IF BudgetSpent(read) THEN Ends(c, "budget") /\ UNCHANGED <<calls, clients>>
             ELSE IF cands = <<>> THEN Ends(c, "none left") /\ UNCHANGED <<calls, clients>>
             ELSE IF hedged
                  THEN /\ req' = [req EXCEPT ![c] = [fresh EXCEPT !.pc = "hedge", !.queue = eligible, !.tried = {eligible[1]},
                                                     !.skipped = Range(cands) \ Range(eligible)]]
                       /\ Launch(calls, c, "p", eligible[1])
             ELSE /\ req' = [req EXCEPT ![c] = [fresh EXCEPT !.pc = "next", !.queue = cands]]
                  /\ UNCHANGED <<calls, clients>>
    /\ UNCHANGED <<mode, evicted, cooling, penalty, usage, callCount>>

LaunchSecondary(cs, c, r) ==
    /\ req' = [req EXCEPT ![c] = [r EXCEPT !.launched = TRUE, !.tried = @ \cup {r.queue[2]}]]
    /\ Launch(cs, c, "s", r.queue[2])

\* The hedge timer fires and the primary is not streaming; the secondary may be barred by now.
HedgeTimer(c) ==
    /\ req[c].pc = "hedge" /\ ~req[c].launched
    /\ LaunchSecondary(calls, c, req[c])
    /\ UNCHANGED <<mode, evicted, cooling, penalty, usage, callCount>>

-----------------------------------------------------------------------------
(* One step of a completion in flight. *)

Update(c, slot, x) == calls' = [calls EXCEPT ![c][slot] = <<[@[1] EXCEPT !.x = x]>>]

\* The provider answers one request; a spent key is refused, a dead context ends the call.
ProviderAnswers(c, slot, l) ==
    \E a \in IF req[c].dead THEN {Canceled}
             ELSE IF l.key \in mode.spent THEN {HTTPError(429, {})} ELSE mode.answers[l.name] :
        LET s == Send(l.pc, a, clients.caps)
            sent == [l EXCEPT !.pc = s.pc]
        IN  IF s.result = <<>> THEN Update(c, slot, sent) /\ clients' = [clients EXCEPT !.caps = s.caps]
            ELSE LET r == s.result[1]
                 IN  /\ Update(c, slot, Advance(sent, r, clients.index[l.name], s.caps))
                     /\ clients' = [clients EXCEPT !.caps = s.caps,
                                      !.blacklist = IF Blacklists(l, r) THEN @ \cup {l.model} ELSE @,
                                      !.index = Took(@, l.name, IF TakesKey(l, r) THEN 1 ELSE 0)]

\* The wait is over, or cut short by a dead context.
Wakes(c, slot, l) ==
    /\ Update(c, slot, IF req[c].dead THEN Finish(l, Canceled)
                       ELSE CallAgain([l EXCEPT !.attempt = @ + 1], clients.caps))
    /\ UNCHANGED clients

\* availableModelsCached: a catalog once read is served again, a failed read is not remembered.
CatalogRead(c, slot, l) ==
    \E read \in IF l.name \in clients.catalogs THEN {TRUE} ELSE IF req[c].dead THEN {FALSE} ELSE mode.catalogs :
        LET next == IF l.phase = "latest" THEN Resolved(l, read, clients.caps)
                    ELSE FellBack(l, read, clients.caps, clients.blacklist)
            eaten == IF next.phase = "call" THEN adjustForRoutineTask(Clients[l.name]) ELSE 0
        IN  /\ Update(c, slot, next)
            /\ clients' = [clients EXCEPT !.catalogs = IF read THEN @ \cup {l.name} ELSE @,
                                          !.index = Took(@, l.name, eaten)]

ClientStep(c, slot, l) ==
    \/ l.phase = "call" /\ ProviderAnswers(c, slot, l)
    \/ l.phase = "backoff" /\ Wakes(c, slot, l)
    \/ l.phase \in {"latest", "catalog"} /\ CatalogRead(c, slot, l)

\* What a member of an ensemble may answer: the ladder of its client, as one result.
MemberResults(c) == IF req[c].dead THEN {Canceled} ELSE mode.members

EnsembleStep(c, slot, x) ==
    /\ \/ /\ x.phase = "members"
          /\ \/ \E i \in x.open, r \in MemberResults(c) : Update(c, slot, Arrive(x, i, r))
             \/ x.strategy = "parallel" /\ x.armed /\ Update(c, slot, SoftTimer(x))
             \/ mode.hard /\ Update(c, slot, Expire(x))
       \/ x.phase = "extra" /\ \E r \in MemberResults(c) : Update(c, slot, ExtraArrives(x, r))
       \/ x.phase = "standard" /\ \E r \in MemberResults(c) : Update(c, slot, StandardArrives(x, r))
    /\ UNCHANGED clients

CallStep(c, slot) ==
    /\ calls[c][slot] # <<>>
    /\ LET call == calls[c][slot][1]
       IN  IF IsEnsemble(call.cand) THEN EnsembleStep(c, slot, call.x) ELSE ClientStep(c, slot, call.x)
    /\ UNCHANGED <<mode, evicted, cooling, penalty, usage, callCount, req>>

-----------------------------------------------------------------------------
(* What a result does. *)

\* RecordOutcome of the latency tracker; d is how long the completion took.
RecordOutcome(p, r, d) ==
    IF (~r.ok /\ isTimeoutOrCanceled(r)) \/ d = "over" THEN Min({p + 1, 3})
    ELSE IF r.ok /\ d = "slow" THEN Max({p, 1})
    ELSE IF r.ok /\ d = "fast" THEN Max({p - 1, 0})
    ELSE p

handleRateLimitRotation(e) == IF parseRetryDelay(e) > 0 THEN parseRetryDelay(e) ELSE RateLimitTicks

\* The eviction or the cooldown an error earns; each replaces the one before.
Bar(name, r) ==
    CASE ~r.ok /\ isEvictionError(r) -> evicted' = [evicted EXCEPT ![name] = EvictionTicks] /\ UNCHANGED cooling
      [] ~r.ok /\ ~isEvictionError(r) /\ isRateLimitOrQuota(r) ->
           cooling' = [cooling EXCEPT ![name] = handleRateLimitRotation(r)] /\ UNCHANGED evicted
      [] ~r.ok /\ ~isEvictionError(r) /\ ~isRateLimitOrQuota(r) /\ isTransientError(r) ->
           cooling' = [cooling EXCEPT ![name] = CooldownTicks] /\ UNCHANGED evicted
      [] OTHER -> UNCHANGED <<evicted, cooling>>

recordCandidateOutcome(name, r) ==
    /\ \E d \in mode.durations : penalty' = [penalty EXCEPT ![name] = RecordOutcome(@, r, d)]
    /\ Bar(name, r)

estimateCompletionTokens(r) == Max({Len(r.acts), 1})
estimateUsageTokens(r) == mode.prompt + estimateCompletionTokens(r)

\* incrementUsage: the named entry and the total.
incrementUsage(u, name, tokens) == [u EXCEPT !.total = @ + tokens, !.named[name] = @ + tokens]

Longest(r) == Max({usage.longest, estimateCompletionTokens(r)})

\* The winner is charged whole, and the other one of a launched hedge for the prompt.
recordTokenUsage(r, cand, others) ==
    LET own == incrementUsage([usage EXCEPT !.longest = Longest(r)], cand.name, estimateUsageTokens(r))
    IN  usage' = IF others = <<>> THEN own ELSE incrementUsage(own, others[1].name, mode.prompt)

Idle(c) == [calls EXCEPT ![c] = [s \in Slots |-> <<>>]]
Cleared(c, slot) == [calls EXCEPT ![c][slot] = <<>>]

AfterHedgeFromFourth(queue) == SubSeq(queue, 4, Len(queue))
AfterHedge(queue) == SubSeq(queue, 3, Len(queue))

PrimaryFailedUnhedged(c, slot, q) ==
    req' = [req EXCEPT ![c] = [q EXCEPT !.launched = TRUE]] /\ calls' = Cleared(c, slot) /\ UNCHANGED clients

\* The primary fails before the timer fires: the secondary is launched without waiting.
PrimaryFailed(c, slot, q) == LaunchSecondary(Cleared(c, slot), c, q)

\* completeWithHedging receives a result.
HedgeCollect(c, slot, cand, r) ==
    LET q == [req[c] EXCEPT !.failures = @ + 1]
        other == IF slot = "p" THEN q.queue[2] ELSE q.queue[1]
    IN  /\ recordCandidateOutcome(cand.name, r)
        /\ \/ /\ r.ok
              /\ recordTokenUsage(r, cand, IF q.launched THEN <<other>> ELSE <<>>)
              /\ Ends(c, "ok") /\ calls' = Idle(c) /\ UNCHANGED clients
           \/ ~r.ok /\ ~q.launched /\ PrimaryFailed(c, slot, q) /\ UNCHANGED usage
           \/ /\ ~r.ok /\ q.launched
              /\ CASE q.failures < 2 -> req' = [req EXCEPT ![c] = q]
                   [] q.failures >= 2 /\ Len(q.queue) > 2 ->
                        req' = [req EXCEPT ![c] = [q EXCEPT !.pc = "next", !.queue = AfterHedge(@)]]
                   [] OTHER -> Ends(c, "failed")
              /\ calls' = Cleared(c, slot) /\ UNCHANGED <<clients, usage>>
        /\ UNCHANGED callCount

\* completeSequentially receives a result.
SequentialCollect(c, cand, r) ==
    /\ recordCandidateOutcome(cand.name, r)
    /\ IF r.ok THEN recordTokenUsage(r, cand, <<>>) /\ Ends(c, "ok")
       ELSE UNCHANGED usage /\ req' = [req EXCEPT ![c] = [req[c] EXCEPT !.pc = "next", !.at = @ + 1, !.errored = TRUE]]
    /\ calls' = Idle(c) /\ UNCHANGED <<clients, callCount>>

\* The emergency recovery: a success lifts whatever bars the candidate and is charged to nobody.
EmergencyCollect(c, cand, r) ==
    /\ cooling' = IF r.ok THEN [cooling EXCEPT ![cand.name] = 0] ELSE cooling
    /\ evicted' = CASE r.ok -> [evicted EXCEPT ![cand.name] = 0]
                    [] ~r.ok /\ isEvictionError(r) -> [evicted EXCEPT ![cand.name] = EmergencyTicks]
                    [] OTHER -> evicted
    /\ Ends(c, IF r.ok THEN "ok" ELSE "failed")
    /\ calls' = Idle(c) /\ UNCHANGED <<penalty, usage, clients, callCount>>

\* FailoverClient: an answer whose usage cannot be recorded is lost.
FailoverCollect(c, cand, r) ==
    /\ \E written \in mode.reads :
         IF r.ok THEN /\ usage' = IF written THEN [usage EXCEPT !.models[cand.model] = @ + estimateUsageTokens(r), !.longest = Longest(r)]
                                  ELSE usage
                      /\ Ends(c, IF written THEN "ok" ELSE "lost")
         ELSE UNCHANGED usage /\ req' = [req EXCEPT ![c] = [req[c] EXCEPT !.pc = "backend", !.at = @ + 1, !.errored = TRUE]]
    /\ cooling' = IF ~r.ok /\ isTransientError(r) THEN [cooling EXCEPT ![cand.name] = CooldownTicks] ELSE cooling
    /\ calls' = Idle(c) /\ UNCHANGED <<evicted, penalty, clients, callCount>>

Collect(c, slot) ==
    /\ calls[c][slot] # <<>>
    /\ LET cand == calls[c][slot][1].cand
           x == calls[c][slot][1].x
       IN  /\ x.phase = "done"
           /\ \/ req[c].pc = "hedge" /\ HedgeCollect(c, slot, cand, x.result)
              \/ req[c].pc = "call" /\ SequentialCollect(c, cand, x.result)
              \/ req[c].pc = "emergency" /\ EmergencyCollect(c, cand, x.result)
              \/ req[c].pc = "backend call" /\ FailoverCollect(c, cand, x.result)
    /\ UNCHANGED mode

-----------------------------------------------------------------------------
(* The sequential loops. *)

At(c) == req[c].queue[req[c].at]
Skip(c) ==
    /\ req' = [req EXCEPT ![c] = [req[c] EXCEPT !.at = @ + 1, !.skipped = @ \cup {At(c)}]]
    /\ UNCHANGED <<calls, clients>>
Call(c, cand, pc) ==
    /\ req' = [req EXCEPT ![c] = [req[c] EXCEPT !.pc = pc, !.tried = @ \cup {cand}]]
    /\ Launch(calls, c, "p", cand)

\* completeSequentially: the next candidate that is not barred; after the last one the error,
\* or, when everyone was barred, the emergency recovery.
NextCandidate(c) ==
    /\ req[c].pc = "next"
    /\ IF req[c].at <= Len(req[c].queue) THEN IF Barred(At(c).name) THEN Skip(c) ELSE Call(c, At(c), "call")
       ELSE LET rescue == selectEmergencyRecoveryCandidate(req[c].queue)
            IN  IF req[c].errored \/ rescue = <<>> THEN Ends(c, "failed") /\ UNCHANGED <<calls, clients>>
                ELSE Call(c, rescue[1], "emergency")
    /\ UNCHANGED <<mode, evicted, cooling, penalty, usage, callCount>>

\* The list of the older configuration, in its order: a backend listed twice is tried twice.
BuildFailoverClient ==
    [i \in DOMAIN mode.priority |->
        LET spec == SpecOf(mode.priority[i]) IN Candidate(mode.priority[i], spec, spec.model)]

\* FailoverClient.Complete: the budget of calls, then the backends in order.
FailoverComplete(c) ==
    /\ mode.kind = "failover" /\ req[c].pc = "idle" /\ req[c].left > 0
    /\ IF mode.maxCalls > 0 /\ callCount >= mode.maxCalls THEN Ends(c, "budget") /\ UNCHANGED callCount
       ELSE /\ callCount' = IF mode.maxCalls > 0 THEN callCount + 1 ELSE callCount
            /\ req' = [req EXCEPT ![c] = [NoReq EXCEPT !.pc = "backend", !.left = req[c].left,
                                                       !.cands = BuildFailoverClient, !.queue = BuildFailoverClient]]
    /\ UNCHANGED <<mode, evicted, cooling, penalty, usage, clients, calls>>

\* checkBudget fails closed, and counts the prompt that is about to be sent.
checkBudget(cand, read) ==
    mode.limit = 0 \/ (read /\ usage.models[cand.model] + mode.prompt <= mode.limit)

NextBackend(c) ==
    /\ req[c].pc = "backend"
    /\ IF req[c].at > Len(req[c].queue) THEN Ends(c, "failed") /\ UNCHANGED <<calls, clients>>
       ELSE \E read \in mode.reads :
              IF cooling[At(c).name] > 0 \/ ~checkBudget(At(c), read) THEN Skip(c)
              ELSE Call(c, At(c), "backend call")
    /\ UNCHANGED <<mode, evicted, cooling, penalty, usage, callCount>>

\* The caller's context ends: a hedge returns at once, a sequential request goes on and has
\* every candidate fail.
Cancel(c) ==
    /\ mode.cancels /\ req[c].pc # "idle" /\ ~req[c].dead
    /\ IF req[c].pc = "hedge" THEN Ends(c, "canceled") /\ calls' = Idle(c)
       ELSE req' = [req EXCEPT ![c].dead = TRUE] /\ UNCHANGED calls
    /\ UNCHANGED <<mode, evicted, cooling, penalty, usage, clients, callCount>>

Tick ==
    /\ mode.ticks /\ \E n \in Names : Barred(n)
    /\ evicted' = [n \in Names |-> Max({evicted[n] - 1, 0})]
    /\ cooling' = [n \in Names |-> Max({cooling[n] - 1, 0})]
    /\ UNCHANGED <<mode, penalty, usage, clients, callCount, req, calls>>

Next ==
    \/ \E c \in Callers : \/ Complete(c) \/ FailoverComplete(c) \/ NextCandidate(c) \/ NextBackend(c)
                          \/ HedgeTimer(c) \/ Cancel(c)
                          \/ \E slot \in Slots : CallStep(c, slot) \/ Collect(c, slot)
    \/ Tick

\* Every wait of a completion is bounded by the client's timeout; the loops run on.
Fairness ==
    \A c \in Callers : /\ WF_vars(NextCandidate(c)) /\ WF_vars(NextBackend(c))
                       /\ \A slot \in Slots : WF_vars(CallStep(c, slot)) /\ WF_vars(Collect(c, slot))

Spec == Init /\ [][Next]_vars /\ Fairness

-----------------------------------------------------------------------------
(* Properties. *)

InFlight == UNION {{calls[c][s][1] : s \in {t \in Slots : calls[c][t] # <<>>}} : c \in Callers}

\* The shared state has its types, and no completion asks its provider more often than its
\* retries, one change of model and one reminder allow (Client.Complete).
TypeOK ==
    /\ mode \in Modes
    /\ evicted \in [Names -> 0..EvictionTicks] /\ cooling \in [Names -> Nat] /\ penalty \in [Names -> 0..3]
    /\ usage.total \in Nat /\ usage.longest \in Nat /\ callCount \in Nat
    /\ \A c \in Callers : req[c].pc \in {"idle", "hedge", "next", "call", "emergency", "backend", "backend call"}
    /\ \A call \in InFlight : IsEnsemble(call.cand) \/ (call.x.calls <= CallBound(call.x) /\ call.x.fallbacks <= 1)

\* The daily limit is overrun at most by what the callers had under way when it was reached:
\* a whole hedged completion each for the router, which checks before it asks, and the
\* answers and the prompts of the others for FailoverClient.  No completion counts for more
\* than the longest one recorded so far.
BudgetBounded ==
    (mode.limit > 0 /\ mode.reads = {TRUE}) =>
        LET n == Cardinality(mode.callers)
            c == usage.longest
        IN  /\ mode.kind = "router" => usage.total <= Max({mode.used, mode.limit - 1 + n * (2 * mode.prompt + c)})
            /\ mode.kind = "failover" =>
                 \A m \in Models : usage.models[m] <= mode.limit + n * c + (n - 1) * mode.prompt

\* A request that fails has asked every candidate, except those it found evicted, cooling down
\* or over budget when their turn came: hedging, the filter and the sequential loop together
\* overlook nobody.
NobodyOverlooked ==
    \A c \in Callers : req[c].outcome = "failed" => Range(req[c].cands) \subseteq req[c].tried \cup req[c].skipped

\* No usable answer of an ensemble member is thrown away by a timer, a synthesizer that fails
\* or a vote: the ensemble gives up only when no member answered with valid code.
AnswerKept == \A call \in InFlight : IsEnsemble(call.cand) => Kept(call.x)

\* Every request ends, whatever times out, is refused or cancelled on the way.
RequestEnds == \A c \in Callers : (req[c].pc # "idle") ~> (req[c].pc = "idle")
================================================================================
