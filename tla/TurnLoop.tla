------------------------------ MODULE TurnLoop ------------------------------
(* One run of an agent on a task: RunGeneratorAgent and RunTesterAgent.  A  *)
(* turn is one answer of the model, a list of tool calls taken one by one;  *)
(* after the last of them the loop decides whether to believe that the work *)
(* is done.  Everything the model answers is a choice.                      *)
EXTENDS Integers, Tools, Breakers

CONSTANTS Agents,           \* the roles with the calls their model may make: [role, calls]
          StartWorkspaces,  \* the workspaces a run starts in
          Iterations,       \* the configured number of turns
          MaxTurnExtensions,
          Progress,         \* the task's progress, 0..100
          AllowedCommands,
          Seeded            \* the files whose content the prompt already holds

ASSUME TurnLoopAssumption ==
    /\ \A a \in Agents : /\ a.role \in {"generator", "tester"}
                        /\ \A call \in a.calls : call.entries \in Seq([file : STRING, content : STRING])
    /\ Iterations \in Nat /\ MaxTurnExtensions \in Nat \ {0}
    /\ Seeded \subseteq Files /\ StartWorkspaces \subseteq Workspaces

VARIABLES agent,   \* the agent that runs
          ws,      \* the task's workspace
          pc,      \* "turn", "calls", "closed" (no more calls in this turn) or "done"
          run,     \* the counters of the run
          cb,      \* TaskCircuitBreaker
          cache,   \* TaskDiagnosticCache
          seen,    \* seenFileDependentCalls
          edits,   \* failedIncrementalEdits, at most 2 of interest
          outcome, \* why the run ended
          since    \* ghost: what was changed since a run of a suite last passed

vars == <<agent, ws, pc, run, cb, cache, seen, edits, outcome, since>>

maxNoopStrikes == 2

Role == agent.role
Calls == agent.calls

\* Bound: passes and test-only edits are counted up to 2, which is all ShouldTrip asks.
Bounded(breaker) ==
    LET upTo2(n) == IF n > 2 THEN 2 ELSE n
    IN  [breaker EXCEPT !.passes = upTo2(@), !.testOnly = upTo2(@)]

TypeOK ==
    /\ agent \in Agents
    /\ ws \in Workspaces
    /\ pc \in {"turn", "calls", "closed", "done"}
    /\ run.turn \in 0..run.maxTurns
    /\ run.maxTurns \in EnforceMinTurns(Iterations)..(EnforceMinTurns(Iterations) + MaxTurnExtensions)
    /\ run.strikes \in 0..maxNoopStrikes
    /\ edits \in [Files -> 0..2]
    /\ outcome \in {"none", "concluded", "exhausted", "llm_error"}
    /\ since \subseteq {"prod", "test", "unnamed", "tester"}

Init ==
    /\ agent \in Agents
    /\ ws \in StartWorkspaces
    /\ pc = "turn"
    /\ run = [turn |-> 0, maxTurns |-> EnforceMinTurns(Iterations), ext |-> 0,
              failed |-> -1, passed |-> -1,           \* lastFailures, lastPassed
              ran |-> FALSE,                          \* runTestsCalled, never reset
              noop |-> FALSE, mutated |-> FALSE,      \* hasNoop, fileMutated: of the turn
              any |-> FALSE,                          \* anyFileMutated
              strikes |-> 0, fix |-> 0,               \* noopStrikes, testFixRequestCount
              lint |-> 0, deferred |-> FALSE,         \* consecutiveLinterFailures, linterDeferred
              answered |-> FALSE]                     \* the answer has a call
    /\ cb = NewTaskCircuitBreaker
    /\ cache = NewTaskDiagnosticCache(Seeded)
    /\ seen = {}
    /\ edits = [f \in Files |-> 0]
    /\ outcome = "none"
    /\ since = {"prod"}

-----------------------------------------------------------------------------
(* The turn budget. *)

\* recordTestProgress: fewer failures, or more passing tests, than in the run before buy
\* one more turn.  Only the generator extends its budget.
recordTestProgress(r, result) ==
    LET grant == /\ r.failed >= 0
                 /\ ShouldGrantProgressExtension(r.failed, result.failed, r.passed, result.passed, r.ext, MaxTurnExtensions)
        counted == result.failed > 0 \/ result.passed > 0
    IN  IF Role = "tester" THEN r
        ELSE [r EXCEPT !.ext = IF grant THEN @ + 1 ELSE @,
                       !.maxTurns = IF grant THEN @ + 1 ELSE @,
                       !.failed = IF counted THEN result.failed ELSE @,
                       !.passed = IF counted THEN result.passed ELSE @]

\* The flags of a turn are cleared when the next one begins.
NextTurn(r) == [r EXCEPT !.noop = FALSE, !.mutated = FALSE, !.answered = FALSE]

Spend(r) == [r EXCEPT !.turn = @ + 1]

SuiteRan(s, result) == IF result.ok THEN {} ELSE s

\* The model answers: a turn begins.
BeginTurn ==
    /\ pc = "turn" /\ run.turn < run.maxTurns
    /\ cb' = ResetTurn(cb)
    /\ pc' = "calls"
    /\ UNCHANGED <<agent, ws, run, cache, seen, edits, outcome, since>>

LLMError ==
    /\ pc = "turn" /\ run.turn < run.maxTurns
    /\ pc' = "done" /\ outcome' = "llm_error" /\ cb' = ResetTurn(cb)
    /\ UNCHANGED <<agent, ws, run, cache, seen, edits, since>>

Exhausted ==
    /\ pc = "turn" /\ run.turn >= run.maxTurns
    /\ pc' = "done" /\ outcome' = "exhausted"
    /\ UNCHANGED <<agent, ws, run, cb, cache, seen, edits, since>>

-----------------------------------------------------------------------------
(* One call.  The checks come in this order, and the first that matches decides. *)

Route(call, match) ==
    IF call.tool = "noop" THEN "noop"
    ELSE IF ~Validate(Role, call, AllowedCommands) THEN "blocked"
    ELSE IF HasCachedInspection(cache, call, match) THEN "repeat"
    ELSE IF IsFileDependentTool(call.tool) /\ buildArgsKey(call) \in seen THEN "repeat"
    ELSE IF HasCachedResult(cache, call) THEN "result"
    ELSE IF Role = "generator" /\ call.tool \in {"edit_file", "apply_patch"} /\ call.path # "" /\ edits[call.path] = 2 THEN "refused"
    ELSE IF call.tool = "run_linter" /\ run.deferred THEN "refused"
    ELSE "execute"

\* What every call but noop does first.
Called(call) == [run EXCEPT !.answered = TRUE, !.ran = @ \/ call.tool = "run_tests"]

Remember(call) == IF IsFileDependentTool(call.tool) THEN seen \union {buildArgsKey(call)} ELSE seen

Noop(call) ==
    /\ Route(call, TRUE) = "noop"
    /\ run' = [run EXCEPT !.answered = TRUE, !.noop = TRUE]
    /\ UNCHANGED <<ws, pc, cb, cache, seen, edits, outcome, since>>

\* Blocked by the policy, an edit that must become a rewrite, or the deferred linter: the
\* model is told, and nothing is executed.  The linter call has been noted as seen by then.
Refused(call) ==
    /\ Route(call, TRUE) \in {"blocked", "refused"}
    /\ run' = Called(call)
    /\ seen' = IF Route(call, TRUE) = "refused" THEN Remember(call) ELSE seen
    /\ UNCHANGED <<ws, pc, cb, cache, edits, outcome, since>>

\* A result of the suite or of the linter the cache believes to be current.
ServeResult(call) ==
    /\ Route(call, TRUE) = "result"
    /\ run' = Called(call)
    /\ seen' = Remember(call)
    /\ UNCHANGED <<ws, pc, cb, cache, edits, outcome, since>>

\* An inspection already answered, by the cache or by an earlier call.  The fifth repeat
\* of a turn ends its calls as if the model had said noop.
Repeat(call) ==
    LET cb1 == RecordDuplicateInspection(cb)
    IN  /\ \E match \in BOOLEAN : Route(call, match) = "repeat" /\ cache' = AfterLookup(cache, call, match)
        /\ cb' = cb1
        /\ run' = [Called(call) EXCEPT !.noop = @ \/ ReadLoopForced(cb1)]
        /\ pc' = IF ReadLoopForced(cb1) THEN "closed" ELSE pc
        /\ UNCHANGED <<ws, seen, edits, outcome, since>>

\* A tool that reads: it may fail, and then nothing is cached.
Inspect(call) ==
    LET ok == call.path \notin Files \/ ws[call.path] # "none"
    IN  /\ call.tool \in {"read_file", "list_directory", "find_files", "grep_search"}
        /\ \E match \in BOOLEAN :
              /\ Route(call, match) = "execute"
              /\ cache' = OnToolExecuted(AfterLookup(cache, call, match), call, ok)
        /\ run' = [Called(call) EXCEPT !.noop = @ /\ ok]
        /\ seen' = Remember(call)
        /\ UNCHANGED <<ws, pc, cb, edits, outcome, since>>

\* A tool that writes.  A failed edit counts against its file; a success forgets the calls
\* seen so far and the strikes.
Edit(call) ==
    LET result == Mutate(ws, call)
        named == call.path # ""
    IN  /\ Route(call, TRUE) = "execute" /\ IsMutatingTool(call.tool)
        /\ ws' = result.ws
        /\ cache' = OnToolExecuted(cache, call, result.ok)
        /\ IF result.ok
           THEN /\ run' = [Called(call) EXCEPT !.mutated = TRUE, !.any = TRUE, !.strikes = 0, !.lint = 0]
                /\ cb' = Bounded(RecordAction(cb, Touched(call)))
                /\ seen' = {}
                /\ edits' = IF call.tool = "write_file" THEN [edits EXCEPT ![call.path] = 0] ELSE edits
                /\ since' = since \union {IF Touched(call) = "none" THEN "unnamed" ELSE Touched(call)}
           ELSE /\ run' = [Called(call) EXCEPT !.noop = FALSE]
                /\ edits' = IF call.tool \in {"edit_file", "apply_patch"} /\ named
                            THEN [edits EXCEPT ![call.path] = IF @ = 2 THEN 2 ELSE @ + 1] ELSE edits
                /\ UNCHANGED <<cb, seen, since>>
        /\ UNCHANGED <<pc, outcome>>

\* run_tests and run_e2e_tests.  A pass ends the calls' claim with a noop, for the
\* generator only when something was changed; a failure takes a noop back.
RunTests(call) ==
    /\ Route(call, TRUE) = "execute" /\ call.tool \in {"run_tests", "run_e2e_tests"}
    /\ \E result \in TestRuns(ws, call) \union (IF call.tool = "run_e2e_tests" THEN {[ok |-> TRUE, failed |-> 0, passed |-> 1]} ELSE {}),
          changes \in BOOLEAN : \* git status --porcelain
          /\ changes \/ ~run.any
          /\ run' = LET r == recordTestProgress(Called(call), result)
                    IN  [r EXCEPT !.noop = result.ok /\ (@ \/ Role = "tester" \/ changes)]
          /\ cb' = Bounded(RecordTestResult(cb, result.ok))
          /\ cache' = OnToolExecuted(cache, call, result.ok)
          /\ since' = SuiteRan(since, result)
    /\ seen' = Remember(call)
    /\ UNCHANGED <<ws, pc, edits, outcome>>

\* run_linter: the second failure in a row with no edit in between defers it for good.
RunLinter(call) ==
    /\ Route(call, TRUE) = "execute" /\ call.tool = "run_linter"
    /\ \E ok \in LinterRuns :
          LET fails == IF ok THEN run.lint ELSE run.lint + 1
          IN  /\ run' = [Called(call) EXCEPT !.lint = IF fails > 2 THEN 2 ELSE fails,
                                             !.deferred = @ \/ fails >= 2,
                                             !.noop = @ /\ (ok \/ fails >= 2)]
              /\ cache' = OnToolExecuted(cache, call, ok)
    /\ seen' = Remember(call)
    /\ UNCHANGED <<ws, pc, cb, edits, outcome, since>>

\* request_test_fix: once per run the tester is run on the tests and its work committed.
RequestTestFix(call) ==
    /\ Route(call, TRUE) = "execute" /\ call.tool = "request_test_fix"
    /\ IF run.fix >= 1
       THEN /\ run' = Called(call)
            /\ UNCHANGED <<ws, since>>
       ELSE /\ run' = [Called(call) EXCEPT !.fix = 1, !.any = TRUE]
            /\ \E c \in [TestFiles -> {"good", "bad"}] : ws' = [f \in Files |-> IF f \in TestFiles THEN c[f] ELSE ws[f]]
            /\ since' = since \union {"tester"}
    /\ UNCHANGED <<pc, cb, cache, seen, edits, outcome>>

TakeCall ==
    /\ pc = "calls"
    /\ UNCHANGED agent
    /\ \E call \in Calls :
          \/ Noop(call) \/ Refused(call) \/ ServeResult(call) \/ Repeat(call)
          \/ Inspect(call) \/ Edit(call) \/ RunTests(call) \/ RunLinter(call) \/ RequestTestFix(call)

-----------------------------------------------------------------------------
(* The end of a turn. *)

\* The run_tests the loop makes itself.
RunTestsCall == [tool |-> "run_tests", path |-> "", entries |-> <<>>, shape |-> "", found |-> FALSE,
                 command |-> "", package |-> ""]

\* Speculative fast validation: the edits of the turn are tested at once, unless the model
\* ever asked for the suite itself.
Speculates == run.mutated /\ ~run.ran

\* SynchronizeMissingSymbolFromSiblings copies the file that declares a missing symbol from
\* another task's worktree, when this one does not have it.
SyncedWorkspaces(w) == {[w EXCEPT ![f] = c] : f \in {g \in Files : w[g] = "none"}, c \in {"good", "bad"}}

\* The workspaces and results of a speculative run: a failure may be followed by a copied
\* file and a second run, which counts only when it passes and never reaches the cache.
SpeculativeRuns ==
    {[ws |-> ws, first |-> r, result |-> r] : r \in TestRuns(ws, RunTestsCall)}
    \union (IF Role = "tester" THEN {}
             ELSE UNION {{[ws |-> w, first |-> r, result |-> IF again.ok THEN again ELSE r] :
                              r \in {t \in TestRuns(ws, RunTestsCall) : ~t.ok},
                              again \in TestRuns(w, RunTestsCall)} : w \in SyncedWorkspaces(ws)})

\* The counters after the speculative run: a pass stands for a run_tests of the model.
AfterSpeculation(r, result) ==
    IF result.ok THEN [r EXCEPT !.ran = TRUE, !.noop = TRUE] ELSE recordTestProgress(r, result)

\* ShouldTrip, with the progress a pass is taken for.
Tripped(breaker) ==
    ShouldTrip(breaker, IF breaker.passes > 0 /\ Progress < 70 THEN 100 ELSE Progress)

\* Mutant of RejectNoop: strikes that are never counted.
RejectNoopUncounted(r) == IF Role = "generator" /\ r.strikes < maxNoopStrikes THEN r ELSE Spend(r)

\* The noop is not believed: two strikes keep the turn, the next one spends it.
RejectNoop(r) ==
    IF Role = "generator" /\ r.strikes < maxNoopStrikes
    THEN [r EXCEPT !.strikes = @ + 1]
    ELSE Spend(r)

\* The mutant of GeneratorDecides that believes a noop whatever the suite last said.
BelieveNoop(r, breaker) ==
    /\ r.ran \/ ~(r.noop \/ ~r.answered)
    /\ cb' = breaker
    /\ run' = NextTurn(IF r.noop THEN r ELSE Spend(r))
    /\ pc' = IF r.noop THEN "done" ELSE "turn"
    /\ outcome' = IF r.noop THEN "concluded" ELSE outcome

\* The generator's decision on a finished turn (r, breaker): believed, or another turn.
GeneratorDecides(r, breaker) ==
    LET claims == r.noop \/ ~r.answered
    IN  \/ /\ ~claims
           /\ run' = NextTurn(Spend(r)) /\ pc' = "turn" /\ cb' = breaker /\ UNCHANGED outcome
        \/ /\ claims /\ r.ran
           /\ cb' = breaker
           /\ IF r.noop /\ breaker.passes > 0
              THEN run' = NextTurn(r) /\ pc' = "done" /\ outcome' = "concluded"
              ELSE run' = NextTurn(RejectNoop(r)) /\ pc' = "turn" /\ UNCHANGED outcome

\* The claim of a run that never saw the suite: it is run now, and stays recorded.
AutoRunTests(r, breaker, result) ==
    /\ r.noop \/ ~r.answered
    /\ ~r.ran
    /\ cb' = Bounded(RecordTestResult(breaker, result.ok))
    /\ LET r1 == [(IF result.ok THEN r ELSE recordTestProgress(r, result)) EXCEPT !.ran = TRUE]
       IN  IF r.noop /\ result.ok
           THEN run' = NextTurn(r1) /\ pc' = "done" /\ outcome' = "concluded"
           ELSE run' = NextTurn(RejectNoop(r1)) /\ pc' = "turn" /\ UNCHANGED outcome

\* The tester believes a noop once the suite has been asked for, whatever it said; its own
\* run is recorded nowhere.
TesterDecides(r, breaker, result) ==
    LET claims == r.noop \/ ~r.answered
        done == r.noop /\ (r.ran \/ result.ok)
    IN  /\ cb' = breaker
        /\ run' = NextTurn(IF claims /\ done THEN r ELSE Spend(r))
        /\ pc' = IF claims /\ done THEN "done" ELSE "turn"
        /\ outcome' = IF claims /\ done THEN "concluded" ELSE outcome

\* The breaker has tripped: the turn counts as a noop, and the breaker remembers.
Trip(r, breaker) == [r EXCEPT !.noop = @ \/ Tripped(breaker)]
Latch(breaker) == [breaker EXCEPT !.tripped = Tripped(breaker)]

EndTurnWith(w, r, breaker, c, s) ==
    \/ /\ Role = "generator"
       /\ GeneratorDecides(Trip(r, breaker), Latch(breaker))
       /\ cache' = c /\ since' = s
    \/ /\ Role = "generator"
       /\ \E result \in TestRuns(w, RunTestsCall) :
             /\ AutoRunTests(Trip(r, breaker), Latch(breaker), result)
             /\ cache' = OnToolExecuted(c, RunTestsCall, result.ok)
             /\ since' = SuiteRan(s, result)
    \/ /\ Role = "tester"
       /\ \E result \in TestRuns(w, RunTestsCall) : TesterDecides(Trip(r, breaker), Latch(breaker), result)
       /\ cache' = c /\ since' = s

EndTurn ==
    /\ pc \in {"calls", "closed"}
    /\ \/ /\ ~Speculates
          /\ EndTurnWith(ws, run, cb, cache, since)
          /\ UNCHANGED ws
       \/ /\ Speculates
          /\ \E spec \in SpeculativeRuns :
                /\ EndTurnWith(spec.ws, AfterSpeculation(run, spec.result), Bounded(RecordTestResult(cb, spec.result.ok)),
                               OnToolExecuted(cache, RunTestsCall, spec.first.ok), SuiteRan(since, spec.result))
                /\ ws' = spec.ws
    /\ UNCHANGED <<agent, seen, edits>>

Done == pc = "done" /\ UNCHANGED vars

Next == BeginTurn \/ LLMError \/ Exhausted \/ TakeCall \/ EndTurn \/ Done

Spec == Init /\ [][Next]_vars /\ WF_vars(BeginTurn \/ LLMError \/ Exhausted) /\ WF_vars(EndTurn)

-----------------------------------------------------------------------------
(* Properties. *)

\* A run that ends because the agent says it is done has seen a suite pass since the last
\* production file it changed under its own name.  (A patch without a path and a map of
\* files change production code unseen, and a change of the tests alone does not make a
\* pass stale: those are not claimed.)
ConcludedOnGreen == outcome = "concluded" /\ Role = "generator" => "prod" \notin since

\* A tool call that fails leaves the workspace as it was, however many files it had written.
FailedCallChangesNothing ==
    [][\A call \in Calls : Edit(call) /\ ~Mutate(ws, call).ok => ws' = ws]_vars

\* A turn in which the model both changed a file and declared that it is done.
MixedTurn == pc \in {"calls", "closed"} /\ run.mutated /\ run.noop

\* A generator ends its run within its turns if from some point on no answer both edits
\* and declares completion, and a tester always does; neither needs the deadline of the
\* task for it.
RunEnds == (Role = "tester" \/ <>[]~MixedTurn) => <>(pc = "done")
=============================================================================
