----------------------------- MODULE TaskAttempt -----------------------------
(* One task, from the moment it is dispatched to its merge: executeTask and *)
(* everything it calls.  An attempt is a list of steps still to do; a step  *)
(* runs an agent, commits, validates, reviews or falls back, and may put    *)
(* further steps in front of the list.  What an agent writes, what a suite  *)
(* prints and what a reviewer proposes are choices.                         *)
EXTENDS QAGate, Breakers

CONSTANTS Base,            \* the integration branch at first: a sequence of trees, the last one its head
          Modes,           \* the ways to run the task: [arch, racing, story, code, suites, faults, crashes]; arch
                           \* is the architecture and order of the agents, racing whether the fallback
                           \* agent tries two candidates, story where its contract may be found ([file,
                           \* recorded, roadmap], a file being [blocks, id, contracts]),
                           \* code and suites what may be written, faults and crashes (bounds) how
                           \* often things fail
          MaxRetries, MaxTurns, MaxTurnExtensions,
          Fallback,        \* [enabled]
          Escalation       \* [enabled, thinking, upgrade, maxUpgrades, models]

ASSUME AttemptAssumption ==
    /\ Base \in Seq(Trees) /\ Base # <<>> /\ MaxRetries \in Nat /\ MaxTurns \in Nat /\ MaxTurnExtensions \in Nat
    /\ QA.rounds \in Nat /\ (QA.enabled => QA.rounds # 0)
    /\ \A m \in Modes : /\ m.faults \in Nat /\ m.crashes \in Nat
                       /\ m.code \subseteq CodeFiles /\ m.suites \subseteq SUBSET TestFiles

VARIABLES task,     \* the record in the state: [status, retries, stall, fallback]
          mode,     \* the member of Modes this run follows
          branch,   \* the worker branch, <<>> when there is none
          ws,       \* the task's worktree
          todo,     \* the steps of the attempt still to do; <<>> when none is running
          at,       \* the locals of the attempt
          fb,       \* the locals of the fallback agent
          phases, agents,   \* state.ReviewPhases, the QA agents recorded as working
          faults, crashes,
          main,     \* the integration branch
          build,    \* [status, final]: state.BuildStatus, and whether the story was finalized
          seen      \* ghosts: [good, reviewed], the tree that passed last and the code reviewed last

vars == <<task, mode, branch, ws, todo, at, fb, phases, agents, faults, crashes, main, build, seen>>

Head0 == Last(main)
NoTree == [impl |-> NoCode, tests |-> {}]
HeadTree == Last(branch)
Running == todo # <<>>

Locals == [blocked |-> "", passed |-> FALSE, gate |-> "none", log |-> {}, before |-> 0,
           repaired |-> FALSE, attempt |-> 0, id |-> 0, applied |-> FALSE, onBranch |-> TRUE,
           result |-> Result("NONE", "", 0)]
NoFallback == [turn |-> 0, maxTurns |-> 0, strikes |-> 0, ext |-> 0, mutating |-> FALSE,
               gate |-> "none", failed |-> 0, passed |-> 0, last |-> <<>>, cb |-> NewOscillationCircuitBreaker]

Init ==
    /\ task = [status |-> "PENDING", retries |-> 0, stall |-> 0, fallback |-> FALSE]
    /\ mode \in Modes
    /\ branch = <<>> /\ ws = NoTree /\ todo = <<>> /\ at = Locals /\ fb = NoFallback
    /\ phases = <<>> /\ agents = {} /\ faults = 0 /\ crashes = 0 /\ main = Base
    /\ build = [status |-> "UNKNOWN", final |-> FALSE]
    /\ seen = [good |-> NoTree, reviewed |-> NoCode]

\* An operation the environment may let fail, as long as the budget lasts.
MayFail(ok) == ok \/ faults < mode.faults
Spent(ok) == IF ok THEN faults ELSE faults + 1

-----------------------------------------------------------------------------
(* What an attempt consists of. *)

\* The last turn of the code-first orders: the head is remembered, and an unchanged one is
\* looked into.
refactorTurn == <<"mark", "generator", "commitOrBlock", "evaluate", "validate">>

executeTesterFirstTurn ==
    <<"stub", "tester", "commit", "auditTests", "generator", "commit", "fastExit">> \o refactorTurn
executeGeneratorFirstTurn ==
    <<"stub", "generator", "commit", "auditCode", "tester", "commit", "auditTests", "fastExit">> \o refactorTurn
executeParallelCoSynthesisTurn ==
    <<"stub", "both", "commit", "auditCode", "auditTests", "fastExit">> \o refactorTurn
executeRetryTurn == <<"tester", "commit", "auditTests">> \o refactorTurn
executeTaskSinglePass == <<"both", "auditInline", "commit", "validate">>
ExecuteSinglePassHypotheses == <<"race", "validate">>
executeTaskBreadthFirst(retries) ==
    IF retries = 0 THEN <<"generator", "commit", "tester", "commit", "validate">>
    ELSE <<"generator", "commit", "validate">>

executeTaskCodeFirst(order, retries) ==
    IF retries > 0 THEN executeRetryTurn
    ELSE IF order = "tester_first" THEN executeTesterFirstTurn
    ELSE IF order = "parallel" THEN executeParallelCoSynthesisTurn
    ELSE executeGeneratorFirstTurn

Turns(m, retries) ==
    CASE m = "single_pass" -> executeTaskSinglePass
      [] m \in {"correct", "mixture"} -> ExecuteSinglePassHypotheses
      [] m = "breadth_first" -> executeTaskBreadthFirst(retries)
      [] OTHER -> executeTaskCodeFirst(m, retries)

\* EvaluateEscalation, on the task as it was loaded.  The number of upgrades is counted on
\* that copy and saved nowhere, so it is 0 whenever it is read.
ModelUpgrades == 0

EvaluateEscalation(t) ==
    IF ~Escalation.enabled THEN "baseline"
    ELSE IF ModelUpgrades >= Escalation.maxUpgrades THEN "split"
    ELSE IF t.retries >= Escalation.thinking + Escalation.upgrade /\ Escalation.models # <<>> THEN "upgrade"
    ELSE IF t.retries >= Escalation.thinking THEN "thinking"
    ELSE "baseline"

\* SplitTask: the files are dealt out in order, and each part depends on the one before.
SplitTask(files, deps) ==
    LET n == IF Len(files) >= 4 THEN 3 ELSE 2
        per == IF Len(files) = 0 THEN 1 ELSE (Len(files) + n - 1) \div n
        upTo(i) == Min({i * per, Len(files)})
    IN  [i \in 1..n |-> [files |-> SubSeq(files, upTo(i - 1) + 1, upTo(i)),
                         deps |-> IF i = 1 THEN deps ELSE {i - 1}]]

\* setupTaskWorkspace: only a retry finds the branch of the attempt before it.
setupTaskWorkspace == IF branch # <<>> /\ task.retries > 0 THEN branch ELSE main

FallbackFirst(t) == Fallback.enabled /\ (t.stall >= 2 \/ t.fallback)

Dispatch ==
    /\ task.status = "PENDING" /\ ~Running
    /\ task' = [task EXCEPT !.status = IF EvaluateEscalation(task) = "split" THEN "SKIPPED" ELSE "IN_PROGRESS"]
    /\ branch' = setupTaskWorkspace
    /\ ws' = Last(branch')
    /\ at' = Locals /\ fb' = NoFallback
    /\ todo' = IF task'.status = "SKIPPED" THEN <<>>
               ELSE IF FallbackFirst(task) THEN <<"fallback", "merge">>
               ELSE Turns(mode.arch, task.retries) \o <<"qa", "escalate", "merge">>
    /\ seen' = [seen EXCEPT !.reviewed = NoCode]
    /\ UNCHANGED <<mode, phases, agents, faults, crashes, main, build>>

-----------------------------------------------------------------------------
(* Agents and commits. *)

Do(step) == Running /\ Head(todo) = step
Rest == Tail(todo)

\* Everything a step of the turns leaves alone.
others == <<task, mode, fb, phases, agents, crashes, main, build>>

\* stageAndCommit and commitTaskChanges: a clean tree is not committed.
Committed(b, tree) == IF Last(b) = tree THEN b ELSE Append(b, tree)

\* The branch after a commit that may fail; most callers drop the error, and then the
\* changes stay in the worktree until a later commit takes them along.
Kept(ok, b, tree) == IF ok THEN Committed(b, tree) ELSE b

StageAndCommit(ok, tree) ==
    /\ MayFail(ok) /\ (~ok => tree # HeadTree)
    /\ branch' = Kept(ok, branch, tree)
    /\ faults' = Spent(ok)

Stub ==
    /\ Do("stub") /\ todo' = Rest
    /\ ws' = ensureTargetStubFilesExist(ws)
    /\ UNCHANGED <<others, branch, at, faults, seen>>

\* An agent may also end its turns without having changed anything.
Generator ==
    /\ Do("generator") /\ todo' = Rest
    /\ \E impl \in mode.code \union {ws.impl} : ws' = [ws EXCEPT !.impl = impl]
    /\ UNCHANGED <<others, branch, at, faults, seen>>

Tester ==
    /\ Do("tester") /\ todo' = Rest
    /\ \E tests \in mode.suites \union {ws.tests} : ws' = [ws EXCEPT !.tests = tests]
    /\ UNCHANGED <<others, branch, at, faults, seen>>

\* Two agents at once, or one that writes code and tests.
Both ==
    /\ Do("both") /\ todo' = Rest
    /\ \E impl \in mode.code \union {ws.impl}, tests \in mode.suites \union {ws.tests} :
            ws' = [ws EXCEPT !.impl = impl, !.tests = tests]
    /\ UNCHANGED <<others, branch, at, faults, seen>>

\* A commit that fails is only noticed after the last turn.
Commit ==
    /\ Running /\ Head(todo) \in {"commit", "commitOrBlock"} /\ todo' = Rest
    /\ \E ok \in BOOLEAN :
        /\ StageAndCommit(ok, ws)
        /\ at' = [at EXCEPT !.blocked = IF ok \/ Head(todo) = "commit" THEN @ ELSE "generator_commit_failed"]
    /\ UNCHANGED <<others, ws, seen>>

\* The audits after a turn: what they find is handed back to the agent, once.
AuditCode ==
    /\ Do("auditCode")
    /\ todo' = IF auditGeneratorFunctionalOutput(ws) # {} THEN <<"generator", "commit">> \o Rest ELSE Rest
    /\ UNCHANGED <<others, branch, ws, at, faults, seen>>

AuditInline ==
    /\ Do("auditInline")
    /\ todo' = IF auditGeneratorFunctionalOutput(ws) # {} THEN <<"both">> \o Rest ELSE Rest
    /\ UNCHANGED <<others, branch, ws, at, faults, seen>>

AuditTests ==
    /\ Do("auditTests")
    /\ todo' = IF auditTesterTestOutput(ws) # {} THEN <<"tester", "commit">> \o Rest ELSE Rest
    /\ UNCHANGED <<others, branch, ws, at, faults, seen>>

\* The validator fixes the imports of a workspace that gets past its static gates.
AfterValidate(tree, verdict) ==
    IF verdict.gate \in {"anti_stub", "shadow", "coupling", "syntax"} THEN tree ELSE AutoFixImports(tree)

\* Green already: what the validator changed is committed, and the last turn is skipped.
FastExit ==
    /\ Do("fastExit")
    /\ \E v \in ValidateTask(ws, Task.targets) :
        /\ ws' = AfterValidate(ws, v)
        /\ todo' = IF v.ok THEN SubSeq(Rest, Len(refactorTurn), Len(Rest)) ELSE Rest
        /\ IF v.ok THEN \E ok \in BOOLEAN : StageAndCommit(ok, ws') ELSE UNCHANGED <<branch, faults>>
    /\ UNCHANGED <<others, at, seen>>

Mark ==
    /\ Do("mark") /\ todo' = Rest
    /\ at' = [at EXCEPT !.before = Len(branch)]
    /\ UNCHANGED <<others, branch, ws, faults, seen>>

\* evaluateGeneratorTurnResult: a last turn that committed nothing must leave a green tree.
Evaluate ==
    /\ Do("evaluate") /\ todo' = Rest
    /\ \E v \in ValidateTask(ws, Task.targets) :
        LET asked == QA.enabled /\ at.blocked = "" /\ Len(branch) = at.before
        IN  /\ ws' = IF asked THEN AfterValidate(ws, v) ELSE ws
            /\ at' = [at EXCEPT !.blocked = IF asked /\ ~v.ok THEN "generator_no_op_validation_failed" ELSE @]
    /\ UNCHANGED <<others, branch, faults, seen>>

\* ExecuteSinglePassHypotheses: two candidates, each in a worktree of its own that starts
\* from the integration branch.  One that was cancelled, at whatever point, has no verdict.
Candidates == [impl : mode.code \union {Head0.impl}, tests : mode.suites \union {Head0.tests}]

PassRate(tree, v) ==
    LET out == SuiteRun(AutoFixImports(tree))
    IN  IF v.gate \in {"runs", "short_circuit"} /\ out.total > 0 THEN (out.passed * 100) \div out.total
        ELSE IF v.ok THEN 100 ELSE 0

HypothesisResult == [err : {TRUE}, tree : Candidates, score : {0}]
    \union UNION {{[err |-> FALSE, tree |-> t, score |-> PassRate(t, v) + IF v.ok THEN 1000 ELSE 0]
                   : v \in ValidateTask(t, Task.targets)} : t \in Candidates}

\* resolveHypothesesOutcome: the second replaces the first if it has a verdict and the
\* first has none or a lower score.
bestHypothesis(first, second) ==
    IF ~second.err /\ (first.err \/ second.score > first.score) THEN second ELSE first

\* The winner's last commit as a patch on another tree.  Code that both have changed is
\* left with conflict markers in it, which are committed like anything else.
ApplyDiff(tree, winner) ==
    [impl |-> IF winner.impl = Head0.impl THEN tree.impl
              ELSE IF tree.impl \in {Head0.impl, winner.impl} THEN winner.impl
              ELSE [winner.impl EXCEPT !.parses = FALSE],
     tests |-> (tree.tests \ (Head0.tests \ winner.tests)) \union (winner.tests \ Head0.tests)]

Race ==
    /\ Do("race")
    /\ \E r1, r2 \in HypothesisResult :
        LET best == bestHypothesis(r1, r2)
            mix == mode.arch = "mixture" /\ best.score < 1000
        IN  \* a mixture that is green stands; the best candidate goes on top of anything else
            \E mixed \in IF mix THEN Candidates ELSE {ws} :
            \E v \in IF mix THEN ValidateTask(mixed, Task.targets) ELSE {Verdict(FALSE, "none", {})},
               ok1, ok2 \in BOOLEAN :
                LET below == Kept(ok1, branch, mixed)
                IN  /\ ws' = IF v.ok THEN mixed ELSE ApplyDiff(mixed, best.tree)
                    /\ ok1 \/ mixed # HeadTree
                    /\ ok2 \/ (~v.ok /\ ws' # Last(below))
                    /\ branch' = IF v.ok THEN below ELSE Kept(ok2, below, ws')
                    /\ MayFail(ok1 /\ ok2) /\ faults' = Spent(ok1 /\ ok2)
    /\ todo' = Rest
    /\ UNCHANGED <<others, at, seen>>

-----------------------------------------------------------------------------
(* After the turns: validation, one surgical repair, the QA gate. *)

\* checkTaskMutations: green on the integration branch's own files, with nothing
\* committed, is not work.
checkTaskMutations(tree, v) ==
    IF v.ok /\ Task.targets /\ tree = HeadTree /\ tree = Head0 /\ Len(branch) <= Len(main)
    THEN Verdict(FALSE, "zero_mutations", {}) ELSE v

\* The failures a surgical repair is tried on.
Repairable(v, blocked) ==
    /\ blocked \in {"", "generator_no_op_validation_failed"}
    /\ \/ CategorizeFailureLog(v.log) \in {"compile", "test"}
       \/ v.gate \in {"e2e", "zero_mutations"}
       \/ blocked # ""

\* Validation before and after the repair, which is tried once.
Validate ==
    /\ Do("validate")
    /\ \E verdict \in ValidateTask(ws, Task.targets) :
        LET tree == AfterValidate(ws, verdict)
            v == checkTaskMutations(tree, verdict)
        IN  /\ ws' = tree
            /\ at' = [at EXCEPT !.passed = v.ok, !.gate = v.gate, !.log = v.log,
                                !.blocked = IF at.repaired /\ v.ok THEN "" ELSE @]
            /\ todo' = IF ~v.ok /\ ~at.repaired /\ Repairable(v, at.blocked)
                       THEN <<"repair", "validate">> \o Rest ELSE Rest
            /\ seen' = IF v.ok THEN [seen EXCEPT !.good = tree] ELSE seen
    /\ UNCHANGED <<others, branch, faults>>

\* ValidateRepairAlignment on the tracked files the agent changed: some of them must be in
\* the traceback or among the targets.  The traceback is the validator's last output.
ValidateRepairAlignment(modified, traceback) ==
    modified = {} \/ traceback = {} \/ modified \intersect (traceback \union Task.files) # {}

\* executeSurgicalRepairTurn.  What the agent rewrites is a set of files; a refused repair
\* is undone in the tracked files, unless that fails too, and files that are new stay where
\* they are.
Repair ==
    /\ Do("repair") /\ todo' = Rest
    /\ \E impl \in mode.code \union {ws.impl}, tests \in mode.suites \union {ws.tests},
          elsewhere \in SUBSET {"other.file"}, traceback \in SUBSET {"tests.file"} :
        LET tracked(f) == \E g \in HeadTree.tests : g.dir = f.dir /\ g.base = f.base
            modified == (IF impl # HeadTree.impl /\ HeadTree.impl # NoCode THEN Task.files ELSE {})
                        \union (IF \E f \in HeadTree.tests : f \notin tests THEN {"tests.file"} ELSE {})
                        \union elsewhere
            repaired == [ws EXCEPT !.impl = impl, !.tests = tests]
        IN  \E ok \in BOOLEAN :
            IF ValidateRepairAlignment(modified, traceback)
            THEN ws' = repaired /\ StageAndCommit(ok, repaired)
            ELSE /\ ws' = IF ok THEN [HeadTree EXCEPT !.tests = @ \union {f \in tests : ~tracked(f)}] ELSE repaired
                 /\ MayFail(ok) /\ faults' = Spent(ok) /\ branch' = branch
    /\ at' = [at EXCEPT !.repaired = TRUE]
    /\ UNCHANGED <<others, seen>>

Contracts == StoryContract(mode.story)
Skip == SkipReason(Contracts)

\* runQAGate: only what passed and is not blocked is reviewed.  A skipped review is
\* recorded as such.
Block(reason) == [at EXCEPT !.blocked = reason]

NewId == 1 + Max({0} \union {phases[i].id : i \in DOMAIN phases} \union agents)

Save(ok, id, attempt, result) ==
    phases' = IF ok THEN UpsertReviewPhase(phases, Phase(id, attempt, result)) ELSE phases

runQAGate ==
    /\ Do("qa")
    /\ \E saved \in BOOLEAN :
        /\ MayFail(saved)
        /\ \/ /\ ~at.passed \/ at.blocked # ""
              /\ saved
              /\ todo' = Rest /\ UNCHANGED <<at, phases>>
           \/ /\ at.passed /\ at.blocked = "" /\ Skip # ""
              /\ Save(saved, NewId, 1, Result("SKIPPED", Skip, 0))
              /\ at' = IF saved THEN at ELSE Block("persistence_failed")
              /\ todo' = Rest
           \/ /\ at.passed /\ at.blocked = "" /\ Skip = "" /\ saved
              /\ at' = IF ws = HeadTree THEN [at EXCEPT !.attempt = 1] ELSE Block("artifact_changed")
              /\ todo' = IF ws = HeadTree THEN <<"review">> \o Rest ELSE Rest
              /\ UNCHANGED phases
        /\ faults' = Spent(saved)
    /\ UNCHANGED <<task, mode, fb, agents, crashes, main, build, branch, ws, seen>>

\* executeQAReview, first half: the working phase and its agent are saved before anything
\* is done.
BeginReview ==
    /\ Do("review")
    /\ \E saved \in BOOLEAN :
        /\ MayFail(saved) /\ faults' = Spent(saved)
        /\ Save(saved, NewId, at.attempt, Result("WORKING", "", 0))
        /\ agents' = IF saved THEN agents \union {NewId} ELSE agents
        /\ at' = IF saved THEN [at EXCEPT !.id = NewId, !.result = Locals.result] ELSE Block("persistence_failed")
        /\ todo' = IF saved THEN <<"reviewing">> \o Rest ELSE Rest
    /\ UNCHANGED <<task, mode, fb, crashes, main, build, branch, ws, seen>>

\* Second half: the commit is reviewed, the result saved and the review's worktrees
\* removed; worktrees that stay make the review inconclusive.  A result that could not be
\* saved still counts after the first review, and blocks the task after a fix.
EndReview ==
    /\ Do("reviewing")
    /\ \E r \in Review(HeadTree, Len(branch), at.attempt = 1, Contracts), saved, cleaned \in BOOLEAN :
        LET result == IF cleaned \/ ~saved THEN r
                      ELSE [r EXCEPT !.status = "INCONCLUSIVE", !.reason = "isolation_failed"]
        IN  /\ MayFail(saved /\ cleaned) /\ faults' = Spent(saved /\ cleaned)
            /\ Save(saved, at.id, at.attempt, result)
            /\ agents' = IF saved THEN agents \ {at.id} ELSE agents
            /\ at' = IF ~saved /\ at.attempt > 1 THEN Block("persistence_failed")
                     ELSE [at EXCEPT !.result = result, !.applied = saved]
            /\ seen' = IF result.status = "PASS" THEN [seen EXCEPT !.reviewed = HeadTree.impl] ELSE seen
    /\ todo' = <<"reviewed">> \o Rest
    /\ UNCHANGED <<task, mode, fb, crashes, main, build, branch, ws>>

\* What the gate makes of a review.  The tester's patch is applied to the worktree when the
\* review passed or found something and its result was saved.
Reviewed ==
    /\ Do("reviewed")
    /\ LET r == at.result
           blocked == at.blocked # ""
           more == r.status = "FINDINGS" /\ at.attempt <= QA.rounds
           patched == r.patch /\ r.status \in {"PASS", "FINDINGS"}
       IN  \E tests \in mode.suites \union {ws.tests} :
            /\ tests # ws.tests => patched /\ at.applied
            /\ ws' = [ws EXCEPT !.tests = tests]
            /\ at' = IF blocked \/ more \/ r.status \in {"PASS", "SKIPPED"} THEN at ELSE Block(r.reason)
            /\ todo' = IF blocked THEN Rest
                       ELSE IF more THEN <<"fix">> \o Rest
                       ELSE IF r.status = "PASS" /\ patched THEN <<"takePatch">> \o Rest
                       ELSE Rest
    /\ UNCHANGED <<others, branch, faults, seen>>

\* Mutant of TakePatch: the tests are committed and never run.
TakePatchUnchecked ==
    /\ Do("takePatch") /\ todo' = Rest
    /\ \E ok \in BOOLEAN :
        /\ StageAndCommit(ok, ws)
        /\ at' = at
    /\ UNCHANGED <<others, ws, seen>>

\* The acceptance tests of the reviewer's companion are committed and must be green.
TakePatch ==
    /\ Do("takePatch") /\ todo' = Rest
    /\ \E v \in ValidateTask(ws, Task.targets), ok \in BOOLEAN :
        LET taken == ok /\ ws # HeadTree
        IN  /\ StageAndCommit(ok, ws)
            /\ ws' = IF taken THEN AfterValidate(ws, v) ELSE ws
            /\ at' = IF ~taken THEN Block("tester_patch_failed")
                     ELSE IF ~v.ok THEN Block("validation_failed")
                     ELSE at
            /\ seen' = IF taken /\ v.ok THEN [seen EXCEPT !.good = ws'] ELSE seen
    /\ UNCHANGED others

\* Mutant of Fix: green tests after the fix are taken for a review.
FixUnreviewed ==
    /\ Do("fix")
    /\ \E impl \in mode.code \union {ws.impl}, ok \in BOOLEAN :
        LET tree == [ws EXCEPT !.impl = impl]
        IN  \E v \in ValidateTask(tree, Task.targets) :
            LET taken == ok /\ tree # HeadTree
                reason == IF ~taken THEN "artifact_changed"
                          ELSE IF ~v.ok THEN "validation_failed"
                          ELSE ""
            IN  /\ StageAndCommit(ok, tree)
                /\ ws' = IF taken THEN AfterValidate(tree, v) ELSE tree
                /\ at' = [Block(reason) EXCEPT !.attempt = @ + 1]
                /\ todo' = Rest
                /\ seen' = IF reason = "" THEN [seen EXCEPT !.good = ws'] ELSE seen
    /\ UNCHANGED others

\* rerunQAAfterFix: one round.
Fix ==
    /\ Do("fix")
    /\ \E impl \in mode.code \union {ws.impl}, ok \in BOOLEAN :
        LET tree == [ws EXCEPT !.impl = impl]
        IN  \E v \in ValidateTask(tree, Task.targets) :
            LET taken == ok /\ tree # HeadTree
                reason == IF ~taken THEN "artifact_changed"
                          ELSE IF ~v.ok THEN "validation_failed"
                          ELSE ""
            IN  /\ StageAndCommit(ok, tree)
                /\ ws' = IF taken THEN AfterValidate(tree, v) ELSE tree
                /\ at' = [Block(reason) EXCEPT !.attempt = @ + 1]
                /\ todo' = IF reason = "" THEN <<"review">> \o Rest ELSE Rest
                /\ seen' = IF reason = "" THEN [seen EXCEPT !.good = ws'] ELSE seen
    /\ UNCHANGED others
\* A blocked task has not passed; the fallback agent is called when nothing else is left.
canRetry(t, log) == CategorizeFailureLog(log) # "sandbox" /\ t.retries < MaxRetries

Escalate ==
    /\ Do("escalate")
    /\ LET blocked == at.blocked # ""
           passed == at.passed /\ ~blocked
           log == IF blocked THEN {} ELSE at.log
       IN  /\ at' = [at EXCEPT !.passed = passed, !.log = log]
           /\ todo' = IF /\ ~passed /\ Fallback.enabled
                         /\ ~canRetry(task, log) \/ blocked \/ task.stall >= 2 \/ task.fallback
                      THEN <<"fallback">> \o Rest ELSE Rest
    /\ UNCHANGED <<others, branch, ws, faults, seen>>

-----------------------------------------------------------------------------
(* The fallback agent, for a task and for the integration branch. *)

Global == Running /\ Last(todo) = "closing"
Targets == Task.targets /\ ~Global

\* RunFallbackAgent up to its loop: that it was called is saved with the task.
FallbackStart ==
    /\ Do("fallback")
    /\ fb' = [NoFallback EXCEPT !.turn = 1, !.maxTurns = EnforceMinTurns(MaxTurns)]
    /\ task' = IF Global THEN task ELSE [task EXCEPT !.fallback = TRUE]
    /\ todo' = <<"turn">> \o Rest
    /\ UNCHANGED <<mode, branch, ws, at, phases, agents, faults, crashes, main, build, seen>>

\* One turn: one candidate, or one of each of the two kinds.
FallbackTurn ==
    /\ Do("turn")
    /\ fb' = [fb EXCEPT !.mutating = FALSE, !.gate = "none", !.failed = 0, !.passed = 0]
    /\ todo' = (IF mode.racing THEN <<"candidate", "candidate">> ELSE <<"candidate">>)
               \o <<"endTurn">> \o Rest
    /\ UNCHANGED <<task, mode, branch, ws, at, phases, agents, faults, crashes, main, build, seen>>

\* The gates a candidate must pass: the validator's, then the end-to-end suite whatever
\* way the validator took, then the anti-stub rules.
FallbackVerdicts(tree) ==
    UNION {IF ~v.ok THEN {v}
           ELSE IF ~validateE2E(tree) THEN Failed("e2e")
           ELSE IF ValidateWorkspace(tree, Targets) # {} THEN {Verdict(FALSE, "anti_stub", {})}
           ELSE {v} : v \in ValidateTask(tree, Targets)}

\* reset --hard HEAD~1 and clean: the first commit of all has no parent to go back to.
Rollback(b) == IF Len(b) > 1 THEN Front(b) ELSE b

\* raceAndApplyCandidateHypotheses, for one candidate: a call that failed or asks for
\* nothing is passed over; one that only inspects is judged and rolled back like the others.
\* A commit that fails is not noticed, and the rollback then takes the commit before it; a
\* rollback that fails leaves the candidate where it is.
Candidate ==
    /\ Do("candidate")
    /\ \/ todo' = Rest /\ UNCHANGED <<branch, ws, at, fb, faults, seen>>
       \/ \E mutating, ok, undone \in BOOLEAN,
             impl \in mode.code \union {ws.impl}, tests \in mode.suites \union {ws.tests} :
            LET tree == [ws EXCEPT !.impl = impl, !.tests = tests]
                b == IF mutating THEN Kept(ok, branch, tree) ELSE branch
                out == SuiteRun(AutoFixImports(tree))
            IN  /\ tree = ws \/ mutating
                /\ ok \/ (mutating /\ tree # HeadTree)
                /\ MayFail(ok /\ undone) /\ faults' = Spent(ok /\ undone)
                /\ \E v \in FallbackVerdicts(tree) :
                    IF v.ok
                    THEN /\ undone /\ branch' = b /\ ws' = AfterValidate(tree, v)
                         /\ at' = [at EXCEPT !.passed = TRUE, !.log = {}]
                         /\ seen' = [seen EXCEPT !.good = ws']
                         /\ todo' = <<Last(todo)>> /\ fb' = NoFallback
                    ELSE /\ branch' = IF undone THEN Rollback(b) ELSE b
                         /\ ws' = IF undone THEN Last(branch') ELSE AfterValidate(tree, v)
                         /\ fb' = [fb EXCEPT !.mutating = @ \/ mutating, !.gate = v.gate,
                                      !.failed = IF v.gate = "runs" THEN out.total - out.passed ELSE 0,
                                      !.passed = IF v.gate = "runs" THEN out.passed ELSE 0]
                         /\ todo' = Rest /\ UNCHANGED <<at, seen>>
    /\ UNCHANGED <<task, mode, phases, agents, crashes, main, build>>

maxFallbackNoopStrikes == 2

\* Mutant of FallbackEndTurn: a turn that changed nothing is free, and not counted.
FallbackEndTurnUncounted ==
    /\ Do("endTurn")
    /\ LET free == ~fb.mutating /\ fb.strikes < maxFallbackNoopStrikes
           log == [failure |-> fb.gate]
           counted == fb.failed > 0 \/ fb.passed > 0
           extend == /\ fb.last # <<>>
                     /\ ShouldGrantProgressExtension(fb.last[1], fb.failed, fb.last[2], fb.passed, fb.ext, MaxTurnExtensions)
           more == [fb EXCEPT !.turn = @ + 1, !.strikes = IF fb.mutating THEN 0 ELSE @,
                              !.cb = RecordFailure(@, log),
                              !.ext = IF extend THEN @ + 1 ELSE @,
                              !.maxTurns = IF extend THEN @ + 1 ELSE @,
                              !.last = IF counted THEN <<fb.failed, fb.passed>> ELSE @]
           over == OscillationDecision(fb.cb, log) = "trip" \/ more.turn > more.maxTurns
       IN  \/ /\ free
              /\ fb' = fb
              /\ todo' = <<"turn">> \o Rest
           \/ /\ ~free /\ ~over
              /\ fb' = more
              /\ todo' = <<"turn">> \o Rest
           \/ /\ ~free /\ over
              /\ fb' = NoFallback
              /\ todo' = Rest
    /\ UNCHANGED <<task, mode, branch, ws, at, phases, agents, faults, crashes, main, build, seen>>

\* What a turn that solved nothing costs: two turns in a row that changed nothing are free.
FallbackEndTurn ==
    /\ Do("endTurn")
    /\ LET free == ~fb.mutating /\ fb.strikes < maxFallbackNoopStrikes
           log == [failure |-> fb.gate]
           counted == fb.failed > 0 \/ fb.passed > 0
           extend == /\ fb.last # <<>>
                     /\ ShouldGrantProgressExtension(fb.last[1], fb.failed, fb.last[2], fb.passed, fb.ext, MaxTurnExtensions)
           more == [fb EXCEPT !.turn = @ + 1, !.strikes = IF fb.mutating THEN 0 ELSE @,
                              !.cb = RecordFailure(@, log),
                              !.ext = IF extend THEN @ + 1 ELSE @,
                              !.maxTurns = IF extend THEN @ + 1 ELSE @,
                              !.last = IF counted THEN <<fb.failed, fb.passed>> ELSE @]
           over == OscillationDecision(fb.cb, log) = "trip" \/ more.turn > more.maxTurns
       IN  \/ /\ free
              /\ fb' = [fb EXCEPT !.strikes = @ + 1]
              /\ todo' = <<"turn">> \o Rest
           \/ /\ ~free /\ ~over
              /\ fb' = more
              /\ todo' = <<"turn">> \o Rest
           \/ /\ ~free /\ over
              /\ fb' = NoFallback
              /\ todo' = Rest
    /\ UNCHANGED <<task, mode, branch, ws, at, phases, agents, faults, crashes, main, build, seen>>

-----------------------------------------------------------------------------
(* The end of an attempt. *)

\* The branch as the merge queue brings it in: what it changed since it left the
\* integration branch.
MergeInto(b) ==
    LET k == Max({i \in DOMAIN main : i <= Len(b) /\ SubSeq(b, 1, i) = SubSeq(main, 1, i)})
        fork == main[k]
        tip == Last(b)
    IN  [impl |-> IF tip.impl = fork.impl THEN Head0.impl ELSE tip.impl,
         tests |-> (Head0.tests \ (fork.tests \ tip.tests)) \union (tip.tests \ fork.tests)]

\* A passed task is merged and its branch deleted; a merge that fails is a failed attempt
\* like any other, and the branch stays.
Merge ==
    /\ Do("merge") /\ todo' = <<>> /\ at' = Locals /\ fb' = NoFallback /\ ws' = NoTree
    /\ \E pushed \in BOOLEAN :
        /\ at.passed \/ ~pushed
        /\ at.passed => MayFail(pushed)
        /\ faults' = IF at.passed THEN Spent(pushed) ELSE faults
        /\ LET log == IF at.passed THEN {} ELSE at.log
           IN  task' = IF pushed THEN [task EXCEPT !.status = "SUCCESS"]
                       ELSE IF canRetry(task, log) THEN [task EXCEPT !.status = "PENDING", !.retries = @ + 1]
                       ELSE [task EXCEPT !.status = "FAILED"]
        /\ branch' = IF pushed THEN <<>> ELSE branch
        /\ main' = IF pushed THEN Append(main, MergeInto(branch)) ELSE main
        /\ build' = IF pushed THEN build ELSE [build EXCEPT !.status = "FAILING"]
    /\ UNCHANGED <<mode, phases, agents, crashes, seen>>

\* allTasksFinished: a task that was skipped or interrupted has not finished.
Finished == task.status \in {"SUCCESS", "FAILED"}

\* RunPostMergeRepairPhase, once all is done: the whole suite on the integration branch,
\* two turns of an agent that commits there, then the fallback agent.  A checkout that fails
\* is not noticed, and the directory may then be on the base branch.
PostMerge ==
    /\ Finished /\ ~Running /\ ~build.final
    /\ \E ok, on \in BOOLEAN :
        /\ MayFail(ok) /\ (ok => on) /\ faults' = Spent(ok)
        /\ branch' = IF on THEN main ELSE Base
        /\ at' = [Locals EXCEPT !.onBranch = on]
    /\ ws' = Last(branch')
    /\ todo' = <<"recheck", "repairTurn", "recheck", "repairTurn", "recheck">>
               \o (IF Fallback.enabled THEN <<"fallback">> ELSE <<>>) \o <<"closing">>
    /\ UNCHANGED <<task, mode, fb, phases, agents, crashes, main, build, seen>>

\* A turn whose call fails is not followed by another run of the suite; whether the changes
\* could be committed is not looked at.
RepairTurn ==
    /\ Do("repairTurn")
    /\ \/ todo' = Tail(Rest) /\ UNCHANGED <<branch, ws, faults>>
       \/ /\ todo' = Rest
          /\ \E impl \in mode.code \union {ws.impl}, tests \in mode.suites \union {ws.tests}, ok \in BOOLEAN :
                /\ ws' = [ws EXCEPT !.impl = impl, !.tests = tests]
                /\ StageAndCommit(ok, ws')
    /\ UNCHANGED <<others, at, seen>>

\* Mutant of Recheck: a suite that was green once counts as green.
RecheckOnce ==
    /\ Do("recheck")
    /\ \E v \in ValidateTask(ws, FALSE) :
        /\ ws' = AfterValidate(ws, v)
        /\ todo' = Rest
        /\ at' = [at EXCEPT !.passed = @ \/ v.ok]
        /\ seen' = IF v.ok THEN [seen EXCEPT !.good = ws'] ELSE seen
    /\ UNCHANGED <<others, branch, faults>>

\* The suite on the integration branch, with no target files.
Recheck ==
    /\ Do("recheck")
    /\ \E v \in ValidateTask(ws, FALSE) :
        /\ ws' = AfterValidate(ws, v)
        /\ todo' = IF v.ok THEN <<"closing">> ELSE Rest
        /\ at' = [at EXCEPT !.passed = v.ok]
        /\ seen' = IF v.ok THEN [seen EXCEPT !.good = ws'] ELSE seen
    /\ UNCHANGED <<others, branch, faults>>

\* The build status is what the last check said, and the story is finalized.  What was
\* committed to another branch is not on the integration branch.
Closing ==
    /\ Do("closing") /\ todo' = <<>>
    /\ main' = (IF at.onBranch THEN branch ELSE main)
    /\ branch' = <<>> /\ ws' = NoTree /\ at' = Locals /\ fb' = NoFallback
    /\ build' = [status |-> IF at.passed THEN "PASSING" ELSE "FAILING", final |-> TRUE]
    /\ UNCHANGED <<task, mode, phases, agents, faults, crashes, seen>>

-----------------------------------------------------------------------------
(* Death of the process, and what heals the task after it. *)

\* The process dies and is started again; recoverQAState runs first, with any of the
\* deadlines passed.  Whatever phase it gives up, the task is interrupted.
Restart ==
    /\ crashes < mode.crashes /\ crashes' = crashes + 1
    /\ main' = IF Global /\ at.onBranch THEN branch ELSE main
    /\ branch' = IF Global THEN <<>> ELSE branch
    /\ ws' = NoTree /\ todo' = <<>> /\ at' = Locals /\ fb' = NoFallback
    /\ \E expired \in SUBSET {phases[i].id : i \in DOMAIN phases} :
        LET state == recoverQAState(phases, agents, expired)
        IN  /\ phases' = state.phases /\ agents' = state.agents
            /\ task' = IF state.recovered THEN [task EXCEPT !.status = "INTERRUPTED"] ELSE task
    /\ UNCHANGED <<mode, faults, build, seen>>

\* The watchdog's commands for a task that is in progress with nobody at work on it.
HardStopStalls == 5
BypassStalls == 2

Heal ==
    /\ task.status = "IN_PROGRESS" /\ ~Running
    /\ task' = IF task.stall >= HardStopStalls THEN [task EXCEPT !.status = "FAILED"]
               ELSE IF task.stall >= BypassStalls THEN [task EXCEPT !.status = "PENDING", !.stall = BypassStalls]
               ELSE [task EXCEPT !.stall = @ + 1, !.retries = @ + 1,
                                 !.status = IF task.retries + 1 >= MaxRetries THEN "FAILED" ELSE "PENDING"]
    /\ UNCHANGED <<mode, branch, ws, todo, at, fb, phases, agents, faults, crashes, main, build, seen>>

Step ==
    \/ Stub \/ Generator \/ Tester \/ Both \/ Commit \/ AuditCode \/ AuditInline \/ AuditTests
    \/ FastExit \/ Mark \/ Evaluate \/ Race \/ Validate \/ Repair
    \/ runQAGate \/ BeginReview \/ EndReview \/ Reviewed \/ TakePatch \/ Fix \/ Escalate
    \/ FallbackStart \/ FallbackTurn \/ Candidate \/ FallbackEndTurn \/ Merge
    \/ RepairTurn \/ Recheck \/ Closing

\* A story that is finalized, and a task that was interrupted, wait for nothing.
Done == ~Running /\ (build.final \/ task.status \in {"INTERRUPTED", "SKIPPED"}) /\ UNCHANGED vars

Next == Dispatch \/ Step \/ PostMerge \/ Heal \/ Restart \/ Done

\* The attempt is one goroutine; the dispatch loop and the watchdog poll.
Fairness == WF_vars(Step) /\ WF_vars(Dispatch) /\ WF_vars(PostMerge) /\ WF_vars(Heal)

Spec == Init /\ [][Next]_vars /\ Fairness

-----------------------------------------------------------------------------
(* Properties. *)

Statuses == {"PENDING", "IN_PROGRESS", "SUCCESS", "FAILED", "SKIPPED", "INTERRUPTED"}

\* A reset by the watchdog may pass the limit of retries by one, a branch exists while an attempt runs, and the
\* fallback agent never has more turns than its extensions allow.
TypeOK ==
    /\ task.status \in Statuses /\ task.retries \in 0..(MaxRetries + 1) /\ task.stall \in 0..HardStopStalls
    /\ Running => branch # <<>>
    /\ fb.strikes \in 0..maxFallbackNoopStrikes /\ fb.ext \in 0..MaxTurnExtensions
    /\ fb.turn <= EnforceMinTurns(MaxTurns) + fb.ext
    /\ faults \in 0..mode.faults /\ crashes \in 0..mode.crashes

\* Nothing but imports the validator completed is waiting to be committed.
Settled == AutoFixImports(ws) = AutoFixImports(HeadTree)

\* A task that the QA gate let through, without the fallback agent.
Gated == Skip = "" /\ ~task.fallback

\* What executeTask merges is what it last saw pass, whichever of its commits and resets
\* failed.  The worktree it leaves is exactly that tree.  So is the commit, up to imports
\* the validator completed, if the QA gate let the task through, and to the letter if the
\* first review did; without the gate it may lack what the worktree still shows as
\* uncommitted, or, after the fallback agent has reset commits that were not its own, be
\* mixed with the integration branch.
MergedValidated ==
    [][ (task.status # "SUCCESS" /\ task'.status = "SUCCESS") =>
            /\ ws = seen.good
            /\ Gated \/ (Settled /\ IsPrefix(main, branch)) => AutoFixImports(Last(main')) = AutoFixImports(seen.good)
            /\ Gated /\ at.attempt = 1 => Last(main') = seen.good ]_vars

\* A task that reaches its merge through the QA gate is merged with the code a review of
\* the running attempt passed; only the fallback agent merges what nobody reviewed.
QAPassReviewed ==
    [][ (Skip = "" /\ task.status # "SUCCESS" /\ task'.status = "SUCCESS" /\ ~task.fallback)
            => Last(main').impl = seen.reviewed ]_vars

\* When RunPostMergeRepairPhase calls the build passing, the directory holds the tree that
\* passed, whichever of its git commands failed, and the integration branch has it, up to
\* completed imports, unless another branch is checked out or changes wait to be committed.
BuildTruthful ==
    [][ (~build.final /\ build'.final /\ build'.status = "PASSING") =>
            /\ ws = seen.good
            /\ at.onBranch /\ Settled => AutoFixImports(Last(main')) = AutoFixImports(seen.good) ]_vars

\* Every attempt comes to an end, and the story is finalized unless a restart has
\* interrupted the task.
AttemptEnds == <>[](build.final \/ task.status = "INTERRUPTED")
=============================================================================
