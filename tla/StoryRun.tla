------------------------------ MODULE StoryRun ------------------------------
(* A `noctifab start`: the roadmap generator streams stories into the story *)
(* scheduler, iteration loops execute them, the run-level check sends what  *)
(* failed to the sovereign rescue, the acceptance gate audits the project   *)
(* and the process stands by or ends.  The signal handler calls os.Exit, so *)
(* a stop at any point leaves what is on disk and in the repository.        *)
EXTENDS StoryDag, Standby, Breakers

CONSTANTS
    Passes,        \* roadmap passes of the product manager
    MaxUserStories,\* max_user_stories, 0 for no cap
    SmallCLI,      \* the text of the specification describes a small command-line tool
    TotalLoops,    \* runtime.loops
    Pipelined,     \* agents.orchestrator pipelining
    RescueEnabled, \* sovereign_rescue.enabled
    RescueTurns,   \* sovereign_rescue.max_turns
    GraceRefunds,  \* 3 in the code
    WantStandby,   \* --standby or --web
    Levels,        \* how many of the rescue's gates a commit may pass
    MaxGaps,       \* acceptance gaps an audit reports, at most
    MaxFaults,     \* bound on crashes and deletions together
    MaxEdits       \* bound on the edits of story files

VARIABLES
    phase,    \* of runStart
    files,    \* story files on disk
    gen,      \* GenerateRoadmapWithStreaming: [pc, pass, attempt, todo, direct, expanded, refined]
    loop,     \* runStoryIterationLoops: [list, active, idx, total, ext, changed, sig, resume]
    outcome,  \* storyOutcomes: "none" is a missing key, "ok" a nil error
    rescue,   \* runSovereignProjectRescue: [turn, max, grace, head, best, next, osc, audit, failed]
    verified, \* stories the repository knows as completed, with their tasks
    recorded, \* the repository knows some story at all
    result,   \* of the run
    faults    \* [bad, edits]: crashes and deletions so far, and edits

runVars == <<phase, files, gen, loop, outcome, rescue, verified, recorded, result>>
vars == <<dagVars, standbyVars, runVars, faults>>

ASSUME StoryRunAssumption ==
    /\ {Passes, TotalLoops, RescueTurns, MaxGaps} \subseteq Nat \ {0}
    /\ {MaxUserStories, MaxFaults, MaxEdits, GraceRefunds} \subseteq Nat
    /\ {SmallCLI, Pipelined, RescueEnabled, WantStandby} \subseteq BOOLEAN
    /\ Watched = Stories /\ Levels \subseteq 0..4

NoGen == [pc |-> "off", pass |-> 0, attempt |-> 0, todo |-> {}, direct |-> {},
          expanded |-> {}, refined |-> FALSE]
NoLoop == [list |-> {}, active |-> {}, idx |-> 0, total |-> 0, ext |-> 0,
           changed |-> FALSE, sig |-> {}, resume |-> FALSE]
NoOutcome == [s \in Stories |-> "none"]
NoRescue == [turn |-> 0, max |-> 0, grace |-> 0, head |-> <<0, 0>>, best |-> <<0, 0>>, next |-> 0,
             osc |-> NewOscillationCircuitBreaker, audit |-> FALSE, failed |-> {}]
SchedulerReset ==
    /\ node' = [s \in Stories |-> "absent"] /\ deps' = [s \in Stories |-> {}]
    /\ stream' = [streaming |-> FALSE, closed |-> FALSE, pipelined |-> FALSE]
    /\ exec' = [pc |-> "idle", launched |-> FALSE] /\ signals' = {}

-----------------------------------------------------------------------------
(* The roadmap generator, a goroutine of its own. *)

\* Stage 1: three attempts at an outline.  A response may hold complete stories, an
\* outline of stories to expand - those it does not hold complete - or only a refined
\* specification.
PlanRoadmap(direct, outline) ==
    /\ gen.pc = "plan"
    /\ direct \cap outline = {}
    /\ gen' = [gen EXCEPT !.pc = "expand", !.todo = outline, !.direct = direct, !.expanded = outline]
    /\ UNCHANGED <<dagVars, standbyVars, phase, files, loop, outcome, rescue, verified, recorded, result, faults>>

\* A failed call, or a response without stories: the next attempt, or the error of the
\* third, which closes the stream.
PlanFails ==
    /\ gen.pc = "plan"
    /\ gen' = [gen EXCEPT !.attempt = @ + 1, !.pc = IF gen.attempt = 2 THEN "close" ELSE "plan"]
    /\ UNCHANGED <<dagVars, standbyVars, phase, files, loop, outcome, rescue, verified, recorded, result, faults>>

\* Stage 2, one worker per outlined story: the file is written and the story streamed,
\* the synthetic story when the expansion failed.
ExpandRoadmapStory(s) ==
    /\ gen.pc = "expand" /\ s \in gen.todo
    /\ gen' = [gen EXCEPT !.todo = @ \ {s}]
    /\ files' = files \cup {s}
    /\ AddStory(s)
    /\ UNCHANGED <<standbyVars, phase, loop, outcome, rescue, verified, recorded, result, faults>>

\* What a story's name and text make it, in the order the stories are put.
Legacy == 1
Feature == 2
Hardening == 3

FeatureCap == IF SmallCLI \/ MaxUserStories \in {1, 2} THEN 1
              ELSE IF MaxUserStories = 0 THEN Cardinality(Stories) ELSE MaxUserStories

\* The raw list has the complete stories before the expanded ones, these in outline order.
Ahead(direct, expanded, t, s) ==
    IF t \in direct THEN s \in direct => t < s ELSE s \in expanded /\ t < s

\* SanitizeAndCapStories keeps every legacy story, the first features up to the cap and
\* the first hardening story.
Kept(direct, expanded, kind) ==
    LET before(s) == {t \in direct \cup expanded : kind[t] = kind[s] /\ Ahead(direct, expanded, t, s)}
    IN  {s \in direct \cup expanded :
           \/ kind[s] = Legacy
           \/ kind[s] = Feature /\ Cardinality(before(s)) < FeatureCap
           \/ kind[s] = Hardening /\ before(s) = {}}

\* The number of a kept story's file: an expanded one has been written and keeps its
\* name, a complete one is numbered by its position among the kept.
FileNumber(direct, expanded, kind, s) ==
    IF s \in expanded THEN s
    ELSE 1 + Cardinality({t \in Kept(direct, expanded, kind) :
                            \/ kind[t] < kind[s]
                            \/ kind[t] = kind[s] /\ Ahead(direct, expanded, t, s)})

\* All expansions are in: the kept stories are written, the other files purged - streamed
\* or not, running or not.  No story at all means another attempt, unless the
\* specification was refined.  Files of one number are one story to the scheduler.
SanitizeAndCapStories(refinedSpec, kind) ==
    /\ gen.pc = "expand" /\ gen.todo = {}
    /\ LET kept == Kept(gen.direct, gen.expanded, kind)
           written == {n \in Stories : \E s \in kept : n = FileNumber(gen.direct, gen.expanded, kind, s)}
       IN  /\ files' = IF kept = {} THEN files ELSE written
           /\ IF kept = {} /\ ~refinedSpec
              THEN gen' = [gen EXCEPT !.attempt = @ + 1, !.pc = IF gen.attempt = 2 THEN "close" ELSE "plan"]
              ELSE gen' = [gen EXCEPT !.pc = "audit", !.direct = {}, !.expanded = {}, !.refined = TRUE]
    /\ UNCHANGED <<dagVars, standbyVars, phase, loop, outcome, rescue, verified, recorded, result, faults>>

\* The next pass: an audit of the files on disk, or planning if there are none; a pass
\* that refined nothing ends the loop.
NextRoadmapPass ==
    /\ gen.pc = "audit" /\ gen.todo = {}
    /\ gen' = IF gen.pass = Passes \/ (gen.pass >= 2 /\ ~gen.refined) THEN [gen EXCEPT !.pc = "close"]
              ELSE IF files = {} THEN [gen EXCEPT !.pc = "plan", !.pass = @ + 1, !.attempt = 0]
              ELSE [gen EXCEPT !.pc = "audit", !.pass = @ + 1, !.todo = files, !.refined = FALSE]
    /\ UNCHANGED <<dagVars, standbyVars, phase, files, loop, outcome, rescue, verified, recorded, result, faults>>

\* One audit worker: the story is good as it is and streamed again, refined and streamed
\* again, or the call fails and nothing happens.
AuditStory(s, verdict) ==
    /\ gen.pc = "audit" /\ s \in gen.todo
    /\ gen' = [gen EXCEPT !.todo = @ \ {s}, !.refined = @ \/ verdict = "refined"]
    /\ files' = IF verdict = "refined" THEN files \cup {s} ELSE files
    /\ IF verdict = "failed" THEN UNCHANGED dagVars ELSE AddStory(s)
    /\ UNCHANGED <<standbyVars, phase, loop, outcome, rescue, verified, recorded, result, faults>>

\* GenerateRoadmapStreaming closes the stream whatever happened.
GenerateRoadmapStreaming ==
    /\ gen.pc = "close"
    /\ gen' = [gen EXCEPT !.pc = "done"]
    /\ CloseStoryStream
    /\ UNCHANGED <<standbyVars, phase, files, loop, outcome, rescue, verified, recorded, result, faults>>

-----------------------------------------------------------------------------
(* runStart and runStoryIterationLoops. *)

\* No story files: the roadmap is generated and streamed.  Otherwise the files are the
\* roadmap, and a repository that knows stories makes the run a resumption.
Boot ==
    /\ phase = "boot"
    /\ phase' = "pass"
    /\ IF files = {}
       THEN /\ gen' = [NoGen EXCEPT !.pc = "plan", !.pass = 1]
            /\ loop' = [NoLoop EXCEPT !.idx = 1, !.total = TotalLoops]
            /\ stream' = [streaming |-> TRUE, closed |-> FALSE, pipelined |-> Pipelined /\ MaxConcurrent > 1]
            /\ exec' = [pc |-> "top", launched |-> FALSE]
            /\ UNCHANGED <<node, deps, signals, outcome>>
       ELSE /\ loop' = [NoLoop EXCEPT !.list = files, !.idx = 1, !.total = TotalLoops, !.resume = recorded]
            /\ outcome' = [s \in Stories |-> IF s \in files THEN "pending" ELSE "none"]
            /\ UNCHANGED <<dagVars, gen>>
    /\ UNCHANGED <<standbyVars, files, rescue, verified, recorded, result, faults>>

\* A pass over story files: stories verified in an earlier pass, or before a resumption,
\* are skipped.  Several stories and room for them make it a DAG pass, else sequential.
BeginPass ==
    /\ phase = "pass" /\ exec.pc = "idle" /\ loop.active = {}
    /\ LET active == loop.list \cap files
           skip == IF loop.idx > 1 \/ loop.resume THEN active \cap verified ELSE {}
       IN  IF active = {}
           THEN phase' = "check" /\ UNCHANGED <<dagVars, loop, outcome>>
           ELSE /\ phase' = IF MaxConcurrent > 1 /\ Cardinality(active) > 1 THEN "pass" ELSE "sequential"
                /\ loop' = [loop EXCEPT !.active = active, !.changed = FALSE]
                /\ outcome' = [s \in Stories |-> IF s \in skip THEN "ok" ELSE outcome[s]]
                /\ node' = NodesOf(active, skip) /\ deps' = DepsOf(active)
                /\ stream' = [streaming |-> FALSE, closed |-> FALSE, pipelined |-> Pipelined]
                /\ exec' = [pc |-> IF phase' = "pass" THEN "top" ELSE "idle", launched |-> FALSE]
                /\ UNCHANGED signals
    /\ UNCHANGED <<standbyVars, files, gen, rescue, verified, recorded, result, faults>>

\* What executing a story may come to: an error of one of two texts, or none; the tasks
\* of a story that returned an error may still all have passed.
Ends == [ret : {"ok"}, tasks : {TRUE}] \cup [ret : {"err", "stuck"}, tasks : BOOLEAN]

Executed(s, end) ==
    /\ outcome' = [outcome EXCEPT ![s] = end.ret]
    /\ verified' = IF end.tasks THEN verified \cup {s} ELSE verified \ {s}
    /\ recorded' = TRUE
    /\ loop' \in {loop, [loop EXCEPT !.changed = TRUE]}

\* processFunc of a DAG pass: a story whose file has vanished is skipped without an
\* outcome; otherwise it is executed and its result recorded.
processFunc(s, end) ==
    /\ phase = "pass" /\ s \in files
    /\ Executed(s, end)
    /\ StoryReturns(s, end.ret = "ok")
    /\ UNCHANGED <<standbyVars, phase, files, gen, rescue, result, faults>>

SkipVanished(s) ==
    /\ phase = "pass" /\ s \notin files
    /\ StoryReturns(s, TRUE)
    /\ UNCHANGED <<standbyVars, runVars, faults>>

\* The sequential pass takes the stories in file order; there a vanished one counts as done.
SequentialStory(end) ==
    /\ phase = "sequential"
    /\ LET todo == {s \in Stories : node[s] = "pending"}
           s == CHOOSE x \in todo : \A y \in todo : x <= y
       IN  /\ todo # {}
           /\ node' = [node EXCEPT ![s] = "success"]
           /\ IF s \in files THEN Executed(s, end)
              ELSE outcome' = [outcome EXCEPT ![s] = "ok"] /\ UNCHANGED <<verified, recorded, loop>>
    /\ UNCHANGED <<deps, stream, exec, signals, standbyVars, phase, files, gen, rescue, result, faults>>

\* The stories discovered after a streamed pass that nobody executed are pending.
Discovered == [s \in Stories |-> IF outcome[s] = "none" /\ s \in files THEN "pending" ELSE outcome[s]]

PassEnded == \/ phase = "pass" /\ exec.pc = "done" /\ signals = {}
             \/ phase = "sequential" /\ \A s \in Stories : node[s] # "pending"

FailureSignature == {<<s, outcome[s]>> : s \in {t \in Stories : outcome[t] \notin {"ok", "none"}}}

\* Mutant of EndStreamedPass: files the scheduler never saw keep no outcome.
EndStreamedPassUndiscovered ==
    /\ PassEnded /\ stream.streaming
    /\ phase' = "check"
    /\ loop' = [NoLoop EXCEPT !.list = files]
    /\ gen' = NoGen
    /\ SchedulerReset
    /\ UNCHANGED <<standbyVars, files, outcome, rescue, verified, recorded, result, faults>>

\* After a streamed pass there is no list of active files, so it counts as a success and
\* ends the loop; the files found on disk are what the run-level check looks at.
EndStreamedPass ==
    /\ PassEnded /\ stream.streaming /\ gen.pc = "done"
    /\ phase' = "check"
    /\ outcome' = Discovered
    /\ loop' = [NoLoop EXCEPT !.list = files]
    /\ gen' = NoGen
    /\ SchedulerReset
    /\ UNCHANGED <<standbyVars, files, rescue, verified, recorded, result, faults>>

\* A pass ends: all succeeded; or the code and the failures are those of the pass before;
\* or another pass, the last one extending the loop, twice at most, when tasks are pending.
EndPass(pendingTasks) ==
    /\ PassEnded /\ ~stream.streaming
    /\ LET stagnant == loop.idx > 1 /\ ~loop.changed /\ FailureSignature = loop.sig
           extend == loop.idx = loop.total /\ loop.ext < 2 /\ pendingTasks
           again == loop.idx < loop.total \/ extend
       IN  IF (\A s \in loop.active : outcome[s] = "ok") \/ stagnant \/ ~again
           THEN phase' = "check" /\ loop' = [NoLoop EXCEPT !.list = loop.list]
           ELSE /\ phase' = "pass"
                /\ loop' = [loop EXCEPT !.active = {}, !.sig = FailureSignature, !.idx = @ + 1,
                                        !.total = IF extend THEN @ + 1 ELSE @,
                                        !.ext = IF extend THEN @ + 1 ELSE @]
    /\ SchedulerReset
    /\ UNCHANGED <<standbyVars, files, gen, outcome, rescue, verified, recorded, result, faults>>

\* DispatchSovereignRescue: the configured turns, or for acceptance gaps one each, five at
\* least, but never more than configured.  HEAD, which passes the gates up to lvl, is the
\* baseline whether or not its tests pass.
DispatchSovereignRescue(gaps, lvl) ==
    LET wanted == IF gaps = 0 THEN RescueTurns ELSE IF gaps < 5 THEN 5 ELSE gaps
    IN  [NoRescue EXCEPT !.turn = 1, !.max = IF wanted > RescueTurns THEN RescueTurns ELSE wanted,
                         !.head = <<0, lvl>>, !.best = <<0, lvl>>, !.next = 1]

\* The run-level check: an error the repository does not contradict is a failed story.
RunLevelCheck(lvl) ==
    /\ phase = "check"
    /\ LET failed == {s \in loop.list : outcome[s] \notin {"ok", "none"}} \ verified
       IN  IF failed = {} THEN phase' = "gate" /\ UNCHANGED <<rescue, result>>
           ELSE IF ~RescueEnabled THEN phase' = "done" /\ result' = "failed" /\ UNCHANGED rescue
           ELSE /\ phase' = "rescue" /\ UNCHANGED result
                /\ rescue' = [DispatchSovereignRescue(0, lvl) EXCEPT !.failed = failed]
    /\ outcome' = NoOutcome
    /\ loop' = [NoLoop EXCEPT !.list = loop.list]
    /\ UNCHANGED <<dagVars, standbyVars, files, gen, verified, recorded, faults>>

-----------------------------------------------------------------------------
(* The sovereign rescue.  A commit is <<number, level>>; the level counts the gates it *)
(* passes in the order they are asked: unit tests, E2E, anti-stub, acceptance audit.   *)

Gates == IF rescue.audit THEN 4 ELSE 3
unit(commit) == commit[2] >= 1

\* A turn whose LLM call fails: the first ones are refunded, the others cost their turn.
RescueCallFails ==
    /\ phase = "rescue" /\ rescue.turn \in 1..rescue.max
    /\ rescue' = IF rescue.grace < GraceRefunds THEN [rescue EXCEPT !.grace = @ + 1]
                 ELSE [rescue EXCEPT !.turn = @ + 1]
    /\ UNCHANGED <<dagVars, standbyVars, phase, files, gen, loop, outcome, verified, recorded, result, faults>>

\* A turn: its actions are committed, the gates asked; all passed completes the stories,
\* unit tests alone move the baseline, a broken turn with tool errors is reset to it; the
\* oscillation breaker may stop the rescue on the spot.
RescueTurn(lvl, changed, toolErrors) ==
    /\ phase = "rescue" /\ rescue.turn \in 1..rescue.max
    /\ LET head == IF changed THEN <<rescue.next, lvl>> ELSE rescue.head
           best == IF unit(head) THEN head ELSE rescue.best
           kept == IF ~unit(head) /\ toolErrors THEN rescue.best ELSE head
           log == [failure |-> head[2], turn |-> rescue.turn]
       IN  IF head[2] >= Gates
           THEN /\ phase' = IF rescue.audit THEN "regate" ELSE "gate"
                /\ verified' = verified \cup rescue.failed
                /\ rescue' = [NoRescue EXCEPT !.audit = rescue.audit, !.head = head]
                /\ UNCHANGED result
           ELSE IF OscillationDecision(rescue.osc, log) = "trip"
           THEN /\ phase' = "done" /\ result' = "failed" /\ UNCHANGED verified
                /\ rescue' = [NoRescue EXCEPT !.head = kept, !.best = best]
           ELSE /\ rescue' = [rescue EXCEPT !.turn = @ + 1, !.head = kept, !.next = @ + 1,
                                            !.best = best, !.osc = RecordFailure(@, log)]
                /\ UNCHANGED <<phase, verified, result>>
    /\ UNCHANGED <<dagVars, standbyVars, files, gen, loop, outcome, recorded, faults>>

\* Mutant of RescueExhausted: the workspace stays as the last turn left it.
RescueExhaustedAsIs ==
    /\ phase = "rescue" /\ rescue.turn > rescue.max
    /\ phase' = "done" /\ result' = "exhausted"
    /\ rescue' = [NoRescue EXCEPT !.head = rescue.head, !.best = rescue.best]
    /\ UNCHANGED <<dagVars, standbyVars, files, gen, loop, outcome, verified, recorded, faults>>

\* The turns are used up: HEAD that is not the best commit and fails its unit tests is
\* reset to the best one.
RescueExhausted ==
    /\ phase = "rescue" /\ rescue.turn > rescue.max
    /\ phase' = "done" /\ result' = "exhausted"
    /\ LET head == IF rescue.head # rescue.best /\ ~unit(rescue.head) THEN rescue.best ELSE rescue.head
       IN  rescue' = [NoRescue EXCEPT !.head = head, !.best = rescue.best]
    /\ UNCHANGED <<dagVars, standbyVars, files, gen, loop, outcome, verified, recorded, faults>>

-----------------------------------------------------------------------------
(* The acceptance gate, standby, and the environment. *)

\* RunWholeProjectAcceptanceGate: a repository or an audit that fails lets the run pass;
\* gaps are remediated by a rescue that must also pass the audit.
AcceptanceGate(verdict, gaps, lvl) ==
    /\ phase = "gate"
    /\ CASE verdict \in {"passed", "error"} ->
                phase' = (IF WantStandby THEN "enter" ELSE "done") /\ result' = "success" /\ rescue' = NoRescue
         [] verdict = "gaps" /\ RescueEnabled ->
                /\ phase' = "rescue" /\ UNCHANGED result
                /\ rescue' = [DispatchSovereignRescue(gaps, lvl) EXCEPT !.audit = TRUE]
         [] OTHER -> phase' = "done" /\ result' = "failed" /\ rescue' = NoRescue
    /\ UNCHANGED <<dagVars, standbyVars, files, gen, loop, outcome, verified, recorded, faults>>

\* The audit is run once more after a successful remediation; its error is a failure now.
ReAudit(passed) ==
    /\ phase = "regate"
    /\ phase' = IF passed /\ WantStandby THEN "enter" ELSE "done"
    /\ result' = IF passed THEN "success" ELSE "failed"
    /\ rescue' = NoRescue
    /\ UNCHANGED <<dagVars, standbyVars, files, gen, loop, outcome, verified, recorded, faults>>

runStandbyMode ==
    /\ phase = "enter"
    /\ phase' = "standby"
    /\ EnterStandby
    /\ UNCHANGED <<dagVars, files, gen, loop, outcome, rescue, verified, recorded, result, faults>>

\* The watcher's goroutine, the engine's, and the loop that sends an order.
Watch(fired) == phase = "standby" /\ scanFiles(fired) /\ UNCHANGED <<dagVars, runVars, faults>>
Serve == phase = "standby" /\ (TakeItem \/ processStoryWorkItem) /\ UNCHANGED <<dagVars, runVars, faults>>
SendOrder == phase = "standby" /\ (\E o \in Orders : QueueOrder(o)) /\ UNCHANGED <<dagVars, runVars, faults>>

StandbyStep == (\E fired \in SUBSET pending : Watch(fired)) \/ Serve \/ SendOrder

\* The developer: posts an order, edits a story, deletes one.
Developer ==
    \/ /\ phase = "standby" /\ \E o \in Orders : PostOrder(o)
       /\ UNCHANGED <<dagVars, runVars, faults>>
    \/ /\ phase = "standby" /\ faults.edits < MaxEdits
       /\ \E f \in files : Edit(f)
       /\ faults' = [faults EXCEPT !.edits = @ + 1]
       /\ UNCHANGED <<dagVars, runVars>>
    \/ /\ faults.bad < MaxFaults /\ phase \in {"pass", "sequential"} /\ ~stream.streaming
       /\ \E f \in files : files' = files \ {f}
       /\ faults' = [faults EXCEPT !.bad = @ + 1]
       /\ UNCHANGED <<dagVars, standbyVars, phase, gen, loop, outcome, rescue, verified, recorded, result>>

\* SIGINT or SIGTERM: os.Exit, and the developer starts noctifab again.
Crash ==
    /\ faults.bad < MaxFaults /\ phase \notin {"boot", "done"}
    /\ faults' = [faults EXCEPT !.bad = @ + 1]
    /\ phase' = "boot" /\ result' = "none"
    /\ gen' = NoGen /\ loop' = NoLoop /\ outcome' = NoOutcome /\ rescue' = NoRescue
    /\ SchedulerReset /\ StandbyLost
    /\ UNCHANGED <<files, verified, recorded>>

-----------------------------------------------------------------------------
Init ==
    /\ NewScheduler(FALSE, FALSE) /\ NewStandby
    /\ phase = "boot" /\ files \in {{}, Stories}
    /\ gen = NoGen /\ loop = NoLoop /\ outcome = NoOutcome /\ rescue = NoRescue
    /\ verified = {} /\ recorded = FALSE /\ result = "none"
    /\ faults = [bad |-> 0, edits |-> 0]

RoadmapStep ==
    \/ \E d, o \in SUBSET Stories : PlanRoadmap(d, o)
    \/ PlanFails
    \/ \E s \in Stories : ExpandRoadmapStory(s)
    \/ \E refinedSpec \in BOOLEAN, kind \in [Stories -> {Legacy, Feature, Hardening}] :
          SanitizeAndCapStories(refinedSpec, kind)
    \/ NextRoadmapPass
    \/ \E s \in Stories, v \in {"good", "refined", "failed"} : AuditStory(s, v)
    \/ GenerateRoadmapStreaming

ExecuteStep == (ExecuteTop \/ ExecuteRejoin) /\ UNCHANGED <<standbyVars, runVars, faults>>
SignalStep == \E s \in Stories : Signal(s) /\ UNCHANGED <<standbyVars, runVars, faults>>
StoryStep(s) == SkipVanished(s) \/ \E end \in Ends : processFunc(s, end)

MainStep ==
    \/ Boot \/ BeginPass
    \/ \E end \in Ends : SequentialStory(end)
    \/ EndStreamedPass
    \/ \E p \in BOOLEAN : EndPass(p)
    \/ \E lvl \in Levels : RunLevelCheck(lvl)
    \/ RescueCallFails
    \/ \E lvl \in Levels, a, e \in BOOLEAN : RescueTurn(lvl, a, e)
    \/ RescueExhausted
    \/ \E v \in {"passed", "error", "gaps"}, g \in 1..MaxGaps, lvl \in Levels : AcceptanceGate(v, g, lvl)
    \/ \E p \in BOOLEAN : ReAudit(p)
    \/ runStandbyMode

Next ==
    \/ RoadmapStep \/ ExecuteStep \/ SignalStep \/ (\E s \in Stories : StoryStep(s))
    \/ MainStep \/ StandbyStep \/ Developer \/ Crash

\* Every goroutine keeps running, LLM calls and commands have timeouts, and the watcher's
\* ticker and debounce interval pass, so a pending event does not stay unfired for ever.
Spec ==
    /\ Init /\ [][Next]_vars
    /\ WF_vars(RoadmapStep) /\ WF_vars(ExecuteStep) /\ WF_vars(SignalStep) /\ WF_vars(MainStep)
    /\ \A s \in Stories : WF_vars(StoryStep(s))
    /\ WF_vars(Serve) /\ WF_vars(SendOrder) /\ WF_vars(\E fired \in SUBSET pending : Watch(fired))
    /\ \A f \in Stories : WF_vars(\E fired \in SUBSET pending : f \in fired /\ Watch(fired))

-----------------------------------------------------------------------------
\* No story is started before the foundation story US-001 has succeeded, in whatever
\* order the roadmap workers stream them and whatever the texts depend on.
FoundationFirst ==
    stream.streaming /\ ~stream.pipelined =>
        \A s \in Stories \ {1} : node[s] \in {"running", "success", "failed"} => node[1] = "success"

\* A run reported as a success has, for every story file on disk, the record of a story
\* all of whose tasks passed, or of a rescue that passed the gates: stories purged while
\* they ran, created without being streamed, skipped on a resumption or left by a crash
\* included.
SuccessIsEarned == phase = "gate" \/ result = "success" => loop.list \cap files \subseteq verified

\* When the rescue runs out of turns it leaves a workspace that passes its unit tests if
\* any of its commits, or its baseline, did.
RescueKeepsGreen == result = "exhausted" /\ unit(rescue.best) => unit(rescue.head)

\* Every run ends: the stream is closed, lost wake-ups only delay the scheduler, the loop
\* extensions, the rescue turns and their refunds are bounded.
RunEnds == phase = "boot" ~> phase \in {"standby", "done"}

\* An edit of a watched story is executed by an execution that starts after it: edited
\* again while its event is debounced, while it is queued or while it is executed, and
\* whatever was lost before.  It can only be lost when the process ends, or when its event
\* fires at a queue full of other items; the next edit of the file makes up for that.
EditsExecuted == \A f \in Stories : f \in stale ~> (f \notin stale \/ f \in dropped)
=============================================================================
