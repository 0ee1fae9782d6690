---------------------------- MODULE TaskDispatch ----------------------------
(***************************************************************************)
(* The dispatch core: story executors that drive Orchestrator.RunOnce, the *)
(* continuous dispatch loop, the task workers it launches, the deadlock    *)
(* rescue, and the stall watchdog that sends corrective commands through   *)
(* the command mailbox.  All of them share one persisted state (db) and    *)
(* one file lock registry (locks).                                         *)
(*                                                                         *)
(* An access to the persisted state is one step: Load is a step that       *)
(* copies db, updateStateWithRetry is a step that changes it.  What runs   *)
(* between two accesses (an LLM turn, a test run, a git merge) takes       *)
(* arbitrarily long, so every other process may move in between.           *)
(***************************************************************************)
EXTENDS Scheduler, Sequences

CONSTANTS
    Orchs,          \* story executors, each with its own Orchestrator
    StoryRun,       \* StoryRun[o]: the story executor o runs
    InitDeps,       \* InitDeps[t]: the dependencies the planner declared
    InitMaxRetries, \* InitMaxRetries[t]: MaxRetries the planner set, 0 if none
    Unplanned,      \* tokens that name no planned task, and remediation tasks
    Remedial,       \* the tasks of Unplanned the story QA gate may add
    Concurrency,    \* cfg.Concurrency
    CfgMaxRetries,  \* cfg.MaxRetries
    FallbackEnabled,\* cfg.GetFallback().Enabled
    GreenStart,     \* whether the planned tasks may already pass validation
    WatchdogRetries,\* the watchdog's own retry limit, 0 if none
    MaxCmds,        \* bound: commands waiting in the mailbox
    Conditions      \* the conditions a run may be under, see ConditionSet

FaultKinds ==
    { "plan",     \* the planner returns no valid plan, or saving fails
      "mark",     \* loading the task, or persisting IN_PROGRESS, fails
      "setup",    \* creating the task worktree fails
      "agent",    \* persisting the end of an agent fails
      "fail",     \* an attempt does not pass
      "sandbox",  \* validation fails for a missing toolchain or sandbox
      "persist",  \* persisting the outcome fails (30 minute deadline, OCC)
      "audit" }   \* a story QA or acceptance audit reports gaps

\* What is fixed before the run starts: how many stories run at once
\* (agents.orchestrator.number; two when it is not set and worktrees are used),
\* whether the stall watchdog runs and asks the model, whether a budget
\* ceiling may be crossed, the failures that may happen, and the unresolved
\* clarifications of the loaded state.
ConditionSet ==
    [ stories  : Nat \ {0},
      watchdog : {"off", "heuristic", "model"},
      ceilings : BOOLEAN,
      faults   : SUBSET FaultKinds,
      clar     : SUBSET (Tasks \cup {Global}) ]

ASSUME OrchsAssumption == StoryRun \in [Orchs -> Stories]
ASSUME InitDepsAssumption == InitDeps \in [Tasks -> SUBSET Tasks]
ASSUME InitMaxRetriesAssumption == InitMaxRetries \in [Tasks -> Nat]
ASSUME UnplannedAssumption == Unplanned \subseteq Tasks /\ Remedial \subseteq Unplanned
ASSUME ConcurrencyAssumption == Concurrency \in Nat \ {0}
ASSUME CfgMaxRetriesAssumption == CfgMaxRetries \in Nat \ {0}
ASSUME SwitchAssumption ==
    /\ FallbackEnabled \in BOOLEAN
    /\ GreenStart \in BOOLEAN
    /\ WatchdogRetries \in Nat
    /\ MaxCmds \in Nat
ASSUME ConditionsAssumption == Conditions \subseteq ConditionSet

VARIABLES
    env,       \* the conditions of this run
    db,        \* the persisted domain.State
    locks,     \* FileLockRegistry.locks, shared by every orchestrator
    released,  \* stories for which FinalizeUserStory completed
    exceeded,  \* a duration, token or silent-stall ceiling is crossed
    cmds,      \* watchdog commands waiting in the mailbox
    opc,       \* opc[o]: where executor o is
    phase,     \* phase[o]: which RunOnce call of the executor it is in
    snap,      \* snap[o]: the state o loaded last, while it still uses it
    inflight,  \* inflight[o]: tasks dispatchContinuously waits for
    exit,      \* exit[o]: what the executor returned
    wpc,       \* wpc[o][t]: where o's worker for task t is
    wret,      \* wret[o][t]: Retries and MaxRetries the worker loaded
    contended, \* history: tasks in which two executors have met
    leaked     \* history: tasks whose locks were left behind

workerVars == << wpc, wret >>
history == << contended, leaked >>
vars == << env, db, locks, released, exceeded, cmds, opc, phase, snap, inflight, exit,
           wpc, wret, contended, leaked >>

\* The state before the first story is planned; a snapshot that is no longer
\* used is set back to it.
InitState ==
    [ status      |-> [t \in Tasks |-> "ABSENT"],
      retries     |-> [t \in Tasks |-> 0],
      maxRetries  |-> InitMaxRetries,
      stall       |-> [t \in Tasks |-> 0],
      deps        |-> InitDeps,
      marked      |-> {},
      working     |-> {},
      clar        |-> {},
      storyStatus |-> "IDLE",
      current     |-> 0,
      stories     |-> [s \in Stories |-> "IDLE"] ]
NoRet == [retries |-> 0, max |-> 0]

\* A worker goroutine exists from its launch until the dispatch loop has
\* received its completion.
Live(o, t) == wpc[o][t] # "none"
\* A worker that can still write to the files of its task.
Active(o, t) == wpc[o][t] \notin {"none", "done"}
InHand(t) == \E o \in Orchs : Active(o, t)

\* Two executors meet in a task: one takes it up while a worker, of another
\* executor, has it in hand, or after it was merged; or re-queues a task that
\* is already there or belongs to the story of another executor.
Meet(ts) == contended' = contended \cup ts

WorkerLabels == {"none", "load", "mark", "setup", "agentdone",
                 "persist", "release", "done"}

Commands == [op : {"reset", "fail", "bypass", "clear"}, task : Tasks]

TypeOK ==
    /\ env \in Conditions
    /\ db \in State
    /\ locks \in [Files -> Tasks \cup {None}]
    /\ released \subseteq Stories
    /\ exceeded \in BOOLEAN
    /\ cmds \in Seq(Commands)
    /\ opc \in [Orchs -> {"idle", "plan", "load", "sched", "rescue", "heal",
                          "drain", "refill", "check", "probe", "green", "record",
                          "exited"}]
    /\ phase \in [Orchs -> {"first", "loop", "gate"}]
    /\ snap \in [Orchs -> State]
    /\ inflight \in [Orchs -> SUBSET Tasks]
    /\ exit \in [Orchs -> {"none", "ok", "unsaved", "failed"}]
    /\ wpc \in [Orchs -> [Tasks -> WorkerLabels]]
    /\ wret \in [Orchs -> [Tasks -> [retries : Nat, max : Nat]]]
    /\ contended \subseteq Tasks
    /\ leaked \subseteq Tasks

Init ==
    /\ env \in Conditions
    /\ db = [InitState EXCEPT !.clar = env.clar]
    /\ locks = NoLocks
    /\ released = {}
    /\ exceeded = FALSE
    /\ cmds = << >>
    /\ opc = [o \in Orchs |-> "idle"]
    /\ phase = [o \in Orchs |-> "first"]
    /\ snap = [o \in Orchs |-> InitState]
    /\ inflight = [o \in Orchs |-> {}]
    /\ exit = [o \in Orchs |-> "none"]
    /\ wpc = [o \in Orchs |-> [t \in Tasks |-> "none"]]
    /\ wret = [o \in Orchs |-> [t \in Tasks |-> NoRet]]
    /\ contended = {}
    /\ leaked = {}
-----------------------------------------------------------------------------
(***************************************************************************)
(* The story executor.                                                     *)
(***************************************************************************)
PlannedFor(s) == {t \in Tasks \ Unplanned : StoryOf[t] = s}
StoryTasks(st, s) == {t \in Present(st) : StoryOf[t] = s}

GoTo(o, label) == opc' = [opc EXCEPT ![o] = label]

Running(o) == opc[o] \notin {"idle", "exited"}

\* The iteration loop: stories start in order, at most env.stories
\* of them at once, whatever became of the earlier ones.
MayStart(o) ==
    /\ Cardinality({p \in Orchs : Running(p)}) < env.stories
    /\ \A p \in Orchs : StoryRun[p] < StoryRun[o] => opc[p] # "idle"

\* The executor points the shared metadata at its story and marks it RUNNING.
StartStory(o) ==
    /\ opc[o] = "idle"
    /\ MayStart(o)
    /\ db' = [db EXCEPT !.current = StoryRun[o],
                        !.storyStatus = "RUNNING",
                        !.stories[StoryRun[o]] = "RUNNING"]
    /\ GoTo(o, "plan")
    /\ UNCHANGED << env, locks, released, exceeded, cmds, phase, snap,
                    inflight, exit, workerVars, history >>

\* The save that starts the story fails, or meets the save of another story.
StartError(o) ==
    /\ opc[o] = "idle"
    /\ MayStart(o)
    /\ "plan" \in env.faults
    /\ exit' = [exit EXCEPT ![o] = "failed"]
    /\ GoTo(o, "record")
    /\ UNCHANGED << env, db, locks, released, exceeded, cmds, phase, snap,
                    inflight, workerVars, history >>

\* PlanStory persists the planned tasks unless the story already has some.
PlanStory(o) ==
    /\ opc[o] = "plan"
    /\ db' = IF StoryTasks(db, StoryRun[o]) # {} THEN db
             ELSE [db EXCEPT !.status =
                     [t \in Tasks |-> IF t \in PlannedFor(StoryRun[o])
                                      THEN "PENDING" ELSE db.status[t]]]
    /\ GoTo(o, IF GreenStart THEN "probe" ELSE "load")
    /\ UNCHANGED << env, locks, released, exceeded, cmds, phase, snap,
                    inflight, exit, workerVars, history >>

\* The executor returns the error: the story has no tasks, and the next one
\* still starts.
PlanError(o) ==
    /\ opc[o] = "plan"
    /\ "plan" \in env.faults
    /\ exit' = [exit EXCEPT ![o] = "failed"]
    /\ GoTo(o, "record")
    /\ UNCHANGED << env, db, locks, released, exceeded, cmds, phase, snap,
                    inflight, workerVars, history >>

\* The executor loads the planned tasks and validates them.
ProbeLoad(o) ==
    /\ opc[o] = "probe"
    /\ snap' = [snap EXCEPT ![o] = db]
    /\ GoTo(o, "green")
    /\ UNCHANGED << env, db, locks, released, exceeded, cmds, phase,
                    inflight, exit, workerVars, history >>

\* Every task already passes: the loaded state is saved with the story and
\* its tasks SUCCESS.
FastExit(o) ==
    /\ opc[o] = "green"
    /\ GreenStart
    /\ StoryTasks(snap[o], StoryRun[o]) # {}
    /\ \A t \in StoryTasks(snap[o], StoryRun[o]) : TargetFiles[t] # {}
    /\ db = snap[o]
    /\ db' = [db EXCEPT !.status = [t \in Tasks |->
                  IF t \in StoryTasks(db, StoryRun[o]) THEN "SUCCESS" ELSE @[t]],
                !.stories[StoryRun[o]] = "SUCCESS"]
    /\ exit' = [exit EXCEPT ![o] = "ok"]
    /\ GoTo(o, "record")
    /\ snap' = [snap EXCEPT ![o] = InitState]
    /\ Meet({t \in StoryTasks(db, StoryRun[o]) : InHand(t)})
    /\ UNCHANGED << env, locks, released, exceeded, cmds, phase, inflight,
                    workerVars, leaked >>

\* The same when the save meets a newer version: nothing is saved, the error
\* is dropped and the executor reports success all the same.
FastExitUnsaved(o) ==
    /\ opc[o] = "green"
    /\ GreenStart
    /\ StoryTasks(snap[o], StoryRun[o]) # {}
    /\ \A t \in StoryTasks(snap[o], StoryRun[o]) : TargetFiles[t] # {}
    /\ db # snap[o]
    /\ exit' = [exit EXCEPT ![o] = "unsaved"]
    /\ GoTo(o, "record")
    /\ snap' = [snap EXCEPT ![o] = InitState]
    /\ UNCHANGED << env, db, locks, released, exceeded, cmds, phase,
                    inflight, workerVars, history >>

NotGreen(o) ==
    /\ opc[o] = "green"
    /\ GoTo(o, "load")
    /\ snap' = [snap EXCEPT ![o] = InitState]
    /\ UNCHANGED << env, db, locks, released, exceeded, cmds, phase,
                    inflight, exit, workerVars, history >>

\* The iteration loop records what the executor returned.  A pass that streams
\* records nothing, and a save that meets another one is dropped.
RecordOutcome(o) ==
    /\ opc[o] = "record"
    /\ db' \in {db, [db EXCEPT !.stories[StoryRun[o]] =
                        IF exit[o] = "failed" THEN "FAILED" ELSE "SUCCESS"]}
    /\ GoTo(o, "exited")
    /\ UNCHANGED << env, locks, released, exceeded, cmds, phase, snap,
                    inflight, exit, workerVars, history >>

\* RunOnce returns: the first call goes straight to the next one, every later
\* call is followed by the completion check.
Return(o) ==
    /\ opc' = [opc EXCEPT ![o] = IF phase[o] = "first" THEN "load" ELSE "check"]
    /\ phase' = [phase EXCEPT ![o] = IF @ = "first" THEN "loop" ELSE @]
    /\ snap' = [snap EXCEPT ![o] = InitState]

\* Mutant of StoryDone: one finished task is enough.
StoryDoneAny(o) ==
    \E t \in StoryTasks(db, StoryRun[o]) : Finished(db, t)

StoryDone(o) ==
    /\ StoryTasks(db, StoryRun[o]) # {}
    /\ \A t \in StoryTasks(db, StoryRun[o]) : Finished(db, t)

\* The loop body after RunOnce: keep looping, call RunOnce once more for the
\* finalization gates, or return.
CheckStory(o) ==
    /\ opc[o] = "check"
    /\ \/ /\ ~StoryDone(o)
          /\ phase' = [phase EXCEPT ![o] = "loop"]
          /\ GoTo(o, "load")
          /\ exit' = exit
       \/ /\ StoryDone(o)
          /\ phase[o] = "loop"
          /\ db.storyStatus \in {"IDLE", "RUNNING"}
          /\ phase' = [phase EXCEPT ![o] = "gate"]
          /\ GoTo(o, "load")
          /\ exit' = exit
       \/ /\ StoryDone(o)
          /\ phase[o] = "gate" \/ db.storyStatus \notin {"IDLE", "RUNNING"}
          /\ exit' = [exit EXCEPT ![o] =
                IF \/ \E t \in StoryTasks(db, StoryRun[o]) : db.status[t] = "FAILED"
                   \/ db.stories[StoryRun[o]] = "FAILED"
                THEN "failed" ELSE "ok"]
          /\ GoTo(o, "record")
          /\ phase' = [phase EXCEPT ![o] = "first"]
    /\ UNCHANGED << env, db, locks, released, exceeded, cmds, snap, inflight,
                    workerVars, history >>
-----------------------------------------------------------------------------
(***************************************************************************)
(* RunOnce.                                                                *)
(***************************************************************************)
RunOnceLoad(o) ==
    /\ opc[o] = "load"
    /\ snap' = [snap EXCEPT ![o] = db]
    /\ GoTo(o, "sched")
    /\ UNCHANGED << env, db, locks, released, exceeded, cmds, phase,
                    inflight, exit, workerVars, history >>

\* GetReadyTasks on the snapshot; the selected tasks are locked.
Schedule(o, st, slots, picked) ==
    /\ IsReadySet(st, locks, slots, picked)
    /\ locks' = AcquireLocks(locks, picked)

FreeSlots(st) == IF Cardinality(st.working) >= Concurrency THEN 0
                 ELSE Concurrency - Cardinality(st.working)

\* Mutant of FailOpenTasks: the story fails but its tasks stay open.
FailStoryOnly(st) == [st EXCEPT !.storyStatus = "FAILED"]

\* Every task that is neither SUCCESS nor FAILED fails, and so does the story.
FailOpenTasks(st) ==
    LET open == {t \in Present(st) : ~Finished(st, t)}
    IN  [st EXCEPT !.status = [t \in Tasks |-> IF t \in open THEN "FAILED" ELSE st.status[t]],
                   !.marked = @ \ open,
                   !.storyStatus = "FAILED"]

CeilingHit(o) ==
    /\ exceeded
    /\ Present(snap[o]) # {}
    /\ ~AllTasksFinished(snap[o])

\* The selection has locked its files when the ceiling is looked at: nothing is
\* launched and the locks stay.
RunOnceCeilingAbort(o) ==
    /\ opc[o] = "sched"
    /\ CeilingHit(o)
    /\ \E picked \in SUBSET Tasks :
          /\ Schedule(o, snap[o], FreeSlots(snap[o]), picked)
          /\ leaked' = leaked \cup picked
    /\ db' = FailOpenTasks(db)
    /\ Return(o)
    /\ UNCHANGED << env, released, exceeded, cmds, inflight, exit,
                    workerVars, contended >>

\* dispatch(): launch a worker per task, skipping those in flight and those
\* beyond the concurrency limit.
Launchable(o, picked) ==
    LET fresh == picked \ inflight[o]
    IN  {t \in fresh : Cardinality(inflight[o])
                         + Cardinality({u \in fresh : u < t}) < Concurrency}

Launch(o, ts) ==
    /\ inflight' = [inflight EXCEPT ![o] = @ \cup ts]
    /\ wpc' = [wpc EXCEPT ![o] = [t \in Tasks |-> IF t \in ts THEN "load" ELSE @[t]]]
    /\ Meet({t \in ts : InHand(t) \/ db.status[t] = "SUCCESS"})

RunOnceDispatch(o) ==
    /\ opc[o] = "sched"
    /\ ~CeilingHit(o)
    /\ \E picked \in SUBSET Tasks \ {{}} :
          /\ Schedule(o, snap[o], FreeSlots(snap[o]), picked)
          /\ Launch(o, Launchable(o, picked))
    /\ GoTo(o, "drain")
    /\ snap' = [snap EXCEPT ![o] = InitState]
    /\ UNCHANGED << env, db, released, exceeded, cmds, phase, exit, wret,
                    leaked >>

NothingReady(o) ==
    /\ opc[o] = "sched"
    /\ ~CeilingHit(o)
    /\ IsReadySet(snap[o], locks, FreeSlots(snap[o]), {})

Finalizable(o) ==
    AllTasksFinished(snap[o]) /\ snap[o].storyStatus \in {"IDLE", "RUNNING"}

\* The finalization branch when no gate asks for more work: the build is OK
\* only when every task of the current story succeeded, and may still be
\* rejected by work verification, the audits or FinalizeUserStory itself.
RunOnceFinalize(o) ==
    /\ NothingReady(o)
    /\ Finalizable(o)
    /\ \E verdict \in {"SUCCESS", "FAILED"} :
          /\ verdict = "SUCCESS" => AllTasksSucceeded(snap[o])
          /\ verdict = "FAILED" /\ AllTasksSucceeded(snap[o]) => "audit" \in env.faults
          /\ db' = [db EXCEPT !.storyStatus = verdict,
                              !.stories = [s \in Stories |->
                                 IF s = snap[o].current THEN verdict ELSE @[s]]]
          /\ released' = IF verdict = "SUCCESS"
                         THEN released \cup ({snap[o].current} \cap Stories)
                         ELSE released
    /\ Return(o)
    /\ UNCHANGED << env, locks, exceeded, cmds, inflight, exit, workerVars,
                    history >>

\* The story QA gate reports gaps and persists a remediation task that
\* depends on every task of the story; at most one per story.
RunOnceRemediate(o) ==
    /\ NothingReady(o)
    /\ Finalizable(o)
    /\ AllTasksSucceeded(snap[o])
    /\ "audit" \in env.faults
    /\ StoryTasks(snap[o], snap[o].current) \cap Remedial = {}
    /\ \E t \in Remedial :
          /\ StoryOf[t] = snap[o].current
          /\ db' = [db EXCEPT !.status[t] = "PENDING",
                              !.deps[t] = StoryTasks(snap[o], snap[o].current)]
          /\ Meet({t} \cap {u \in Tasks : \/ db.status[u] # "ABSENT"
                                         \/ \E p \in Orchs \ {o} : StoryRun[p] = StoryOf[u]})
    /\ Return(o)
    /\ UNCHANGED << env, locks, released, exceeded, cmds, inflight, exit,
                    workerVars, leaked >>

\* RunOnce returns without a verdict and without a persisted change: the
\* sovereign rescue repaired the story in place, or the acceptance audit
\* queued its remediation task on the local copy of the state only.
RunOnceGateOpen(o) ==
    /\ NothingReady(o)
    /\ Finalizable(o)
    /\ AllTasksSucceeded(snap[o])
    /\ "audit" \in env.faults
    /\ Return(o)
    /\ UNCHANGED << env, db, locks, released, exceeded, cmds, inflight, exit,
                    workerVars, history >>

\* handleDeadlockOrRescue returns at once while work is finished or running.
NoDeadlock(st) ==
    \/ AllTasksFinished(st)
    \/ st.working # {}
    \/ \E t \in Tasks : st.status[t] = "IN_PROGRESS"
    \/ Present(st) = {}

RunOnceIdle(o) ==
    /\ NothingReady(o)
    /\ ~Finalizable(o)
    /\ NoDeadlock(snap[o])
    /\ Return(o)
    /\ UNCHANGED << env, db, locks, released, exceeded, cmds, inflight, exit,
                    workerVars, history >>

\* The first FAILED task without the deadlock marker.
IsRescueCandidate(st, t) ==
    /\ st.status[t] = "FAILED"
    /\ t \notin st.marked
    /\ \A u \in Tasks : u < t => ~(st.status[u] = "FAILED" /\ u \notin st.marked)

RunOnceDeadlock(o) ==
    /\ NothingReady(o)
    /\ ~Finalizable(o)
    /\ ~NoDeadlock(snap[o])
    /\ GoTo(o, IF FallbackEnabled /\ \E t \in Tasks : IsRescueCandidate(snap[o], t)
               THEN "rescue" ELSE "heal")
    /\ UNCHANGED << env, db, locks, released, exceeded, cmds, phase, snap,
                    inflight, exit, workerVars, history >>

RescuePass(o) ==
    /\ opc[o] = "rescue"
    /\ \E t \in Tasks :
          /\ IsRescueCandidate(snap[o], t)
          /\ db' = [db EXCEPT !.status[t] = "SUCCESS", !.marked = @ \ {t}]
          /\ Meet({t} \cap {u \in Tasks : InHand(u)})
    /\ Return(o)
    /\ UNCHANGED << env, locks, released, exceeded, cmds, inflight, exit,
                    workerVars, leaked >>

RescueFail(o) ==
    /\ opc[o] = "rescue"
    /\ \E t \in Tasks :
          /\ IsRescueCandidate(snap[o], t)
          /\ db' = [db EXCEPT !.marked = @ \cup {t}]
    /\ GoTo(o, "heal")
    /\ UNCHANGED << env, locks, released, exceeded, cmds, phase, snap,
                    inflight, exit, workerVars, history >>

\* UnblockIndependentTasks: the failed dependencies of a pending task that
\* belong to another story and share no target file with it.
Prunable(st, t) ==
    {d \in db.deps[t] :
        /\ db.status[t] = "PENDING"
        /\ st.status[d] = "FAILED"
        /\ StoryOf[t] # 0 /\ StoryOf[d] # 0 /\ StoryOf[t] # StoryOf[d]
        /\ TargetFiles[t] # {} /\ TargetFiles[d] # {}
        /\ TargetFiles[t] \cap TargetFiles[d] = {}}

UnblockIndependentTasks(o) ==
    /\ opc[o] = "heal"
    /\ \E t \in Tasks : Prunable(snap[o], t) # {}
    /\ db' = [db EXCEPT !.deps = [t \in Tasks |-> db.deps[t] \ Prunable(snap[o], t)]]
    /\ Return(o)
    /\ UNCHANGED << env, locks, released, exceeded, cmds, inflight, exit,
                    workerVars, history >>

DeadlockAbort(o) ==
    /\ opc[o] = "heal"
    /\ \A t \in Tasks : Prunable(snap[o], t) = {}
    /\ db' = FailOpenTasks(db)
    /\ Return(o)
    /\ UNCHANGED << env, locks, released, exceeded, cmds, inflight, exit,
                    workerVars, history >>
-----------------------------------------------------------------------------
(***************************************************************************)
(* dispatchContinuously.                                                   *)
(***************************************************************************)

\* Receive a completion and re-load the state.
ReceiveCompletion(o, t) ==
    /\ opc[o] = "drain"
    /\ wpc[o][t] = "done"
    /\ inflight' = [inflight EXCEPT ![o] = @ \ {t}]
    /\ wpc' = [wpc EXCEPT ![o][t] = "none"]
    /\ snap' = [snap EXCEPT ![o] = db]
    /\ GoTo(o, "refill")
    /\ UNCHANGED << env, db, locks, released, exceeded, cmds, phase, exit,
                    wret, history >>

\* The snapshot readyTasksForFreeSlots hands to the scheduler: tasks in
\* flight locally count as IN_PROGRESS whatever was persisted for them.
Masked(st, running) ==
    [st EXCEPT !.status = [t \in Tasks |->
        IF t \in running /\ st.status[t] # "ABSENT" THEN "IN_PROGRESS" ELSE st.status[t]]]

\* Mutant of Refill: free slots are counted from the limit alone, and every
\* selected task is launched.
RefillUncapped(o) ==
    /\ opc[o] = "refill"
    /\ \E picked \in SUBSET Tasks :
          /\ Schedule(o, Masked(snap[o], inflight[o]), Concurrency, picked)
          /\ Launch(o, picked)
    /\ IF inflight'[o] = {} THEN Return(o)
       ELSE /\ GoTo(o, "drain")
            /\ snap' = [snap EXCEPT ![o] = InitState]
            /\ phase' = phase
    /\ UNCHANGED << env, db, released, exceeded, cmds, exit, wret, leaked >>

Refill(o) ==
    /\ opc[o] = "refill"
    /\ \E picked \in SUBSET Tasks :
          /\ Schedule(o, Masked(snap[o], inflight[o]),
                      Concurrency - Cardinality(inflight[o]), picked)
          /\ Launch(o, Launchable(o, picked))
    /\ IF inflight'[o] = {} THEN Return(o)
       ELSE /\ GoTo(o, "drain")
            /\ snap' = [snap EXCEPT ![o] = InitState]
            /\ phase' = phase
    /\ UNCHANGED << env, db, released, exceeded, cmds, exit, wret, leaked >>
-----------------------------------------------------------------------------
(***************************************************************************)
(* executeTask.                                                            *)
(***************************************************************************)
Worker(o, t, from, to) ==
    /\ wpc[o][t] = from
    /\ wpc' = [wpc EXCEPT ![o][t] = to]
    /\ UNCHANGED << env, released, exceeded, cmds, opc, phase, snap,
                    inflight, exit, contended >>

\* The attempt works on the Retries and MaxRetries it loads here.
WorkerLoad(o, t) ==
    /\ Worker(o, t, "load", "mark")
    /\ wret' = [wret EXCEPT ![o][t] = [retries |-> db.retries[t], max |-> db.maxRetries[t]]]
    /\ UNCHANGED << db, locks, leaked >>

WorkerMark(o, t) ==
    /\ Worker(o, t, "mark", "setup")
    /\ db' = [db EXCEPT !.status[t] = "IN_PROGRESS"]
    /\ UNCHANGED << locks, wret, leaked >>

\* The state cannot be loaded or the task cannot be marked: the goroutine
\* returns early, and its locks stay in the registry.
WorkerMarkError(o, t) ==
    /\ "mark" \in env.faults
    /\ Worker(o, t, "load", "done") \/ Worker(o, t, "mark", "done")
    /\ wret' = [wret EXCEPT ![o][t] = NoRet]
    /\ leaked' = leaked \cup {t}
    /\ UNCHANGED << db, locks >>

\* setupTaskWorkspace fails: markTaskFailed, whose error is dropped, then an
\* early return.
WorkerSetupError(o, t) ==
    /\ "setup" \in env.faults
    /\ Worker(o, t, "setup", "done")
    /\ \/ db' = [db EXCEPT !.status[t] = "FAILED"]
       \/ "persist" \in env.faults /\ db' = db
    /\ wret' = [wret EXCEPT ![o][t] = NoRet]
    /\ leaked' = leaked \cup {t}
    /\ UNCHANGED locks

\* setupTaskWorkspace, then registerAgentStart.
WorkerRun(o, t) ==
    /\ Worker(o, t, "setup", "agentdone")
    /\ db' = [db EXCEPT !.working = @ \cup {t}]
    /\ UNCHANGED << locks, wret, leaked >>

\* registerAgentComplete; unless persisting it fails, then the agent stays
\* WORKING.
WorkerAgentDone(o, t) ==
    /\ Worker(o, t, "agentdone", "persist")
    /\ \/ db' = [db EXCEPT !.working = @ \ {t}]
       \/ "agent" \in env.faults /\ db' = db
    /\ UNCHANGED << locks, wret, leaked >>

EffectiveMaxRetries(max) == IF max = 0 THEN CfgMaxRetries ELSE max

\* Mutant of ShouldRetry: the limit is not compared.
ShouldRetryAlways(ret, out) == out = "fail"

ShouldRetry(ret, out) ==
    /\ out = "fail"
    /\ ret.retries < EffectiveMaxRetries(ret.max)

Outcome(ret, out) ==
    CASE out = "pass"          -> "SUCCESS"
      [] ShouldRetry(ret, out) -> "PENDING"
      [] OTHER                 -> "FAILED"

\* Validation, repair, the QA gate, the fallback agent and the merge-back have
\* settled the outcome of the attempt, and it is persisted.
WorkerPersist(o, t) ==
    /\ Worker(o, t, "persist", "release")
    /\ \E out \in {"pass"} \cup ({"fail", "sandbox"} \cap env.faults) :
          db' = [db EXCEPT
             !.status[t] = Outcome(wret[o][t], out),
             !.retries[t] = IF ShouldRetry(wret[o][t], out) THEN @ + 1 ELSE @,
             !.maxRetries[t] = IF @ = 0 THEN EffectiveMaxRetries(wret[o][t].max) ELSE @,
             !.marked = @ \ {t}]
    /\ wret' = [wret EXCEPT ![o][t] = NoRet]
    /\ UNCHANGED << locks, leaked >>

\* The outcome cannot be persisted; the error is only logged.
WorkerPersistError(o, t) ==
    /\ "persist" \in env.faults
    /\ Worker(o, t, "persist", "release")
    /\ wret' = [wret EXCEPT ![o][t] = NoRet]
    /\ UNCHANGED << db, locks, leaked >>

WorkerRelease(o, t) ==
    /\ Worker(o, t, "release", "done")
    /\ locks' = ReleaseLocks(locks, t)
    /\ leaked' = leaked \ {t}
    /\ UNCHANGED << db, wret >>
-----------------------------------------------------------------------------
(***************************************************************************)
(* The environment: time, the stall watchdog, and the operator.            *)
(***************************************************************************)
ExceedCeiling ==
    /\ env.ceilings
    /\ ~exceeded
    /\ exceeded' = TRUE
    /\ UNCHANGED << env, db, locks, released, cmds, opc, phase, snap,
                    inflight, exit, workerVars, history >>

\* detectStalledTasks: an IN_PROGRESS task with no recent update (how long is
\* left open), or a WORKING agent whose task is not IN_PROGRESS.
FrozenTask(st, t) == st.status[t] = "IN_PROGRESS"
InconsistentAgent(st, t) == t \in st.working /\ st.status[t] # "IN_PROGRESS"

HardStopStalls == 5
BypassStalls == 2

\* The retry limit of the heuristic assessment, 0 when there is none.
AllowedRetries(st, t) ==
    IF WatchdogRetries > 0 /\ (st.maxRetries[t] = 0 \/ WatchdogRetries < st.maxRetries[t])
    THEN WatchdogRetries ELSE st.maxRetries[t]

Heuristic(st, t) ==
    CASE InconsistentAgent(st, t) -> "clear"
      [] ~InconsistentAgent(st, t) /\ AllowedRetries(st, t) > 0
           /\ st.retries[t] >= AllowedRetries(st, t) -> "fail"
      [] OTHER -> "reset"

\* The commands checkAndUnblock may send for a stalled task: the hard stop
\* and the bypass come first; below them a known error pattern in the log
\* resets the task, the model may name any task and any command, and the
\* heuristic decides when there is no model or it fails.
StallCommands(st, t) ==
    IF st.stall[t] >= HardStopStalls THEN {[op |-> "fail", task |-> t]}
    ELSE IF st.stall[t] >= BypassStalls THEN {[op |-> "bypass", task |-> t]}
    ELSE {[op |-> "reset", task |-> t], [op |-> Heuristic(st, t), task |-> t]}
         \cup {c \in Commands : env.watchdog = "model" /\ c.task \in Present(st)}

WatchdogTick(t) ==
    /\ env.watchdog # "off"
    /\ \E o \in Orchs : Running(o)
    /\ Len(cmds) < MaxCmds
    /\ db.storyStatus \in {"IDLE", "RUNNING"}
    /\ FrozenTask(db, t) \/ InconsistentAgent(db, t)
    /\ \E c \in StallCommands(db, t) : cmds' = Append(cmds, c)
    /\ UNCHANGED << env, db, locks, released, exceeded, opc, phase, snap,
                    inflight, exit, workerVars, history >>

\* ResetTaskCmd falls back to 10 when the task has no retry limit.
ResetLimit(st, t) == IF st.maxRetries[t] = 0 THEN 10 ELSE st.maxRetries[t]

ResetTask(st, t) ==
    IF st.status[t] \in {"SUCCESS", "FAILED"} THEN st
    ELSE LET spent == \/ st.retries[t] + 1 >= ResetLimit(st, t)
                      \/ st.stall[t] + 1 >= HardStopStalls
         IN  [st EXCEPT !.stall[t] = @ + 1,
                        !.retries[t] = @ + 1,
                        !.status[t] = IF spent THEN "FAILED" ELSE "PENDING",
                        !.marked = IF spent THEN @ \ {t} ELSE @,
                        !.working = @ \ {t}]

\* Mutant of FailTask: a merged task is failed too.
FailTaskAny(st, t) == [st EXCEPT !.status[t] = "FAILED",
                                 !.marked = @ \ {t},
                                 !.working = @ \ {t}]

FailTask(st, t) ==
    IF st.status[t] = "SUCCESS" THEN st
    ELSE [st EXCEPT !.status[t] = "FAILED",
                    !.marked = @ \ {t},
                    !.working = @ \ {t}]

BypassToFallback(st, t) ==
    IF st.status[t] \in {"SUCCESS", "FAILED"} THEN st
    ELSE [st EXCEPT !.stall[t] = BypassStalls,
                    !.status[t] = "PENDING",
                    !.working = @ \ {t}]

ClearAgent(st, t) == [st EXCEPT !.working = @ \ {t}]

\* The mailbox loop executes the oldest command against the current state.
ApplyCommand ==
    /\ cmds # << >>
    /\ LET c == Head(cmds)
       IN  db' = CASE c.op = "reset"  -> ResetTask(db, c.task)
                   [] c.op = "fail"   -> FailTask(db, c.task)
                   [] c.op = "bypass" -> BypassToFallback(db, c.task)
                   [] c.op = "clear"  -> ClearAgent(db, c.task)
    /\ cmds' = Tail(cmds)
    /\ UNCHANGED << env, locks, released, exceeded, opc, phase, snap,
                    inflight, exit, workerVars, history >>

\* ResolveClarificationCmd.
ResolveClarification(c) ==
    /\ c \in db.clar
    /\ db' = [db EXCEPT !.clar = @ \ {c}]
    /\ UNCHANGED << env, locks, released, exceeded, cmds, opc, phase, snap,
                    inflight, exit, workerVars, history >>
-----------------------------------------------------------------------------
ExecutorNext(o) ==
    \/ StartStory(o) \/ StartError(o) \/ PlanStory(o) \/ PlanError(o)
    \/ ProbeLoad(o) \/ FastExit(o) \/ FastExitUnsaved(o) \/ NotGreen(o)
    \/ CheckStory(o) \/ RecordOutcome(o)
    \/ RunOnceLoad(o) \/ RunOnceCeilingAbort(o) \/ RunOnceDispatch(o)
    \/ RunOnceFinalize(o) \/ RunOnceRemediate(o) \/ RunOnceGateOpen(o)
    \/ RunOnceIdle(o) \/ RunOnceDeadlock(o)
    \/ RescuePass(o) \/ RescueFail(o)
    \/ UnblockIndependentTasks(o) \/ DeadlockAbort(o)
    \/ (\E t \in Tasks : ReceiveCompletion(o, t))
    \/ Refill(o)

WorkerNext(o, t) ==
    \/ WorkerLoad(o, t) \/ WorkerMark(o, t) \/ WorkerMarkError(o, t)
    \/ WorkerSetupError(o, t) \/ WorkerRun(o, t) \/ WorkerAgentDone(o, t)
    \/ WorkerPersist(o, t) \/ WorkerPersistError(o, t) \/ WorkerRelease(o, t)

EnvNext ==
    \/ ExceedCeiling
    \/ \E t \in Tasks : WatchdogTick(t)
    \/ ApplyCommand
    \/ \E c \in Tasks \cup {Global} : ResolveClarification(c)

\* The command line returns once every executor has.
Terminated ==
    /\ \A o \in Orchs : opc[o] = "exited"
    /\ UNCHANGED vars

Next ==
    \/ \E o \in Orchs : ExecutorNext(o)
    \/ \E o \in Orchs, t \in Tasks : WorkerNext(o, t)
    \/ EnvNext
    \/ Terminated

Spec == Init /\ [][Next]_vars

\* Goroutines run, the mailbox loop drains its channel and the watchdog
\* polls; ceilings, clarifications and operators may never act.
Fairness ==
    /\ \A o \in Orchs : WF_vars(ExecutorNext(o))
    /\ \A o \in Orchs, t \in Tasks : WF_vars(WorkerNext(o, t))
    /\ WF_vars(ApplyCommand)
    /\ \A t \in Tasks : WF_vars(WatchdogTick(t))

FairSpec == Spec /\ Fairness
-----------------------------------------------------------------------------
(***************************************************************************)
(* Properties.                                                             *)
(***************************************************************************)

\* architecture.md on the FileLockRegistry: "even when tasks across multiple
\* stories are unblocked simultaneously", access to a target file is
\* serialized.
FileExclusion ==
    \A o, p \in Orchs, t, u \in Tasks :
        Active(o, t) /\ Active(p, u) /\ << o, t >> # << p, u >>
            => TargetFiles[t] \cap TargetFiles[u] = {}

\* What the registry guarantees with several stories at once.  It knows tasks,
\* not workers, so two workers have a target file in common only when two
\* executors have met in a task that has the file.
ExclusionUnlessContended ==
    \A o, p \in Orchs, t, u \in Tasks :
        /\ Active(o, t) /\ Active(p, u) /\ << o, t >> # << p, u >>
        /\ TargetFiles[t] \cap TargetFiles[u] # {}
        => t \in contended \/ u \in contended

\* A dependency that a later step may disturb: two executors met in it; or it
\* names no planned task, and its story got a remediation task, or one in
\* which two executors met.
Disturbed(st, met, d) ==
    \/ d \in met
    \/ /\ d \in Unplanned \/ st.status[d] = "ABSENT"
       /\ \E u \in Present(st) : StoryOf[u] = StoryOf[d] /\ u \in met \cup Remedial

\* GetReadyTasks: while a task executes, everything it still depends on is
\* merged, though it was selected on an older state and though the watchdog or
\* another executor reset, failed, bypassed or pruned tasks since; except for
\* a dependency in which two executors met themselves.
DependencyOrder ==
    \A o \in Orchs, t \in Tasks :
        Active(o, t) => \A d \in db.deps[t] : DepMet(db, t, d) \/ Disturbed(db, contended, d)

\* The milestone barrier of GetReadyTasks, stories run one at a time: a task
\* without a dependency on an earlier story only executes when every earlier
\* story is merged, also when its dependencies were pruned or the earlier story
\* failed after all.
MilestoneOrder ==
    \A o \in Orchs, t, u \in Tasks :
        /\ Active(o, t)
        /\ ~HasCrossStoryDep(db, t)
        /\ u \in Present(db) /\ Earlier(u, t)
        => db.status[u] = "SUCCESS"

\* dispatchContinuously: an orchestrator never has more workers writing than
\* the concurrency limit, across refills of freed slots.
ConcurrencyCap ==
    \A o \in Orchs : Cardinality({t \in Tasks : Active(o, t)}) <= Concurrency

\* executeTask decides on retries with the count it loaded, ResetTaskCmd
\* increments the persisted one, and BypassToFallbackCmd re-queues without
\* counting.  Together they overshoot the retry limit by less than the number
\* of stalls that stops a task.
RetriesBounded ==
    \A t \in Tasks \ contended :
        db.retries[t] < HardStopStalls
            + (IF InitMaxRetries[t] = 0 THEN 10 ELSE InitMaxRetries[t])

\* A file stays locked only for a worker that still runs, or where locks were
\* left behind: executeTask returned before its end, or a ceiling stopped a
\* selection.  No other way a worker or an executor ends keeps a lock, and a
\* later attempt at the task gives the locks back.
NoOrphanLock ==
    \A f \in Files : locks[f] # None => InHand(locks[f]) \/ locks[f] \in leaked

\* buildStoryExecutor: when it reports success and what it saved was saved,
\* every task of the story is merged in the persisted state, and stays so
\* unless another executor meets it.
ExitSound ==
    \A o \in Orchs : exit[o] = "ok" =>
        \A t \in StoryTasks(db, StoryRun[o]) : db.status[t] = "SUCCESS" \/ t \in contended

\* No stale command, late worker or abort takes a merged task back, unless two
\* executors met in it.
SuccessStable ==
    [][\A t \in Tasks : db.status[t] = "SUCCESS" =>
           db'.status[t] = "SUCCESS" \/ t \in contended']_vars

\* Every executor returns.
Termination == <>(\A o \in Orchs : opc[o] = "exited")
=============================================================================
