------------------------- MODULE TaskDispatchProofs -------------------------
(***************************************************************************)
(* Proofs about TaskDispatch for every set of tasks, files and stories,    *)
(* every dependency relation, every concurrency limit, any number of       *)
(* stories at once, and with every fault, ceiling and watchdog command     *)
(* allowed.                                                                *)
(***************************************************************************)
EXTENDS TaskDispatch, TLAPS, FiniteSetTheorems

\* GetReadyTasks never returns two tasks with a file in common.
LEMMA ReadySetDisjoint ==
    ASSUME NEW st, NEW lk, NEW slots, NEW picked \in SUBSET Tasks,
           IsReadySet(st, lk, slots, picked),
           NEW t \in picked, NEW u \in picked, t # u
    PROVE  TargetFiles[t] \cap TargetFiles[u] = {}
<1>1. t \in Nat /\ u \in Nat
  BY TasksAssumption
<1>2. CASE t < u
  BY <1>2 DEF IsReadySet
<1>3. CASE u < t
  BY <1>3 DEF IsReadySet
<1> QED
  BY <1>1, <1>2, <1>3

\* The holder of a file the selection locks is a selected task that declares
\* it.
LEMMA AcquireHolder ==
    ASSUME NEW lk, NEW picked \in SUBSET Tasks, NEW f \in Files,
           \E t \in picked : f \in TargetFiles[t]
    PROVE  /\ AcquireLocks(lk, picked)[f] \in picked
           /\ f \in TargetFiles[AcquireLocks(lk, picked)[f]]
<1>1. AcquireLocks(lk, picked)[f] = CHOOSE t \in picked : f \in TargetFiles[t]
  BY DEF AcquireLocks
<1> QED
  BY <1>1

LEMMA AcquireType ==
    ASSUME NEW lk \in [Files -> Tasks \cup {None}], NEW picked \in SUBSET Tasks
    PROVE  AcquireLocks(lk, picked) \in [Files -> Tasks \cup {None}]
<1>1. ASSUME NEW f \in Files PROVE AcquireLocks(lk, picked)[f] \in Tasks \cup {None}
  <2>1. CASE \E t \in picked : f \in TargetFiles[t]
    BY <2>1, AcquireHolder
  <2>2. CASE ~ \E t \in picked : f \in TargetFiles[t]
    BY <2>2 DEF AcquireLocks
  <2> QED
    BY <2>1, <2>2
<1> QED
  BY <1>1 DEF AcquireLocks

\* After the selection every selected task holds all of its files.
LEMMA AcquireHeld ==
    ASSUME NEW st, NEW lk, NEW slots, NEW picked \in SUBSET Tasks,
           IsReadySet(st, lk, slots, picked),
           NEW t \in picked, NEW f \in Files, f \in TargetFiles[t]
    PROVE  AcquireLocks(lk, picked)[f] = t
<1> DEFINE h == AcquireLocks(lk, picked)[f]
<1>1. h \in picked /\ f \in TargetFiles[h]
  BY AcquireHolder
<1> HIDE DEF h
<1>2. SUFFICES ASSUME h # t PROVE FALSE
  BY DEF h
<1>3. TargetFiles[h] \cap TargetFiles[t] = {}
  BY <1>1, <1>2, ReadySetDisjoint
<1> QED
  BY <1>1, <1>3

\* A file held by a task outside the selection does not change hands.
LEMMA AcquireKept ==
    ASSUME NEW st, NEW lk, NEW slots, NEW picked \in SUBSET Tasks,
           IsReadySet(st, lk, slots, picked),
           NEW f \in Files, lk[f] \in Tasks \ picked
    PROVE  AcquireLocks(lk, picked)[f] = lk[f]
<1>1. ~ \E t \in picked : f \in TargetFiles[t]
  BY NoneAssumption DEF IsReadySet, CanLock
<1> QED
  BY <1>1 DEF AcquireLocks
-----------------------------------------------------------------------------
(***************************************************************************)
(* Type correctness.                                                       *)
(***************************************************************************)
LEMMA InitStateType == InitState \in State
  BY InitDepsAssumption, InitMaxRetriesAssumption
  DEF InitState, State, TaskStatus, StoryStatus

LEMMA FailOpenTasksType ==
    ASSUME NEW st \in State PROVE FailOpenTasks(st) \in State
  BY DEF FailOpenTasks, State, TaskStatus, StoryStatus

LEMMA StatusUpdateType ==
    ASSUME NEW st \in State, NEW t \in Tasks, NEW x \in TaskStatus,
           NEW m \in SUBSET Tasks, NEW w \in SUBSET Tasks
    PROVE  [st EXCEPT !.status[t] = x, !.marked = m, !.working = w] \in State
  BY DEF State

LEMMA CommandTypes ==
    ASSUME NEW st \in State, NEW t \in Tasks
    PROVE  /\ ResetTask(st, t) \in State
           /\ FailTask(st, t) \in State
           /\ BypassToFallback(st, t) \in State
           /\ ClearAgent(st, t) \in State
<1>1. ResetTask(st, t) \in State
  <2>1. CASE st.status[t] \in {"SUCCESS", "FAILED"}
    BY <2>1 DEF ResetTask
  <2>2. CASE st.status[t] \notin {"SUCCESS", "FAILED"}
    <3> DEFINE spent == \/ st.retries[t] + 1 >= ResetLimit(st, t)
                         \/ st.stall[t] + 1 >= HardStopStalls
               a == st.stall[t] + 1
               b == st.retries[t] + 1
               x == IF spent THEN "FAILED" ELSE "PENDING"
               m == IF spent THEN st.marked \ {t} ELSE st.marked
    <3>1. a \in Nat /\ b \in Nat /\ x \in TaskStatus /\ m \in SUBSET Tasks
      BY DEF State, TaskStatus
    <3>2. ResetTask(st, t) =
             [st EXCEPT !.stall[t] = a, !.retries[t] = b, !.status[t] = x,
                        !.marked = m, !.working = @ \ {t}]
      BY <2>2 DEF ResetTask
    <3> HIDE DEF a, b, x, m
    <3> DEFINE counted == [st EXCEPT !.stall[t] = a, !.retries[t] = b]
    <3>3. counted \in State
      BY <3>1 DEF State
    <3>4. /\ counted.working \ {t} \in SUBSET Tasks
          /\ ResetTask(st, t) =
               [counted EXCEPT !.status[t] = x, !.marked = m,
                               !.working = counted.working \ {t}]
      BY <3>2 DEF State
    <3> DEFINE w == counted.working \ {t}
    <3>5. w \in SUBSET Tasks
      BY <3>4
    <3>6. ResetTask(st, t) = [counted EXCEPT !.status[t] = x, !.marked = m, !.working = w]
      BY <3>4
    <3> HIDE DEF counted, w
    <3>7. [counted EXCEPT !.status[t] = x, !.marked = m, !.working = w] \in State
      BY <3>1, <3>3, <3>5, StatusUpdateType
    <3> QED
      BY <3>6, <3>7
  <2> QED
    BY <2>1, <2>2
<1>2. FailTask(st, t) \in State
  BY DEF FailTask, State, TaskStatus
<1>3. BypassToFallback(st, t) \in State
  BY DEF BypassToFallback, State, TaskStatus, BypassStalls
<1>4. ClearAgent(st, t) \in State
  BY DEF ClearAgent, State
<1> QED
  BY <1>1, <1>2, <1>3, <1>4

LEMMA TypeInit == Init => TypeOK
<1> SUFFICES ASSUME Init PROVE TypeOK
  OBVIOUS
<1>1. db \in State /\ snap \in [Orchs -> State]
  <2>1. env \in ConditionSet
    BY ConditionsAssumption DEF Init
  <2>2. env.clar \in SUBSET (Tasks \cup {Global})
    BY <2>1 DEF ConditionSet
  <2>3. [InitState EXCEPT !.clar = env.clar] \in State
    BY <2>2, InitStateType DEF State
  <2> QED
    BY <2>3, InitStateType DEF Init
<1>2. locks \in [Files -> Tasks \cup {None}]
  BY DEF Init, NoLocks
<1>3. cmds \in Seq(Commands)
  BY DEF Init
<1>4. wret \in [Orchs -> [Tasks -> [retries : Nat, max : Nat]]]
  BY DEF Init, NoRet
<1> QED
  BY <1>1, <1>2, <1>3, <1>4 DEF Init, TypeOK, WorkerLabels

LEMMA LaunchType ==
    ASSUME TypeOK, NEW o \in Orchs, NEW picked \in SUBSET Tasks,
           Launch(o, Launchable(o, picked))
    PROVE  /\ inflight' \in [Orchs -> SUBSET Tasks]
           /\ wpc' \in [Orchs -> [Tasks -> WorkerLabels]]
           /\ contended' \subseteq Tasks
<1>1. Launchable(o, picked) \subseteq Tasks
  BY DEF Launchable
<1> QED
  BY <1>1 DEF Launch, Meet, TypeOK, WorkerLabels

LEMMA TypeExecutor ==
    ASSUME TypeOK, NEW o \in Orchs, ExecutorNext(o) PROVE TypeOK'
<1> USE OrchsAssumption, InitStateType DEF TypeOK, GoTo, Meet, workerVars, history, WorkerLabels
<1>1. CASE StartStory(o)
  BY <1>1 DEF StartStory, State, StoryStatus
<1>2. CASE PlanStory(o)
  BY <1>2 DEF PlanStory, State, TaskStatus
<1>22. CASE PlanError(o)
  BY <1>22 DEF PlanError
<1>23. CASE StartError(o)
  BY <1>23 DEF StartError
<1>24. CASE FastExitUnsaved(o)
  BY <1>24 DEF FastExitUnsaved
<1>3. CASE ProbeLoad(o)
  BY <1>3 DEF ProbeLoad
<1>4. CASE FastExit(o)
  <2>1. db' \in State
    BY <1>4 DEF FastExit, State, TaskStatus, StoryStatus
  <2>2. contended' \subseteq Tasks
    BY <1>4 DEF FastExit, StoryTasks, Present
  <2> QED
    BY <1>4, <2>1, <2>2 DEF FastExit
<1>5. CASE NotGreen(o)
  BY <1>5 DEF NotGreen
<1>6. CASE CheckStory(o)
  BY <1>6 DEF CheckStory
<1>7. CASE RecordOutcome(o)
  <2>1. db' \in State
    <3>1. CASE db' = db
      BY <3>1
    <3>2. CASE db' = [db EXCEPT !.stories[StoryRun[o]] =
                        IF exit[o] = "failed" THEN "FAILED" ELSE "SUCCESS"]
      BY <3>2 DEF State, StoryStatus
    <3> QED
      BY <1>7, <3>1, <3>2 DEF RecordOutcome
  <2> QED
    BY <1>7, <2>1 DEF RecordOutcome
<1>8. CASE RunOnceLoad(o)
  BY <1>8 DEF RunOnceLoad
<1>9. CASE RunOnceCeilingAbort(o)
  <2>1. db' \in State
    BY <1>9, FailOpenTasksType DEF RunOnceCeilingAbort
  <2>2. locks' \in [Files -> Tasks \cup {None}] /\ leaked' \subseteq Tasks
    <3>1. PICK picked \in SUBSET Tasks :
             /\ Schedule(o, snap[o], FreeSlots(snap[o]), picked)
             /\ leaked' = leaked \cup picked
      BY <1>9 DEF RunOnceCeilingAbort
    <3>2. locks' \in [Files -> Tasks \cup {None}]
      BY <3>1, AcquireType DEF Schedule
    <3> QED
      BY <3>1, <3>2
  <2> QED
    BY <1>9, <2>1, <2>2 DEF RunOnceCeilingAbort, Return
<1>10. CASE RunOnceDispatch(o)
  <2>1. locks' \in [Files -> Tasks \cup {None}]
    <3>1. PICK picked \in SUBSET Tasks :
             Schedule(o, snap[o], FreeSlots(snap[o]), picked)
      BY <1>10 DEF RunOnceDispatch
    <3> QED
      BY <3>1, AcquireType DEF Schedule
  <2>2. /\ inflight' \in [Orchs -> SUBSET Tasks]
        /\ wpc' \in [Orchs -> [Tasks -> WorkerLabels]]
        /\ contended' \subseteq Tasks
    BY <1>10, LaunchType DEF RunOnceDispatch
  <2> QED
    BY <1>10, <2>1, <2>2 DEF RunOnceDispatch
<1>11. CASE RunOnceFinalize(o)
  <2>1. PICK verdict \in {"SUCCESS", "FAILED"} :
           /\ db' = [db EXCEPT !.storyStatus = verdict,
                               !.stories = [s \in Stories |->
                                  IF s = snap[o].current THEN verdict ELSE @[s]]]
           /\ released' = IF verdict = "SUCCESS"
                          THEN released \cup ({snap[o].current} \cap Stories)
                          ELSE released
    BY <1>11 DEF RunOnceFinalize
  <2>2. db' \in State
    BY <2>1 DEF State, StoryStatus
  <2>3. released' \subseteq Stories
    BY <2>1
  <2> QED
    BY <1>11, <2>2, <2>3 DEF RunOnceFinalize, NothingReady, Return
<1>12. CASE RunOnceRemediate(o)
  <2>1. StoryTasks(snap[o], snap[o].current) \subseteq Tasks
    BY DEF StoryTasks, Present
  <2>2. PICK t \in Tasks :
           db' = [db EXCEPT !.status[t] = "PENDING",
                            !.deps[t] = StoryTasks(snap[o], snap[o].current)]
    BY <1>12, UnplannedAssumption DEF RunOnceRemediate
  <2>3. db' \in State
    BY <2>1, <2>2 DEF State, TaskStatus
  <2>4. contended' \subseteq Tasks
    BY <1>12 DEF RunOnceRemediate
  <2> QED
    BY <1>12, <2>3, <2>4 DEF RunOnceRemediate, NothingReady, Return
<1>13. CASE RunOnceGateOpen(o)
  BY <1>13 DEF RunOnceGateOpen, NothingReady, Return
<1>14. CASE RunOnceIdle(o)
  BY <1>14 DEF RunOnceIdle, NothingReady, Return
<1>15. CASE RunOnceDeadlock(o)
  BY <1>15 DEF RunOnceDeadlock, NothingReady
<1>16. CASE RescuePass(o)
  <2>1. db' \in State
    <3>1. PICK t \in Tasks : db' = [db EXCEPT !.status[t] = "SUCCESS", !.marked = @ \ {t}]
      BY <1>16 DEF RescuePass
    <3> QED
      BY <3>1 DEF State, TaskStatus
  <2>2. contended' \subseteq Tasks
    BY <1>16 DEF RescuePass
  <2> QED
    BY <1>16, <2>1, <2>2 DEF RescuePass, Return
<1>17. CASE RescueFail(o)
  <2>1. db' \in State
    <3>1. PICK t \in Tasks : db' = [db EXCEPT !.marked = @ \cup {t}]
      BY <1>17 DEF RescueFail
    <3> QED
      BY <3>1 DEF State
  <2> QED
    BY <1>17, <2>1 DEF RescueFail
<1>18. CASE UnblockIndependentTasks(o)
  BY <1>18 DEF UnblockIndependentTasks, Return, State
<1>19. CASE DeadlockAbort(o)
  BY <1>19, FailOpenTasksType DEF DeadlockAbort, Return
<1>20. CASE \E t \in Tasks : ReceiveCompletion(o, t)
  BY <1>20 DEF ReceiveCompletion
<1>21. CASE Refill(o)
  <2>1. locks' \in [Files -> Tasks \cup {None}]
    <3>1. PICK picked \in SUBSET Tasks :
             Schedule(o, Masked(snap[o], inflight[o]),
                      Concurrency - Cardinality(inflight[o]), picked)
      BY <1>21 DEF Refill
    <3> QED
      BY <3>1, AcquireType DEF Schedule
  <2>2. /\ inflight' \in [Orchs -> SUBSET Tasks]
        /\ wpc' \in [Orchs -> [Tasks -> WorkerLabels]]
        /\ contended' \subseteq Tasks
    BY <1>21, LaunchType DEF Refill
  <2>3. UNCHANGED << env, db, released, exceeded, cmds, exit, wret, leaked >>
    BY <1>21 DEF Refill
  <2>4. \/ Return(o)
        \/ GoTo(o, "drain") /\ snap' = [snap EXCEPT ![o] = InitState] /\ phase' = phase
    BY <1>21 DEF Refill
  <2>5. CASE Return(o)
    BY <2>1, <2>2, <2>3, <2>5 DEF Return
  <2>6. CASE GoTo(o, "drain") /\ snap' = [snap EXCEPT ![o] = InitState] /\ phase' = phase
    BY <2>1, <2>2, <2>3, <2>6
  <2> QED
    BY <2>4, <2>5, <2>6
<1> QED
  BY <1>1, <1>2, <1>3, <1>4, <1>5, <1>6, <1>7, <1>8, <1>9, <1>10, <1>11, <1>12, <1>13, <1>14, <1>15, <1>16, <1>17, <1>18, <1>19, <1>20, <1>21, <1>22, <1>23, <1>24
  DEF ExecutorNext

LEMMA TypeWorker ==
    ASSUME TypeOK, NEW o \in Orchs, NEW t \in Tasks, WorkerNext(o, t) PROVE TypeOK'
<1> USE NoneAssumption, CfgMaxRetriesAssumption DEF TypeOK, WorkerLabels, Worker, NoRet
<1>1. CASE WorkerLoad(o, t)
  BY <1>1 DEF WorkerLoad, State
<1>2. CASE WorkerMark(o, t)
  BY <1>2 DEF WorkerMark, State, TaskStatus
<1>3. CASE WorkerMarkError(o, t)
  <2>1. wpc' = [wpc EXCEPT ![o][t] = "done"]
        /\ UNCHANGED << env, released, exceeded, cmds, opc, phase, snap, inflight, exit, contended >>
    BY <1>3 DEF WorkerMarkError
  <2> QED
    BY <1>3, <2>1 DEF WorkerMarkError
<1>5. CASE WorkerSetupError(o, t)
  <2>1. db' \in State
    <3>1. CASE db' = db
      BY <3>1
    <3>2. CASE db' = [db EXCEPT !.status[t] = "FAILED"]
      BY <3>2 DEF State, TaskStatus
    <3> QED
      BY <1>5, <3>1, <3>2 DEF WorkerSetupError
  <2> QED
    BY <1>5, <2>1 DEF WorkerSetupError
<1>6. CASE WorkerRun(o, t)
  BY <1>6 DEF WorkerRun, State
<1>7. CASE WorkerAgentDone(o, t)
  <2>1. db' \in State
    <3>1. CASE db' = db
      BY <3>1
    <3>2. CASE db' = [db EXCEPT !.working = @ \ {t}]
      BY <3>2 DEF State
    <3> QED
      BY <1>7, <3>1, <3>2 DEF WorkerAgentDone
  <2> QED
    BY <1>7, <2>1 DEF WorkerAgentDone
<1>9. CASE WorkerPersist(o, t)
  <2>1. PICK out \in {"pass"} \cup ({"fail", "sandbox"} \cap env.faults) :
           db' = [db EXCEPT
              !.status[t] = Outcome(wret[o][t], out),
              !.retries[t] = IF ShouldRetry(wret[o][t], out) THEN @ + 1 ELSE @,
              !.maxRetries[t] = IF @ = 0 THEN EffectiveMaxRetries(wret[o][t].max) ELSE @,
              !.marked = @ \ {t}]
    BY <1>9 DEF WorkerPersist
  <2> DEFINE x == Outcome(wret[o][t], out)
             r == IF ShouldRetry(wret[o][t], out) THEN db.retries[t] + 1 ELSE db.retries[t]
             m == IF db.maxRetries[t] = 0 THEN EffectiveMaxRetries(wret[o][t].max)
                  ELSE db.maxRetries[t]
  <2>2. EffectiveMaxRetries(wret[o][t].max) \in Nat
    BY DEF EffectiveMaxRetries
  <2>3. x \in TaskStatus /\ r \in Nat /\ m \in Nat
    BY <2>2 DEF Outcome, TaskStatus, State
  <2>4. db' = [db EXCEPT !.status[t] = x, !.retries[t] = r,
                         !.maxRetries[t] = m, !.marked = @ \ {t}]
    BY <2>1
  <2> HIDE DEF x, r, m
  <2>5. db' \in State
    BY <2>3, <2>4 DEF State
  <2> QED
    BY <1>9, <2>5 DEF WorkerPersist
<1>10. CASE WorkerPersistError(o, t)
  BY <1>10 DEF WorkerPersistError
<1>11. CASE WorkerRelease(o, t)
  BY <1>11 DEF WorkerRelease, ReleaseLocks
<1> QED
  BY <1>1, <1>2, <1>3, <1>5, <1>6, <1>7, <1>9, <1>10, <1>11 DEF WorkerNext

LEMMA TypeEnv ==
    ASSUME TypeOK, EnvNext PROVE TypeOK'
<1> USE DEF TypeOK, workerVars, history
<1>1. CASE ExceedCeiling
  BY <1>1 DEF ExceedCeiling
<1>2. ASSUME NEW t \in Tasks, WatchdogTick(t) PROVE TypeOK'
  <2>1. PICK c \in StallCommands(db, t) : cmds' = Append(cmds, c)
    BY <1>2 DEF WatchdogTick
  <2>2. StallCommands(db, t) \subseteq Commands
    BY DEF StallCommands, Commands, Heuristic
  <2>3. cmds' \in Seq(Commands)
    BY <2>1, <2>2
  <2> QED
    BY <1>2, <2>3 DEF WatchdogTick
<1>3. CASE ApplyCommand
  <2>1. Head(cmds) \in Commands /\ Tail(cmds) \in Seq(Commands)
    BY <1>3 DEF ApplyCommand
  <2>2. Head(cmds).op \in {"reset", "fail", "bypass", "clear"} /\ Head(cmds).task \in Tasks
    BY <2>1 DEF Commands
  <2>3. db' \in State
    BY <1>3, <2>2, CommandTypes DEF ApplyCommand
  <2> QED
    BY <1>3, <2>1, <2>3 DEF ApplyCommand
<1>4. ASSUME NEW c \in Tasks \cup {Global}, ResolveClarification(c) PROVE TypeOK'
  BY <1>4 DEF ResolveClarification, State
<1> QED
  BY <1>1, <1>2, <1>3, <1>4 DEF EnvNext

LEMMA TypeNext == TypeOK /\ [Next]_vars => TypeOK'
<1> SUFFICES ASSUME TypeOK, [Next]_vars PROVE TypeOK'
  OBVIOUS
<1>1. CASE UNCHANGED vars
  BY <1>1 DEF vars, TypeOK
<1>2. CASE Terminated
  BY <1>2 DEF Terminated, vars, TypeOK
<1> QED
  BY <1>1, <1>2, TypeExecutor, TypeWorker, TypeEnv DEF Next

\* Every reachable state of the dispatch core is well typed: commands,
\* aborts, rescues and retries applied in any order keep the persisted state
\* inside the domain the scheduler expects.
THEOREM TypeCorrect == Spec => []TypeOK
  BY TypeInit, TypeNext, PTL DEF Spec
-----------------------------------------------------------------------------
(***************************************************************************)
(* The concurrency limit.                                                  *)
(***************************************************************************)

\* The in-flight set is exactly the set of live goroutines, and only the
\* dispatch loop has any.
InflightInv ==
    \A o \in Orchs :
        /\ inflight[o] = {t \in Tasks : Live(o, t)}
        /\ inflight[o] # {} => opc[o] \in {"drain", "refill"}

\* A worker step keeps the worker live.
LEMMA LiveWorker ==
    ASSUME TypeOK, NEW o \in Orchs, NEW t \in Tasks, WorkerNext(o, t)
    PROVE  /\ UNCHANGED << opc, inflight >>
           /\ Active(o, t) /\ Live(o, t) /\ Live(o, t)'
           /\ \A p \in Orchs, u \in Tasks : << p, u >> # << o, t >> => wpc'[p][u] = wpc[p][u]
           /\ UNCHANGED << cmds, snap, exit, contended >>
<1>1. \E x \in WorkerLabels \ {"none", "done"}, y \in WorkerLabels \ {"none"} : Worker(o, t, x, y)
  BY Zenon DEF WorkerNext, WorkerLoad, WorkerMark, WorkerMarkError, WorkerSetupError, WorkerRun,
     WorkerAgentDone, WorkerPersist, WorkerPersistError, WorkerRelease, WorkerLabels
<1> QED
  BY <1>1 DEF TypeOK, Worker, Active, Live


\* A finite non-empty set of tasks has a last one.
LEMMA FiniteMax ==
    ASSUME NEW S \in SUBSET Nat, IsFiniteSet(S), S # {}
    PROVE  \E m \in S : \A t \in S : t <= m
<1> DEFINE Above(t) == {u \in S : t < u}
           T == {Above(t) : t \in S}
<1>1. IsWellFoundedOn(StrictSubsetOrdering(S), FiniteSubsetsOf(S))
  BY FS_StrictSubsetOrderingWellFounded
<1>2. T \subseteq FiniteSubsetsOf(S) /\ T # {}
  <2>1. \A t \in S : Above(t) \in SUBSET S
    OBVIOUS
  <2>2. PICK t0 \in S : Above(t0) \in T
    OBVIOUS
  <2>3. T \subseteq SUBSET S
    BY <2>1
  <2> HIDE DEF T
  <2> QED
    BY <2>2, <2>3, FS_FiniteSubsetsOfFinite
<1>3. PICK x \in T : \A y \in T : << y, x >> \notin StrictSubsetOrdering(S)
  <2> HIDE DEF T
  <2> QED
    BY <1>1, <1>2, WFMin
<1>4. PICK m \in S : x = Above(m)
  BY <1>3
<1>5. ASSUME NEW v \in S, m < v PROVE FALSE
  <2>1. Above(v) \in SUBSET S /\ Above(m) \in SUBSET S /\ Above(v) \in T
    OBVIOUS
  <2>2. Above(v) \subseteq Above(m) /\ v \in Above(m) /\ v \notin Above(v)
    <3>1. v \in Nat /\ m \in Nat /\ \A u \in S : u \in Nat
      OBVIOUS
    <3>2. \A u \in S : v < u => m < u
      BY <1>5, <3>1
    <3>3. ~(v < v)
      BY <3>1
    <3>4. Above(v) \subseteq Above(m)
      BY <3>2
    <3> QED
      BY <1>5, <3>3, <3>4
  <2>3. Above(v) # Above(m)
    BY <2>2
  <2> HIDE DEF Above, T
  <2>4. << Above(v), Above(m) >> \in StrictSubsetOrdering(S)
    BY <2>1, <2>2, <2>3 DEF StrictSubsetOrdering
  <2> QED
    BY <1>3, <1>4, <2>1, <2>4
<1> QED
  BY <1>5

\* dispatch() stops launching when the limit is reached.
LEMMA LaunchableBound ==
    ASSUME NEW o \in Orchs, inflight[o] \in SUBSET Tasks, NEW picked \in SUBSET Tasks,
           Cardinality(inflight[o]) <= Concurrency
    PROVE  Cardinality(inflight[o] \cup Launchable(o, picked)) <= Concurrency
<1> DEFINE fresh == picked \ inflight[o]
           ts == Launchable(o, picked)
           c == Cardinality(inflight[o])
<1>1. /\ ts = {t \in fresh : c + Cardinality({u \in fresh : u < t}) < Concurrency}
      /\ ts \subseteq fresh
  BY DEF Launchable
<1>2. /\ IsFiniteSet(ts) /\ IsFiniteSet(inflight[o])
      /\ ts \subseteq Nat
      /\ c \in Nat /\ Cardinality(ts) \in Nat /\ Concurrency \in Nat
  BY <1>1, TasksAssumption, ConcurrencyAssumption, FS_Subset, FS_CardinalityType
<1>3. CASE ts = {}
  BY <1>3
<1>4. CASE ts # {}
  <2>1. PICK m \in ts : \A t \in ts : t <= m
    BY <1>2, <1>4, FiniteMax
  <2> DEFINE B == {u \in fresh : u < m}
  <2>2. IsFiniteSet(B) /\ Cardinality(B) \in Nat /\ m \notin B /\ m \in Nat
    <3>1. B \in SUBSET Tasks
      OBVIOUS
    <3> QED
      BY <1>2, <2>1, <3>1, TasksAssumption, FS_Subset, FS_CardinalityType
  <2>3. c + Cardinality(B) < Concurrency
    BY <1>1, <2>1
  <2>4. ts \subseteq B \cup {m}
    <3> SUFFICES ASSUME NEW t \in ts, t # m PROVE t \in B
      OBVIOUS
    <3>1. t \in Nat /\ t <= m /\ t \in fresh
      BY <1>1, <1>2, <2>1
    <3> HIDE DEF ts
    <3> QED
      BY <2>2, <3>1
  <2> HIDE DEF B, ts, c
  <2>5. IsFiniteSet(B \cup {m}) /\ Cardinality(B \cup {m}) = Cardinality(B) + 1
    BY <2>2, FS_AddElement
  <2>6. Cardinality(ts) <= Cardinality(B) + 1
    BY <2>4, <2>5, FS_Subset
  <2>7. /\ Cardinality(inflight[o] \cup ts)
             = Cardinality(inflight[o]) + Cardinality(ts) - Cardinality(inflight[o] \cap ts)
        /\ Cardinality(inflight[o] \cap ts) \in Nat
    <3>1. IsFiniteSet(inflight[o] \cap ts)
      BY <1>2, FS_Intersection
    <3> QED
      BY <1>2, <3>1, FS_Union, FS_CardinalityType
  <2> QED
    BY <1>2, <2>2, <2>3, <2>6, <2>7 DEF c, ts
<1> QED
  BY <1>3, <1>4

\* What a step of an executor does to its workers: outside the dispatch loop
\* nothing, inside it launches selected tasks or receives one completion.
LEMMA ExecutorWorkers ==
    ASSUME TypeOK, NEW o \in Orchs, ExecutorNext(o)
    PROVE  /\ \A p \in Orchs \ {o} : opc'[p] = opc[p]
           /\ \/ opc[o] \notin {"drain", "refill"} /\ UNCHANGED << inflight, wpc >>
              \/ \E picked \in SUBSET Tasks : Launch(o, Launchable(o, picked))
                 /\ (inflight'[o] # {} => opc'[o] = "drain")
              \/ opc'[o] = "refill" /\ \E t \in Tasks :
                   /\ inflight' = [inflight EXCEPT ![o] = @ \ {t}]
                   /\ wpc' = [wpc EXCEPT ![o][t] = "none"]
<1>0. DOMAIN opc = Orchs
  BY DEF TypeOK
<1>1. \A p \in Orchs \ {o} : opc'[p] = opc[p]
  BY <1>0 DEF ExecutorNext, StartStory, StartError, PlanStory, PlanError, ProbeLoad, FastExit,
     FastExitUnsaved, NotGreen,
     CheckStory, RecordOutcome, RunOnceLoad, RunOnceCeilingAbort, RunOnceDispatch,
     RunOnceFinalize, RunOnceRemediate, RunOnceGateOpen, RunOnceIdle, RunOnceDeadlock,
     RescuePass, RescueFail, UnblockIndependentTasks, DeadlockAbort, ReceiveCompletion, Refill,
     NothingReady, Return, GoTo
<1>2. CASE RunOnceDispatch(o) \/ Refill(o)
  <2>1. PICK picked \in SUBSET Tasks : Launch(o, Launchable(o, picked))
    BY <1>2 DEF RunOnceDispatch, Refill
  <2>2. inflight'[o] # {} => opc'[o] = "drain"
    BY <1>0, <1>2 DEF RunOnceDispatch, Refill, GoTo
  <2> QED
    BY <1>1, <2>1, <2>2
<1>3. CASE \E t \in Tasks : ReceiveCompletion(o, t)
  BY <1>0, <1>1, <1>3 DEF ReceiveCompletion, GoTo
<1>4. CASE ~RunOnceDispatch(o) /\ ~Refill(o) /\ ~ \E t \in Tasks : ReceiveCompletion(o, t)
  <2>1. opc[o] \notin {"drain", "refill"} /\ UNCHANGED << inflight, wpc >>
    BY <1>4 DEF ExecutorNext, StartStory, StartError, PlanStory, PlanError, ProbeLoad, FastExit,
     FastExitUnsaved, NotGreen,
       CheckStory, RecordOutcome, RunOnceLoad, RunOnceCeilingAbort, RunOnceFinalize,
       RunOnceRemediate, RunOnceGateOpen, RunOnceIdle, RunOnceDeadlock, RescuePass, RescueFail,
       UnblockIndependentTasks, DeadlockAbort, NothingReady, workerVars
  <2> QED
    BY <1>1, <2>1
<1> QED
  BY <1>2, <1>3, <1>4

CapInv == \A o \in Orchs : Cardinality(inflight[o]) <= Concurrency
LimitInv == TypeOK /\ InflightInv /\ CapInv

LEMMA LimitExecutor ==
    ASSUME LimitInv, NEW o \in Orchs, ExecutorNext(o)
    PROVE  InflightInv' /\ CapInv'
<1>0. TypeOK /\ InflightInv /\ CapInv
  BY DEF LimitInv
<1>1. \A p \in Orchs \ {o} : opc'[p] = opc[p]
  BY <1>0, ExecutorWorkers
<1>2. CASE opc[o] \notin {"drain", "refill"} /\ UNCHANGED << inflight, wpc >>
  BY <1>0, <1>1, <1>2 DEF InflightInv, CapInv, Live
<1>3. ASSUME NEW picked \in SUBSET Tasks, Launch(o, Launchable(o, picked)),
             inflight'[o] # {} => opc'[o] = "drain"
      PROVE  InflightInv' /\ CapInv'
  <2> DEFINE ts == Launchable(o, picked)
  <2>1. Cardinality(inflight[o] \cup ts) <= Concurrency
    BY <1>0, LaunchableBound DEF TypeOK, CapInv
  <2>2. ts \subseteq Tasks
    BY DEF Launchable
  <2>3. /\ \A p \in Orchs \ {o} : inflight'[p] = inflight[p] /\ wpc'[p] = wpc[p]
        /\ inflight'[o] = inflight[o] \cup ts
        /\ \A t \in Tasks : wpc'[o][t] = IF t \in ts THEN "load" ELSE wpc[o][t]
    BY <1>0, <1>3 DEF Launch, TypeOK
  <2> HIDE DEF ts
  <2>4. CapInv'
    BY <1>0, <2>1, <2>3 DEF CapInv
  <2>5. ASSUME NEW p \in Orchs
        PROVE  /\ inflight'[p] = {t \in Tasks : Live(p, t)'}
               /\ inflight'[p] # {} => opc'[p] \in {"drain", "refill"}
    <3>1. inflight[p] = {t \in Tasks : wpc[p][t] # "none"}
      BY <1>0 DEF InflightInv, Live
    <3>2. CASE p = o
      BY <1>3, <2>2, <2>3, <3>1, <3>2 DEF Live
    <3>3. CASE p # o
      BY <1>0, <1>1, <2>3, <3>3 DEF InflightInv, Live
    <3> QED
      BY <3>2, <3>3
  <2> QED
    BY <2>4, <2>5 DEF InflightInv
<1>4. ASSUME NEW t \in Tasks, opc'[o] = "refill",
             inflight' = [inflight EXCEPT ![o] = @ \ {t}],
             wpc' = [wpc EXCEPT ![o][t] = "none"]
      PROVE  InflightInv' /\ CapInv'
  <2>1. IsFiniteSet(inflight[o]) /\ inflight[o] \ {t} \in SUBSET inflight[o]
    BY <1>0, TasksAssumption, FS_Subset DEF TypeOK
  <2>2. Cardinality(inflight[o] \ {t}) <= Cardinality(inflight[o])
    BY <2>1, FS_Subset
  <2>3. Cardinality(inflight[o] \ {t}) \in Nat /\ Cardinality(inflight[o]) \in Nat
        /\ Concurrency \in Nat
    BY <2>1, FS_Subset, FS_CardinalityType, ConcurrencyAssumption
  <2>4. CapInv'
    BY <1>0, <1>4, <2>2, <2>3 DEF CapInv, TypeOK
  <2>5. ASSUME NEW p \in Orchs
        PROVE  /\ inflight'[p] = {u \in Tasks : Live(p, u)'}
               /\ inflight'[p] # {} => opc'[p] \in {"drain", "refill"}
    <3>1. inflight[p] = {u \in Tasks : wpc[p][u] # "none"}
      BY <1>0 DEF InflightInv, Live
    <3>2. CASE p = o
      BY <1>0, <1>4, <3>1, <3>2 DEF TypeOK, Live
    <3>3. CASE p # o
      BY <1>0, <1>1, <1>4, <3>3 DEF TypeOK, InflightInv, Live
    <3> QED
      BY <3>2, <3>3
  <2> QED
    BY <2>4, <2>5 DEF InflightInv
<1> QED
  BY <1>0, <1>2, <1>3, <1>4, ExecutorWorkers

LEMMA LimitNext == LimitInv /\ [Next]_vars => LimitInv'
<1> SUFFICES ASSUME LimitInv, [Next]_vars PROVE LimitInv'
  OBVIOUS
<1>0. TypeOK'
  BY TypeNext DEF LimitInv
<1>1. CASE \E o \in Orchs : ExecutorNext(o)
  BY <1>0, <1>1, LimitExecutor DEF LimitInv
<1>2. ASSUME NEW o \in Orchs, NEW t \in Tasks, WorkerNext(o, t) PROVE LimitInv'
  <2>1. /\ UNCHANGED << opc, inflight >>
        /\ \A p \in Orchs, u \in Tasks : Live(p, u)' <=> Live(p, u)
    BY <1>2, LiveWorker DEF LimitInv, Live
  <2> QED
    BY <1>0, <2>1 DEF LimitInv, InflightInv, CapInv
<1>3. CASE EnvNext \/ Terminated \/ UNCHANGED vars
  <2>1. UNCHANGED << opc, inflight, wpc >>
    BY <1>3 DEF EnvNext, ExceedCeiling, WatchdogTick, ApplyCommand, ResolveClarification,
       Terminated, workerVars, vars
  <2> QED
    BY <1>0, <2>1 DEF LimitInv, InflightInv, CapInv, Live
<1> QED
  BY <1>1, <1>2, <1>3 DEF Next

LEMMA LimitInit == Init => LimitInv
<1> SUFFICES ASSUME Init PROVE LimitInv
  OBVIOUS
<1>1. InflightInv
  BY DEF Init, InflightInv, Live
<1>2. CapInv
  BY FS_EmptySet, ConcurrencyAssumption DEF Init, CapInv
<1> QED
  BY <1>1, <1>2, TypeInit DEF LimitInv

\* However many stories run at once and whatever happens to their tasks, an
\* orchestrator never has more workers than cfg.Concurrency: every refill
\* counts the workers it still waits for, not the agents the state lists.
THEOREM WorkersWithinLimit == Spec => []ConcurrencyCap
<1>1. LimitInv => ConcurrencyCap
  <2> SUFFICES ASSUME LimitInv, NEW o \in Orchs
               PROVE  Cardinality({t \in Tasks : Active(o, t)}) <= Concurrency
    BY DEF ConcurrencyCap
  <2>1. {t \in Tasks : Active(o, t)} \in SUBSET inflight[o] /\ inflight[o] \in SUBSET Tasks
    BY DEF LimitInv, TypeOK, InflightInv, Active, Live
  <2>2. /\ IsFiniteSet(inflight[o])
        /\ IsFiniteSet({t \in Tasks : Active(o, t)})
        /\ Cardinality({t \in Tasks : Active(o, t)}) <= Cardinality(inflight[o])
    BY <2>1, TasksAssumption, FS_Subset
  <2>3. /\ Cardinality(inflight[o]) \in Nat /\ Concurrency \in Nat
        /\ Cardinality({t \in Tasks : Active(o, t)}) \in Nat
    BY <2>2, FS_CardinalityType, ConcurrencyAssumption
  <2>4. Cardinality(inflight[o]) <= Concurrency
    BY DEF LimitInv, CapInv
  <2> QED
    BY <2>2, <2>3, <2>4
<1>2. Spec => []LimitInv
  BY LimitInit, LimitNext, PTL DEF Spec
<1> QED
  BY <1>1, <1>2, PTL
-----------------------------------------------------------------------------
(***************************************************************************)
(* What the selection takes is launched.                                   *)
(***************************************************************************)

\* readyTasksForFreeSlots never selects a task that is in flight, whatever
\* status was persisted for it meanwhile.
LEMMA MaskedNotReady ==
    ASSUME NEW st \in State, NEW running \in SUBSET Tasks, NEW lk, NEW slots,
           NEW picked \in SUBSET Tasks,
           IsReadySet(Masked(st, running), lk, slots, picked)
    PROVE  picked \cap running = {}
<1> SUFFICES ASSUME NEW t \in picked, t \in running PROVE FALSE
  OBVIOUS
<1>1. Eligible(Masked(st, running), t)
  BY DEF IsReadySet
<1>2. Masked(st, running).status[t] \in {"ABSENT", "IN_PROGRESS"}
  BY DEF Masked, State
<1> QED
  BY <1>1, <1>2 DEF Eligible


\* The slots GetReadyTasks is given never exceed those dispatch() fills:
\* every selected task is launched.
LEMMA AllLaunched ==
    ASSUME LimitInv, NEW o \in Orchs, NEW picked \in SUBSET Tasks,
           \/ opc[o] = "sched" /\ Schedule(o, snap[o], FreeSlots(snap[o]), picked)
           \/ Schedule(o, Masked(snap[o], inflight[o]),
                       Concurrency - Cardinality(inflight[o]), picked)
    PROVE  Launchable(o, picked) = picked
<1> DEFINE before(t) == {u \in picked : u < t}
<1>0. /\ snap[o] \in State /\ inflight[o] \in SUBSET Tasks /\ snap[o].working \in SUBSET Tasks
      /\ Cardinality(inflight[o]) \in Nat /\ Cardinality(snap[o].working) \in Nat
      /\ Concurrency \in Nat
  <2>1. snap[o] \in State /\ inflight[o] \in SUBSET Tasks /\ snap[o].working \in SUBSET Tasks
    BY DEF LimitInv, TypeOK, State
  <2> QED
    BY <2>1, TasksAssumption, ConcurrencyAssumption, FS_Subset, FS_CardinalityType
<1>1. \A t \in picked : Cardinality(before(t)) \in Nat
  <2> SUFFICES ASSUME NEW t \in picked PROVE Cardinality(before(t)) \in Nat
    OBVIOUS
  <2>1. before(t) \in SUBSET Tasks
    OBVIOUS
  <2> QED
    BY <2>1, TasksAssumption, FS_Subset, FS_CardinalityType
<1>2. CASE opc[o] = "sched" /\ Schedule(o, snap[o], FreeSlots(snap[o]), picked)
  <2>1. inflight[o] = {}
    BY <1>2 DEF LimitInv, InflightInv
  <2>2. Cardinality(inflight[o]) = 0 /\ picked \ inflight[o] = picked
    BY <2>1, FS_EmptySet
  <2>3. \A t \in picked : Cardinality(before(t)) < FreeSlots(snap[o])
    BY <1>2 DEF Schedule, IsReadySet
  <2>4. FreeSlots(snap[o]) <= Concurrency /\ FreeSlots(snap[o]) \in Nat
    BY <1>0 DEF FreeSlots
  <2>5. \A t \in picked : 0 + Cardinality(before(t)) < Concurrency
    BY <1>0, <1>1, <2>3, <2>4
  <2> QED
    BY <2>2, <2>5 DEF Launchable
<1>3. CASE Schedule(o, Masked(snap[o], inflight[o]),
                    Concurrency - Cardinality(inflight[o]), picked)
  <2>1. picked \cap inflight[o] = {}
    BY <1>0, <1>3, MaskedNotReady DEF Schedule
  <2>2. picked \ inflight[o] = picked
    BY <2>1
  <2>3. \A t \in picked : Cardinality(before(t)) < Concurrency - Cardinality(inflight[o])
    BY <1>3 DEF Schedule, IsReadySet
  <2>4. \A t \in picked : Cardinality(inflight[o]) + Cardinality(before(t)) < Concurrency
    BY <1>0, <1>1, <2>3
  <2> QED
    BY <2>2, <2>4 DEF Launchable
<1> QED
  BY <1>2, <1>3
-----------------------------------------------------------------------------
(***************************************************************************)
(* How the persisted state grows while several executors, their workers    *)
(* and the watchdog write to it.                                           *)
(***************************************************************************)

\* A worker whose outcome is not persisted yet.
Undecided(o, t) == wpc[o][t] \in {"load", "mark", "setup", "agentdone", "persist"}

\* su is what st may have become, when two executors have met in the tasks
\* met: no task disappears; merged tasks stay merged; a dependency is only
\* added when it is merged; and a story that has tasks only gets remediation
\* tasks.
GrowsInto(st, su, met) ==
    /\ Present(st) \subseteq Present(su)
    /\ \A t \in Tasks : st.status[t] = "SUCCESS" => su.status[t] = "SUCCESS" \/ t \in met
    /\ \A t \in Present(st) : \A d \in su.deps[t] :
          d \in st.deps[t] \/ su.status[d] = "SUCCESS" \/ d \in met
    /\ \A t \in Present(su) \ Present(st) :
          (\E u \in Present(st) : StoryOf[u] = StoryOf[t]) => t \in Remedial

\* Two workers of different executors have a task in hand only after they met.
UniqueInv ==
    \A o, p \in Orchs, t \in Tasks :
        Active(o, t) /\ Active(p, t) /\ o # p => t \in contended

\* A worker that has not decided yet works on a task that is not merged.
UndecidedInv ==
    \A o \in Orchs, t \in Tasks :
        Undecided(o, t) /\ t \notin contended => db.status[t] # "SUCCESS"

\* Workers, commands and agents belong to tasks of the persisted state.
PresentInv ==
    /\ \A o \in Orchs, t \in Tasks : Live(o, t) => t \in Present(db)
    /\ \A i \in 1..Len(cmds) : cmds[i].task \in Present(db)
    /\ db.working \subseteq Present(db)

\* A snapshot is an earlier persisted state.
SnapInv == \A o \in Orchs : GrowsInto(snap[o], db, contended)

MeetInv == LimitInv /\ UniqueInv /\ UndecidedInv /\ PresentInv /\ SnapInv

LEMMA GrowsReflexive == \A st, met : GrowsInto(st, st, met)
  BY DEF GrowsInto

LEMMA GrowsTransitive ==
    ASSUME NEW st \in State, NEW su \in State, NEW sv \in State, NEW m, NEW n, m \subseteq n,
           GrowsInto(st, su, m), GrowsInto(su, sv, n)
    PROVE  GrowsInto(st, sv, n)
<1>1. Present(st) \subseteq Present(sv)
  BY DEF GrowsInto
<1>2. \A t \in Tasks : st.status[t] = "SUCCESS" => sv.status[t] = "SUCCESS" \/ t \in n
  BY DEF GrowsInto
<1>3. ASSUME NEW t \in Present(st), NEW d \in sv.deps[t]
      PROVE  d \in st.deps[t] \/ sv.status[d] = "SUCCESS" \/ d \in n
  <2>1. t \in Present(su) /\ t \in Tasks
    BY DEF GrowsInto, Present
  <2>2. d \in Tasks
    BY <2>1 DEF State
  <2>3. d \in su.deps[t] \/ sv.status[d] = "SUCCESS" \/ d \in n
    BY <2>1 DEF GrowsInto
  <2>4. d \in su.deps[t] => d \in st.deps[t] \/ su.status[d] = "SUCCESS" \/ d \in m
    BY DEF GrowsInto
  <2>5. su.status[d] = "SUCCESS" => sv.status[d] = "SUCCESS" \/ d \in n
    BY <2>2 DEF GrowsInto
  <2> QED
    BY <2>3, <2>4, <2>5
<1>4. ASSUME NEW t \in Present(sv) \ Present(st), NEW u \in Present(st), StoryOf[u] = StoryOf[t]
      PROVE  t \in Remedial
  <2>1. u \in Present(su)
    BY DEF GrowsInto
  <2>2. CASE t \in Present(su)
    BY <1>4, <2>2 DEF GrowsInto
  <2>3. CASE t \notin Present(su)
    BY <1>4, <2>1, <2>3 DEF GrowsInto
  <2> QED
    BY <2>2, <2>3
<1> QED
  BY <1>1, <1>2, <1>3, <1>4 DEF GrowsInto

LEMMA InitGrows == \A su, met : GrowsInto(InitState, su, met)
<1>1. Present(InitState) = {} /\ \A t \in Tasks : InitState.status[t] = "ABSENT"
  BY DEF Present, InitState
<1> QED
  BY <1>1 DEF GrowsInto

\* A dependency that is met stays met or is disturbed.
LEMMA MetGrows ==
    ASSUME NEW st, NEW su, NEW m, NEW n, m \subseteq n, GrowsInto(st, su, n),
           NEW t \in Tasks, NEW d \in Tasks, DepMet(st, t, d) \/ Disturbed(st, m, d)
    PROVE  DepMet(su, t, d) \/ Disturbed(su, n, d)
<1>0. \A u : (u \in Present(st) => u \in Tasks /\ u \in Present(su) /\ st.status[u] # "ABSENT")
             /\ (u \in Present(su) <=> u \in Tasks /\ su.status[u] # "ABSENT")
             /\ (u \in Tasks /\ st.status[u] = "ABSENT" => u \notin Present(st))
  BY DEF GrowsInto, Present
<1>1. ASSUME NEW u \in Present(st), StoryOf[u] = StoryOf[d], st.status[d] = "ABSENT"
      PROVE  (d \in Unplanned /\ d \in Present(su) /\ d \in Remedial) \/ su.status[d] = "ABSENT"
  <2>1. su.status[d] # "ABSENT" => d \in Remedial
    BY <1>0, <1>1 DEF GrowsInto
  <2> QED
    BY <1>0, <2>1, UnplannedAssumption
<1>2. CASE st.status[d] = "SUCCESS"
  BY <1>2 DEF GrowsInto, DepMet, Disturbed
<1>3. CASE Disturbed(st, m, d)
  <2>1. CASE d \in m
    BY <2>1 DEF Disturbed
  <2>2. CASE d \notin m
    <3>1. PICK u \in Present(st) : StoryOf[u] = StoryOf[d] /\ u \in m \cup Remedial
      BY <1>3, <2>2 DEF Disturbed
    <3>2. u \in Present(su) /\ u \in n \cup Remedial
      BY <1>0, <3>1
    <3>3. d \in Unplanned \/ su.status[d] = "ABSENT"
      BY <1>1, <1>3, <2>2, <3>1 DEF Disturbed
    <3> QED
      BY <3>1, <3>2, <3>3 DEF Disturbed
  <2> QED
    BY <2>1, <2>2
<1>4. CASE DepMet(st, t, d) /\ st.status[d] # "SUCCESS"
  <2>1. /\ st.status[d] = "ABSENT" /\ StoryOf[d] > 0
        /\ StoryOf[t] = 0 \/ StoryOf[d] < StoryOf[t]
        /\ \A v \in Present(st) : StoryOf[v] = StoryOf[d] => st.status[v] = "SUCCESS"
    BY <1>4 DEF DepMet
  <2>2. PICK u \in Present(st) : StoryOf[u] = StoryOf[d]
    BY <1>4 DEF DepMet
  <2>3. CASE su.status[d] # "ABSENT"
    BY <1>1, <2>1, <2>2, <2>3 DEF Disturbed
  <2>4. CASE su.status[d] = "ABSENT"
    <3>1. CASE \A v \in Present(su) : StoryOf[v] = StoryOf[d] => su.status[v] = "SUCCESS"
      BY <1>0, <2>1, <2>2, <2>4, <3>1 DEF DepMet
    <3>2. ASSUME NEW v \in Present(su), StoryOf[v] = StoryOf[d], su.status[v] # "SUCCESS"
          PROVE  Disturbed(su, n, d)
      <4>1. CASE v \in Present(st)
        <5>1. st.status[v] = "SUCCESS" /\ v \in Tasks
          BY <1>0, <2>1, <3>2, <4>1
        <5>2. v \in n
          BY <3>2, <5>1 DEF GrowsInto
        <5> QED
          BY <2>4, <3>2, <5>2 DEF Disturbed
      <4>2. CASE v \notin Present(st)
        <5>1. v \in Remedial
          BY <2>2, <3>2, <4>2 DEF GrowsInto
        <5> QED
          BY <2>4, <3>2, <5>1 DEF Disturbed
      <4> QED
        BY <4>1, <4>2
    <3> QED
      BY <3>1, <3>2
  <2> QED
    BY <2>3, <2>4
<1> QED
  BY <1>2, <1>3, <1>4

\* A watchdog command neither adds a task nor merges or takes back one.
LEMMA CommandGrows ==
    ASSUME NEW st \in State, NEW t \in Present(st), NEW met,
           NEW su \in {ResetTask(st, t), FailTask(st, t), BypassToFallback(st, t), ClearAgent(st, t)}
    PROVE  /\ GrowsInto(st, su, met)
           /\ su.working \subseteq st.working
           /\ \A u \in Tasks : su.status[u] = "SUCCESS" => st.status[u] = "SUCCESS"
           /\ Present(su) = Present(st)
<1>0. t \in Tasks /\ st.status[t] # "ABSENT"
  BY DEF Present
<1>1. \/ su.status = st.status
      \/ /\ st.status[t] # "SUCCESS"
         /\ \E x \in {"FAILED", "PENDING"} : su.status = [st.status EXCEPT ![t] = x]
  <2>1. CASE su = ResetTask(st, t)
    BY <2>1 DEF ResetTask, State
  <2>2. CASE su = FailTask(st, t)
    BY <2>2 DEF FailTask, State
  <2>3. CASE su = BypassToFallback(st, t)
    BY <2>3 DEF BypassToFallback, State
  <2>4. CASE su = ClearAgent(st, t)
    BY <2>4 DEF ClearAgent, State
  <2> QED
    BY <2>1, <2>2, <2>3, <2>4
<1>2. su.deps = st.deps /\ su.working \subseteq st.working
  BY DEF ResetTask, FailTask, BypassToFallback, ClearAgent, State
<1>3. st.status \in [Tasks -> TaskStatus]
  BY DEF State
<1>4. \A u \in Tasks : (su.status[u] = "ABSENT" <=> st.status[u] = "ABSENT")
                       /\ (su.status[u] = "SUCCESS" <=> st.status[u] = "SUCCESS")
  BY <1>0, <1>1, <1>3
<1> QED
  BY <1>2, <1>4 DEF GrowsInto, Present

\* What the environment writes.
LEMMA EnvWrites ==
    ASSUME MeetInv, EnvNext \/ Terminated \/ UNCHANGED vars
    PROVE  /\ GrowsInto(db, db', contended') /\ contended' = contended
           /\ db'.working \subseteq Present(db') /\ Present(db') = Present(db)
           /\ \A u \in Tasks : db'.status[u] = "SUCCESS" => db.status[u] = "SUCCESS"
           /\ UNCHANGED << opc, snap, inflight, wpc, exit, locks, leaked >>
<1>0. db \in State /\ cmds \in Seq(Commands) /\ db.working \subseteq Present(db)
  BY DEF MeetInv, LimitInv, TypeOK, PresentInv
<1>1. UNCHANGED << opc, snap, inflight, wpc, exit, locks, leaked, contended >>
  BY DEF EnvNext, ExceedCeiling, WatchdogTick, ApplyCommand, ResolveClarification, Terminated,
     workerVars, history, vars
<1>2. CASE db' = db
  BY <1>0, <1>1, <1>2, GrowsReflexive
<1>3. CASE ApplyCommand
  <2>1. Head(cmds) \in Commands /\ Head(cmds) = cmds[1] /\ 1 \in 1..Len(cmds)
    BY <1>0, <1>3 DEF ApplyCommand
  <2>2. Head(cmds).task \in Present(db) /\ Head(cmds).op \in {"reset", "fail", "bypass", "clear"}
    BY <2>1 DEF MeetInv, PresentInv, Commands
  <2>3. db' \in {ResetTask(db, Head(cmds).task), FailTask(db, Head(cmds).task),
                 BypassToFallback(db, Head(cmds).task), ClearAgent(db, Head(cmds).task)}
    BY <1>3, <2>2 DEF ApplyCommand
  <2>4. /\ GrowsInto(db, db', contended')
        /\ db'.working \subseteq db.working
        /\ \A u \in Tasks : db'.status[u] = "SUCCESS" => db.status[u] = "SUCCESS"
        /\ Present(db') = Present(db)
    BY <1>0, <2>2, <2>3, CommandGrows
  <2> QED
    BY <1>0, <1>1, <2>4
<1>4. CASE \E c \in Tasks \cup {Global} : ResolveClarification(c)
  <2>1. db'.status = db.status /\ db'.deps = db.deps /\ db'.working = db.working
    BY <1>0, <1>4 DEF ResolveClarification, State
  <2> QED
    BY <1>0, <1>1, <2>1 DEF GrowsInto, Present
<1> QED
  BY <1>2, <1>3, <1>4 DEF EnvNext, ExceedCeiling, WatchdogTick, Terminated, vars

\* What a worker persists is about its own task; only a passing outcome merges
\* it.
LEMMA WorkerWrites ==
    ASSUME TypeOK, NEW o \in Orchs, NEW t \in Tasks, WorkerNext(o, t)
    PROVE  /\ db'.deps = db.deps
           /\ db'.working \subseteq db.working \cup {t}
           /\ \/ db'.status = db.status
              \/ /\ Undecided(o, t)
                 /\ \E x \in TaskStatus \ {"ABSENT"} :
                       /\ db'.status = [db.status EXCEPT ![t] = x]
                       /\ x = "SUCCESS" => wpc'[o][t] = "release"
<1>0. db \in State /\ wpc \in [Orchs -> [Tasks -> WorkerLabels]]
  BY DEF TypeOK
<1>1. CASE WorkerPersist(o, t)
  <2>1. PICK out \in {"pass"} \cup ({"fail", "sandbox"} \cap env.faults) :
           db' = [db EXCEPT
              !.status[t] = Outcome(wret[o][t], out),
              !.retries[t] = IF ShouldRetry(wret[o][t], out) THEN @ + 1 ELSE @,
              !.maxRetries[t] = IF @ = 0 THEN EffectiveMaxRetries(wret[o][t].max) ELSE @,
              !.marked = @ \ {t}]
    BY <1>1 DEF WorkerPersist
  <2>2. /\ db'.status = [db.status EXCEPT ![t] = Outcome(wret[o][t], out)]
        /\ db'.deps = db.deps /\ db'.working = db.working
    BY <1>0, <2>1 DEF State
  <2>3. wpc[o][t] = "persist" /\ wpc'[o][t] = "release"
    BY <1>0, <1>1 DEF WorkerPersist, Worker
  <2>4. Outcome(wret[o][t], out) \in TaskStatus \ {"ABSENT"}
    BY DEF Outcome, TaskStatus
  <2> QED
    BY <2>2, <2>3, <2>4 DEF Undecided
<1>2. CASE db' = db
  BY <1>2
<1>3. CASE db' # db /\ (WorkerMark(o, t) \/ WorkerSetupError(o, t))
  <2>1. Undecided(o, t)
    BY <1>3 DEF WorkerMark, WorkerSetupError, Worker, Undecided
  <2>2. \E x \in {"IN_PROGRESS", "FAILED"} : db' = [db EXCEPT !.status[t] = x]
    BY <1>3 DEF WorkerMark, WorkerSetupError
  <2>3. \E x \in {"IN_PROGRESS", "FAILED"} :
           /\ db'.status = [db.status EXCEPT ![t] = x]
           /\ db'.deps = db.deps /\ db'.working = db.working
    BY <1>0, <2>2 DEF State
  <2> QED
    BY <2>1, <2>3 DEF TaskStatus
<1>4. CASE db' # db /\ (WorkerRun(o, t) \/ WorkerAgentDone(o, t))
  <2>1. db' = [db EXCEPT !.working = @ \cup {t}] \/ db' = [db EXCEPT !.working = @ \ {t}]
    BY <1>4 DEF WorkerRun, WorkerAgentDone
  <2> QED
    BY <1>0, <2>1 DEF State
<1> QED
  BY <1>1, <1>2, <1>3, <1>4 DEF WorkerNext, WorkerLoad, WorkerMarkError,
     WorkerPersistError, WorkerRelease

LEMMA WorkerGrows ==
    ASSUME MeetInv, NEW o \in Orchs, NEW t \in Tasks, WorkerNext(o, t)
    PROVE  /\ GrowsInto(db, db', contended') /\ contended' = contended
           /\ db'.working \subseteq Present(db') /\ Present(db') = Present(db)
           /\ \A u \in Tasks : db'.status[u] = "SUCCESS" /\ db.status[u] # "SUCCESS" =>
                 u = t /\ wpc'[o][t] = "release"
<1>0. TypeOK
  BY DEF MeetInv, LimitInv
<1>1. Live(o, t) /\ contended' = contended
  BY <1>0, LiveWorker
<1>2. /\ db.status \in [Tasks -> TaskStatus] /\ db.status[t] # "ABSENT" /\ t \in Present(db)
      /\ (Undecided(o, t) /\ t \notin contended => db.status[t] # "SUCCESS")
      /\ db.working \subseteq Present(db)
  BY <1>0, <1>1 DEF State, Present, TypeOK, MeetInv, UndecidedInv, PresentInv
<1>3. /\ db'.deps = db.deps
      /\ db'.working \subseteq db.working \cup {t}
      /\ \/ db'.status = db.status
         \/ /\ Undecided(o, t)
            /\ \E x \in TaskStatus \ {"ABSENT"} :
                  /\ db'.status = [db.status EXCEPT ![t] = x]
                  /\ x = "SUCCESS" => wpc'[o][t] = "release"
  BY <1>0, WorkerWrites
<1>4. /\ \A u \in Tasks : db'.status[u] = "ABSENT" <=> db.status[u] = "ABSENT"
      /\ \A u \in Tasks : db.status[u] = "SUCCESS" => db'.status[u] = "SUCCESS" \/ u \in contended
      /\ \A u \in Tasks : db'.status[u] = "SUCCESS" /\ db.status[u] # "SUCCESS" =>
            u = t /\ wpc'[o][t] = "release"
  BY <1>2, <1>3
<1>5. Present(db') = Present(db)
  BY <1>4 DEF Present
<1> QED
  BY <1>1, <1>2, <1>3, <1>4, <1>5 DEF GrowsInto

\* What an executor persists.  A task it merges, or queues again, while
\* another executor has it in hand is one in which the two have met.
LEMMA ExecutorGrows ==
    ASSUME MeetInv, NEW o \in Orchs, ExecutorNext(o)
    PROVE  /\ cmds' = cmds
           /\ db'.working = db.working
           /\ contended \subseteq contended'
           /\ GrowsInto(db, db', contended')
           /\ \A u \in Tasks : db'.status[u] = "SUCCESS" /\ db.status[u] # "SUCCESS" =>
                 \A p \in Orchs : Active(p, u) => u \in contended'
           /\ \A t \in (Present(db') \ Present(db)) \cap Remedial :
                 /\ opc[o] = "sched"
                 /\ \A p \in Orchs \ {o} : StoryRun[p] = StoryOf[t] => t \in contended'
<1>0. /\ db \in State /\ snap[o] \in State /\ StoryRun[o] \in Stories
      /\ db.status \in [Tasks -> TaskStatus] /\ db.deps \in [Tasks -> SUBSET Tasks]
      /\ GrowsInto(snap[o], db, contended)
  BY OrchsAssumption DEF MeetInv, LimitInv, SnapInv, TypeOK, State
<1>1. cmds' = cmds /\ contended \subseteq contended'
  BY Zenon DEF ExecutorNext, StartStory, StartError, PlanStory, PlanError, ProbeLoad, FastExit,
     FastExitUnsaved, NotGreen, CheckStory, RecordOutcome, RunOnceLoad, RunOnceCeilingAbort,
     RunOnceDispatch, RunOnceFinalize, RunOnceRemediate, RunOnceGateOpen, RunOnceIdle,
     RunOnceDeadlock, RescuePass, RescueFail, UnblockIndependentTasks, DeadlockAbort,
     ReceiveCompletion, Refill, NothingReady, Launch, Meet, history
<1>2. CASE db' = db
  BY <1>1, <1>2, GrowsReflexive
<1>3. CASE PlanStory(o) /\ db' # db
  <2>1. StoryTasks(db, StoryRun[o]) = {}
    BY <1>3 DEF PlanStory
  <2>2. \A t \in PlannedFor(StoryRun[o]) : db.status[t] = "ABSENT" /\ StoryOf[t] = StoryRun[o]
    BY <2>1 DEF StoryTasks, PlannedFor, Present
  <2>3. /\ db'.working = db.working /\ db'.deps = db.deps
        /\ db'.status = [t \in Tasks |-> IF t \in PlannedFor(StoryRun[o])
                                         THEN "PENDING" ELSE db.status[t]]
    BY <1>0, <1>3, <2>1 DEF PlanStory, State
  <2>4. \A t \in Present(db') \ Present(db) : StoryOf[t] = StoryRun[o]
    BY <2>2, <2>3 DEF Present
  <2>5. \A u \in Present(db) : StoryOf[u] # StoryRun[o]
    BY <2>1 DEF StoryTasks
  <2>7. \A t \in Present(db') \ Present(db) : t \notin Remedial
    BY <2>3, UnplannedAssumption DEF Present, PlannedFor
  <2>6. GrowsInto(db, db', contended')
    <3>1. /\ Present(db) \subseteq Present(db')
          /\ \A t \in Tasks : db.status[t] = "SUCCESS" => db'.status[t] = "SUCCESS"
      BY <2>2, <2>3 DEF Present
    <3> QED
      BY <2>3, <2>4, <2>5, <3>1 DEF GrowsInto
  <2> QED
    BY <1>1, <2>2, <2>3, <2>6, <2>7
<1>4. CASE RunOnceRemediate(o)
  <2> DEFINE mine == StoryTasks(snap[o], snap[o].current)
  <2>1. PICK t \in Remedial :
           /\ StoryOf[t] = snap[o].current
           /\ db' = [db EXCEPT !.status[t] = "PENDING", !.deps[t] = mine]
           /\ Meet({t} \cap {u \in Tasks : \/ db.status[u] # "ABSENT"
                                          \/ \E p \in Orchs \ {o} : StoryRun[p] = StoryOf[u]})
    BY <1>4 DEF RunOnceRemediate
  <2>2. t \in Tasks /\ t \notin mine
    BY <1>4, <2>1, UnplannedAssumption DEF RunOnceRemediate
  <2>3. /\ db'.status = [db.status EXCEPT ![t] = "PENDING"]
        /\ db'.deps = [db.deps EXCEPT ![t] = mine]
        /\ db'.working = db.working
    BY <1>0, <2>1 DEF State
  <2>4. \A d \in mine : d \in Tasks /\ snap[o].status[d] = "SUCCESS"
    BY <1>4 DEF RunOnceRemediate, AllTasksSucceeded, CurrentTasks, StoryTasks, Present
  <2> HIDE DEF mine
  <2>5. \A d \in mine : db.status[d] = "SUCCESS" \/ d \in contended
    BY <1>0, <2>4 DEF GrowsInto
  <2>6. \A d \in mine : db'.status[d] = "SUCCESS" \/ d \in contended'
    BY <1>0, <1>1, <2>2, <2>3, <2>4, <2>5
  <2>7. db.status[t] # "ABSENT" => t \in contended'
    BY <2>1, <2>2 DEF Meet
  <2>8. /\ Present(db) \subseteq Present(db')
        /\ \A u \in Present(db') \ Present(db) : u = t
    BY <1>0, <2>2, <2>3 DEF Present
  <2>9. \A u \in Tasks : db.status[u] = "SUCCESS" => db'.status[u] = "SUCCESS" \/ u \in contended'
    BY <1>0, <2>2, <2>3, <2>7
  <2>10. \A u \in Tasks : \A d \in db'.deps[u] :
            d \in db.deps[u] \/ db'.status[d] = "SUCCESS" \/ d \in contended'
    BY <1>0, <2>2, <2>3, <2>6
  <2>11. GrowsInto(db, db', contended')
    BY <2>1, <2>8, <2>9, <2>10 DEF GrowsInto, Present
  <2>12. \A u \in Tasks : db'.status[u] = "SUCCESS" => db.status[u] = "SUCCESS"
    BY <1>0, <2>2, <2>3
  <2>13. opc[o] = "sched" /\ \A p \in Orchs \ {o} : StoryRun[p] = StoryOf[t] => t \in contended'
    BY <1>4, <2>1, <2>2 DEF RunOnceRemediate, NothingReady, Meet
  <2> QED
    BY <1>1, <2>3, <2>8, <2>11, <2>12, <2>13
<1>5. CASE db' = FailOpenTasks(db)
  <2>1. /\ db'.working = db.working /\ db'.deps = db.deps
        /\ db'.status = [t \in Tasks |-> IF t \in {u \in Present(db) : ~Finished(db, u)}
                                         THEN "FAILED" ELSE db.status[t]]
    BY <1>0, <1>5 DEF FailOpenTasks, State
  <2>2. /\ Present(db') = Present(db)
        /\ \A t \in Tasks : db'.status[t] = "SUCCESS" <=> db.status[t] = "SUCCESS"
    BY <2>1 DEF Present, Finished
  <2> QED
    BY <1>1, <2>1, <2>2 DEF GrowsInto
<1>6. CASE FastExit(o)
  <2>1. /\ db'.working = db.working /\ db'.deps = db.deps
        /\ db'.status = [t \in Tasks |-> IF t \in StoryTasks(db, StoryRun[o])
                                         THEN "SUCCESS" ELSE db.status[t]]
    BY <1>0, <1>6 DEF FastExit, State
  <2>2. Present(db') = Present(db) /\ StoryTasks(db, StoryRun[o]) \subseteq Tasks
    BY <2>1 DEF Present, StoryTasks
  <2>3. \A t \in StoryTasks(db, StoryRun[o]) : InHand(t) => t \in contended'
    BY <1>6 DEF FastExit, Meet
  <2>4. \A t \in Tasks : db.status[t] = "SUCCESS" => db'.status[t] = "SUCCESS"
    BY <2>1
  <2> QED
    BY <1>1, <2>1, <2>2, <2>3, <2>4 DEF GrowsInto, InHand
<1>7. CASE RescuePass(o)
  <2>1. PICK t \in Tasks :
           /\ IsRescueCandidate(snap[o], t)
           /\ db' = [db EXCEPT !.status[t] = "SUCCESS", !.marked = @ \ {t}]
           /\ Meet({t} \cap {u \in Tasks : InHand(u)})
    BY <1>7 DEF RescuePass
  <2>2. /\ db'.status = [db.status EXCEPT ![t] = "SUCCESS"]
        /\ db'.working = db.working /\ db'.deps = db.deps
    BY <1>0, <2>1 DEF State
  <2>3. t \in Present(db)
    BY <1>0, <2>1 DEF IsRescueCandidate, GrowsInto, Present
  <2>4. Present(db') = Present(db)
    BY <1>0, <2>2, <2>3 DEF Present
  <2>5. /\ \A u \in Tasks : db.status[u] = "SUCCESS" => db'.status[u] = "SUCCESS"
        /\ \A u \in Tasks : db'.status[u] = "SUCCESS" /\ db.status[u] # "SUCCESS" => u = t
    BY <1>0, <2>2
  <2>6. InHand(t) => t \in contended'
    BY <2>1 DEF Meet
  <2> QED
    BY <1>1, <2>2, <2>4, <2>5, <2>6 DEF GrowsInto, InHand
<1>8. CASE StartStory(o) \/ RecordOutcome(o) \/ RunOnceFinalize(o) \/ RescueFail(o)
           \/ UnblockIndependentTasks(o)
  <2>1. db'.status = db.status /\ db'.working = db.working
    BY <1>0, <1>8 DEF StartStory, RecordOutcome, RunOnceFinalize, RescueFail,
       UnblockIndependentTasks, State
  <2>2. \A t \in Tasks : db'.deps[t] \subseteq db.deps[t]
    <3>1. CASE db'.deps = db.deps
      BY <3>1
    <3>2. CASE UnblockIndependentTasks(o)
      BY <1>0, <3>2 DEF UnblockIndependentTasks, State
    <3>3. CASE StartStory(o) \/ RecordOutcome(o) \/ RunOnceFinalize(o) \/ RescueFail(o)
      BY <1>0, <3>1, <3>3 DEF StartStory, RecordOutcome, RunOnceFinalize, RescueFail, State
    <3> QED
      BY <1>8, <3>2, <3>3
  <2> QED
    BY <1>1, <2>1, <2>2 DEF GrowsInto, Present
<1> QED
  BY <1>2, <1>3, <1>4, <1>5, <1>6, <1>7, <1>8 DEF ExecutorNext, StartError, PlanError, ProbeLoad,
     FastExitUnsaved, NotGreen, CheckStory, RunOnceLoad, RunOnceCeilingAbort, RunOnceDispatch,
     RunOnceGateOpen, RunOnceIdle, RunOnceDeadlock, DeadlockAbort, ReceiveCompletion, Refill,
     NothingReady

\* An executor's snapshot is dropped, kept, or taken from the persisted state.
LEMMA ExecutorSnap ==
    ASSUME TypeOK, NEW o \in Orchs, ExecutorNext(o), NEW p \in Orchs
    PROVE  snap'[p] = snap[p] \/ snap'[p] = InitState \/ (snap'[p] = db /\ db' = db)
<1>0. DOMAIN snap = Orchs
  BY DEF TypeOK
<1>1. CASE \/ snap' = snap
           \/ snap' = [snap EXCEPT ![o] = InitState]
           \/ snap' = [snap EXCEPT ![o] = db] /\ db' = db
  BY <1>0, <1>1
<1> QED
  BY <1>1, Zenon DEF ExecutorNext, StartStory, StartError, PlanStory, PlanError, ProbeLoad, FastExit,
     FastExitUnsaved, NotGreen, CheckStory, RecordOutcome, RunOnceLoad, RunOnceCeilingAbort,
     RunOnceDispatch, RunOnceFinalize, RunOnceRemediate, RunOnceGateOpen, RunOnceIdle,
     RunOnceDeadlock, RescuePass, RescueFail, UnblockIndependentTasks, DeadlockAbort,
     ReceiveCompletion, Refill, NothingReady, Return

\* The tasks a selection returns are eligible in the snapshot, so they are in
\* the persisted state and their dependencies are met there or disturbed.
LEMMA SelectedTask ==
    ASSUME MeetInv, NEW o \in Orchs, NEW st \in {snap[o], Masked(snap[o], inflight[o])},
           NEW slots, NEW picked \in SUBSET Tasks, Schedule(o, st, slots, picked),
           NEW t \in picked
    PROVE  /\ t \in Present(db) \cap Present(snap[o])
           /\ \A d \in db.deps[t] : DepMet(db, t, d) \/ Disturbed(db, contended, d)
<1>0. /\ db \in State /\ snap[o] \in State /\ inflight[o] \in SUBSET Tasks
      /\ GrowsInto(snap[o], db, contended)
  BY DEF MeetInv, LimitInv, SnapInv, TypeOK
<1>1. Eligible(st, t)
  BY DEF Schedule, IsReadySet
<1>2. /\ st.deps = snap[o].deps
      /\ \A u \in Tasks : st.status[u] = "ABSENT" <=> snap[o].status[u] = "ABSENT"
      /\ \A u \in Tasks : st.status[u] = "SUCCESS" => snap[o].status[u] = "SUCCESS"
  BY <1>0 DEF Masked, State
<1>3. Present(st) = Present(snap[o])
  BY <1>2 DEF Present
<1>4. t \in Present(snap[o])
  BY <1>1, <1>2 DEF Eligible, Present
<1>5. t \in Present(db)
  BY <1>0, <1>4 DEF GrowsInto
<1>6. ASSUME NEW d \in db.deps[t] PROVE DepMet(db, t, d) \/ Disturbed(db, contended, d)
  <2>0. d \in Tasks
    BY <1>0 DEF State
  <2>1. CASE d \in snap[o].deps[t]
    <3>1. DepMet(st, t, d)
      BY <1>1, <1>2, <2>1 DEF Eligible
    <3>2. DepMet(snap[o], t, d)
      BY <1>2, <1>3, <2>0, <3>1 DEF DepMet, Present
    <3> QED
      BY <1>0, <2>0, <3>2, MetGrows
  <2>2. CASE d \notin snap[o].deps[t]
    BY <1>0, <1>4, <2>2 DEF GrowsInto, DepMet, Disturbed
  <2> QED
    BY <2>1, <2>2
<1> QED
  BY <1>4, <1>5, <1>6

\* What a step of an executor does to the workers of a task: a worker it
\* launches works on a task of the persisted state whose dependencies are met,
\* and on one in which two executors meet if it is in hand or merged.
LEMMA ExecutorLaunches ==
    ASSUME MeetInv, NEW o \in Orchs, ExecutorNext(o), NEW p \in Orchs, NEW t \in Tasks,
           wpc'[p][t] # wpc[p][t]
    PROVE  /\ p = o
           /\ \/ wpc[p][t] = "done" /\ wpc'[p][t] = "none"
              \/ /\ db' = db
                 /\ wpc[p][t] = "none" /\ wpc'[p][t] = "load"
                 /\ t \in Present(db)
                 /\ \A d \in db.deps[t] : DepMet(db, t, d) \/ Disturbed(db, contended, d)
                 /\ InHand(t) \/ db.status[t] = "SUCCESS" => t \in contended'
<1>0. /\ wpc \in [Orchs -> [Tasks -> WorkerLabels]] /\ inflight[o] \in SUBSET Tasks
      /\ inflight[o] = {u \in Tasks : Live(o, u)}
  BY DEF MeetInv, LimitInv, InflightInv, TypeOK
<1>1. ASSUME NEW st \in {snap[o], Masked(snap[o], inflight[o])}, NEW slots,
             NEW picked \in SUBSET Tasks, Schedule(o, st, slots, picked),
             Launch(o, Launchable(o, picked)), db' = db
      PROVE  /\ p = o
             /\ db' = db
             /\ wpc[p][t] = "none" /\ wpc'[p][t] = "load"
             /\ t \in Present(db)
             /\ \A d \in db.deps[t] : DepMet(db, t, d) \/ Disturbed(db, contended, d)
             /\ InHand(t) \/ db.status[t] = "SUCCESS" => t \in contended'
  <2>1. p = o /\ t \in Launchable(o, picked) /\ wpc'[p][t] = "load"
    BY <1>0, <1>1 DEF Launch
  <2>2. t \in picked \ inflight[o]
    BY <2>1 DEF Launchable
  <2>3. wpc[o][t] = "none"
    BY <1>0, <2>2 DEF Live
  <2>4. /\ t \in Present(db)
        /\ \A d \in db.deps[t] : DepMet(db, t, d) \/ Disturbed(db, contended, d)
    BY <1>1, <2>2, SelectedTask
  <2>5. InHand(t) \/ db.status[t] = "SUCCESS" => t \in contended'
    BY <1>1, <2>1 DEF Launch, Meet
  <2> QED
    BY <1>1, <2>1, <2>3, <2>4, <2>5
<1>2. CASE RunOnceDispatch(o)
  <2>1. PICK picked \in SUBSET Tasks :
           /\ Schedule(o, snap[o], FreeSlots(snap[o]), picked)
           /\ Launch(o, Launchable(o, picked))
    BY <1>2 DEF RunOnceDispatch
  <2>2. db' = db
    BY <1>2 DEF RunOnceDispatch
  <2> QED
    BY <1>1, <2>1, <2>2
<1>3. CASE Refill(o)
  <2>1. PICK picked \in SUBSET Tasks :
           /\ Schedule(o, Masked(snap[o], inflight[o]),
                       Concurrency - Cardinality(inflight[o]), picked)
           /\ Launch(o, Launchable(o, picked))
    BY <1>3 DEF Refill
  <2>2. db' = db
    BY <1>3 DEF Refill
  <2> QED
    BY <1>1, <2>1, <2>2
<1>4. CASE \E u \in Tasks : ReceiveCompletion(o, u)
  BY <1>0, <1>4 DEF ReceiveCompletion
<1>5. CASE ~RunOnceDispatch(o) /\ ~Refill(o) /\ ~ \E u \in Tasks : ReceiveCompletion(o, u)
  <2>1. wpc' = wpc
    BY <1>5 DEF ExecutorNext, StartStory, StartError, PlanStory, PlanError, ProbeLoad, FastExit,
       FastExitUnsaved, NotGreen,
       CheckStory, RecordOutcome, RunOnceLoad, RunOnceCeilingAbort, RunOnceFinalize,
       RunOnceRemediate, RunOnceGateOpen, RunOnceIdle, RunOnceDeadlock, RescuePass, RescueFail,
       UnblockIndependentTasks, DeadlockAbort, NothingReady, workerVars
  <2> QED
    BY <2>1
<1> QED
  BY <1>2, <1>3, <1>4, <1>5

\* The snapshots still describe an earlier state when the state grows.
LEMMA SnapGrows ==
    ASSUME MeetInv, TypeOK', contended \subseteq contended', GrowsInto(db, db', contended'),
           \A p \in Orchs :
              snap'[p] = snap[p] \/ snap'[p] = InitState \/ (snap'[p] = db /\ db' = db)
    PROVE  SnapInv'
<1> SUFFICES ASSUME NEW p \in Orchs PROVE GrowsInto(snap'[p], db', contended')
  BY DEF SnapInv
<1>0. /\ db \in State /\ db' \in State /\ snap[p] \in State /\ GrowsInto(snap[p], db, contended)
  BY DEF MeetInv, LimitInv, TypeOK, SnapInv
<1>1. CASE snap'[p] = snap[p]
  BY <1>0, <1>1, GrowsTransitive
<1>2. CASE snap'[p] = InitState
  BY <1>2, InitGrows
<1>3. CASE snap'[p] = db /\ db' = db
  BY <1>3, GrowsReflexive
<1> QED
  BY <1>1, <1>2, <1>3

LEMMA MeetExecutor ==
    ASSUME MeetInv, LimitInv', NEW o \in Orchs, ExecutorNext(o)
    PROVE  MeetInv'
<1>0. TypeOK /\ TypeOK' /\ wpc \in [Orchs -> [Tasks -> WorkerLabels]]
  BY DEF MeetInv, LimitInv, TypeOK
<1>1. /\ cmds' = cmds
      /\ db'.working = db.working
      /\ contended \subseteq contended'
      /\ GrowsInto(db, db', contended')
      /\ \A u \in Tasks : db'.status[u] = "SUCCESS" /\ db.status[u] # "SUCCESS" =>
            \A p \in Orchs : Active(p, u) => u \in contended'
  BY ExecutorGrows
<1>2. SnapInv'
  BY <1>0, <1>1, ExecutorSnap, SnapGrows
<1>3. Present(db) \subseteq Present(db')
  BY <1>1 DEF GrowsInto
<1>4. UniqueInv'
  <2> SUFFICES ASSUME NEW p \in Orchs, NEW q \in Orchs, NEW t \in Tasks,
                      Active(p, t)', Active(q, t)', p # q
               PROVE  t \in contended'
    BY DEF UniqueInv
  <2>1. CASE wpc'[p][t] = wpc[p][t] /\ wpc'[q][t] = wpc[q][t]
    BY <1>1, <2>1 DEF Active, MeetInv, UniqueInv
  <2>2. ASSUME NEW r \in {p, q}, NEW s \in {p, q}, r # s, wpc'[r][t] # wpc[r][t]
        PROVE  t \in contended'
    <3>1. Active(r, t)' /\ Active(s, t)' /\ r \in Orchs /\ s \in Orchs
      BY <2>2
    <3>2. /\ r = o
          /\ InHand(t) \/ db.status[t] = "SUCCESS" => t \in contended'
      BY <2>2, <3>1, ExecutorLaunches DEF Active
    <3>3. wpc'[s][t] = wpc[s][t]
      BY <2>2, <3>1, <3>2, ExecutorLaunches
    <3> QED
      BY <3>1, <3>2, <3>3 DEF Active, InHand
  <2> QED
    BY <2>1, <2>2
<1>5. UndecidedInv'
  <2> SUFFICES ASSUME NEW p \in Orchs, NEW t \in Tasks, Undecided(p, t)', t \notin contended'
               PROVE  db'.status[t] # "SUCCESS"
    BY DEF UndecidedInv
  <2>1. CASE wpc'[p][t] = wpc[p][t]
    <3>1. Undecided(p, t) /\ Active(p, t) /\ t \notin contended
      BY <1>1, <2>1 DEF Undecided, Active
    <3>2. db.status[t] # "SUCCESS"
      BY <3>1 DEF MeetInv, UndecidedInv
    <3> QED
      BY <1>1, <3>1, <3>2
  <2>2. CASE wpc'[p][t] # wpc[p][t]
    BY <2>2, ExecutorLaunches DEF Undecided
  <2> QED
    BY <2>1, <2>2
<1>6. PresentInv'
  <2>1. ASSUME NEW p \in Orchs, NEW t \in Tasks, Live(p, t)' PROVE t \in Present(db')
    <3>1. CASE wpc'[p][t] = wpc[p][t]
      BY <1>3, <2>1, <3>1 DEF Live, MeetInv, PresentInv
    <3>2. CASE wpc'[p][t] # wpc[p][t]
      BY <1>3, <2>1, <3>2, ExecutorLaunches DEF Live
    <3> QED
      BY <3>1, <3>2
  <2> QED
    BY <1>1, <1>3, <2>1 DEF MeetInv, PresentInv
<1> QED
  BY <1>2, <1>4, <1>5, <1>6 DEF MeetInv

LEMMA MeetWorker ==
    ASSUME MeetInv, LimitInv', NEW o \in Orchs, NEW t \in Tasks, WorkerNext(o, t)
    PROVE  MeetInv'
<1>0. TypeOK /\ TypeOK'
  BY DEF MeetInv, LimitInv
<1>1. /\ GrowsInto(db, db', contended') /\ contended' = contended
      /\ db'.working \subseteq Present(db') /\ Present(db') = Present(db)
      /\ \A u \in Tasks : db'.status[u] = "SUCCESS" /\ db.status[u] # "SUCCESS" =>
            u = t /\ wpc'[o][t] = "release"
  BY WorkerGrows
<1>2. /\ Active(o, t) /\ Live(o, t)
      /\ \A p \in Orchs, u \in Tasks : << p, u >> # << o, t >> => wpc'[p][u] = wpc[p][u]
      /\ UNCHANGED << cmds, snap >>
  BY <1>0, LiveWorker
<1>3. SnapInv'
  BY <1>0, <1>1, <1>2, SnapGrows
<1>4. Undecided(o, t)' => Undecided(o, t)
  <2>1. CASE WorkerRelease(o, t)
    BY <1>0, <2>1 DEF WorkerRelease, Worker, TypeOK, Undecided
  <2>2. CASE ~WorkerRelease(o, t)
    <3>1. \E x \in WorkerLabels \ {"none", "done", "release"}, y \in WorkerLabels : Worker(o, t, x, y)
      BY <2>2, Zenon DEF WorkerNext, WorkerLoad, WorkerMark, WorkerMarkError, WorkerSetupError,
         WorkerRun, WorkerAgentDone, WorkerPersist, WorkerPersistError, WorkerLabels
    <3> QED
      BY <3>1 DEF Worker, WorkerLabels, Undecided
  <2> QED
    BY <2>1, <2>2
<1>5. \A p \in Orchs, u \in Tasks : /\ Live(p, u)' => Live(p, u)
                                    /\ Active(p, u)' => Active(p, u)
                                    /\ Undecided(p, u)' => Undecided(p, u)
  <2> SUFFICES ASSUME NEW p \in Orchs, NEW u \in Tasks
               PROVE  /\ Live(p, u)' => Live(p, u)
                      /\ Active(p, u)' => Active(p, u)
                      /\ Undecided(p, u)' => Undecided(p, u)
    OBVIOUS
  <2>1. CASE p = o /\ u = t
    BY <1>2, <1>4, <2>1
  <2>2. CASE ~(p = o /\ u = t)
    BY <1>2, <2>2 DEF Live, Active, Undecided
  <2> QED
    BY <2>1, <2>2
<1>6. UniqueInv'
  BY <1>1, <1>5 DEF MeetInv, UniqueInv
<1>7. UndecidedInv'
  <2> SUFFICES ASSUME NEW p \in Orchs, NEW u \in Tasks, Undecided(p, u)', u \notin contended',
                      db'.status[u] = "SUCCESS"
               PROVE  FALSE
    BY DEF UndecidedInv
  <2>1. db.status[u] # "SUCCESS"
    BY <1>1, <1>5 DEF MeetInv, UndecidedInv
  <2>2. u = t /\ wpc'[o][t] = "release"
    BY <1>1, <2>1
  <2>3. p # o
    BY <2>2 DEF Undecided
  <2>4. Active(p, t)
    BY <1>5, <2>2 DEF Undecided, Active
  <2> QED
    BY <1>1, <1>2, <2>2, <2>3, <2>4 DEF MeetInv, UniqueInv
<1>8. PresentInv'
  BY <1>1, <1>2, <1>5 DEF MeetInv, PresentInv
<1> QED
  BY <1>3, <1>6, <1>7, <1>8 DEF MeetInv

LEMMA MeetEnv ==
    ASSUME MeetInv, LimitInv', EnvNext \/ Terminated \/ UNCHANGED vars
    PROVE  MeetInv'
<1>0. TypeOK' /\ db \in State /\ cmds \in Seq(Commands)
  BY DEF MeetInv, LimitInv, TypeOK
<1>1. /\ GrowsInto(db, db', contended') /\ contended' = contended
      /\ db'.working \subseteq Present(db') /\ Present(db') = Present(db)
      /\ \A u \in Tasks : db'.status[u] = "SUCCESS" => db.status[u] = "SUCCESS"
      /\ UNCHANGED << opc, snap, inflight, wpc, exit, locks, leaked >>
  BY EnvWrites
<1>2. SnapInv'
  BY <1>0, <1>1, SnapGrows
<1>3. \A i \in 1..Len(cmds') : cmds'[i].task \in Present(db)
  <2>1. CASE cmds' = cmds
    BY <2>1 DEF MeetInv, PresentInv
  <2>2. CASE ApplyCommand
    <3>1. cmds' = Tail(cmds) /\ cmds # << >>
      BY <2>2 DEF ApplyCommand
    <3>2. Len(cmds') = Len(cmds) - 1 /\ \A i \in 1..Len(cmds') : cmds'[i] = cmds[i + 1]
      BY <1>0, <3>1
    <3> QED
      BY <1>0, <3>1, <3>2 DEF MeetInv, PresentInv
  <2>3. ASSUME NEW t \in Tasks, WatchdogTick(t)
        PROVE  \A i \in 1..Len(cmds') : cmds'[i].task \in Present(db)
    <3>1. PICK c \in StallCommands(db, t) : cmds' = Append(cmds, c)
      BY <2>3 DEF WatchdogTick
    <3>2. t \in Present(db)
      BY <2>3 DEF WatchdogTick, FrozenTask, InconsistentAgent, Present, MeetInv, PresentInv
    <3>3. c \in Commands /\ c.task \in Present(db)
      BY <3>2 DEF StallCommands, Commands, Heuristic
    <3>4. Len(cmds') = Len(cmds) + 1
          /\ \A i \in 1..Len(cmds') : cmds'[i] = IF i = Len(cmds) + 1 THEN c ELSE cmds[i]
      BY <1>0, <3>1, <3>3
    <3> QED
      BY <1>0, <3>3, <3>4 DEF MeetInv, PresentInv
  <2> QED
    BY <2>1, <2>2, <2>3 DEF EnvNext, ExceedCeiling, ResolveClarification, Terminated, vars
<1>4. UniqueInv' /\ UndecidedInv'
  BY <1>1 DEF MeetInv, UniqueInv, UndecidedInv, Active, Undecided
<1>5. PresentInv'
  BY <1>1, <1>3 DEF MeetInv, PresentInv, Live
<1> QED
  BY <1>2, <1>4, <1>5 DEF MeetInv

LEMMA MeetNext == MeetInv /\ [Next]_vars => MeetInv'
<1> SUFFICES ASSUME MeetInv, [Next]_vars PROVE MeetInv'
  OBVIOUS
<1>1. LimitInv'
  BY LimitNext DEF MeetInv
<1> QED
  BY <1>1, MeetExecutor, MeetWorker, MeetEnv DEF Next

LEMMA MeetInit == Init => MeetInv
<1> SUFFICES ASSUME Init PROVE MeetInv
  OBVIOUS
<1>1. LimitInv
  BY LimitInit
<1>2. UniqueInv /\ UndecidedInv
  BY DEF Init, UniqueInv, UndecidedInv, Active, Undecided
<1>3. SnapInv
  BY InitGrows DEF Init, SnapInv
<1>4. PresentInv
  BY DEF Init, PresentInv, Live, InitState
<1> QED
  BY <1>1, <1>2, <1>3, <1>4 DEF MeetInv

\* Every step lets the persisted state grow.
LEMMA NextGrows ==
    ASSUME MeetInv, [Next]_vars
    PROVE  GrowsInto(db, db', contended') /\ contended \subseteq contended'
<1>1. CASE \E o \in Orchs : ExecutorNext(o)
  BY <1>1, ExecutorGrows
<1>2. CASE \E o \in Orchs, t \in Tasks : WorkerNext(o, t)
  BY <1>2, WorkerGrows
<1>3. CASE EnvNext \/ Terminated \/ UNCHANGED vars
  BY <1>3, EnvWrites
<1> QED
  BY <1>1, <1>2, <1>3 DEF Next

\* A merged task stays merged, whatever watchdog commands, late workers,
\* ceilings and aborts arrive and however many stories run at once, unless two
\* executors met in it.
THEOREM MergedTasksStay == Spec => SuccessStable
<1>1. MeetInv /\ [Next]_vars =>
        [\A t \in Tasks : db.status[t] = "SUCCESS" =>
           db'.status[t] = "SUCCESS" \/ t \in contended']_vars
  BY NextGrows DEF GrowsInto
<1>2. Spec => []MeetInv
  BY MeetInit, MeetNext, PTL DEF Spec
<1> QED
  BY <1>1, <1>2, PTL DEF Spec, SuccessStable
-----------------------------------------------------------------------------
(***************************************************************************)
(* Mutual exclusion on files, and the locks themselves.                    *)
(***************************************************************************)

\* A task that is in hand holds its files, unless two executors met in it.
LockInv ==
    \A o \in Orchs, t \in Tasks : Active(o, t) /\ t \notin contended =>
        \A f \in TargetFiles[t] : locks[f] = t

ExclInv == MeetInv /\ LockInv /\ NoOrphanLock

\* The two actions that launch, and the abort that selects and launches
\* nothing, are the steps of an executor that touch the registry.
LEMMA ExecutorLocks ==
    ASSUME LimitInv, NEW o \in Orchs, ExecutorNext(o)
    PROVE  \/ UNCHANGED << locks, wpc, leaked >>
           \/ \E picked \in SUBSET Tasks : \E st, slots :
                 /\ IsReadySet(st, locks, slots, picked)
                 /\ locks' = AcquireLocks(locks, picked)
                 /\ \/ Launch(o, picked) /\ leaked' = leaked
                    \/ wpc' = wpc /\ leaked' = leaked \cup picked
           \/ /\ UNCHANGED << locks, leaked >>
              /\ \E t \in Tasks : wpc[o][t] = "done" /\ wpc' = [wpc EXCEPT ![o][t] = "none"]
<1>1. CASE RunOnceDispatch(o)
  <2>1. PICK picked \in SUBSET Tasks :
           /\ Schedule(o, snap[o], FreeSlots(snap[o]), picked)
           /\ Launch(o, Launchable(o, picked))
    BY <1>1 DEF RunOnceDispatch
  <2>2. Launchable(o, picked) = picked
    BY <1>1, <2>1, AllLaunched DEF RunOnceDispatch
  <2> QED
    BY <1>1, <2>1, <2>2 DEF RunOnceDispatch, Schedule
<1>2. CASE Refill(o)
  <2>1. PICK picked \in SUBSET Tasks :
           /\ Schedule(o, Masked(snap[o], inflight[o]),
                       Concurrency - Cardinality(inflight[o]), picked)
           /\ Launch(o, Launchable(o, picked))
    BY <1>2 DEF Refill
  <2>2. Launchable(o, picked) = picked
    BY <2>1, AllLaunched
  <2>3. leaked' = leaked
    BY <1>2 DEF Refill
  <2> QED
    BY <2>1, <2>2, <2>3 DEF Schedule
<1>3. CASE RunOnceCeilingAbort(o)
  BY <1>3 DEF RunOnceCeilingAbort, Schedule, workerVars
<1>4. CASE \E t \in Tasks : ReceiveCompletion(o, t)
  BY <1>4 DEF ReceiveCompletion, history
<1>5. CASE ~RunOnceDispatch(o) /\ ~Refill(o) /\ ~RunOnceCeilingAbort(o)
           /\ ~ \E t \in Tasks : ReceiveCompletion(o, t)
  <2>1. UNCHANGED << locks, wpc, leaked >>
    BY <1>5 DEF ExecutorNext, StartStory, StartError, PlanStory, PlanError, ProbeLoad, FastExit,
       FastExitUnsaved, NotGreen, CheckStory, RecordOutcome, RunOnceLoad, RunOnceFinalize,
       RunOnceRemediate, RunOnceGateOpen, RunOnceIdle, RunOnceDeadlock, RescuePass, RescueFail,
       UnblockIndependentTasks, DeadlockAbort, NothingReady, workerVars, history
  <2> QED
    BY <2>1
<1> QED
  BY <1>1, <1>2, <1>3, <1>4, <1>5

LEMMA ExclExecutor ==
    ASSUME ExclInv, MeetInv', NEW o \in Orchs, ExecutorNext(o)
    PROVE  LockInv' /\ NoOrphanLock'
<1>0. /\ LimitInv /\ locks \in [Files -> Tasks \cup {None}] /\ locks' \in [Files -> Tasks \cup {None}]
      /\ wpc \in [Orchs -> [Tasks -> WorkerLabels]] /\ LockInv /\ NoOrphanLock
      /\ contended \subseteq contended'
      /\ \A t \in Tasks : TargetFiles[t] \subseteq Files
  BY ExecutorGrows, TargetFilesAssumption DEF ExclInv, MeetInv, LimitInv, TypeOK
<1>1. CASE UNCHANGED << locks, wpc, leaked >>
  <2>1. \A p \in Orchs, t \in Tasks : Active(p, t)' <=> Active(p, t)
    BY <1>1 DEF Active
  <2>2. LockInv'
    BY <1>0, <1>1, <2>1 DEF LockInv
  <2>3. NoOrphanLock'
    BY <1>0, <1>1, <2>1 DEF NoOrphanLock, InHand
  <2> QED
    BY <2>2, <2>3
<1>2. ASSUME NEW picked \in SUBSET Tasks, NEW st, NEW slots,
             IsReadySet(st, locks, slots, picked),
             locks' = AcquireLocks(locks, picked),
             \/ Launch(o, picked) /\ leaked' = leaked
             \/ wpc' = wpc /\ leaked' = leaked \cup picked
      PROVE  LockInv' /\ NoOrphanLock'
  <2>1. \A p \in Orchs, t \in Tasks :
           /\ Active(p, t) => Active(p, t)'
           /\ Active(p, t)' => Active(p, t) \/ t \in picked
    BY <1>0, <1>2 DEF Launch, Active
  <2>2. \A t \in picked : Active(o, t)' \/ t \in leaked'
    BY <1>0, <1>2 DEF Launch, Active
  <2>3. LockInv'
    <3> SUFFICES ASSUME NEW p \in Orchs, NEW t \in Tasks, Active(p, t)', t \notin contended',
                        NEW f \in TargetFiles[t]
                 PROVE  locks'[f] = t
      BY DEF LockInv
    <3>0. f \in Files
      BY <1>0
    <3>1. CASE t \in picked
      BY <1>2, <3>0, <3>1, AcquireHeld
    <3>2. CASE t \notin picked
      <4>1. locks[f] = t
        BY <1>0, <2>1, <3>2 DEF LockInv
      <4> QED
        BY <1>2, <3>0, <3>2, <4>1, AcquireKept
    <3> QED
      BY <3>1, <3>2
  <2>4. NoOrphanLock'
    <3> SUFFICES ASSUME NEW f \in Files, locks'[f] # None
                 PROVE  (\E p \in Orchs : Active(p, locks[f])') \/ locks'[f] \in leaked'
      BY DEF NoOrphanLock, InHand
    <3>1. CASE \E t \in picked : f \in TargetFiles[t]
      BY <1>2, <2>2, <3>1, AcquireHolder
    <3>2. CASE ~ \E t \in picked : f \in TargetFiles[t]
      <4>1. locks'[f] = locks[f] /\ locks[f] \in Tasks
        BY <1>0, <1>2, <3>2 DEF AcquireLocks
      <4>2. (\E p \in Orchs : Active(p, locks[f])) \/ locks[f] \in leaked
        BY <1>0, <4>1 DEF NoOrphanLock, InHand
      <4>3. leaked \subseteq leaked'
        BY <1>2
      <4> QED
        BY <2>1, <4>1, <4>2, <4>3
    <3> QED
      BY <3>1, <3>2
  <2> QED
    BY <2>3, <2>4
<1>3. ASSUME UNCHANGED << locks, leaked >>, NEW t \in Tasks,
             wpc[o][t] = "done", wpc' = [wpc EXCEPT ![o][t] = "none"]
      PROVE  LockInv' /\ NoOrphanLock'
  <2>1. \A p \in Orchs, u \in Tasks : Active(p, u)' <=> Active(p, u)
    BY <1>0, <1>3 DEF Active
  <2>2. LockInv'
    BY <1>0, <1>3, <2>1 DEF LockInv
  <2>3. NoOrphanLock'
    BY <1>0, <1>3, <2>1 DEF NoOrphanLock, InHand
  <2> QED
    BY <2>2, <2>3
<1> QED
  BY <1>0, <1>1, <1>2, <1>3, ExecutorLocks

LEMMA ExclWorker ==
    ASSUME ExclInv, NEW o \in Orchs, NEW t \in Tasks, WorkerNext(o, t)
    PROVE  LockInv' /\ NoOrphanLock'
<1>0. /\ TypeOK /\ locks \in [Files -> Tasks \cup {None}]
      /\ wpc \in [Orchs -> [Tasks -> WorkerLabels]] /\ LockInv /\ NoOrphanLock /\ UniqueInv
      /\ \A u \in Tasks : TargetFiles[u] \subseteq Files
  BY TargetFilesAssumption DEF ExclInv, MeetInv, LimitInv, TypeOK
<1>1. /\ Active(o, t) /\ contended' = contended
      /\ \A p \in Orchs, u \in Tasks : << p, u >> # << o, t >> => wpc'[p][u] = wpc[p][u]
  BY <1>0, LiveWorker
<1>2. /\ \A p \in Orchs, u \in Tasks : Active(p, u)' => Active(p, u)
      /\ \A p \in Orchs, u \in Tasks : Active(p, u) /\ u # t => Active(p, u)'
  BY <1>1 DEF Active
<1>3. CASE WorkerRelease(o, t)
  <2>1. locks' = ReleaseLocks(locks, t) /\ leaked' = leaked \ {t} /\ wpc'[o][t] = "done"
    BY <1>0, <1>3 DEF WorkerRelease, Worker
  <2>2. LockInv'
    <3> SUFFICES ASSUME NEW p \in Orchs, NEW u \in Tasks, Active(p, u)', u \notin contended',
                        NEW f \in TargetFiles[u]
                 PROVE  locks'[f] = u
      BY DEF LockInv
    <3>1. u # t
      BY <1>0, <1>1, <1>2, <2>1 DEF UniqueInv, Active
    <3>2. locks[f] = u /\ f \in Files
      BY <1>0, <1>1, <1>2 DEF LockInv
    <3> QED
      BY <2>1, <3>1, <3>2 DEF ReleaseLocks
  <2>3. NoOrphanLock'
    <3> SUFFICES ASSUME NEW f \in Files, locks'[f] # None
                 PROVE  (\E p \in Orchs : Active(p, locks[f])') \/ locks'[f] \in leaked'
      BY DEF NoOrphanLock, InHand
    <3>1. locks'[f] = locks[f] /\ locks[f] # t /\ locks[f] \in Tasks
      BY <1>0, <2>1 DEF ReleaseLocks
    <3>2. (\E p \in Orchs : Active(p, locks[f])) \/ locks[f] \in leaked
      BY <1>0, <3>1 DEF NoOrphanLock, InHand
    <3> QED
      BY <1>2, <2>1, <3>1, <3>2
  <2> QED
    BY <2>2, <2>3
<1>4. CASE ~WorkerRelease(o, t)
  <2>1. locks' = locks /\ leaked \subseteq leaked'
    BY <1>4, Zenon DEF WorkerNext, WorkerLoad, WorkerMark, WorkerMarkError, WorkerSetupError,
       WorkerRun, WorkerAgentDone, WorkerPersist, WorkerPersistError
  <2>2. Active(o, t)' \/ t \in leaked'
    <3>1. CASE WorkerMarkError(o, t) \/ WorkerSetupError(o, t)
      BY <3>1 DEF WorkerMarkError, WorkerSetupError
    <3>2. CASE ~(WorkerMarkError(o, t) \/ WorkerSetupError(o, t))
      <4>1. \E x \in WorkerLabels, y \in WorkerLabels \ {"none", "done"} : Worker(o, t, x, y)
        BY <1>4, <3>2, Zenon DEF WorkerNext, WorkerLoad, WorkerMark, WorkerRun, WorkerAgentDone,
           WorkerPersist, WorkerPersistError, WorkerLabels
      <4> QED
        BY <1>0, <4>1 DEF Worker, Active
    <3> QED
      BY <3>1, <3>2
  <2>3. LockInv'
    BY <1>0, <1>1, <1>2, <2>1 DEF LockInv
  <2>4. NoOrphanLock'
    <3> SUFFICES ASSUME NEW f \in Files, locks'[f] # None
                 PROVE  (\E p \in Orchs : Active(p, locks[f])') \/ locks'[f] \in leaked'
      BY DEF NoOrphanLock, InHand
    <3>1. locks[f] \in Tasks /\ ((\E p \in Orchs : Active(p, locks[f])) \/ locks[f] \in leaked)
      BY <1>0, <2>1 DEF NoOrphanLock, InHand
    <3> QED
      BY <1>2, <2>1, <2>2, <3>1
  <2> QED
    BY <2>3, <2>4
<1> QED
  BY <1>3, <1>4

LEMMA ExclNext == ExclInv /\ [Next]_vars => ExclInv'
<1> SUFFICES ASSUME ExclInv, [Next]_vars PROVE ExclInv'
  OBVIOUS
<1>1. MeetInv'
  BY MeetNext DEF ExclInv
<1>2. CASE \E o \in Orchs : ExecutorNext(o)
  BY <1>1, <1>2, ExclExecutor DEF ExclInv
<1>3. CASE \E o \in Orchs, t \in Tasks : WorkerNext(o, t)
  BY <1>1, <1>3, ExclWorker DEF ExclInv
<1>4. CASE EnvNext \/ Terminated \/ UNCHANGED vars
  <2>1. UNCHANGED << wpc, locks, leaked, contended >>
    BY <1>4, EnvWrites DEF ExclInv
  <2>2. \A o \in Orchs, t \in Tasks : Active(o, t)' <=> Active(o, t)
    BY <2>1 DEF Active
  <2>3. locks \in [Files -> Tasks \cup {None}]
    BY DEF ExclInv, MeetInv, LimitInv, TypeOK
  <2>4. LockInv'
    BY <2>1, <2>2 DEF ExclInv, LockInv
  <2>5. NoOrphanLock'
    BY <2>1, <2>2, <2>3 DEF ExclInv, NoOrphanLock, InHand
  <2> QED
    BY <1>1, <2>4, <2>5 DEF ExclInv
<1> QED
  BY <1>2, <1>3, <1>4 DEF Next

LEMMA ExclAlways == Spec => []ExclInv
<1>1. Init => ExclInv
  <2> SUFFICES ASSUME Init PROVE ExclInv
    OBVIOUS
  <2>1. LockInv /\ NoOrphanLock
    BY DEF Init, LockInv, NoOrphanLock, NoLocks, Active
  <2> QED
    BY <2>1, MeetInit DEF ExclInv
<1> QED
  BY <1>1, ExclNext, PTL DEF Spec

\* However many stories run at once, two workers only ever have a target file
\* in common when two executors met in one of their tasks: the registry keeps
\* different tasks apart, and a lock is lost to another worker of the same
\* task only.
THEOREM MutualExclusion == Spec => []ExclusionUnlessContended
<1>1. ExclInv => ExclusionUnlessContended
  <2> SUFFICES ASSUME ExclInv, NEW o \in Orchs, NEW p \in Orchs, NEW t \in Tasks, NEW u \in Tasks,
                      Active(o, t), Active(p, u), << o, t >> # << p, u >>,
                      t \notin contended, u \notin contended,
                      NEW f \in TargetFiles[t] \cap TargetFiles[u]
               PROVE  FALSE
    BY DEF ExclusionUnlessContended
  <2>1. locks[f] = t /\ locks[f] = u
    BY DEF ExclInv, LockInv
  <2> QED
    BY <2>1 DEF ExclInv, MeetInv, UniqueInv
<1> QED
  BY <1>1, ExclAlways, PTL

\* With every fault, ceiling and watchdog command allowed, the early returns
\* of executeTask and the ceiling abort are the only ways to leave a lock
\* behind: the selection never locks a task that dispatch() then skips, and a
\* worker that reaches its end gives back what it took, whatever its outcome.
THEOREM LocksAreReturned == Spec => []NoOrphanLock
<1>1. ExclInv => NoOrphanLock
  BY DEF ExclInv
<1> QED
  BY <1>1, ExclAlways, PTL
-----------------------------------------------------------------------------
(***************************************************************************)
(* Dependencies.                                                           *)
(***************************************************************************)
OrderInv == MeetInv /\ DependencyOrder

LEMMA OrderNext == OrderInv /\ [Next]_vars => OrderInv'
<1> SUFFICES ASSUME OrderInv, [Next]_vars PROVE OrderInv'
  OBVIOUS
<1>1. MeetInv' /\ MeetInv /\ GrowsInto(db, db', contended') /\ contended \subseteq contended'
  BY MeetNext, NextGrows DEF OrderInv
<1>2. ASSUME NEW o \in Orchs, NEW t \in Tasks, t \in Present(db), NEW d \in db'.deps[t],
             \A e \in db.deps[t] : DepMet(db, t, e) \/ Disturbed(db, contended, e)
      PROVE  DepMet(db', t, d) \/ Disturbed(db', contended', d)
  <2>1. d \in Tasks
    BY <1>1 DEF MeetInv, LimitInv, TypeOK, State
  <2>2. CASE d \in db.deps[t]
    BY <1>1, <1>2, <2>1, <2>2, MetGrows
  <2>3. CASE d \notin db.deps[t]
    BY <1>1, <1>2, <2>3 DEF GrowsInto, DepMet, Disturbed
  <2> QED
    BY <2>2, <2>3
<1>3. ASSUME NEW o \in Orchs, NEW t \in Tasks, Active(o, t)'
      PROVE  /\ t \in Present(db)
             /\ \A e \in db.deps[t] : DepMet(db, t, e) \/ Disturbed(db, contended, e)
  <2>1. CASE Active(o, t)
    <3>1. Live(o, t)
      BY <2>1 DEF Active, Live
    <3> QED
      BY <1>1, <2>1, <3>1 DEF OrderInv, DependencyOrder, MeetInv, PresentInv
  <2>2. CASE ~Active(o, t)
    <3>1. wpc'[o][t] # wpc[o][t]
      BY <1>3, <2>2 DEF Active
    <3>2. ASSUME NEW p \in Orchs, ExecutorNext(p)
          PROVE  /\ t \in Present(db)
                 /\ \A e \in db.deps[t] : DepMet(db, t, e) \/ Disturbed(db, contended, e)
      BY <1>1, <1>3, <3>1, <3>2, ExecutorLaunches DEF Active
    <3>3. ASSUME NEW p \in Orchs, NEW u \in Tasks, WorkerNext(p, u) PROVE FALSE
      BY <1>1, <2>2, <3>1, <3>3, LiveWorker DEF MeetInv, LimitInv
    <3>4. CASE EnvNext \/ Terminated \/ UNCHANGED vars
      BY <1>1, <3>1, <3>4, EnvWrites
    <3> QED
      BY <3>2, <3>3, <3>4 DEF Next
  <2> QED
    BY <2>1, <2>2
<1> QED
  BY <1>1, <1>2, <1>3 DEF OrderInv, DependencyOrder

\* Whatever else writes the state while a task runs (another executor's
\* workers and aborts, remediation, pruning, rescues, watchdog commands), what
\* the task still depends on is merged, or two executors met there.
THEOREM WorkersRespectDependencies == Spec => []DependencyOrder
<1>1. Init => OrderInv
  <2> SUFFICES ASSUME Init PROVE OrderInv
    OBVIOUS
  <2>1. DependencyOrder
    BY DEF Init, DependencyOrder, Active
  <2> QED
    BY <2>1, MeetInit DEF OrderInv
<1>2. OrderInv => DependencyOrder
  BY DEF OrderInv
<1> QED
  BY <1>1, <1>2, OrderNext, PTL DEF Spec
-----------------------------------------------------------------------------
(***************************************************************************)
(* What an executor reports.                                               *)
(***************************************************************************)

\* A successful executor is done, and its story has tasks.
DoneInv ==
    \A o \in Orchs : exit[o] = "ok" =>
        opc[o] \in {"record", "exited"} /\ StoryTasks(db, StoryRun[o]) # {}

ReportInv == MeetInv /\ DoneInv /\ ExitSound

\* An executor reports success only on what it reads or writes itself.
LEMMA ExecutorReports ==
    ASSUME MeetInv, NEW o \in Orchs, ExecutorNext(o), NEW p \in Orchs,
           exit'[p] = "ok", exit[p] # "ok"
    PROVE  /\ p = o
           /\ opc'[o] = "record"
           /\ StoryTasks(db', StoryRun[o]) # {}
           /\ \A t \in StoryTasks(db', StoryRun[o]) : db'.status[t] = "SUCCESS"
<1>0. /\ db \in State /\ exit \in [Orchs -> {"none", "ok", "unsaved", "failed"}]
      /\ DOMAIN opc = Orchs /\ StoryRun[o] \in Stories
  BY OrchsAssumption DEF MeetInv, LimitInv, TypeOK
<1>1. CASE FastExit(o)
  <2>1. db = snap[o] /\ StoryTasks(db, StoryRun[o]) # {}
    BY <1>1 DEF FastExit
  <2>2. db'.status = [t \in Tasks |-> IF t \in StoryTasks(db, StoryRun[o])
                                      THEN "SUCCESS" ELSE db.status[t]]
    BY <1>0, <1>1, <2>1 DEF FastExit, State
  <2>3. p = o /\ opc'[o] = "record"
    BY <1>0, <1>1 DEF FastExit, GoTo
  <2>4. StoryTasks(db', StoryRun[o]) = StoryTasks(db, StoryRun[o])
    BY <2>2 DEF StoryTasks, Present
  <2>5. StoryTasks(db, StoryRun[o]) \subseteq Tasks
    BY DEF StoryTasks, Present
  <2> QED
    BY <2>1, <2>2, <2>3, <2>4, <2>5
<1>2. CASE CheckStory(o)
  <2>1. /\ p = o /\ opc'[o] = "record" /\ db' = db
        /\ StoryDone(o)
        /\ ~ \E t \in StoryTasks(db, StoryRun[o]) : db.status[t] = "FAILED"
    BY <1>0, <1>2 DEF CheckStory, GoTo
  <2> QED
    BY <2>1 DEF StoryDone, Finished
<1>3. CASE ~FastExit(o) /\ ~CheckStory(o)
  <2>1. \A q \in Orchs : exit'[q] \in {exit[q], "failed", "unsaved"}
    <3>1. CASE exit' = exit
      BY <3>1
    <3>2. CASE StartError(o) \/ PlanError(o) \/ FastExitUnsaved(o)
      BY <1>0, <3>2 DEF StartError, PlanError, FastExitUnsaved
    <3> QED
      BY <1>3, <3>1, <3>2, Zenon DEF ExecutorNext, StartStory, PlanStory, ProbeLoad, NotGreen,
       RecordOutcome, RunOnceLoad, RunOnceCeilingAbort, RunOnceDispatch, RunOnceFinalize,
       RunOnceRemediate, RunOnceGateOpen, RunOnceIdle, RunOnceDeadlock, RescuePass, RescueFail,
       UnblockIndependentTasks, DeadlockAbort, ReceiveCompletion, Refill
  <2> QED
    BY <2>1
<1> QED
  BY <1>1, <1>2, <1>3

\* An executor that is done only records its outcome.
LEMMA DoneExecutor ==
    ASSUME TypeOK, NEW o \in Orchs, ExecutorNext(o), opc[o] \in {"record", "exited"}
    PROVE  opc'[o] = "exited"
<1>1. RecordOutcome(o)
  BY DEF ExecutorNext, StartStory, StartError, PlanStory, PlanError, ProbeLoad, FastExit,
     FastExitUnsaved, NotGreen, CheckStory, RunOnceLoad, RunOnceCeilingAbort,
     RunOnceDispatch, RunOnceFinalize, RunOnceRemediate, RunOnceGateOpen, RunOnceIdle,
     RunOnceDeadlock, RescuePass, RescueFail, UnblockIndependentTasks, DeadlockAbort,
     ReceiveCompletion, Refill, NothingReady
<1> QED
  BY <1>1 DEF RecordOutcome, GoTo, TypeOK

\* A task that is added to a story already reported belongs to another
\* executor too.
LEMMA NextAdds ==
    ASSUME ReportInv, [Next]_vars, NEW p \in Orchs, exit[p] = "ok",
           NEW t \in Present(db') \ Present(db), StoryOf[t] = StoryRun[p]
    PROVE  t \in contended'
<1>0. MeetInv /\ opc[p] \in {"record", "exited"}
  BY DEF ReportInv, DoneInv
<1>1. t \in Remedial
  <2>1. PICK u \in Present(db) : StoryOf[u] = StoryRun[p]
    BY DEF ReportInv, DoneInv, StoryTasks
  <2> QED
    BY <1>0, <2>1, NextGrows DEF GrowsInto
<1>2. PICK o \in Orchs : ExecutorNext(o)
  <2>1. CASE \E o \in Orchs, u \in Tasks : WorkerNext(o, u)
    BY <1>0, <2>1, WorkerGrows
  <2>2. CASE EnvNext \/ Terminated \/ UNCHANGED vars
    BY <1>0, <2>2, EnvWrites
  <2> QED
    BY <2>1, <2>2 DEF Next
<1>3. /\ opc[o] = "sched"
      /\ \A q \in Orchs \ {o} : StoryRun[q] = StoryOf[t] => t \in contended'
  BY <1>0, <1>1, <1>2, ExecutorGrows
<1> QED
  BY <1>0, <1>3

LEMMA ReportNext == ReportInv /\ [Next]_vars => ReportInv'
<1> SUFFICES ASSUME ReportInv, [Next]_vars PROVE ReportInv'
  OBVIOUS
<1>0. MeetInv' /\ MeetInv /\ TypeOK /\ GrowsInto(db, db', contended') /\ contended \subseteq contended'
  BY MeetNext, NextGrows DEF ReportInv, MeetInv, LimitInv
<1>1. ASSUME NEW p \in Orchs, exit[p] = "ok"
      PROVE  /\ StoryTasks(db', StoryRun[p]) # {}
             /\ \A t \in StoryTasks(db', StoryRun[p]) : db'.status[t] = "SUCCESS" \/ t \in contended'
  <2>1. StoryTasks(db', StoryRun[p]) # {}
    BY <1>0, <1>1 DEF ReportInv, DoneInv, StoryTasks, GrowsInto
  <2>2. ASSUME NEW t \in StoryTasks(db', StoryRun[p])
        PROVE  db'.status[t] = "SUCCESS" \/ t \in contended'
    <3>1. CASE t \in Present(db)
      <4>1. t \in Tasks /\ (db.status[t] = "SUCCESS" \/ t \in contended)
        BY <1>1, <3>1 DEF ReportInv, ExitSound, StoryTasks, Present
      <4> QED
        BY <1>0, <4>1 DEF GrowsInto
    <3>2. CASE t \notin Present(db)
      BY <1>1, <3>2, NextAdds DEF StoryTasks
    <3> QED
      BY <3>1, <3>2
  <2> QED
    BY <2>1, <2>2
<1>2. ASSUME NEW p \in Orchs, exit'[p] = "ok"
      PROVE  /\ opc'[p] \in {"record", "exited"}
             /\ StoryTasks(db', StoryRun[p]) # {}
             /\ \A t \in StoryTasks(db', StoryRun[p]) : db'.status[t] = "SUCCESS" \/ t \in contended'
  <2>1. ASSUME NEW o \in Orchs, ExecutorNext(o), exit[p] = "ok"
        PROVE  opc'[p] \in {"record", "exited"}
    <3>1. opc[p] \in {"record", "exited"}
      BY <2>1 DEF ReportInv, DoneInv
    <3>2. CASE p = o
      BY <1>0, <2>1, <3>1, <3>2, DoneExecutor
    <3>3. CASE p # o
      BY <1>0, <2>1, <3>1, <3>3, ExecutorWorkers
    <3> QED
      BY <3>2, <3>3
  <2>2. CASE \E o \in Orchs, t \in Tasks : WorkerNext(o, t)
    BY <1>0, <1>1, <1>2, <2>2, LiveWorker DEF ReportInv, DoneInv
  <2>3. CASE EnvNext \/ Terminated \/ UNCHANGED vars
    BY <1>0, <1>1, <1>2, <2>3, EnvWrites DEF ReportInv, DoneInv
  <2>4. CASE \E o \in Orchs : ExecutorNext(o)
    <3>1. CASE exit[p] = "ok"
      BY <1>1, <2>1, <2>4, <3>1
    <3>2. CASE exit[p] # "ok"
      BY <1>0, <1>2, <2>4, <3>2, ExecutorReports
    <3> QED
      BY <3>1, <3>2
  <2> QED
    BY <2>2, <2>3, <2>4 DEF Next
<1> QED
  BY <1>0, <1>2 DEF ReportInv, DoneInv, ExitSound

\* When an executor reports success, and its last save was not dropped, every
\* task of its story is merged in the persisted state and stays so, although
\* the story is finished from several loads, other stories run beside it and
\* the watchdog sends commands; only a task in which another executor met it is
\* left out.
THEOREM ReportedSuccessIsReal == Spec => []ExitSound
<1>1. Init => ReportInv
  <2> SUFFICES ASSUME Init PROVE ReportInv
    OBVIOUS
  <2>1. DoneInv /\ ExitSound
    BY DEF Init, DoneInv, ExitSound
  <2> QED
    BY <2>1, MeetInit DEF ReportInv
<1>2. ReportInv => ExitSound
  BY DEF ReportInv
<1> QED
  BY <1>1, <1>2, ReportNext, PTL DEF Spec
=============================================================================
