------------------------------ MODULE Scheduler ------------------------------
(***************************************************************************)
(* The task scheduler of pkg/services/scheduler.go: which tasks of a       *)
(* persisted state are ready, which of those are selected, and the file    *)
(* lock registry the selection acquires.  Every operator takes the state   *)
(* it reads as an argument, because the callers pass snapshots that may    *)
(* be older than the persisted state.                                      *)
(*                                                                         *)
(* A task is its position in state.Tasks, a story is the number that       *)
(* parseStoryIndex extracts from its identifier (0: no story).  A          *)
(* dependency token is the task it resolves to (dependencyIndex.resolve);  *)
(* a token that names no task of the state is a task that is ABSENT.       *)
(***************************************************************************)
EXTENDS Naturals, FiniteSets

CONSTANTS
    Tasks,        \* the tasks that may ever be in state.Tasks, by position
    Stories,      \* the story numbers of the run
    Files,        \* the files tasks declare as targets
    TargetFiles,  \* TargetFiles[t]: the files task t locks
    StoryOf,      \* StoryOf[t]: the story of task t, 0 if it has none
    None,         \* no lock holder
    Global        \* a clarification with an empty TaskID

ASSUME TasksAssumption == Tasks \subseteq Nat /\ IsFiniteSet(Tasks)
ASSUME StoriesAssumption == Stories \subseteq Nat \ {0}
ASSUME TargetFilesAssumption == TargetFiles \in [Tasks -> SUBSET Files]
ASSUME StoryOfAssumption == StoryOf \in [Tasks -> Stories \cup {0}]
ASSUME NoneAssumption == None \notin Tasks
ASSUME GlobalAssumption == Global \notin Tasks

TaskStatus == {"ABSENT", "PENDING", "IN_PROGRESS", "SUCCESS", "FAILED"}
StoryStatus == {"IDLE", "RUNNING", "SUCCESS", "FAILED"}

\* The part of domain.State the dispatch loop reads and writes.
State ==
    [ status      : [Tasks -> TaskStatus],
      retries     : [Tasks -> Nat],
      maxRetries  : [Tasks -> Nat],
      stall       : [Tasks -> Nat],
      deps        : [Tasks -> SUBSET Tasks],
      marked      : SUBSET Tasks,              \* FailureLog holds "pipeline_deadlock"
      working     : SUBSET Tasks,              \* tasks with a WORKING agent
      clar        : SUBSET (Tasks \cup {Global}), \* unresolved clarifications
      storyStatus : StoryStatus,
      current     : Stories \cup {0},          \* the story of Metadata.InputPath
      stories     : [Stories -> StoryStatus] ]

Present(st) == {t \in Tasks : st.status[t] # "ABSENT"}
Finished(st, t) == st.status[t] \in {"SUCCESS", "FAILED"}
-----------------------------------------------------------------------------
(***************************************************************************)
(* Readiness.                                                              *)
(***************************************************************************)

\* A set of tasks that contains every task with an unresolved clarification
\* and, with a task, every task that depends on it.
ClosedUnderBlocking(st, B) ==
    /\ st.clar \cap Tasks \subseteq B
    /\ \A t \in Present(st) : st.deps[t] \cap B # {} => t \in B

\* The downstream propagation loop computes the least such set.
Blocked(st) ==
    {t \in Present(st) :
        \A B \in SUBSET Tasks : ClosedUnderBlocking(st, B) => t \in B}

\* A present dependency must have succeeded; an absent one is satisfied only
\* when it belongs to an earlier story that exists and has fully succeeded.
DepMet(st, t, d) ==
    \/ st.status[d] = "SUCCESS"
    \/ /\ st.status[d] = "ABSENT"
       /\ StoryOf[d] > 0
       /\ StoryOf[t] = 0 \/ StoryOf[d] < StoryOf[t]
       /\ \E u \in Present(st) : StoryOf[u] = StoryOf[d]
       /\ \A u \in Present(st) :
             StoryOf[u] = StoryOf[d] => st.status[u] = "SUCCESS"

Earlier(u, t) == 0 < StoryOf[u] /\ StoryOf[u] < StoryOf[t]

HasCrossStoryDep(st, t) == \E d \in st.deps[t] \cap Present(st) : Earlier(d, t)

\* Mutant of BarrierMet: a failed earlier story lets later ones pass.
BarrierFinished(st, t) ==
    \/ HasCrossStoryDep(st, t)
    \/ \A u \in Present(st) : Earlier(u, t) => Finished(st, u)

\* The milestone barrier: unless t declares a dependency on an earlier story,
\* every task of every earlier story must have succeeded.
BarrierMet(st, t) ==
    \/ HasCrossStoryDep(st, t)
    \/ \A u \in Present(st) : Earlier(u, t) => st.status[u] = "SUCCESS"

\* Mutant of Eligible: dependencies only have to be finished.
EligibleAfterFailure(st, t) ==
    /\ Global \notin st.clar
    /\ \/ st.status[t] = "PENDING"
       \/ st.status[t] = "FAILED" /\ st.retries[t] < st.maxRetries[t]
    /\ t \notin Blocked(st)
    /\ \A d \in st.deps[t] : DepMet(st, t, d) \/ Finished(st, d)
    /\ BarrierMet(st, t)

Eligible(st, t) ==
    /\ Global \notin st.clar
    /\ \/ st.status[t] = "PENDING"
       \/ st.status[t] = "FAILED" /\ st.retries[t] < st.maxRetries[t]
    /\ t \notin Blocked(st)
    /\ \A d \in st.deps[t] : DepMet(st, t, d)
    /\ BarrierMet(st, t)
-----------------------------------------------------------------------------
(***************************************************************************)
(* The lock registry, and the selection loop that walks state.Tasks in     *)
(* order, locks each eligible task it can and stops when the slots are     *)
(* used up.                                                                *)
(***************************************************************************)

NoLocks == [f \in Files |-> None]

\* Mutant of CanLock: the current holder is not looked at.
CanLockUnchecked(lk, t) == \A f \in TargetFiles[t] : lk[f] \in Tasks \cup {None}

\* TryAcquireLocks succeeds when no target file has another holder.
CanLock(lk, t) == \A f \in TargetFiles[t] : lk[f] \in {None, t}

AcquireLocks(lk, ts) ==
    [f \in Files |->
        IF \E t \in ts : f \in TargetFiles[t]
        THEN CHOOSE t \in ts : f \in TargetFiles[t]
        ELSE lk[f]]

\* Mutant of ReleaseLocks: a released file disappears from the registry.
ReleaseLocksForgets(lk, t) == [f \in {g \in Files : lk[g] # t} |-> lk[f]]

\* Mutant of ReleaseLocks: nothing is released.
ReleaseLocksNothing(lk, t) == [lk EXCEPT ![CHOOSE f \in Files : TRUE] = @]

ReleaseLocks(lk, t) == [f \in Files |-> IF lk[f] = t THEN None ELSE lk[f]]

\* picked is what GetReadyTasks returns for st with the given slots when the
\* registry is lk: a task is in it exactly when it is eligible, fewer than
\* slots tasks before it were taken, and none of its files is held by
\* another task or was taken by a task before it.
IsReadySet(st, lk, slots, picked) ==
    \A t \in Tasks :
        t \in picked <=>
            /\ Eligible(st, t)
            /\ Cardinality({u \in picked : u < t}) < slots
            /\ CanLock(lk, t)
            /\ \A u \in picked :
                  u < t => TargetFiles[u] \cap TargetFiles[t] = {}
-----------------------------------------------------------------------------
(***************************************************************************)
(* Story completion, as the orchestrator and the story executor judge it.  *)
(***************************************************************************)

\* The tasks allTasksFinished looks at: those of the current story and those
\* of no story, or every task when there are none.
CurrentTasks(st) ==
    LET mine == {t \in Present(st) : StoryOf[t] \in {0, st.current}}
    IN  IF st.current = 0 \/ mine = {} THEN Present(st) ELSE mine

AllTasksFinished(st) ==
    /\ Present(st) # {}
    /\ \A t \in CurrentTasks(st) : Finished(st, t)

AllTasksSucceeded(st) ==
    /\ Present(st) # {}
    /\ \A t \in CurrentTasks(st) : st.status[t] = "SUCCESS"
=============================================================================
