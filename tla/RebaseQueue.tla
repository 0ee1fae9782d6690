----------------------------- MODULE RebaseQueue -----------------------------
(***************************************************************************)
(* The merge queue of pkg/services/rebase_queue.go: task workers push      *)
(* their branch, one consumer merges them into the integration branch in   *)
(* the main working tree, going through five tiers when a merge conflicts. *)
(* A push carries the context of its task, which has a 30 minute deadline; *)
(* every git command of a job runs under that context, so once it is done  *)
(* the remaining commands of the job have no effect, the cleaning ones     *)
(* included.  The GitClient mutex covers one command, not a job: a task    *)
(* that finishes stages its markdown file in the same tree between two     *)
(* commands of the job of another task.                                    *)
(*                                                                         *)
(* The content of a tree is the set of branches whose work it holds.  Two  *)
(* branches conflict only when they touch a file in common.  Git itself is *)
(* outside the repository and is modelled by what the queue relies on.     *)
(* The specification is QueueSpec; the tasks that push have one of theirs  *)
(* in TaskAttempt.                                                         *)
(***************************************************************************)
EXTENDS Naturals, Sequences, FiniteSets

CONSTANTS
    Branches,      \* worker branches
    Overlap,       \* Overlap[b]: the branches with a file in common with b
    MarkerLines,   \* branches where a file that merges cleanly has a line that
                   \* looks like a conflict marker
    HasResolver,   \* whether a conflict resolver is configured (Tier 3)
    Roadmap,       \* the markdown files of finished tasks
    QueueCap,      \* capacity of the job channel (100 in the code)
    MaxPushes,     \* bound: times a branch is pushed
    Faults         \* subset of FaultKinds

ASSUME OverlapAssumption == Overlap \in [Branches -> SUBSET Branches]
ASSUME MarkerAssumption == MarkerLines \subseteq Branches
ASSUME RoadmapAssumption == Roadmap \notin Branches
ASSUME BoundAssumption == QueueCap \in Nat \ {0} /\ MaxPushes \in Nat \ {0}

\* A conflicted file cannot be read, a commit fails, a stash pop conflicts.
FaultKinds == {"unreadable", "commit", "pop"}
ASSUME ModeAssumption == HasResolver \in BOOLEAN /\ Faults \subseteq FaultKinds

\* An attempt to push a branch, with its own context and result channel.
Jobs == Branches \X (1..MaxPushes)
Items == Branches \cup {Roadmap}
NoJob == << >>

VARIABLES
    push,     \* push[j]: where the Push call of attempt j is
    done,     \* attempts whose context is done
    stopped,  \* the context of the queue is done
    jobs,     \* the job channel
    result,   \* result[j]: what is in the result channel of j
    pc,       \* where the consumer is
    job,      \* the attempt it executes, NoJob between jobs
    stashed,  \* whether this job stashed something
    base,     \* the content of the integration branch
    hist,     \* branches whose commits are in its history
    fork,     \* fork[b]: the content of the integration branch b started from
    index,    \* "clean", "unmerged" or "staged" (a merge in progress)
    dirty,    \* uncommitted content of the working tree
    stash     \* the stash stack, top first

queueVars == << push, done, stopped, jobs, result, pc, job, stashed,
              base, hist, fork, index, dirty, stash >>
callVars == << push, done, stopped, jobs, result, fork >>
gitVars == << base, hist, index, dirty, stash >>

Steps == {"idle", "stash", "checkout", "recover", "merge", "tier2", "commit2",
          "tier3", "commit3", "tier4", "commit4", "tier5", "cleanup",
          "popok", "poperr", "stopped"}

QueueTypeOK ==
    /\ push \in [Jobs -> {"new", "send", "wait", "ok", "err", "merged"}]
    /\ done \subseteq Jobs
    /\ stopped \in BOOLEAN
    /\ jobs \in Seq(Jobs)
    /\ Len(jobs) <= QueueCap
    /\ result \in [Jobs -> {"none", "ok", "err"}]
    /\ pc \in Steps
    /\ job \in Jobs \cup {NoJob}
    /\ stashed \in BOOLEAN
    /\ base \subseteq Items
    /\ hist \subseteq Branches
    /\ fork \in [Branches -> SUBSET Items]
    /\ index \in {"clean", "unmerged", "staged"}
    /\ dirty \subseteq Items
    /\ stash \in Seq(SUBSET Items)

QueueInit ==
    /\ push = [j \in Jobs |-> "new"]
    /\ done = {}
    /\ stopped = FALSE
    /\ jobs = << >>
    /\ result = [j \in Jobs |-> "none"]
    /\ pc = "idle"
    /\ job = NoJob
    /\ stashed = FALSE
    /\ base = {}
    /\ hist = {}
    /\ fork = [b \in Branches |-> {}]
    /\ index = "clean"
    /\ dirty = {}
    /\ stash = << >>
-----------------------------------------------------------------------------
(***************************************************************************)
(* The pushing side.                                                       *)
(***************************************************************************)

\* A task gets its branch: created from the integration branch, or the one of
\* its earlier attempt.
Begin(b, n) ==
    /\ ~stopped
    /\ push[<< b, n >>] = "new"
    /\ n > 1 => push[<< b, n - 1 >>] = "err"
    /\ push' = [push EXCEPT ![<< b, n >>] = "send"]
    /\ fork' = IF n = 1 THEN [fork EXCEPT ![b] = base] ELSE fork
    /\ UNCHANGED << done, stopped, jobs, result, pc, job, stashed, gitVars >>

\* Mutant of Send: the channel has no bound.
SendUnbounded(j) ==
    /\ push[j] = "send"
    /\ jobs' = Append(jobs, j)
    /\ push' = [push EXCEPT ![j] = "wait"]
    /\ UNCHANGED << done, stopped, result, fork, pc, job, stashed, gitVars >>

Send(j) ==
    /\ push[j] = "send"
    /\ Len(jobs) < QueueCap
    /\ jobs' = Append(jobs, j)
    /\ push' = [push EXCEPT ![j] = "wait"]
    /\ UNCHANGED << done, stopped, result, fork, pc, job, stashed, gitVars >>

Receive(j) ==
    /\ push[j] = "wait"
    /\ result[j] # "none"
    /\ push' = [push EXCEPT ![j] = result[j]]
    /\ UNCHANGED << done, stopped, jobs, result, fork, pc, job, stashed, gitVars >>

\* Mutant of GiveUp: a pusher that waits for its result ignores its context.
GiveUpSending(j) ==
    /\ push[j] = "send"
    /\ j \in done
    /\ push' = [push EXCEPT ![j] = "err"]
    /\ UNCHANGED << done, stopped, jobs, result, fork, pc, job, stashed, gitVars >>

\* Push returns when its context is done, also when the result is there too.
GiveUp(j) ==
    /\ push[j] \in {"send", "wait"}
    /\ j \in done
    /\ push' = [push EXCEPT ![j] = "err"]
    /\ UNCHANGED << done, stopped, jobs, result, fork, pc, job, stashed, gitVars >>

\* The deadline of the task.
Deadline(j) ==
    /\ push[j] \in {"send", "wait"}
    /\ j \notin done
    /\ done' = done \cup {j}
    /\ UNCHANGED << push, stopped, jobs, result, fork, pc, job, stashed, gitVars >>

\* The root context is cancelled, and with it every context derived from it.
Shutdown ==
    /\ ~stopped
    /\ stopped' = TRUE
    /\ done' = done \cup {j \in Jobs : push[j] # "new"}
    /\ UNCHANGED << push, jobs, result, fork, pc, job, stashed, gitVars >>

\* A task whose push succeeded is saved as SUCCESS: its markdown file is written
\* to the main tree and staged.
Finalize(j) ==
    /\ push[j] = "ok"
    /\ push' = [push EXCEPT ![j] = "merged"]
    /\ dirty' = dirty \cup {Roadmap}
    /\ UNCHANGED << done, stopped, jobs, result, fork, pc, job, stashed,
                    base, hist, index, stash >>
-----------------------------------------------------------------------------
(***************************************************************************)
(* The consumer.                                                           *)
(***************************************************************************)
Branch == job[1]
Live == job \notin done

Move(from, to) == pc = from /\ pc' = to /\ UNCHANGED << callVars, job >>

Take ==
    /\ pc = "idle"
    /\ jobs # << >>
    /\ job' = Head(jobs)
    /\ jobs' = Tail(jobs)
    /\ pc' = "stash"
    /\ UNCHANGED << push, done, stopped, result, fork, stashed, gitVars >>

Stop ==
    /\ pc = "idle"
    /\ stopped
    /\ pc' = "stopped"
    /\ UNCHANGED << callVars, job, stashed, gitVars >>

\* Mutant of Stash: --keep-index leaves what was staged in the tree.
StashKeepIndex ==
    /\ Move("stash", "checkout")
    /\ LET ok == Live /\ index # "unmerged" /\ dirty # {}
       IN  /\ stashed' = ok
           /\ stash' = IF ok THEN << dirty >> \o stash ELSE stash
           /\ index' = IF ok THEN "clean" ELSE index
    /\ UNCHANGED << base, hist, dirty >>

\* git stash refuses an unmerged index; a staged merge is stashed like any
\* other change.
Stash ==
    /\ Move("stash", "checkout")
    /\ LET ok == Live /\ index # "unmerged" /\ dirty # {}
       IN  /\ stashed' = ok
           /\ stash' = IF ok THEN << dirty >> \o stash ELSE stash
           /\ dirty' = IF ok THEN {} ELSE dirty
           /\ index' = IF ok THEN "clean" ELSE index
    /\ UNCHANGED << base, hist >>

Checkout ==
    /\ \/ Move("checkout", "merge") /\ Live /\ index # "unmerged"
       \/ Move("checkout", "recover") /\ Live /\ index = "unmerged"
       \/ Move("checkout", "poperr") /\ ~Live
    /\ UNCHANGED << stashed, gitVars >>

\* Mutant of Recover: the branch is checked out without aborting the merge.
RecoverForced ==
    /\ \/ Move("recover", "merge") /\ Live
       \/ Move("recover", "poperr") /\ ~Live
    /\ UNCHANGED << stashed, gitVars >>

\* Abort the merge an earlier job left, reset the tree, check out again.
Recover ==
    /\ \/ /\ Move("recover", "merge")
          /\ Live
          /\ index' = "clean"
          /\ dirty' = {}
       \/ /\ Move("recover", "poperr")
          /\ ~Live
          /\ UNCHANGED << index, dirty >>
    /\ UNCHANGED << stashed, base, hist, stash >>

\* Work merged since the branch started, and the part of it that the branch
\* can conflict with.
Since == base \ fork[Branch]
Contested == Since \cap Overlap[Branch]

\* git merge refuses to start when something is staged.  A branch whose commits
\* are already in the history adds nothing, unless a later attempt committed
\* to it again.
Tier1 ==
    \/ /\ Move("merge", "popok")
       /\ Live
       /\ \/ dirty = {} /\ base' = base \cup {Branch}
          \/ Branch \in hist /\ base' = base
       /\ hist' = hist \cup {Branch}
       /\ UNCHANGED << stashed, index, dirty, stash >>
    \/ /\ Move("merge", "tier2")
       /\ Live
       /\ dirty = {}
       /\ Contested # {}
       /\ index' = "unmerged"
       /\ UNCHANGED << stashed, base, hist, dirty, stash >>
    \/ /\ Move("merge", "tier2")
       /\ ~Live \/ dirty # {}
       /\ UNCHANGED << stashed, gitVars >>

\* git add --all: the files of a merge are resolved, the tree holds the branch.
StageAll ==
    /\ index' = IF index = "unmerged" THEN "staged" ELSE index
    /\ dirty' = IF index = "unmerged" THEN dirty \cup {Branch} ELSE dirty
    /\ UNCHANGED << stashed, base, hist, stash >>

\* A staged file has a line that looks like a conflict marker.
StagedConflictMarkers == dirty \cap MarkerLines # {}

\* Keep the incoming side of every conflict, unless a file cannot be read.
Tier2 ==
    \/ Move("tier2", "commit2") /\ Live /\ index = "unmerged" /\ StageAll
    \/ /\ Move("tier2", "tier3")
       /\ ~Live \/ index = "clean" \/ "unreadable" \in Faults
       /\ UNCHANGED << stashed, gitVars >>

\* The commit of a tier takes whatever is staged.  It ends the merge if there
\* is one: the branch is on the integration branch, without the work it
\* conflicts with that the resolution dropped.
CommitTier(from, next) ==
    \/ /\ Move(from, "popok")
       /\ Live
       /\ dirty # {}
       /\ ~StagedConflictMarkers
       /\ \E lost \in SUBSET Contested :
             base' = IF index = "staged" THEN (base \ lost) \cup dirty
                                         ELSE base \cup dirty
       /\ hist' = IF index = "staged" THEN hist \cup {Branch} ELSE hist
       /\ dirty' = {}
       /\ index' = "clean"
       /\ UNCHANGED << stashed, stash >>
    \/ /\ Move(from, next)
       /\ \/ ~Live
          \/ dirty = {}
          \/ StagedConflictMarkers
          \/ "commit" \in Faults
       /\ UNCHANGED << stashed, gitVars >>

\* The resolver rewrites the files that are still unmerged, if any, with what the
\* Generator agent or the marker cleaner makes of them, and stages them.  It
\* never reports an error.
Resolve == Live /\ HasResolver /\ StageAll

Tier3 ==
    \/ Move("tier3", "commit3") /\ Resolve
    \/ /\ Move("tier3", "tier4")
       /\ ~Live \/ ~HasResolver
       /\ UNCHANGED << stashed, gitVars >>

\* The union of both versions of the files that are still unmerged.
Tier4 ==
    \/ Move("tier4", "commit4") /\ Live /\ StageAll
    \/ /\ Move("tier4", "tier5")
       /\ ~Live
       /\ UNCHANGED << stashed, gitVars >>

\* Abort the merge, if there is one, and overlay the whole tree of the branch:
\* work merged since the branch started is lost wherever the branch has the
\* same file.  The commit has one parent, so the branch does not enter the
\* history.
Tier5 ==
    \/ /\ Move("tier5", "popok")
       /\ Live
       /\ \E lost \in SUBSET Since :
             base' = (base \ lost) \cup {Branch}
                        \cup (IF index = "clean" THEN dirty ELSE {})
       /\ dirty' = {}
       /\ index' = "clean"
       /\ UNCHANGED << stashed, hist, stash >>
    \/ /\ Move("tier5", "cleanup")
       /\ Live
       /\ "commit" \in Faults
       /\ dirty' = {Branch} \cup (IF index = "clean" THEN dirty ELSE {})
       /\ index' = "clean"
       /\ UNCHANGED << stashed, base, hist, stash >>
    \/ /\ Move("tier5", "cleanup")
       /\ ~Live
       /\ UNCHANGED << stashed, gitVars >>

Cleanup ==
    /\ Move("cleanup", "poperr")
    /\ index' = IF Live THEN "clean" ELSE index
    /\ dirty' = IF Live THEN {} ELSE dirty
    /\ UNCHANGED << stashed, base, hist, stash >>

\* The deferred stash pop, then the result is sent (its channel has room).  A
\* pop that conflicts leaves the index unmerged and keeps the stash entry.
Finish(from, res) ==
    /\ pc = from
    /\ \/ /\ ~(stashed /\ Live)
          /\ UNCHANGED << index, dirty, stash >>
       \/ /\ stashed /\ Live
          /\ dirty' = dirty \cup Head(stash)
          /\ stash' = Tail(stash)
          /\ UNCHANGED index
       \/ /\ stashed /\ Live
          /\ "pop" \in Faults
          /\ dirty' = dirty \cup Head(stash)
          /\ index' = "unmerged"
          /\ UNCHANGED stash
    /\ result' = [result EXCEPT ![job] = res]
    /\ pc' = "idle"
    /\ job' = NoJob
    /\ stashed' = FALSE
    /\ UNCHANGED << push, done, stopped, jobs, fork, base, hist >>

Consumer ==
    \/ Take \/ Stop \/ Stash \/ Checkout \/ Recover \/ Tier1
    \/ Tier2 \/ CommitTier("commit2", "tier3")
    \/ Tier3 \/ CommitTier("commit3", "tier4")
    \/ Tier4 \/ CommitTier("commit4", "tier5")
    \/ Tier5 \/ Cleanup
    \/ Finish("popok", "ok") \/ Finish("poperr", "err")

Pusher(j) == Send(j) \/ Receive(j) \/ GiveUp(j) \/ Finalize(j)

\* The program may end once the consumer has stopped.
Terminated == pc = "stopped" /\ UNCHANGED queueVars

QueueNext ==
    \/ Consumer
    \/ \E j \in Jobs : Pusher(j) \/ Deadline(j)
    \/ \E b \in Branches, n \in 1..MaxPushes : Begin(b, n)
    \/ Shutdown \/ Terminated

QueueSpec == QueueInit /\ [][QueueNext]_queueVars

\* The consumer and the pushing goroutines run; deadlines, shutdown and new
\* pushes need not happen.
FairSpec == QueueSpec /\ WF_queueVars(Consumer) /\ \A j \in Jobs : WF_queueVars(Pusher(j))
-----------------------------------------------------------------------------
(***************************************************************************)
(* Properties.                                                             *)
(***************************************************************************)

\* The checkout of executeRebase and its recovery: no merge starts on an index
\* that an earlier job, or the pop of its stash, left unmerged or staged.
CleanStart == pc = "merge" => index = "clean"

\* The stash of executeRebase: a branch gets on the integration branch only by a
\* job of its own; what a cancelled job left in the tree is never swept into the
\* commit of another.
NoStowaway ==
    [][\A b \in base' \ base : b \in Branches => job # NoJob /\ Branch = b]_queueVars

\* Push and its caller: every call returns and its task is finished, also when
\* the queue has shut down or the channel is full.
PushReturns ==
    \A j \in Jobs : push[j] \in {"send", "wait"} ~> push[j] \in {"merged", "err"}
=============================================================================
