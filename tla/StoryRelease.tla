---------------------------- MODULE StoryRelease ----------------------------
(* What happens to a story whose tasks are done: RunOnce repairs, audits,   *)
(* remediates and releases it, the executor calls RunOnce again or reports  *)
(* the story, and a crash may come between any two of these steps.  Stories *)
(* are executed one after the other, which takes an orchestrator number of  *)
(* one; the work of their tasks is one step.                                *)
EXTENDS Audits

CONSTANTS
    Stories,    \* 1..n, in the order of execution
    Policies,   \* configurations a run may have
    Workspaces, \* contents agents may leave behind
    Answers,    \* answers of the model to an audit
    Changes,    \* the most important change types a release may have
    Faults,     \* of {"persist", "checkout", "version", "crash", "git"}
    MaxFaults   \* how many of them may happen, "git" aside: git errors nobody looks at

ASSUME ReleaseAssumption == IsFiniteSet(Stories) /\ Stories \subseteq Nat /\ MaxFaults \in Nat

VARIABLES
    pol,      \* the configuration
    db,       \* the persisted state
    w,        \* the working tree
    git,      \* "ok", or the git command of this RunOnce whose error was ignored: the
              \* integration branch then need not hold what is in w
    pc,       \* of the executor and of RunOnce
    cur,      \* the story being executed
    snap,     \* the state RunOnce loaded
    ok,       \* buildOK
    ledger,   \* verifiedStories of the orchestrator's acceptance auditor
    round,    \* which RunOnce of the executor's loop this is
    exit,     \* what the executor returned
    version,  \* the VERSION file
    releases, \* how often each story was released
    faults    \* faults so far

vars == <<pol, db, w, git, pc, cur, snap, ok, ledger, round, exit, version, releases, faults>>

Fault(f) == f \in Faults /\ faults < MaxFaults /\ faults' = faults + 1

-----------------------------------------------------------------------------
(* The state as RunOnce reads it. *)

StoryTasks(st) == {st.task[cur], st.remedy[cur]} \ {"ABSENT"}
AllTasksFinished(st) == StoryTasks(st) \subseteq {"SUCCESS", "FAILED"}
AllTasksSucceeded(st) == StoryTasks(st) = {"SUCCESS"}
\* Mutant: the status does not keep a finished story from being finalized again.
OpenAlways(st) == TRUE
Open(st) == st.status \in {"IDLE", "RUNNING"}

\* The last story: all others are SUCCESS.  The state knows the stories that were started,
\* so the first of a roadmap passes for its last.
IsFinalStory(st) == \A s \in Stories \ {cur} : st.story[s] \in {"ABSENT", "SUCCESS"}

\* Remediation tasks of the story.  The rescue's task is never saved and counts for none,
\* so the limit of two is never reached.
RemediationCount(st) == IF st.remedy[cur] = "ABSENT" THEN 0 ELSE 1

\* The ledger is keyed by the story's number, the state by its file name: a SUCCESS story
\* is never found in the ledger.
SucceededStories(st) == {<<"file", s>> : s \in {t \in Stories : st.story[t] = "SUCCESS"}}
LedgerKey(s) == <<"number", s>>

-----------------------------------------------------------------------------
(* The executor. *)

\* The next story in order is recorded, and its tasks are planned unless it has some.
\* Every execution builds an orchestrator, and with it an empty ledger.
StartStory(s) ==
    /\ pc = "idle" /\ exit[s] = "none" /\ \A r \in Stories : r < s => exit[r] # "none"
    /\ cur' = s /\ ledger' = {} /\ pc' = "probe" /\ round' = "initial"
    /\ db' = [db EXCEPT !.status = "RUNNING", !.story[s] = "RUNNING",
                        !.task[s] = IF @ = "ABSENT" THEN "PENDING" ELSE @]
    /\ UNCHANGED <<pol, w, git, snap, ok, exit, version, releases, faults>>

\* Every task already validates: the story is a success without audit or release.
FastExit ==
    /\ pc = "probe" /\ "tests" \notin w.red
    /\ db' = [db EXCEPT !.story[cur] = "SUCCESS", !.task[cur] = "SUCCESS",
                        !.remedy[cur] = IF @ = "ABSENT" THEN @ ELSE "SUCCESS"]
    /\ exit' = [exit EXCEPT ![cur] = "ok"] /\ pc' = "report"
    /\ UNCHANGED <<pol, w, git, cur, snap, ok, ledger, round, version, releases, faults>>

NotGreen ==
    /\ pc = "probe" /\ pc' = "load"
    /\ UNCHANGED <<pol, db, w, git, cur, snap, ok, ledger, round, exit, version, releases, faults>>

\* After a RunOnce: the first is followed by the loop; with the tasks done and the story
\* still open RunOnce gets one more chance; then the executor returns.
CheckStory ==
    /\ pc = "check"
    /\ LET done == AllTasksFinished(db)
           again == round = "initial" \/ ~done \/ (round = "loop" /\ Open(db))
       IN  /\ round' = IF round = "loop" /\ done /\ Open(db) THEN "gate" ELSE "loop"
           /\ pc' = IF again THEN "load" ELSE "report"
           /\ exit' = IF again THEN exit
                      ELSE [exit EXCEPT ![cur] = IF "FAILED" \in StoryTasks(db) \cup {db.story[cur]}
                                                 THEN "failed" ELSE "ok"]
    /\ UNCHANGED <<pol, db, w, git, cur, snap, ok, ledger, version, releases, faults>>

\* The loop over the stories records what the executor returned, which may be a success
\* that was never released; a failed write is ignored.
ReportStory ==
    /\ pc = "report" /\ pc' = "idle"
    /\ \/ /\ db' = [db EXCEPT !.story[cur] = IF exit[cur] = "ok" THEN "SUCCESS" ELSE "FAILED"]
          /\ UNCHANGED faults
       \/ Fault("persist") /\ UNCHANGED db
    /\ UNCHANGED <<pol, w, git, cur, snap, ok, ledger, round, exit, version, releases>>

-----------------------------------------------------------------------------
(* RunOnce. *)

RunOnceLoad ==
    /\ pc = "load"
    /\ snap' = db /\ git' = "ok"
    /\ pc' = IF ~AllTasksFinished(db) THEN "dispatch" ELSE IF Open(db) THEN "repair" ELSE "check"
    /\ UNCHANGED <<pol, db, w, cur, ok, ledger, round, exit, version, releases, faults>>

\* The ready task runs to its end and leaves some content behind.
Dispatch(outcome) ==
    /\ pc = "dispatch"
    /\ w' \in Workspaces
    /\ db' = [db EXCEPT !.task[cur] = IF @ = "PENDING" THEN outcome ELSE @,
                        !.remedy[cur] = IF @ = "PENDING" THEN outcome ELSE @]
    /\ pc' = "check"
    /\ UNCHANGED <<pol, git, cur, snap, ok, ledger, round, exit, version, releases, faults>>

\* The post-merge repair checks the integration branch out, and works on whatever tree is
\* there when that fails.  It may change the content whatever its verdict, which is
\* dropped; then the tasks and the existence of any work are looked at.
PostMergeRepair ==
    /\ pc = "repair"
    /\ w' \in Workspaces
    /\ git' \in IF "git" \in Faults THEN {"ok", "checkout"} ELSE {"ok"}
    /\ ok' = (AllTasksSucceeded(snap) /\ w'.diff)
    /\ pc' = IF AllTasksSucceeded(snap) THEN "storyqa" ELSE "persist"
    /\ UNCHANGED <<pol, db, cur, snap, ledger, round, exit, version, releases, faults>>

\* The story audit is not failed with a list of missing features: passed, or failed
\* without one, or its call failed.
StoryPasses(a) ==
    LET r == AuditStoryCompleteness(w, pol, a)
    IN  /\ pc = "storyqa" /\ (r.err \/ r.passed \/ ~r.missing)
        /\ ledger' = IF r.passed THEN ledger \cup {LedgerKey(cur)} ELSE ledger
        /\ pc' = "acceptance"
        /\ UNCHANGED <<pol, db, w, git, cur, snap, ok, round, exit, version, releases, faults>>

StoryFails(a) ==
    LET r == AuditStoryCompleteness(w, pol, a)
    IN  pc = "storyqa" /\ ~r.err /\ ~r.passed /\ r.missing

\* The first failure adds a remediation task to the persisted state, or fails the story
\* when it cannot.
QueueStoryRemediation(a) ==
    /\ StoryFails(a) /\ RemediationCount(snap) = 0
    /\ \/ /\ db' = [db EXCEPT !.remedy[cur] = "PENDING"] /\ pc' = "check"
          /\ UNCHANGED <<ok, faults>>
       \/ /\ Fault("persist") /\ ok' = FALSE /\ pc' = "acceptance"
          /\ UNCHANGED db
    /\ UNCHANGED <<pol, w, git, cur, snap, ledger, round, exit, version, releases>>

\* Later ones call the sovereign rescue: success ends RunOnce with nothing persisted.
SovereignRescue(a, rescued) ==
    /\ StoryFails(a) /\ RemediationCount(snap) >= 1
    /\ w' \in Workspaces
    /\ ok' = (ok /\ rescued)
    /\ pc' = IF rescued THEN "check" ELSE "acceptance"
    /\ UNCHANGED <<pol, db, git, cur, snap, ledger, round, exit, version, releases, faults>>

Acceptance(a, b) == AuditProjectAcceptance(w, pol, ledger, SucceededStories(snap), a, b)

\* The final story that still is a success is audited against the specification.  Gaps
\* queue a remediation task, on the loaded copy of the state only; an error, or a failure
\* without gaps, does not hold the story back here.
RunAcceptanceAudit(a, b) ==
    /\ pc = "acceptance" /\ ok /\ IsFinalStory(snap)
    /\ LET r == Acceptance(a, b)
       IN  pc' = IF ~r.err /\ ~r.passed /\ r.gaps THEN "check" ELSE "finalize"
    /\ UNCHANGED <<pol, db, w, git, cur, snap, ok, ledger, round, exit, version, releases, faults>>

SkipAcceptanceAudit ==
    /\ pc = "acceptance" /\ ~(ok /\ IsFinalStory(snap))
    /\ pc' = IF ok THEN "finalize" ELSE "persist"
    /\ UNCHANGED <<pol, db, w, git, cur, snap, ok, ledger, round, exit, version, releases, faults>>

-----------------------------------------------------------------------------
(* FinalizeUserStory. *)

\* The final story is audited once more, by a new call, and only a pass goes on.
FinalizeAudit(a, b) ==
    /\ pc = "finalize" /\ IsFinalStory(snap)
    /\ ok' = Acceptance(a, b).passed
    /\ pc' = IF ok' THEN "release" ELSE "persist"
    /\ UNCHANGED <<pol, db, w, git, cur, snap, ledger, round, exit, version, releases, faults>>

FinalizeIntermediate ==
    /\ pc = "finalize" /\ ~IsFinalStory(snap)
    /\ pc' = "release"
    /\ UNCHANGED <<pol, db, w, git, cur, snap, ok, ledger, round, exit, version, releases, faults>>

\* BumpVersion by the most important change of the tasks: a missing VERSION is 0.0.1.
BumpVersion(v, change) ==
    LET n == IF v = "absent" THEN <<0, 0, 1>> ELSE v
    IN  CASE change = "breaking" -> <<n[1] + 1, 0, 0>>
          [] change = "feature"  -> <<n[1], n[2] + 1, 0>>
          [] OTHER               -> <<n[1], n[2], n[3] + 1>>

\* The checkout of the integration branch changes nothing when the repair already had it
\* checked out; otherwise it brings its own content, or that of the base it starts from.
Switched == IF git = "checkout" /\ pol.createBranch THEN Workspaces ELSE {w}

\* The integration branch is checked out, the version bumped - an unreadable VERSION only
\* changes the commit message - and everything staged and committed.  Errors of the last
\* two are ignored, and the branch is released as it is.
Release(change) ==
    /\ pc = "release"
    /\ w' \in Switched
    /\ \/ version' = BumpVersion(version, change) /\ UNCHANGED faults
       \/ Fault("version") /\ UNCHANGED version
    /\ git' = git \/ ("git" \in Faults /\ git' = "commit")
    /\ releases' = [releases EXCEPT ![cur] = @ + 1]
    /\ pc' = "publish"
    /\ UNCHANGED <<pol, db, cur, snap, ok, ledger, round, exit>>

CheckoutFails ==
    /\ pc = "release" /\ pol.createBranch /\ Fault("checkout")
    /\ w' \in Switched /\ ok' = FALSE /\ pc' = "persist"
    /\ UNCHANGED <<pol, db, git, cur, snap, ledger, round, exit, version, releases>>

\* The push and the pull request; their failures are warnings.
Publish ==
    /\ pc = "publish" /\ pc' = "persist"
    /\ UNCHANGED <<pol, db, w, git, cur, snap, ok, ledger, round, exit, version, releases, faults>>

\* The verdict is persisted.  When that fails RunOnce returns all the same.
PersistVerdict ==
    /\ pc = "persist" /\ pc' = "check"
    /\ LET verdict == IF ok THEN "SUCCESS" ELSE "FAILED"
       IN  \/ /\ db' = [db EXCEPT !.status = verdict, !.story[cur] = verdict]
              /\ UNCHANGED faults
           \/ Fault("persist") /\ UNCHANGED db
    /\ UNCHANGED <<pol, w, git, cur, snap, ok, ledger, round, exit, version, releases>>

-----------------------------------------------------------------------------
\* isStoryCompletedSuccessfully: recorded as SUCCESS and, for the story started last, no
\* task of any story that is not.
IsStoryCompletedSuccessfully(s) ==
    /\ db.story[s] = "SUCCESS"
    /\ s = cur => \A r \in Stories : {db.task[r], db.remedy[r]} \subseteq {"ABSENT", "SUCCESS"}

\* The process dies and is started again with --resume: completed stories are skipped.
Crash ==
    /\ Fault("crash") /\ pc # "idle"
    /\ pc' = "idle"
    /\ exit' = [s \in Stories |-> IF IsStoryCompletedSuccessfully(s) THEN "ok" ELSE "none"]
    /\ ledger' = {} /\ ok' = FALSE /\ round' = "initial"
    /\ UNCHANGED <<pol, db, w, git, cur, snap, version, releases>>

Init ==
    /\ pol \in Policies /\ w \in Workspaces /\ git = "ok"
    /\ db = [status |-> "IDLE",
             story |-> [s \in Stories |-> "ABSENT"],
             task |-> [s \in Stories |-> "ABSENT"], remedy |-> [s \in Stories |-> "ABSENT"]]
    /\ exit = [s \in Stories |-> "none"]
    /\ pc = "idle" /\ cur = Min(Stories) /\ snap = db /\ ok = FALSE /\ ledger = {}
    /\ round = "initial" /\ version = "absent" /\ releases = [s \in Stories |-> 0] /\ faults = 0

ExecutorStep == (\E s \in Stories : StartStory(s)) \/ FastExit \/ NotGreen \/ CheckStory \/ ReportStory

RunOnceStep ==
    \/ RunOnceLoad \/ PostMergeRepair \/ SkipAcceptanceAudit
    \/ \E outcome \in {"SUCCESS", "FAILED"} : Dispatch(outcome)
    \/ \E a \in Answers : StoryPasses(a) \/ QueueStoryRemediation(a)
    \/ \E a \in Answers, rescued \in BOOLEAN : SovereignRescue(a, rescued)
    \/ \E a, b \in Answers : RunAcceptanceAudit(a, b)

FinalizeStep ==
    \/ \E a, b \in Answers : FinalizeAudit(a, b)
    \/ FinalizeIntermediate \/ CheckoutFails \/ Publish \/ PersistVerdict
    \/ \E change \in Changes : Release(change)

Next == ExecutorStep \/ RunOnceStep \/ FinalizeStep \/ Crash

Spec == Init /\ [][Next]_vars

-----------------------------------------------------------------------------
\* Whatever the model answered, and through every remediation, rescue, repair and
\* restart, what is released has no suite that the story audit can run and that fails, and
\* no contract it rejects: FinalizeUserStory comes only after an audit of the content it
\* commits.  Only a git error that nobody looks at - the checkout before the audit, the
\* staging or the commit after it - lets a release differ from what was audited.
ReleasedGreen == pc = "publish" /\ git = "ok" => ~HasFailure(w, pol)

\* The release of a story after all the others succeeded is made only from sources in
\* which the heuristics predict no critical failure and whose probe neither failed nor
\* was refused, even when the calls of one of its two audits fail; but for the same
\* ignored git errors.
FinalReleaseSafe ==
    /\ pc = "publish" /\ IsFinalStory(db) /\ \E s \in Stories \ {cur} : db.story[s] = "SUCCESS"
    /\ w.spec /\ pol.llm /\ git = "ok"
    => ~w.risky /\ AcceptanceProbe(w, pol) \in {"none", "pass"}

\* "Finalize exactly once": only a story recorded as RUNNING is released, and it is
\* released again only when a crash or a failed write lost the record of the last time.
ReleasedOnce ==
    [][\A s \in Stories : releases'[s] > releases[s]
          => db.story[s] = "RUNNING" /\ releases[s] <= faults]_vars
=============================================================================
