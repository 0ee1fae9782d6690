------------------------- MODULE StoryReleaseProofs -------------------------
(* What is released was audited, and is released once but for the faults:   *)
(* proofs about StoryRelease for every set of stories, every configuration, *)
(* workspace and answer of the model and any number of faults.  The audits  *)
(* themselves enter through two lemmas.                                     *)
EXTENDS StoryRelease, TLAPS

-----------------------------------------------------------------------------
(* The verdicts. *)

\* AuditStoryCompleteness: a result that lets the story pass - passed, failed without a
\* list, or an error of the call - excludes a failure that was seen.
LEMMA PassExcludesFailure ==
    ASSUME NEW ww, NEW pp, NEW a, NEW r, r = AuditStoryCompleteness(ww, pp, a),
           r.err \/ r.passed \/ ~r.missing
    PROVE  ~HasFailure(ww, pp)
  <1> SUFFICES ASSUME HasFailure(ww, pp) PROVE FALSE
    OBVIOUS
  <1>1. HasFailure(ww, pp) = TRUE
    BY DEF HasFailure, E2EFails, RegressionFound, ContractFails
  <1>2. CASE ~pp.llm \/ a.form = "error"
    <2>1. r = [err |-> FALSE, passed |-> FALSE, missing |-> TRUE]
      BY <1>1, <1>2 DEF AuditStoryCompleteness
    <2> QED BY <2>1
  <1>3. CASE pp.llm /\ a.form # "error"
    <2>1. r = [err |-> FALSE, passed |-> FALSE, missing |-> TRUE]
      BY <1>1, <1>3 DEF AuditStoryCompleteness
    <2> QED BY <2>1
  <1> QED BY <1>2, <1>3

\* AuditProjectAcceptance: past the ledger only sources without a predicted failure, with a
\* probe that neither failed nor was refused, are accepted.
LEMMA AcceptedIsSafe ==
    ASSUME NEW ww, NEW pp, NEW led, NEW done, NEW a, NEW b,
           ww.spec, pp.llm, ~LedgerFastPass(ww, pp, led, done),
           AuditProjectAcceptance(ww, pp, led, done, a, b).passed
    PROVE  ~ww.risky /\ AcceptanceProbe(ww, pp) \in {"none", "pass"}
  <1> DEFINE probe == AcceptanceProbe(ww, pp)
             sqa == SovereignAudit(ww, probe, b)
  <1>1. a.form # "error"
    BY DEF AuditProjectAcceptance
  <1>2. sqa.err \/ sqa.passed
    BY <1>1 DEF AuditProjectAcceptance
  <1>3. ~(probe \in {"fail", "violation"} \/ ww.risky)
    <2> HIDE DEF probe
    <2> QED BY <1>2 DEF SovereignAudit
  <1>4. probe \in {"none", "violation", "fail", "pass"}
    BY DEF AcceptanceProbe, RunCommand
  <1> QED BY <1>3, <1>4

-----------------------------------------------------------------------------
(* Green releases. *)

\* From the audit to the checkout the content is the one that was audited: a story whose
\* verdict stands, and a story under finalization, shows no failure.  Once it is committed
\* that holds if no git error was ignored.
GreenInv ==
    /\ pc = "acceptance" /\ ok => ~HasFailure(w, pol)
    /\ pc \in {"finalize", "release"} => ~HasFailure(w, pol)
    /\ pc = "publish" /\ git = "ok" => ~HasFailure(w, pol)

\* Every step of RunOnce, of FinalizeUserStory and of the executor, and a crash, keeps it.
LEMMA GreenStep == GreenInv /\ [Next]_vars => GreenInv'
  <1> SUFFICES ASSUME GreenInv, [Next]_vars PROVE GreenInv'
    OBVIOUS
  <1>1. CASE UNCHANGED vars
    BY <1>1 DEF vars, GreenInv
  <1>2. CASE ExecutorStep
    BY <1>2 DEF ExecutorStep, StartStory, FastExit, NotGreen, CheckStory, ReportStory, GreenInv
  <1>3. CASE RunOnceLoad \/ PostMergeRepair \/ (\E outcome \in {"SUCCESS", "FAILED"} : Dispatch(outcome))
    BY <1>3 DEF RunOnceLoad, PostMergeRepair, Dispatch, GreenInv
  <1>4. ASSUME NEW a \in Answers, StoryPasses(a) PROVE GreenInv'
    <2>1. ~HasFailure(w, pol)
      BY <1>4, PassExcludesFailure DEF StoryPasses
    <2> QED BY <1>4, <2>1 DEF StoryPasses, GreenInv
  <1>5. ASSUME NEW a \in Answers, QueueStoryRemediation(a) PROVE GreenInv'
    BY <1>5 DEF QueueStoryRemediation, GreenInv
  <1>6. ASSUME NEW a \in Answers, NEW rescued \in BOOLEAN, SovereignRescue(a, rescued) PROVE GreenInv'
    BY <1>6 DEF SovereignRescue, GreenInv
  <1>7. CASE SkipAcceptanceAudit \/ (\E a, b \in Answers : RunAcceptanceAudit(a, b))
    BY <1>7 DEF SkipAcceptanceAudit, RunAcceptanceAudit, GreenInv
  <1>8. CASE FinalizeStep
    BY <1>8 DEF FinalizeStep, FinalizeAudit, FinalizeIntermediate, CheckoutFails, Publish, PersistVerdict,
                Release, Switched, GreenInv
  <1>9. CASE Crash
    BY <1>9 DEF Crash, GreenInv
  <1> QED BY <1>1, <1>2, <1>3, <1>4, <1>5, <1>6, <1>7, <1>8, <1>9 DEF Next, RunOnceStep

\* FinalizeUserStory comes only after an audit of the content it commits: unless a git
\* error was ignored, nothing is released that the story audit saw fail.
THEOREM ReleasesAreGreen == Spec => []ReleasedGreen
  <1>1. Init => GreenInv
    BY DEF Init, GreenInv
  <1>2. GreenInv => ReleasedGreen
    BY DEF GreenInv, ReleasedGreen
  <1> QED BY <1>1, <1>2, GreenStep, PTL DEF Spec

-----------------------------------------------------------------------------
(* The last release. *)

InRunOnce == {"repair", "storyqa", "acceptance", "finalize", "release", "publish", "persist"}

\* The release completes the project: every other story is finished, one at least with
\* success, and there is a specification and a model to audit with.
Completes ==
    /\ IsFinalStory(db) /\ \E s \in Stories \ {cur} : db.story[s] = "SUCCESS"
    /\ w.spec /\ pol.llm

\* The stories are as RunOnce loaded them, the ledger has numbers only, and a story that
\* is about to be released has passed the second acceptance audit.
SafeInv ==
    /\ pc \in InRunOnce => snap.story = db.story
    /\ \A k \in ledger : k[1] = "number"
    /\ pc = "release" \/ (pc = "publish" /\ git = "ok")
       => (Completes => ~w.risky /\ AcceptanceProbe(w, pol) \in {"none", "pass"})

\* A story that is SUCCESS keeps the ledger's fast pass from applying: the state names it
\* by its file.
LEMMA NoFastPass ==
    ASSUME SafeInv, NEW st, NEW s \in Stories, st.story[s] = "SUCCESS"
    PROVE  ~LedgerFastPass(w, pol, ledger, SucceededStories(st))
  <1>1. <<"file", s>> \in SucceededStories(st)
    BY DEF SucceededStories
  <1>2. <<"file", s>> \notin ledger
    BY DEF SafeInv
  <1> QED BY <1>1, <1>2 DEF LedgerFastPass

\* FinalizeUserStory goes on after a passed audit, or when the story is not the last.
LEMMA FinalizeSafe ==
    ASSUME SafeInv, FinalizeIntermediate \/ (\E a, b \in Answers : FinalizeAudit(a, b))
    PROVE  SafeInv'
  <1>0. snap.story = db.story /\ UNCHANGED <<pol, db, w, cur, snap, ledger>>
    BY DEF SafeInv, InRunOnce, FinalizeIntermediate, FinalizeAudit
  <1>1. IsFinalStory(snap) = IsFinalStory(db)
    BY <1>0 DEF IsFinalStory
  <1>2. CASE FinalizeIntermediate
    BY <1>0, <1>1, <1>2 DEF FinalizeIntermediate, SafeInv, Completes, IsFinalStory
  <1>3. ASSUME NEW a \in Answers, NEW b \in Answers, FinalizeAudit(a, b) PROVE SafeInv'
    <2>1. CASE ~ok'
      BY <1>0, <1>3, <2>1 DEF FinalizeAudit, SafeInv
    <2>2. CASE ok' /\ ~Completes
      BY <1>0, <2>2, <1>3 DEF FinalizeAudit, SafeInv, Completes, IsFinalStory
    <2>3. CASE ok' /\ Completes
      <3>1. PICK s \in Stories : snap.story[s] = "SUCCESS"
        BY <1>0, <2>3 DEF Completes
      <3>2. ~LedgerFastPass(w, pol, ledger, SucceededStories(snap))
        BY <3>1, NoFastPass
      <3>3. AuditProjectAcceptance(w, pol, ledger, SucceededStories(snap), a, b).passed
        BY <1>3, <2>3 DEF FinalizeAudit, Acceptance
      <3>4. ~w.risky /\ AcceptanceProbe(w, pol) \in {"none", "pass"}
        BY <2>3, <3>2, <3>3, AcceptedIsSafe DEF Completes
      <3> QED BY <1>0, <3>4 , <1>3 DEF SafeInv
    <2> QED BY <2>1, <2>2, <2>3
  <1> QED BY <1>2, <1>3

\* Every other step leaves the content, the stories and the verdict alone, or leaves
\* RunOnce.
LEMMA SafeStep == SafeInv /\ [Next]_vars => SafeInv'
  <1> SUFFICES ASSUME SafeInv, [Next]_vars PROVE SafeInv'
    OBVIOUS
  <1> USE DEF SafeInv, InRunOnce
  <1>1. CASE UNCHANGED vars
    BY <1>1 DEF vars, Completes, IsFinalStory
  <1>2. CASE ExecutorStep
    BY <1>2 DEF ExecutorStep, StartStory, FastExit, NotGreen, CheckStory, ReportStory
  <1>3. CASE RunOnceLoad \/ PostMergeRepair \/ (\E outcome \in {"SUCCESS", "FAILED"} : Dispatch(outcome))
    BY <1>3 DEF RunOnceLoad, PostMergeRepair, Dispatch
  <1>4. ASSUME NEW a \in Answers, StoryPasses(a) PROVE SafeInv'
    BY <1>4 DEF StoryPasses, LedgerKey
  <1>5. ASSUME NEW a \in Answers, QueueStoryRemediation(a) PROVE SafeInv'
    BY <1>5 DEF QueueStoryRemediation, StoryFails
  <1>6. ASSUME NEW a \in Answers, NEW rescued \in BOOLEAN, SovereignRescue(a, rescued) PROVE SafeInv'
    BY <1>6 DEF SovereignRescue, StoryFails
  <1>7. CASE SkipAcceptanceAudit \/ (\E a, b \in Answers : RunAcceptanceAudit(a, b))
    BY <1>7 DEF SkipAcceptanceAudit, RunAcceptanceAudit
  <1>8. CASE FinalizeStep
    <2>1. CASE FinalizeIntermediate \/ (\E a, b \in Answers : FinalizeAudit(a, b))
      BY <2>1, FinalizeSafe
    <2>2. CASE CheckoutFails \/ Publish \/ PersistVerdict
      BY <2>2 DEF CheckoutFails, Publish, PersistVerdict
    <2>3. ASSUME NEW change \in Changes, Release(change) PROVE SafeInv'
      BY <2>3 DEF Release, Switched, Completes, IsFinalStory
    <2> QED BY <1>8, <2>1, <2>2, <2>3 DEF FinalizeStep
  <1>9. CASE Crash
    BY <1>9 DEF Crash
  <1> QED BY <1>1, <1>2, <1>3, <1>4, <1>5, <1>6, <1>7, <1>8, <1>9 DEF Next, RunOnceStep

\* The release that completes a project passed the acceptance audit and the sovereign
\* audit, or the latter's calls failed after it had found nothing itself; unless a git
\* error was ignored.
THEOREM FinalReleaseIsSafe == Spec => []FinalReleaseSafe
  <1>1. Init => SafeInv
    BY DEF Init, SafeInv, InRunOnce
  <1>2. SafeInv => FinalReleaseSafe
    BY DEF SafeInv, FinalReleaseSafe, Completes
  <1> QED BY <1>1, <1>2, SafeStep, PTL DEF Spec

-----------------------------------------------------------------------------
(* Once, but for the faults. *)

States == [status : {"IDLE", "RUNNING", "SUCCESS", "FAILED"},
           story : [Stories -> {"ABSENT", "RUNNING", "SUCCESS", "FAILED"}],
           task : [Stories -> {"ABSENT", "PENDING", "SUCCESS", "FAILED"}],
           remedy : [Stories -> {"ABSENT", "PENDING", "SUCCESS", "FAILED"}]]

\* Between two calls of RunOnce, where a verdict may already be recorded.
Between == {"check", "load", "dispatch"}

OnceTypeInv ==
    /\ db \in States
    /\ exit \in [Stories -> {"none", "ok", "failed"}]
    /\ releases \in [Stories -> Nat] /\ faults \in Nat
    /\ pc \in {"idle", "report", "probe"} \cup Between \cup InRunOnce
    /\ pc # "idle" => cur \in Stories

\* A story in execution has not been reported, and it is RUNNING until its verdict is
\* recorded, which closes the state.
RunningInv ==
    /\ pc \in {"probe"} \cup Between \cup InRunOnce => exit[cur] = "none"
    /\ pc \in {"probe"} \cup InRunOnce => db.status = "RUNNING" /\ db.story[cur] = "RUNNING"
    /\ pc \in Between => \/ db.status = "RUNNING" /\ db.story[cur] = "RUNNING"
                         \/ db.status \in {"SUCCESS", "FAILED"}

\* What keeps a story from being released once more: its release is not recorded yet, or
\* its verdict is, or the executor has returned.
Settled(s) ==
    \/ cur = s /\ pc \in {"publish", "persist"}
    \/ cur = s /\ pc \in Between /\ db.status \in {"SUCCESS", "FAILED"}
    \/ exit[s] # "none"

\* Each fault allows for one more release; beyond that the story is settled.
CountInv == \A s \in Stories : releases[s] <= faults \/ (releases[s] = faults + 1 /\ Settled(s))

OnceInv == OnceTypeInv /\ RunningInv /\ CountInv

\* Types: the state, the outcomes and the counts.
LEMMA OnceTypeStep == OnceTypeInv /\ [Next]_vars => OnceTypeInv'
  <1> SUFFICES ASSUME OnceTypeInv, [Next]_vars PROVE OnceTypeInv'
    OBVIOUS
  <1> USE DEF OnceTypeInv, States, Between, InRunOnce, Fault
  <1>1. CASE UNCHANGED vars
    BY <1>1 DEF vars
  <1>2. ASSUME NEW s \in Stories, StartStory(s) PROVE OnceTypeInv'
    BY <1>2 DEF StartStory
  <1>3. CASE FastExit
    BY <1>3 DEF FastExit
  <1>4. CASE NotGreen \/ CheckStory
    BY <1>4 DEF NotGreen, CheckStory
  <1>5. CASE ReportStory
    BY <1>5 DEF ReportStory
  <1>6. CASE RunOnceLoad \/ PostMergeRepair \/ SkipAcceptanceAudit
    BY <1>6 DEF RunOnceLoad, PostMergeRepair, SkipAcceptanceAudit
  <1>7. ASSUME NEW outcome \in {"SUCCESS", "FAILED"}, Dispatch(outcome) PROVE OnceTypeInv'
    BY <1>7 DEF Dispatch
  <1>8. ASSUME NEW a \in Answers, StoryPasses(a) \/ QueueStoryRemediation(a) PROVE OnceTypeInv'
    BY <1>8 DEF StoryPasses, QueueStoryRemediation, StoryFails
  <1>9. ASSUME NEW a \in Answers, NEW rescued \in BOOLEAN, SovereignRescue(a, rescued) PROVE OnceTypeInv'
    BY <1>9 DEF SovereignRescue, StoryFails
  <1>10. ASSUME NEW a \in Answers, NEW b \in Answers, RunAcceptanceAudit(a, b) \/ FinalizeAudit(a, b)
         PROVE  OnceTypeInv'
    BY <1>10 DEF RunAcceptanceAudit, FinalizeAudit
  <1>11. CASE FinalizeIntermediate \/ CheckoutFails \/ Publish \/ PersistVerdict
    <2>1. CASE FinalizeIntermediate \/ CheckoutFails \/ Publish
      BY <2>1 DEF FinalizeIntermediate, CheckoutFails, Publish
    <2>2. ASSUME NEW verdict \in {"SUCCESS", "FAILED"}, pc = "persist", pc' = "check",
                 db' = [db EXCEPT !.status = verdict, !.story[cur] = verdict],
                 UNCHANGED <<cur, exit, releases, faults>>
          PROVE  OnceTypeInv'
      BY <2>2
    <2>3. CASE PersistVerdict /\ Fault("persist") /\ UNCHANGED db
      BY <2>3 DEF PersistVerdict
    <2> QED BY <1>11, <2>1, <2>2, <2>3 DEF PersistVerdict
  <1>12. ASSUME NEW change \in Changes, Release(change) PROVE OnceTypeInv'
    BY <1>12 DEF Release
  <1>13. CASE Crash
    BY <1>13 DEF Crash
  <1> QED BY <1>1, <1>2, <1>3, <1>4, <1>5, <1>6, <1>7, <1>8, <1>9, <1>10, <1>11, <1>12, <1>13
          DEF Next, ExecutorStep, RunOnceStep, FinalizeStep

\* A story is RUNNING until its verdict closes the state: StartStory opens it, and RunOnce
\* goes past its load only while it is open.
LEMMA RunningStep == OnceTypeInv /\ RunningInv /\ [Next]_vars => RunningInv'
  <1> SUFFICES ASSUME OnceTypeInv, RunningInv, [Next]_vars PROVE RunningInv'
    OBVIOUS
  <1> USE DEF OnceTypeInv, States, RunningInv, Between, InRunOnce
  <1>1. CASE UNCHANGED vars
    BY <1>1 DEF vars
  <1>2. ASSUME NEW s \in Stories, StartStory(s) PROVE RunningInv'
    BY <1>2 DEF StartStory
  <1>3. CASE FastExit \/ ReportStory \/ Crash
    BY <1>3 DEF FastExit, ReportStory, Crash
  <1>4. CASE NotGreen \/ CheckStory
    BY <1>4 DEF NotGreen, CheckStory
  <1>5. CASE RunOnceLoad \/ PostMergeRepair \/ SkipAcceptanceAudit
    BY <1>5 DEF RunOnceLoad, PostMergeRepair, SkipAcceptanceAudit, Open
  <1>6. ASSUME NEW outcome \in {"SUCCESS", "FAILED"}, Dispatch(outcome) PROVE RunningInv'
    BY <1>6 DEF Dispatch
  <1>7. ASSUME NEW a \in Answers, StoryPasses(a) \/ QueueStoryRemediation(a) PROVE RunningInv'
    BY <1>7 DEF StoryPasses, QueueStoryRemediation, StoryFails
  <1>8. ASSUME NEW a \in Answers, NEW rescued \in BOOLEAN, SovereignRescue(a, rescued) PROVE RunningInv'
    BY <1>8 DEF SovereignRescue, StoryFails
  <1>9. ASSUME NEW a \in Answers, NEW b \in Answers, RunAcceptanceAudit(a, b) \/ FinalizeAudit(a, b)
        PROVE  RunningInv'
    BY <1>9 DEF RunAcceptanceAudit, FinalizeAudit
  <1>10. CASE FinalizeIntermediate \/ CheckoutFails \/ Publish \/ PersistVerdict
    BY <1>10 DEF FinalizeIntermediate, CheckoutFails, Publish, PersistVerdict
  <1>11. ASSUME NEW change \in Changes, Release(change) PROVE RunningInv'
    BY <1>11 DEF Release
  <1> QED BY <1>1, <1>2, <1>3, <1>4, <1>5, <1>6, <1>7, <1>8, <1>9, <1>10, <1>11
          DEF Next, ExecutorStep, RunOnceStep, FinalizeStep

\* A release counts once, and only a fault takes a story out of Settled unreported.
LEMMA CountStep == OnceInv /\ [Next]_vars => CountInv'
  <1> SUFFICES ASSUME OnceInv, [Next]_vars, NEW s \in Stories
               PROVE  releases'[s] <= faults' \/ (releases'[s] = faults' + 1 /\ Settled(s)')
    BY DEF CountInv
  <1> USE DEF OnceInv, OnceTypeInv, States, RunningInv, CountInv, Settled, Between, InRunOnce, Fault
  <1> DEFINE Goal == releases'[s] <= faults' \/ (releases'[s] = faults' + 1 /\ Settled(s)')
  <1>1. CASE UNCHANGED vars
    BY <1>1 DEF vars
  <1>2. ASSUME NEW r \in Stories, StartStory(r) PROVE Goal
    BY <1>2 DEF StartStory
  <1>3. CASE FastExit \/ ReportStory
    BY <1>3 DEF FastExit, ReportStory
  <1>4. CASE NotGreen \/ CheckStory
    BY <1>4 DEF NotGreen, CheckStory
  <1>5. CASE RunOnceLoad \/ PostMergeRepair \/ SkipAcceptanceAudit
    BY <1>5 DEF RunOnceLoad, PostMergeRepair, SkipAcceptanceAudit, Open
  <1>6. ASSUME NEW outcome \in {"SUCCESS", "FAILED"}, Dispatch(outcome) PROVE Goal
    BY <1>6 DEF Dispatch
  <1>7. ASSUME NEW a \in Answers, StoryPasses(a) \/ QueueStoryRemediation(a) PROVE Goal
    BY <1>7 DEF StoryPasses, QueueStoryRemediation, StoryFails
  <1>8. ASSUME NEW a \in Answers, NEW rescued \in BOOLEAN, SovereignRescue(a, rescued) PROVE Goal
    BY <1>8 DEF SovereignRescue, StoryFails
  <1>9. ASSUME NEW a \in Answers, NEW b \in Answers, RunAcceptanceAudit(a, b) \/ FinalizeAudit(a, b)
        PROVE  Goal
    BY <1>9 DEF RunAcceptanceAudit, FinalizeAudit
  <1>10. CASE FinalizeIntermediate \/ CheckoutFails \/ Publish \/ PersistVerdict
    <2>1. CASE FinalizeIntermediate \/ CheckoutFails \/ Publish
      BY <2>1 DEF FinalizeIntermediate, CheckoutFails, Publish
    <2>2. ASSUME NEW verdict \in {"SUCCESS", "FAILED"}, pc = "persist", pc' = "check",
                 db' = [db EXCEPT !.status = verdict, !.story[cur] = verdict],
                 UNCHANGED <<cur, exit, releases, faults>>
          PROVE  Goal
      BY <2>2
    <2>3. CASE PersistVerdict /\ Fault("persist") /\ UNCHANGED db
      BY <2>3 DEF PersistVerdict
    <2> QED BY <1>10, <2>1, <2>2, <2>3 DEF PersistVerdict
  <1>11. ASSUME NEW change \in Changes, Release(change) PROVE Goal
    BY <1>11 DEF Release
  <1>12. CASE Crash
    BY <1>12 DEF Crash
  <1> QED BY <1>1, <1>2, <1>3, <1>4, <1>5, <1>6, <1>7, <1>8, <1>9, <1>10, <1>11, <1>12
          DEF Next, ExecutorStep, RunOnceStep, FinalizeStep

\* Only Release counts one, and it finds the story RUNNING and not settled.
LEMMA ReleaseStep ==
    ASSUME OnceInv, [Next]_vars, NEW s \in Stories, releases'[s] > releases[s]
    PROVE  db.story[s] = "RUNNING" /\ releases[s] <= faults
  <1> USE DEF OnceInv, OnceTypeInv
  <1>1. ~(releases' = releases)
    OBVIOUS
  <1>2. PICK change \in Changes : Release(change)
    BY <1>1 DEF Next, ExecutorStep, RunOnceStep, FinalizeStep, vars, StartStory, FastExit, NotGreen, CheckStory,
                ReportStory, RunOnceLoad, PostMergeRepair, SkipAcceptanceAudit, Dispatch, StoryPasses,
                QueueStoryRemediation, SovereignRescue, RunAcceptanceAudit, FinalizeAudit, FinalizeIntermediate,
                CheckoutFails, Publish, PersistVerdict, Crash
  <1>3. s = cur /\ pc = "release"
    BY <1>2 DEF Release
  <1>4. db.story[s] = "RUNNING" /\ exit[s] = "none"
    BY <1>3 DEF RunningInv, InRunOnce
  <1>5. ~Settled(s)
    BY <1>3, <1>4 DEF Settled, Between
  <1> QED BY <1>4, <1>5 DEF CountInv

\* A story is released only while it is recorded as RUNNING, and never more often than
\* there were faults, plus one.
THEOREM ReleasedOnceHolds == Spec => ReleasedOnce
  <1>1. Init => OnceInv
    BY DEF Init, OnceInv, OnceTypeInv, RunningInv, CountInv, States, Between, InRunOnce
  <1>2. OnceInv /\ [Next]_vars => OnceInv'
    BY OnceTypeStep, RunningStep, CountStep DEF OnceInv
  <1>3. OnceInv /\ [Next]_vars
        => [\A s \in Stories : releases'[s] > releases[s] => db.story[s] = "RUNNING" /\ releases[s] <= faults]_vars
    BY ReleaseStep
  <1> QED BY <1>1, <1>2, <1>3, PTL DEF Spec, ReleasedOnce
=============================================================================
