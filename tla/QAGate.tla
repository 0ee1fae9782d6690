------------------------------- MODULE QAGate -------------------------------
(* The black-box review of a task: the story's public contract, what a      *)
(* review of one commit may conclude, the records it leaves in the state    *)
(* and what a restart makes of them.                                        *)
EXTENDS Validation, SequencesExt

CONSTANTS QA,         \* QAConfig: [enabled, build, commands, maxScenarios, rounds]
          Proposals,  \* what the model may propose: sequences of scenarios
          QAFaults    \* the ways a review can break down: a subset of reviewFaults

-----------------------------------------------------------------------------
(* The contract. *)

\* normalizeRelativePath: a path of the repository.
normalizeRelativePath(path) == path \notin {"", ".", "..", "/abs"}

ValidPublicContract(c) ==
    /\ c.id # ""
    /\ \A p \in c.prefixes \union c.execs : normalizeRelativePath(p)
    /\ c.interface \in {"http", "socket"} \/ c.execs # {}
    /\ c.expects # {}

\* ParseStoryContract: the contracts of the one contract block of a story file, or none.
ParseStoryContract(story) ==
    LET ids == {story.contracts[i].id : i \in DOMAIN story.contracts}
    IN  IF /\ story.blocks = 1 /\ story.id # ""
           /\ Cardinality(ids) = Len(story.contracts)
           /\ \A i \in DOMAIN story.contracts : ValidPublicContract(story.contracts[i])
        THEN ToSet(story.contracts) ELSE {}

\* prepareQA, first half: the contracts of the task's story file; failing that, those on
\* record for the story, or of the first file of the roadmap for that story that parses.
StoryContract(story) ==
    LET parsed == SelectSeq(story.roadmap, LAMBDA file : ParseStoryContract(file) # {})
    IN  IF ParseStoryContract(story.file) # {} THEN ParseStoryContract(story.file)
        ELSE IF story.recorded # {} \/ parsed = <<>> THEN story.recorded
        ELSE ParseStoryContract(Head(parsed))

\* A contract that names no executable (an HTTP or a socket one) never applies.
qaApplies(contracts, files) ==
    \E c \in contracts :
        /\ c.execs \intersect QA.commands # {}
        /\ c.prefixes = {} \/ c.prefixes \intersect files # {}

\* prepareQA, second half: why there is no review, or "".
SkipReason(contracts) ==
    IF ~QA.enabled THEN "disabled"
    ELSE IF contracts = {} THEN "missing_story_contract"
    ELSE IF ~qaApplies(contracts, Task.files) THEN "not_applicable"
    ELSE IF ~QA.build \/ QA.commands = {} THEN "validation_surface_unavailable"
    ELSE ""

-----------------------------------------------------------------------------
(* One review of one commit. *)

\* validateScenarioExpectations: a scenario runs what its contract allows and expects what
\* its contract declares.
ValidScenario(s, contracts) ==
    \E c \in contracts : c.id = s.contract /\ s.exec \in c.execs /\ s.expects \subseteq c.expects

\* ParseQAScenarioProposal: the scenarios, those with the same fingerprint once; {} is an
\* answer that is refused as a whole.
ParseQAScenarioProposal(proposal, contracts) ==
    IF /\ Len(proposal) \in 1..QA.maxScenarios
       /\ \A i \in DOMAIN proposal : ValidScenario(proposal[i], contracts)
    THEN ToSet(proposal) ELSE {}

\* executeScenario and compareQAStep: a scenario that probes what the code gets wrong
\* ends in a finding.
executeScenario(impl, scenario) == ~scenario.probes \/ impl.contract

Result(status, reason, artifact) == [status |-> status, reason |-> reason, artifact |-> artifact, patch |-> FALSE]

\* deriveAndExecute over the proposals the model made: the last one counts.
deriveAndExecute(impl, proposal, artifact, contracts) ==
    LET scenarios == ParseQAScenarioProposal(proposal, contracts)
    IN  CASE scenarios = {} -> Result("ERROR", "invalid_model_output", artifact)
          [] \E s \in scenarios : ~executeScenario(impl, s) -> Result("FINDINGS", "public_contract_failed", artifact)
          [] OTHER -> Result("PASS", "", artifact)

\* What can break a review, before the artifact exists and after it.
faultsWithout == {"context_cancelled", "isolation_failed", "story_changed"}
faultsWith == {"budget_exhausted", "scenario_environment_failed", "artifact_changed", "tester_failed"}
reviewFaults == faultsWithout \union faultsWith

FaultStatus(reason) ==
    CASE reason = "context_cancelled" -> "INTERRUPTED"
      [] reason = "budget_exhausted" -> "BUDGET_EXHAUSTED"
      [] reason = "tester_failed" -> "ERROR"
      [] OTHER -> "INCONCLUSIVE"

\* Build: the artifact is named after the commit and what was built from it.
ArtifactID(commit) == commit

\* Review: the results a review of commit n, whose tree is given, may have.  Only the
\* first review of an attempt runs a tester beside it, who may hand in a patch.
Review(tree, n, tester, contracts) ==
    {Result(FaultStatus(r), r, 0) : r \in QAFaults \intersect faultsWithout}
    \union (IF ~Builds(tree) THEN {Result("INCONCLUSIVE", "validation_surface_unavailable", 0)}
            ELSE {Result(FaultStatus(r), r, ArtifactID(n)) : r \in QAFaults \intersect faultsWith}
                 \union UNION {LET res == deriveAndExecute(tree.impl, p, ArtifactID(n), contracts)
                               IN  {res} \union (IF tester THEN {[res EXCEPT !.patch = TRUE]} ELSE {})
                               : p \in Proposals})

-----------------------------------------------------------------------------
(* The records.  phases is state.ReviewPhases of the task, agents the QA    *)
(* agents recorded as working, both by the id of their review.              *)

Phase(id, attempt, result) ==
    [id |-> id, attempt |-> attempt, artifact |-> result.artifact, status |-> result.status]

\* UpsertReviewPhase: the first record with this id, or of the same artifact and attempt,
\* is replaced.
SamePhase(old, new) == old.id = new.id \/ (old.artifact = new.artifact /\ old.attempt = new.attempt)

UpsertReviewPhase(phases, phase) ==
    LET same == {i \in DOMAIN phases : SamePhase(phases[i], phase)}
    IN  IF same = {} THEN Append(phases, phase) ELSE [phases EXCEPT ![Min(same)] = phase]

\* recoverQAState: a working phase is given up when its deadline has passed or no QA agent
\* of the task is recorded as working; giving one up completes all those agents, so that
\* the phases after it have none.
recoverPhase(expired, acc, phase) ==
    LET keep == phase.status # "WORKING" \/ (phase.id \notin expired /\ acc.agents # {})
    IN  [phases |-> Append(acc.phases, IF keep THEN phase ELSE [phase EXCEPT !.status = "INTERRUPTED"]),
         agents |-> IF keep THEN acc.agents ELSE {},
         recovered |-> acc.recovered \/ ~keep]

recoverQAState(phases, agents, expired) ==
    FoldLeft(LAMBDA acc, phase : recoverPhase(expired, acc, phase),
             [phases |-> <<>>, agents |-> agents, recovered |-> FALSE], phases)
=============================================================================
