------------------------------- MODULE Audits -------------------------------
(* The verdicts a finished story has to pass: which command tests it end to *)
(* end, what the story QA audit, the sovereign QA audit and the acceptance  *)
(* audit of the whole project conclude from a workspace and from the answer *)
(* of the model.  No state: a workspace `w` and a policy `pol` are records. *)
EXTENDS Naturals, Sequences, FiniteSets, FiniteSetsExt

-----------------------------------------------------------------------------
(* Commands.  A command is its binary, its arguments and the suite it runs. *)

Cmd(bin, args, suite) == [bin |-> bin, args |-> args, suite |-> suite]
NoCommand == Cmd("", "", "none")

\* The first rule of a list of <<condition, command>> that applies.
FirstRule(rules) ==
    LET hits == SelectSeq(rules, LAMBDA r : r[1])
    IN  IF hits = <<>> THEN NoCommand ELSE hits[1][2]

\* A compose service is its rank: 1..8 for the names the code prefers, in its order, 9
\* for a name that only looks like a test runner, 10 for any other.
TestRunnerService(services) == Min(services \cup {10})

\* detectDockerE2ECommand: a compose file made for the purpose, a compose file with a
\* runner, a Makefile target.  w.has is the set of files and targets of the workspace.
DetectDockerE2ECommand(w) ==
    LET runner == TestRunnerService(w.services) IN
    FirstRule(<<
        <<"docker-compose.e2e.yml" \in w.has,
          Cmd("docker", IF runner = 10 THEN 2 ELSE runner, "e2e")>>,
        <<"docker-compose.yml" \in w.has /\ (runner < 10 \/ "compose e2e:" \in w.has),
          Cmd("docker", IF runner = 10 THEN 6 ELSE runner, "e2e")>>,
        <<"make e2e" \in w.has, Cmd("make", "e2e", "e2e")>> >>)

\* The end-to-end tests of a Python project.
PythonE2ECommand(w, dir) ==
    FirstRule(<<
        <<<<dir, "run_tests.sh">> \in w.has, Cmd("sh", dir, "e2e")>>,
        <<"pyproject.toml" \in w.has /\ "uv" \in w.has, Cmd("uv", dir, "e2e")>>,
        <<"pyproject.toml" \in w.has /\ "pytest" \notin w.has, Cmd("python3", dir, "e2e")>>,
        <<TRUE, Cmd("pytest", dir, "e2e")>> >>)

\* detectNativeE2ECommand: without containers, down to the ordinary `make test`.
DetectNativeE2ECommand(w) ==
    LET dirs == {"tests/e2e", "test/e2e"} \cap w.has
        dir == IF "tests/e2e" \in dirs THEN "tests/e2e" ELSE "test/e2e"
        python == {"pyproject.toml", "requirements.txt", "setup.py"} \cap w.has
    IN  FirstRule(<<
        <<"make e2e" \in w.has /\ "make e2e docker" \notin w.has, Cmd("make", "e2e", "e2e")>>,
        <<"npm test:e2e" \in w.has, Cmd("npm", "test:e2e", "e2e")>>,
        <<"npm e2e" \in w.has, Cmd("npm", "e2e", "e2e")>>,
        <<dirs # {} /\ python # {}, PythonE2ECommand(w, dir)>>,
        <<dirs # {} /\ "Cargo.toml" \in w.has, Cmd("cargo", "e2e", "e2e")>>,
        <<dirs # {} /\ "go.mod" \in w.has, Cmd("go", dir, "e2e")>>,
        <<{"Cargo.toml", "tests/e2e.rs"} \subseteq w.has, Cmd("cargo", "e2e", "e2e")>>,
        <<"make test" \in w.has, Cmd("make", "test", "tests")>> >>)

\* A configured command wins over what the workspace holds.
DetectE2ECommand(w, mode, custom) ==
    IF custom # NoCommand THEN custom
    ELSE IF mode = "native" THEN DetectNativeE2ECommand(w) ELSE DetectDockerE2ECommand(w)

\* The sovereign auditor is never given the mode, so it looks for containers; then for
\* scripts.
DetectProbeCommand(w, pol) ==
    LET e2e == DetectE2ECommand(w, "docker", pol.e2eCmd)
    IN  IF e2e # NoCommand THEN e2e
        ELSE FirstRule(<< <<"e2e script" \in w.has, Cmd("sh", "script", "e2e")>> >>)

\* The story auditor takes the sandbox's list when none is configured, and a list with
\* a shell or a star for no list at all.
StoryCommandAllowed(pol, bin) ==
    LET allowed == IF pol.allowed # {} THEN pol.allowed ELSE pol.sandbox
    IN  allowed = {} \/ allowed \cap {"*", "sh", "bash", bin} # {}

\* The acceptance auditor only knows the configured list.
AcceptanceCommandAllowed(pol, cmd) == pol.allowed = {} \/ cmd.bin \in pol.allowed

\* detectWorkspaceTestCommand: the configured command, or what the workspace is made of.
DetectWorkspaceTestCommand(w, pol) ==
    LET may(bin) == StoryCommandAllowed(pol, bin) IN
    FirstRule(<<
        <<pol.testCmd # NoCommand /\ may(pol.testCmd.bin), pol.testCmd>>,
        <<may("make") /\ "make test" \in w.has, Cmd("make", "test", "tests")>>,
        <<may("go") /\ "go.mod" \in w.has, Cmd("go", "./...", "tests")>>,
        <<(may("pytest") \/ may("python") \/ may("python3")) /\ "pyproject.toml" \in w.has,
          Cmd("pytest", "-v", "tests")>>,
        <<may("cargo") /\ "Cargo.toml" \in w.has, Cmd("cargo", "test", "tests")>>,
        <<may("npm") /\ "package.json" \in w.has, Cmd("npm", "test", "tests")>>,
        <<may("dune") /\ "dune-project" \in w.has, Cmd("dune", "runtest", "tests")>> >>)

\* The sandbox refuses a binary that is not on its list; otherwise the suite decides.
RunCommand(w, pol, cmd) ==
    IF pol.sandbox # {} /\ cmd.bin \notin pol.sandbox THEN "violation"
    ELSE IF cmd.suite \in w.red THEN "fail" ELSE "pass"

-----------------------------------------------------------------------------
(* The public contract of a story. *)

\* A clause needs something to run or to call, and something to observe.
ClauseWellFormed(c) ==
    /\ c.runs \/ c.remote
    /\ c.exits # {} \/ c.stdout \/ c.stderr \/ c.remoteCheck

\* ParseStoryContract: exactly one block, readable, with at least one clause, all well
\* formed, and a path relative to the repository.  A block is the set of its clauses, or
\* {} when its JSON is not what the parser wants.
ContractParses(path, blocks) ==
    /\ Len(blocks) = 1 /\ blocks[1] # {} /\ \A c \in blocks[1] : ClauseWellFormed(c)
    /\ path = "relative"

\* ValidateStoryContracts runs the first executable of a clause; one without any passes.
\* Any error of the command counts as exit code 1.
ClauseFails(w, c) ==
    /\ c.runs
    /\ \/ c.exits # {} /\ w.program.code \notin c.exits
       \/ c.stdout /\ ~w.program.stdout
       \/ w.program.code = 1 /\ c.stderr /\ ~w.program.stderr

\* The audit has joined the story's path to the project's, which `start` and the story
\* commands make absolute: in practice a block never parses here.
ContractFails(w) ==
    /\ w.blocks # <<>>
    /\ ContractParses(w.root, w.blocks) => \E c \in w.blocks[1] : ClauseFails(w, c)

-----------------------------------------------------------------------------
(* Answers of the model: "error" is a failed call, "empty" no response, "tool" and *)
(* "json" carry a verdict, "prose" does not.                                       *)

Verdict(a) == a.form \in {"tool", "json"}

\* An answer that cannot be read counts as a pass for a story.
ParseStoryAnswer(a) ==
    [passed |-> IF Verdict(a) THEN a.passed /\ ~a.gaps ELSE a.form = "prose",
     missing |-> Verdict(a) /\ a.gaps]

\* For the project it does not.
ParseAcceptanceAnswer(a) ==
    [passed |-> Verdict(a) /\ a.passed /\ ~a.gaps, gaps |-> Verdict(a) /\ a.gaps]

\* The audit ran something that failed: the end-to-end suite, the suite of the whole
\* workspace unless it is the same command, or the contract.
E2EFails(w, pol) ==
    LET cmd == DetectE2ECommand(w, pol.mode, pol.e2eCmd)
    IN  cmd # NoCommand /\ StoryCommandAllowed(pol, cmd.bin) /\ RunCommand(w, pol, cmd) = "fail"

RegressionFound(w, pol) ==
    LET cmd == DetectWorkspaceTestCommand(w, pol)
    IN  /\ cmd # NoCommand /\ cmd # DetectE2ECommand(w, pol.mode, pol.e2eCmd)
        /\ StoryCommandAllowed(pol, cmd.bin) /\ RunCommand(w, pol, cmd) = "fail"

HasFailure(w, pol) == E2EFails(w, pol) \/ RegressionFound(w, pol) \/ ContractFails(w)

\* Mutant: the model's word is final.
AuditStoryTrusting(w, pol, a) ==
    IF ~pol.llm THEN [err |-> FALSE, passed |-> ~HasFailure(w, pol), missing |-> HasFailure(w, pol)]
    ELSE IF a.form = "error" THEN [err |-> TRUE, passed |-> FALSE, missing |-> FALSE]
    ELSE [err |-> FALSE, passed |-> ParseStoryAnswer(a).passed, missing |-> ParseStoryAnswer(a).missing]

\* AuditStoryCompleteness: a failure seen outweighs whatever the model says.
AuditStoryCompleteness(w, pol, a) ==
    LET failed == HasFailure(w, pol)
        parsed == ParseStoryAnswer(a)
    IN  IF ~pol.llm THEN [err |-> FALSE, passed |-> ~failed, missing |-> failed]
        ELSE IF a.form = "error" THEN [err |-> ~failed, passed |-> FALSE, missing |-> failed]
        ELSE [err |-> FALSE, passed |-> parsed.passed /\ ~failed, missing |-> parsed.missing \/ failed]

\* Mutant: a failed call hides what the probe and the heuristics found.
SovereignAuditForgetful(w, probe, a) ==
    LET bad == probe \in {"fail", "violation"} \/ w.risky
        said == Verdict(a) /\ (a.errors \/ a.risks)
    IN  [err |-> a.form = "error", passed |-> ~bad /\ ~said /\ (Verdict(a) => a.passed), gaps |-> bad \/ said]

\* SovereignQAAuditor.Audit: a failed probe is an immediate error, refused by the sandbox
\* or not; the heuristics on the source (w.risky) may predict a critical failure.
SovereignAudit(w, probe, a) ==
    LET errors == probe \in {"fail", "violation"}
        bad == errors \/ w.risky
        said == Verdict(a) /\ (a.errors \/ a.risks)
    IN  [err    |-> a.form = "error" /\ ~bad,
         passed |-> ~bad /\ ~said /\ (Verdict(a) => a.passed),
         gaps   |-> bad \/ said]

\* The probe of the acceptance audit: the end-to-end command, or the sovereign auditor's.
AcceptanceCommand(w, pol) ==
    LET e2e == DetectE2ECommand(w, pol.mode, pol.e2eCmd)
    IN  IF e2e # NoCommand THEN e2e ELSE DetectProbeCommand(w, pol)

AcceptanceProbe(w, pol) ==
    LET cmd == AcceptanceCommand(w, pol)
    IN  IF cmd = NoCommand \/ ~AcceptanceCommandAllowed(pol, cmd) THEN "none"
        ELSE RunCommand(w, pol, cmd)

\* The ledger's fast pass: no successful story is missing from a ledger that is not empty,
\* and the tests ran green or there are none.
LedgerFastPass(w, pol, ledger, succeeded) ==
    /\ ledger # {} /\ succeeded \subseteq ledger
    /\ AcceptanceProbe(w, pol) = "pass" \/ AcceptanceCommand(w, pol) = NoCommand

\* AuditProjectAcceptance, with the answers to its own call and to the sovereign
\* auditor's, whose failure to answer is ignored.
AuditProjectAcceptance(w, pol, ledger, succeeded, a, b) ==
    LET own == ParseAcceptanceAnswer(a)
        sqa == SovereignAudit(w, AcceptanceProbe(w, pol), b)
        red == AcceptanceProbe(w, pol) = "fail"
    IN  IF ~w.spec \/ ~pol.llm \/ LedgerFastPass(w, pol, ledger, succeeded)
        THEN [err |-> FALSE, passed |-> TRUE, gaps |-> FALSE]
        ELSE IF a.form = "error" THEN [err |-> TRUE, passed |-> FALSE, gaps |-> FALSE]
        ELSE [err    |-> FALSE,
              passed |-> own.passed /\ ~red /\ (sqa.err \/ sqa.passed),
              gaps   |-> own.gaps \/ red \/ (~sqa.err /\ ~sqa.passed /\ sqa.gaps)]
=============================================================================
