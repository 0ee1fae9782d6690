----------------------------- MODULE Validation -----------------------------
(* The gates a task's workspace must pass: TestValidator.ValidateTask and   *)
(* the validators it and the turns call.  A workspace is one production     *)
(* file, the task's target, and a set of test files; a file is reduced to   *)
(* the facts the gates ask of it.                                           *)
EXTENDS Integers, FiniteSets, FiniteSetsExt, Sequences

CONSTANTS Task,   \* [targets, remediation, e2eNamed, lastOfStory]: what is asked of the task
          Cfg,    \* [runs, shortCircuit, enforceE2E]: the validator's configuration
          Host,   \* the tools present: a subset of {"build", "test", "e2e"}
          Logs    \* what a failing run may print: sets of the words the categories look for

-----------------------------------------------------------------------------
(* Files.  A target file that nobody has written yet is NoCode; the one the *)
(* orchestrator seeds before the first turn holds a comment only.           *)

\* What a production file, a test file and a workspace can be.
Languages == {"sh", "py", "go", "rs", "c", "java", "js", "make", "toml", "json", "other"}
CodeFiles == [made : {"none", "seed", "agent"}, lang : Languages, marks : SUBSET STRING, parses : BOOLEAN,
              imports : BOOLEAN, right : Nat, e2e : BOOLEAN, contract : BOOLEAN]
TestFiles == [dir : STRING, base : STRING, n : Nat, ofTask : BOOLEAN, marks : SUBSET STRING, uses : SUBSET STRING,
              lang : Languages, parses : BOOLEAN]
Trees == [impl : CodeFiles, tests : SUBSET TestFiles]

NoCode == [made |-> "none", lang |-> "py", marks |-> {}, parses |-> TRUE, imports |-> TRUE,
           right |-> 0, e2e |-> FALSE, contract |-> FALSE]

\* generateStubContent: the seeded file parses, and holds none of the marks the anti-stub
\* rules look for.
generateStubContent == [NoCode EXCEPT !.made = "seed"]

ensureTargetStubFilesExist(tree) ==
    IF tree.impl = NoCode THEN [tree EXCEPT !.impl = generateStubContent] ELSE tree

\* ValidateContent: the marks that count against a file of a language.
Forbidden(lang, isTestFile) ==
    {"todo"} \union (IF isTestFile THEN {"tautology"} ELSE {})
             \union CASE lang = "sh"   -> {"no_errexit", "masks_error", "set_plus_e"}
                      [] lang = "py"   -> {"not_implemented", "empty_body"}
                      [] lang = "go"   -> {"panics", "empty_main"}
                      [] lang = "rs"   -> {"todo_macro", "empty_main"}
                      [] lang \in {"c", "java"} -> {"empty_main"}
                      [] lang = "js"   -> {"not_implemented", "empty_main"}
                      [] lang = "make" -> {"echo_recipe"}
                      [] lang = "toml" -> {"omits_coverage"}
                      [] OTHER -> {}

ValidateContent(file, isTestFile) == file.marks \intersect Forbidden(file.lang, isTestFile)

\* ValidateWorkspace looks at the target files, or at every file when it is given none.
ValidateWorkspace(tree, targets) ==
    IF targets
    THEN ValidateContent(tree.impl, FALSE)
    ELSE ValidateContent(tree.impl, FALSE) \union UNION {ValidateContent(f, TRUE) : f \in tree.tests}

\* The analyser of test functions (Go and Python only): empty bodies, no assertion,
\* comparisons of a thing with itself, mocks nobody verifies, copies.
astRules == {"empty_test", "no_assertion", "self_comparison", "unverified_mock", "ill_defined_mock", "carbon_copy"}

AnalyzeFile(file) == IF file.lang \in {"go", "py"} THEN file.marks \intersect astRules ELSE {}

AnalyzeWorkspace(tree) == UNION {AnalyzeFile(f) : f \in tree.tests}

auditGeneratorFunctionalOutput(tree) == ValidateWorkspace(tree, Task.targets)
auditTesterTestOutput(tree) == ValidateWorkspace(tree, FALSE) \union AnalyzeWorkspace(tree)

-----------------------------------------------------------------------------
(* The static gates. *)

modularDirs == {"unit", "integration", "e2e"}

\* Two test files of the same name, or a file at the root of a partitioned test directory.
DetectShadowTestFiles(tree) ==
    IF Cardinality(tree.tests) <= 1 THEN {}
    ELSE {f \in tree.tests :
            \/ \E g \in tree.tests : g # f /\ g.base = f.base
            \/ f.dir = "root" /\ \E g \in tree.tests : g.dir \in modularDirs}

classifyTestCategory(file) == IF file.dir \in modularDirs THEN file.dir ELSE ""

\* A test of one layer that imports from another one.
scanFileForCoupling(file) == file.uses \intersect (modularDirs \ {classifyTestCategory(file)})

DetectTestCouplingViolations(tree) ==
    {f \in tree.tests : classifyTestCategory(f) # "" /\ scanFileForCoupling(f) # {}}

\* SyntaxValidator.Check of the workspace: Go, JSON and Python files only.
ValidateFile(file) == file.lang \in {"go", "json", "py"} => file.parses

SyntaxCheck(tree) == ValidateFile(tree.impl) /\ \A f \in tree.tests : ValidateFile(f)

\* The formatter changes nothing the model keeps; the import fixer completes the imports,
\* in the workspace only.
AutoFixImports(tree) == [tree EXCEPT !.impl.imports = TRUE]

-----------------------------------------------------------------------------
(* Running things.  A log is the set of words CategorizeFailureLog looks for. *)

CategorizeFailureLog(log) ==
    IF "killed" \in log THEN "timeout"
    ELSE IF "not found" \in log THEN "sandbox"
    ELSE IF "syntax error" \in log THEN "compile"
    ELSE IF "fail:" \in log THEN "test"
    ELSE "unknown"

\* isCommandToolMissing on the host: the binary is not on the PATH.
isCommandToolMissing(tool) == tool \notin Host

\* The project builds when its code parses and its imports are complete.
Builds(tree) == tree.impl.parses /\ tree.impl.imports

\* A run of the suite: a test of the task's behaviour passes as far as the code is right,
\* a test of anything else passes.
SuiteRun(tree) ==
    LET total == MapThenSumSet(LAMBDA f : f.n, tree.tests)
        failed == MapThenSumSet(LAMBDA f : IF f.ofTask THEN f.n - Min({f.n, tree.impl.right}) ELSE 0, tree.tests)
        ran == "test" \in Host /\ Builds(tree)
    IN  [err |-> ~ran \/ failed > 0, total |-> IF ran THEN total ELSE 0,
         passed |-> IF ran THEN total - failed ELSE 0]

\* EvaluateTestExecution: no test ran, or fewer than the test files declare.
EvaluateTestExecution(tree, out) == out.total = 0 \/ out.total < MapThenSumSet(LAMBDA f : f.n, tree.tests)

MinPassRate == 80

\* runWithCount of one run: green, or green enough.
RunPassed(tree, out) ==
    \/ ~out.err /\ ~EvaluateTestExecution(tree, out)
    \/ out.total > 0 /\ out.passed > 0 /\ out.passed * 100 >= MinPassRate * out.total

\* The runs of one validation.  A flaky suite may fail a run it would otherwise pass.
runWithCount(tree, n) ==
    LET once == RunPassed(tree, SuiteRun(tree))
    IN  [1..n -> IF "flaky" \in tree.impl.marks THEN {once, FALSE} ELSE {once}]

shouldValidateE2E ==
    Cfg.enforceE2E \/ Task.remediation \/ Task.e2eNamed \/ Task.lastOfStory

\* A failure of the end-to-end suite counts when it names something of the task; every one
\* does for a remediation task.
isE2EFailureInScope(tree) == Task.remediation \/ "foreign_e2e" \notin tree.impl.marks

validateE2E(tree) ==
    ~shouldValidateE2E \/ isCommandToolMissing("e2e") \/ tree.impl.e2e \/ ~isE2EFailureInScope(tree)

\* A verdict: whether it passed, the gate that decided, and the words of the log.
Verdict(ok, gate, log) == [ok |-> ok, gate |-> gate, log |-> log]
Failed(gate) == {Verdict(FALSE, gate, log) : log \in Logs}

\* ValidateTask: the set of verdicts it may give on a workspace.  The end-to-end gate is
\* reached by a vote only, never by the short circuit.
ValidateTask(tree, targets) ==
    LET fixed == AutoFixImports(tree)
        probe == Cfg.runs > 1 /\ Cfg.shortCircuit
        vote(runs) ==
            LET passes == Cardinality({i \in DOMAIN runs : runs[i]})
            IN  IF probe /\ runs[1] THEN {Verdict(TRUE, "short_circuit", {})}
                ELSE IF passes > Cfg.runs \div 2
                     THEN (IF validateE2E(fixed) THEN {Verdict(TRUE, "runs", {})} ELSE Failed("e2e"))
                ELSE IF isCommandToolMissing("test") THEN {Verdict(TRUE, "degraded", {})}
                ELSE Failed("runs")
    IN  IF ValidateWorkspace(tree, targets) # {} THEN {Verdict(FALSE, "anti_stub", {})}
        ELSE IF DetectShadowTestFiles(tree) # {} THEN {Verdict(FALSE, "shadow", {})}
        ELSE IF DetectTestCouplingViolations(tree) # {} THEN {Verdict(FALSE, "coupling", {})}
        ELSE IF ~SyntaxCheck(tree) THEN {Verdict(FALSE, "syntax", {"syntax error"})}
        ELSE IF ~Builds(fixed) /\ ~isCommandToolMissing("build") THEN Failed("build")
        ELSE UNION {vote(runs) : runs \in runWithCount(fixed, Cfg.runs)}
=============================================================================
