----------------------------- MODULE MCTurnLoop -----------------------------
(* The calls a model makes in the bounded runs of TurnLoop. *)
EXTENDS TurnLoop

Tests(command, package) ==
    [tool |-> "run_tests", path |-> "", entries |-> <<>>, shape |-> "", found |-> TRUE, command |-> command,
     package |-> package]

C(tool, path, entries, shape, found) ==
    [tool |-> tool, path |-> path, entries |-> entries, shape |-> shape, found |-> found, command |-> "", package |-> ""]

W(file, content) == [file |-> file, content |-> content]

Plain(tool) == C(tool, "", <<>>, "", TRUE)

Write(file, content) == C("write_file", file, <<W(file, content)>>, "", TRUE)

\* A model that reads, runs one test or a command of its own, and touches the tests.
Reading == {Plain("noop"), Tests("", "test.go"), Tests("go", ""), Plain("list_directory"),
            C("read_file", "test.go", <<>>, "", TRUE),
            Write("test.go", "bad")}

\* A model that edits: a patch breaks a file on its second diff, an edit misses its text.
Editing == {Plain("noop"), Plain("run_tests"), Write("prod.go", "good"),
            C("edit_file", "prod.go", <<W("prod.go", "bad")>>, "", FALSE),
            C("apply_patch", "prod.go", <<W("prod.go", "bad"), W("prod.go", "broken")>>, "", TRUE),
            C("delete_file", "prod.go", <<>>, "", TRUE)}

\* A model that lints, and asks for what the policy refuses.
Linting == {Plain("noop"), Plain("run_linter"), Write("prod.go", "good"), Write(".git", "good"),
            Tests("rm", ""), C("read_file", "prod.go", <<>>, "", TRUE)}

\* A model that runs the end-to-end suite, has the tests fixed and writes several files.
Batching == {Plain("noop"), Plain("run_e2e_tests"), Plain("request_test_fix"),
             C("write_files", "", <<W("prod.go", "bad"), W("test.go", "good")>>, "map", TRUE),
             C("write_files", "", <<W("prod.go", "good"), W("test.go", "broken")>>, "list", TRUE)}

\* A finished workspace, and one with tests and no implementation.
MCWorkspaces == {[f \in Files |-> "good"], [f \in Files |-> IF f \in TestFiles THEN "good" ELSE "none"]}

MCAgents == {[role |-> "generator", calls |-> c] : c \in {Reading, Editing, Linting, Batching}}
            \union {[role |-> "tester", calls |-> c] : c \in {Reading}}
=============================================================================
