--------------------------- MODULE MCStoryRelease ---------------------------
EXTENDS StoryRelease

\* A Go project with tests in containers and a Makefile, complete and green.
Good == [has |-> {"docker-compose.yml", "Makefile", "make test", "make e2e", "go.mod"},
         services |-> {2, 10}, red |-> {}, root |-> "absolute", blocks |-> <<>>,
         program |-> [code |-> 0, stdout |-> TRUE, stderr |-> TRUE],
         spec |-> TRUE, risky |-> FALSE, diff |-> TRUE]

Clause == [runs |-> TRUE, remote |-> FALSE, exits |-> {0}, stdout |-> TRUE, stderr |-> FALSE, remoteCheck |-> FALSE]

MCWorkspaces ==
    {Good,
     [Good EXCEPT !.red = {"e2e"}],
     [Good EXCEPT !.red = {"tests"}, !.has = {"make test"}],
     [Good EXCEPT !.risky = TRUE],
     [Good EXCEPT !.blocks = <<{Clause}>>],
     [Good EXCEPT !.diff = FALSE, !.spec = FALSE, !.has = {"e2e script"}]}

Default == [mode |-> "docker", e2eCmd |-> NoCommand, testCmd |-> NoCommand, allowed |-> {},
            sandbox |-> {}, llm |-> TRUE, createBranch |-> TRUE]

MCPolicies ==
    {Default,
     [Default EXCEPT !.mode = "native", !.allowed = {"make", "go"}, !.createBranch = FALSE],
     [Default EXCEPT !.sandbox = {"make"}, !.testCmd = Cmd("make", "test", "tests")],
     [Default EXCEPT !.llm = FALSE]}

Answer(form, passed, gaps, risks) ==
    [form |-> form, passed |-> passed, gaps |-> gaps, risks |-> risks, errors |-> FALSE]

MCAnswers ==
    {Answer("error", FALSE, FALSE, FALSE), Answer("prose", FALSE, FALSE, FALSE),
     Answer("tool", TRUE, FALSE, FALSE), Answer("tool", FALSE, TRUE, FALSE),
     Answer("json", TRUE, FALSE, TRUE)}
=============================================================================
