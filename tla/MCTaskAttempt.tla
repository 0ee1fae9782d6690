---------------------------- MODULE MCTaskAttempt ----------------------------
(* The files, contracts and answers of the bounded runs of TaskAttempt. *)
EXTENDS TaskAttempt

Code(marks, imports, right, contract) ==
    [NoCode EXCEPT !.made = "agent", !.marks = marks, !.imports = imports, !.right = right, !.e2e = contract,
                   !.contract = contract]

\* Right; not what the contract says; that, green now and then and with a missing import;
\* half right; a stub.
Good == Code({}, TRUE, 2, TRUE)
Off == Code({}, TRUE, 2, FALSE)
Weak == Code({"flaky"}, FALSE, 2, FALSE)
Half == Code({}, FALSE, 1, FALSE)
Stubbed == Code({"not_implemented"}, TRUE, 0, FALSE)

Test(dir, base, n, ofTask, marks, uses) ==
    [dir |-> dir, base |-> base, n |-> n, ofTask |-> ofTask, marks |-> marks, uses |-> uses,
     lang |-> "py", parses |-> TRUE]

Old == Test("unit", "test_old", 1, FALSE, {}, {})
New == Test("unit", "test_new", 2, TRUE, {}, {})
Hollow == Test("unit", "test_new", 2, TRUE, {"no_assertion"}, {})

MCBase == << [impl |-> NoCode, tests |-> {}], [impl |-> NoCode, tests |-> {Old}] >>

MCTask == [targets |-> TRUE, files |-> {"app.py"}, remediation |-> FALSE, e2eNamed |-> FALSE, lastOfStory |-> FALSE]
MCCfg == [runs |-> 2, shortCircuit |-> TRUE, enforceE2E |-> FALSE]
MCLogs == {{"fail:"}, {"not found"}}

Contract(id, execs) == [id |-> id, prefixes |-> {}, execs |-> execs, interface |-> "cli", expects |-> {"exit"}]
StoryFile(contracts) == [blocks |-> 1, id |-> "US-001", contracts |-> contracts]
Runs == Contract("run", {"app"})
Reviewable == [file |-> StoryFile(<<Runs>>), recorded |-> {}, roadmap |-> <<>>]
OnRecord == [file |-> [StoryFile(<<Runs>>) EXCEPT !.blocks = 2], recorded |-> {Runs}, roadmap |-> <<>>]
OnRoadmap == [file |-> StoryFile(<<>>), recorded |-> {}, roadmap |-> <<StoryFile(<<>>), StoryFile(<<Runs>>)>>]
Silent == [file |-> StoryFile(<<>>), recorded |-> {}, roadmap |-> <<StoryFile(<<>>)>>]
MCQA == [enabled |-> TRUE, build |-> TRUE, commands |-> {"app"}, maxScenarios |-> 2, rounds |-> 1]
Scenario(exec, probes) == [contract |-> "run", exec |-> exec, expects |-> {"exit"}, probes |-> probes]
MCProposals == {<<Scenario("app", TRUE)>>, <<Scenario("rm", TRUE)>>}

M(arch, racing, story, code, suites, f, c) ==
    [arch |-> arch, racing |-> racing, story |-> story, code |-> code, suites |-> suites, faults |-> f, crashes |-> c]

MCModes == {M("generator_first", FALSE, OnRoadmap, {Half}, {{Old, New}}, 0, 0),
            M("tester_first", FALSE, Silent, {Stubbed}, {{Old, Hollow}}, 1, 0),
            M("parallel", FALSE, OnRecord, {Good}, {{Old, New}}, 1, 1),
            M("single_pass", FALSE, Silent, {Weak}, {{New}}, 1, 0),
            M("single_pass", FALSE, Reviewable, {Off, Good}, {{Old, New}}, 0, 0),
            M("single_pass", TRUE, Reviewable, {Good, Half}, {{Old, New}}, 0, 0),
            M("single_pass", FALSE, Silent, {Good}, {{Old, New}}, 1, 1),
            M("breadth_first", FALSE, Reviewable, {Good}, {{Old, New}}, 1, 2),
            M("correct", FALSE, Silent, {Good, Stubbed}, {{Old, New}}, 1, 0),
            M("mixture", FALSE, Silent, {Good, Half}, {{Old, New}}, 1, 0)}

MCFallback == [enabled |-> TRUE]
MCEscalation == [enabled |-> TRUE, thinking |-> 1, upgrade |-> 1, maxUpgrades |-> 2, models |-> <<"big">>]
==============================================================================
