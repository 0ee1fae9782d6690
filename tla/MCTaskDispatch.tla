--------------------------- MODULE MCTaskDispatch ---------------------------
(***************************************************************************)
(* Instances of TaskDispatch for TLC.                                      *)
(***************************************************************************)
EXTENDS TaskDispatch

TwoRuns == [o \in {"o1", "o2"} |-> IF o = "o1" THEN 1 ELSE 2]

\* Two stories of one task each.  Both tasks write the same file, and task 2
\* depends on task 1, so that it becomes eligible while the worker of task 1
\* may still hold the file.
PairFiles == [t \in 1..2 |-> {"a"}]
PairStory == [t \in 1..2 |-> t]
PairDeps == [t \in 1..2 |-> IF t = 2 THEN {1} ELSE {}]
PairRetries == [t \in 1..2 |-> 1]

\* The default, two stories at once: with the watchdog, with attempts that
\* fail, with tasks that cannot be started or recorded and a clarification, and
\* with a ceiling; and one story at a time with a watchdog that asks the model.
PairConditions ==
    { [stories |-> 2, watchdog |-> "heuristic", ceilings |-> FALSE,
       faults |-> {}, clar |-> {}],
      [stories |-> 2, watchdog |-> "off", ceilings |-> FALSE,
       faults |-> {"fail"}, clar |-> {}],
      [stories |-> 2, watchdog |-> "off", ceilings |-> FALSE,
       faults |-> {"mark", "persist"}, clar |-> {2}],
      [stories |-> 2, watchdog |-> "off", ceilings |-> TRUE,
       faults |-> {"setup"}, clar |-> {}],
      [stories |-> 1, watchdog |-> "model", ceilings |-> FALSE,
       faults |-> {"fail", "setup", "agent", "sandbox"}, clar |-> {Global}] }

\* The default with nothing going wrong but an attempt that fails.
CalmConditions ==
    { [stories |-> 2, watchdog |-> "off", ceilings |-> FALSE,
       faults |-> {"fail"}, clar |-> {}] }

\* Two stories.  Task 1 is story 1; task 2 (story 2) depends on it, shares no
\* file with it, and depends on token 4 of story 1, which names no task; tasks
\* 3 and 6 (story 2) depend on nothing, so that three tasks may want two
\* slots; task 5 is the remediation task of story 2.
TwoFiles == [t \in 1..6 |-> CASE t = 1 -> {"a"} [] t = 2 -> {"b"}
                                 [] t = 6 -> {"d"} [] OTHER -> {"c"}]
TwoStory == [t \in 1..6 |-> IF t \in {1, 4} THEN 1 ELSE 2]
TwoDeps == [t \in 1..6 |-> IF t = 2 THEN {1, 4} ELSE {}]
TwoRetries == [t \in 1..6 |-> 0]

\* One story at a time (worktrees disabled), with audits that ask for more; and
\* with a clarification that an operator may resolve at any time.
TwoConditions ==
    { [stories |-> 1, watchdog |-> "off", ceilings |-> FALSE,
       faults |-> {"fail", "plan", "audit"}, clar |-> {}],
      [stories |-> 1, watchdog |-> "off", ceilings |-> FALSE,
       faults |-> {"fail"}, clar |-> {Global}] }
=============================================================================
