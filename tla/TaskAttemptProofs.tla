-------------------------- MODULE TaskAttemptProofs --------------------------
(* A build is called passing on the tree that passed, and what a task       *)
(* merges is the tree that was validated and the code that was reviewed,    *)
(* whichever commits, checkouts and resets fail unnoticed.  The attempt and *)
(* the repair of the integration branch share the list of steps, the        *)
(* worktree and the fallback agent, so the invariants have to keep the two  *)
(* apart: which steps can be on the list tells which of them runs, and      *)
(* which step can follow which tells what the worktree, the branch and the  *)
(* verdict have to do with each other.                                      *)
(* The last part is about RebaseQueue, through which the merges of all      *)
(* tasks go: what its consumer finds in the tree that they share, for every *)
(* set of branches, every overlap, capacity and number of attempts, with    *)
(* every fault, deadline and shutdown allowed.                              *)
EXTENDS TaskAttempt, RebaseQueue, TLAPS, SequenceTheorems

-----------------------------------------------------------------------------
(* The invariant. *)

FallbackSteps == {"fallback", "turn", "candidate", "endTurn"}

\* The steps of an attempt and of nothing else.
TurnSteps == {"stub", "generator", "tester", "both", "commit", "commitOrBlock", "auditCode", "auditInline",
              "auditTests", "fastExit", "mark", "evaluate", "race", "validate", "repair", "qa", "review",
              "reviewing", "reviewed", "takePatch", "fix", "escalate", "merge"}

AttemptSteps == TurnSteps \union FallbackSteps

\* The steps of RunPostMergeRepairPhase.
ClosingSteps == {"recheck", "repairTurn", "closing"}
RepairSteps == ClosingSteps \union FallbackSteps

Attempting == todo \in Seq(AttemptSteps)
Repairing == todo \in Seq(RepairSteps) /\ todo # <<>> /\ Last(todo) = "closing"

TreesInv ==
    /\ mode \in Modes
    /\ ws \in Trees
    /\ main \in Seq(Trees) /\ main # <<>>
    /\ branch \in Seq(Trees) /\ (todo # <<>> => branch # <<>>)

FieldsInv ==
    /\ "status" \in DOMAIN task /\ "good" \in DOMAIN seen /\ "passed" \in DOMAIN at
    /\ build \in [status : {"UNKNOWN", "PASSING", "FAILING"}, final : BOOLEAN]

StepsInv == Attempting \/ Repairing

\* While the integration branch is repaired, a check that passed ends the repair at once,
\* and the directory is as it was checked.
RepairInv == Repairing => Finished /\ (at.passed => todo = <<"closing">> /\ ws = seen.good)

\* Nothing is started after the story was finalized.
FinalInv == build.final => todo = <<>> /\ task.status \notin {"PENDING", "IN_PROGRESS"}

\* The inductive invariant.
AttemptInv == TreesInv /\ FieldsInv /\ StepsInv /\ RepairInv /\ FinalInv

-----------------------------------------------------------------------------
(* Trees, branches and lists of steps. *)

LEMMA NoTreeTyped == NoTree \in Trees /\ NoCode \in CodeFiles
<1>1. NoCode \in CodeFiles
  <2>1. 0 \in Nat
    OBVIOUS
  <2>2. {} \in SUBSET STRING /\ "py" \in Languages
    BY DEF Languages
  <2> QED BY <2>1, <2>2, Zenon DEF NoCode, CodeFiles
<1> QED BY <1>1 DEF NoTree, Trees

LEMMA AutoFix ==
    ASSUME NEW t \in Trees
    PROVE  /\ AutoFixImports(t) \in Trees
           /\ AutoFixImports(AutoFixImports(t)) = AutoFixImports(t)
<1>1. t.impl \in CodeFiles /\ [t.impl EXCEPT !.imports = TRUE] \in CodeFiles
  BY DEF Trees, CodeFiles
<1>2. [[t.impl EXCEPT !.imports = TRUE] EXCEPT !.imports = TRUE] = [t.impl EXCEPT !.imports = TRUE]
  BY <1>1 DEF CodeFiles
<1>3. AutoFixImports(t) = [t EXCEPT !.impl = [t.impl EXCEPT !.imports = TRUE]]
  BY DEF AutoFixImports
<1>4. AutoFixImports(t) \in Trees /\ AutoFixImports(t).impl = [t.impl EXCEPT !.imports = TRUE]
  BY <1>1, <1>3 DEF Trees
<1>5. AutoFixImports(AutoFixImports(t)) = [AutoFixImports(t) EXCEPT !.impl = [AutoFixImports(t).impl EXCEPT !.imports = TRUE]]
  BY DEF AutoFixImports
<1> QED BY <1>2, <1>3, <1>4, <1>5 DEF Trees

LEMMA LastTyped ==
    ASSUME NEW S, NEW s \in Seq(S), s # <<>>
    PROVE  Last(s) \in S /\ Len(s) \in Nat \ {0}
BY EmptySeq, LenProperties, ElementOfSeq DEF Last

LEMMA CommittedTyped ==
    ASSUME NEW b \in Seq(Trees), b # <<>>, NEW t \in Trees
    PROVE  Committed(b, t) \in Seq(Trees) /\ Committed(b, t) # <<>> /\ Last(Committed(b, t)) = t
<1>1. CASE Last(b) = t
  BY <1>1 DEF Committed
<1>2. CASE Last(b) # t
  BY <1>2, AppendProperties DEF Committed, Last
<1> QED BY <1>1, <1>2

LEMMA KeptTyped ==
    ASSUME NEW b \in Seq(Trees), b # <<>>, NEW t \in Trees, NEW ok
    PROVE  Kept(ok, b, t) \in Seq(Trees) /\ Kept(ok, b, t) # <<>> /\ (ok => Last(Kept(ok, b, t)) = t)
BY CommittedTyped DEF Kept

LEMMA RollbackTyped ==
    ASSUME NEW b \in Seq(Trees), b # <<>>
    PROVE  Rollback(b) \in Seq(Trees) /\ Rollback(b) # <<>>
<1>1. Len(b) \in Nat \ {0}
  BY LastTyped
<1>2. CASE Len(b) > 1
  <2>1. \A i \in 1..(Len(b) - 1) : b[i] \in Trees
    BY <1>1, ElementOfSeq
  <2>2. SubSeq(b, 1, Len(b) - 1) \in Seq(Trees) /\ Len(SubSeq(b, 1, Len(b) - 1)) = Len(b) - 1
    BY <1>1, <1>2, <2>1, SubSeqProperties
  <2> DEFINE front == SubSeq(b, 1, Len(b) - 1)
  <2> HIDE DEF front
  <2>3. front \in Seq(Trees) /\ Len(front) = Len(b) - 1
    BY <2>2 DEF front
  <2>4. front # <<>>
    BY <1>1, <1>2, <2>3, EmptySeq
  <2> QED BY <1>2, <2>3, <2>4 DEF Rollback, Front, front
<1>3. CASE ~(Len(b) > 1)
  BY <1>3 DEF Rollback
<1> QED BY <1>2, <1>3

\* A verdict that passes has got past the static gates, so the imports were completed.
LEMMA PassedVerdict ==
    ASSUME NEW t, NEW targets, NEW v \in ValidateTask(t, targets), v.ok
    PROVE  AfterValidate(t, v) = AutoFixImports(t)
<1>1. \A gate : \A w \in Failed(gate) : ~w.ok
  BY DEF Failed, Verdict
<1>2. v.gate \in {"short_circuit", "runs", "degraded"}
  <2> DEFINE fixed == AutoFixImports(t)
             probe == Cfg.runs > 1 /\ Cfg.shortCircuit
             passes(runs) == Cardinality({i \in DOMAIN runs : runs[i]})
             vote(runs) == IF probe /\ runs[1] THEN {Verdict(TRUE, "short_circuit", {})}
                           ELSE IF passes(runs) > Cfg.runs \div 2
                                THEN (IF validateE2E(fixed) THEN {Verdict(TRUE, "runs", {})} ELSE Failed("e2e"))
                           ELSE IF isCommandToolMissing("test") THEN {Verdict(TRUE, "degraded", {})}
                           ELSE Failed("runs")
  <2>1. \A runs : \A w \in vote(runs) : w.ok => w.gate \in {"short_circuit", "runs", "degraded"}
    <3> HIDE DEF probe, passes, fixed
    <3> SUFFICES ASSUME NEW runs, NEW w \in vote(runs), w.ok
                 PROVE  w.gate \in {"short_circuit", "runs", "degraded"}
      OBVIOUS
    <3>1. \/ w \in {Verdict(TRUE, "short_circuit", {})} \/ w \in {Verdict(TRUE, "runs", {})}
          \/ w \in {Verdict(TRUE, "degraded", {})} \/ w \in Failed("e2e") \/ w \in Failed("runs")
      <4> HIDE DEF vote
      <4>1. vote(runs) \in {{Verdict(TRUE, "short_circuit", {})}, {Verdict(TRUE, "runs", {})}, Failed("e2e"),
                            {Verdict(TRUE, "degraded", {})}, Failed("runs")}
        BY DEF vote
      <4> QED BY <4>1
    <3> QED BY <1>1, <3>1 DEF Verdict
  <2> HIDE DEF vote
  <2>2. \/ v \in {Verdict(FALSE, "anti_stub", {})} \/ v \in {Verdict(FALSE, "shadow", {})}
        \/ v \in {Verdict(FALSE, "coupling", {})} \/ v \in {Verdict(FALSE, "syntax", {"syntax error"})}
        \/ v \in Failed("build") \/ v \in UNION {vote(runs) : runs \in runWithCount(fixed, Cfg.runs)}
    BY DEF ValidateTask, vote
  <2>3. CASE v \in UNION {vote(runs) : runs \in runWithCount(fixed, Cfg.runs)}
    <3>1. PICK runs : v \in vote(runs)
      BY <2>3, Zenon
    <3> QED BY <2>1, <3>1
  <2>4. \A gate, log : ~Verdict(FALSE, gate, log).ok
    BY DEF Verdict
  <2> QED BY <1>1, <2>2, <2>3, <2>4, Zenon
<1> QED BY <1>2 DEF AfterValidate

LEMMA PassedFallbackVerdict ==
    ASSUME NEW t, NEW v \in FallbackVerdicts(t), v.ok
    PROVE  AfterValidate(t, v) = AutoFixImports(t)
<1>1. \A gate : \A w \in Failed(gate) : ~w.ok
  BY DEF Failed, Verdict
<1>2. v \in ValidateTask(t, Targets)
  BY <1>1 DEF FallbackVerdicts, Verdict
<1> QED BY <1>2, PassedVerdict

LEMMA AfterValidateTyped ==
    ASSUME NEW t \in Trees, NEW v
    PROVE  /\ AfterValidate(t, v) \in Trees
           /\ AutoFixImports(AfterValidate(t, v)) = AutoFixImports(t)
BY AutoFix DEF AfterValidate

\* The list behind the step at its head.
LEMMA RestTyped ==
    ASSUME NEW S, todo \in Seq(S), todo # <<>>
    PROVE  /\ Head(todo) \in S /\ Rest \in Seq(S)
           /\ Rest # <<>> => Last(Rest) = Last(todo)
           /\ Head(todo) # Last(todo) => Rest # <<>>
<1>1. Len(todo) \in Nat \ {0}
  BY LastTyped
<1>2. Head(todo) \in S /\ Rest \in Seq(S) /\ Len(Rest) = Len(todo) - 1
      /\ \A i \in 1..Len(Rest) : Rest[i] = todo[i + 1]
  BY HeadTailProperties DEF Rest
<1>3. ASSUME Rest # <<>> PROVE Last(Rest) = Last(todo)
  <2>1. Len(Rest) \in Nat \ {0}
    BY <1>2, <1>3, LastTyped
  <2> QED BY <1>1, <1>2, <2>1 DEF Last
<1>4. ASSUME Rest = <<>> PROVE Head(todo) = Last(todo)
  BY <1>1, <1>2, <1>4 DEF Last
<1> QED BY <1>2, <1>3, <1>4

-----------------------------------------------------------------------------
(* The steps of an attempt. *)

\* What a step that belongs to the attempt alone does to the invariant's variables.
AttemptGoesOn ==
    /\ todo' \in Seq(AttemptSteps)
    /\ ws' \in Trees /\ branch' \in Seq(Trees) /\ branch' # <<>>
    /\ "status" \in DOMAIN task' /\ "good" \in DOMAIN seen' /\ "passed" \in DOMAIN at'
    /\ UNCHANGED <<mode, main, build>>

\* The two lists of steps exclude each other.
LEMMA NotBoth == ~(Attempting /\ Repairing)
<1> SUFFICES ASSUME Attempting, Repairing PROVE FALSE
  OBVIOUS
<1>1. Last(todo) \in AttemptSteps
  BY LastTyped DEF Attempting, Repairing
<1> QED BY <1>1 DEF Repairing, AttemptSteps, TurnSteps, FallbackSteps

LEMMA GoingOn ==
    ASSUME AttemptInv, todo # <<>> \/ task.status = "PENDING", AttemptGoesOn
    PROVE  AttemptInv'
<1>1. ~build.final /\ ~build.final'
  BY DEF AttemptInv, FinalInv, AttemptGoesOn
<1>2. ~Repairing'
  <2> SUFFICES ASSUME Repairing' PROVE FALSE
    OBVIOUS
  <2>1. Last(todo') \in AttemptSteps
    BY LastTyped DEF AttemptGoesOn, Repairing
  <2> QED BY <2>1 DEF Repairing, AttemptSteps, TurnSteps, FallbackSteps
<1> QED BY <1>1, <1>2 DEF AttemptInv, TreesInv, FieldsInv, StepsInv, RepairInv, FinalInv,
                          AttemptGoesOn, Attempting

\* A step that only an attempt has on its list.
LEMMA InAttempt ==
    ASSUME AttemptInv, todo # <<>>, Head(todo) \in TurnSteps
    PROVE  /\ todo \in Seq(AttemptSteps) /\ Rest \in Seq(AttemptSteps)
           /\ mode \in Modes /\ ws \in Trees /\ branch \in Seq(Trees) /\ branch # <<>> /\ HeadTree \in Trees
           /\ main \in Seq(Trees) /\ main # <<>> /\ Head0 \in Trees
           /\ "status" \in DOMAIN task /\ "good" \in DOMAIN seen /\ "passed" \in DOMAIN at
<1>1. ~Repairing
  <2> SUFFICES ASSUME Repairing PROVE FALSE
    OBVIOUS
  <2>1. Head(todo) \in RepairSteps
    BY RestTyped DEF Repairing
  <2> QED BY <2>1 DEF RepairSteps, ClosingSteps, FallbackSteps, TurnSteps
<1>2. todo \in Seq(AttemptSteps) /\ Rest \in Seq(AttemptSteps)
  BY <1>1, RestTyped DEF AttemptInv, StepsInv, Attempting
<1> QED BY <1>2, LastTyped DEF AttemptInv, TreesInv, FieldsInv, HeadTree, Head0

\* What is put in front of the list: pairs and triples of steps.
LEMMA Pushed ==
    ASSUME NEW S, NEW s \in Seq(S), NEW a \in S
    PROVE  <<a>> \o s \in Seq(S) /\ <<a>> \o s # <<>> /\ Last(<<a>> \o s) = IF s = <<>> THEN a ELSE Last(s)
<1>1. <<a>> \in Seq(S) /\ Len(<<a>>) = 1
  OBVIOUS
<1>2. <<a>> \o s \in Seq(S) /\ Len(<<a>> \o s) = 1 + Len(s)
      /\ \A i \in 1..(1 + Len(s)) : (<<a>> \o s)[i] = IF i <= 1 THEN <<a>>[i] ELSE s[i - 1]
  BY <1>1, ConcatProperties
<1>3. Len(s) \in Nat /\ (s # <<>> => Len(s) # 0)
  BY LenProperties, EmptySeq
<1> DEFINE q == <<a>> \o s
<1> HIDE DEF q
<1>4. q \in Seq(S) /\ Len(q) = 1 + Len(s)
  BY <1>2 DEF q
<1>5. q # <<>>
  BY <1>3, <1>4, EmptySeq
<1>6. Last(q) = IF s = <<>> THEN a ELSE Last(s)
  <2>1. CASE s = <<>>
    BY <1>2, <1>3, <2>1 DEF q, Last
  <2>2. CASE s # <<>>
    BY <1>2, <1>3, <2>2 DEF q, Last
  <2> QED BY <2>1, <2>2
<1> QED BY <1>4, <1>5, <1>6 DEF q

LEMMA PairPushed ==
    ASSUME NEW S, NEW s \in Seq(S), NEW a \in S, NEW b \in S
    PROVE  <<a, b>> \o s \in Seq(S)
<1>1. <<a, b>> \in Seq(S)
  OBVIOUS
<1> QED BY <1>1, ConcatProperties

\* What an agent may leave in the worktree.
LEMMA Written ==
    ASSUME mode \in Modes, NEW t \in Trees,
           NEW impl \in mode.code \union {t.impl}, NEW tests \in mode.suites \union {t.tests}
    PROVE  /\ [t EXCEPT !.impl = impl] \in Trees
           /\ [t EXCEPT !.tests = tests] \in Trees
           /\ [t EXCEPT !.impl = impl, !.tests = tests] \in Trees
<1>1. impl \in CodeFiles /\ tests \in SUBSET TestFiles
  BY AttemptAssumption DEF Trees
<1> QED BY <1>1 DEF Trees

LEMMA StubTyped ==
    ASSUME NEW t \in Trees
    PROVE  ensureTargetStubFilesExist(t) \in Trees
<1>1. generateStubContent \in CodeFiles
  BY NoTreeTyped DEF generateStubContent, CodeFiles
<1> QED BY <1>1 DEF ensureTargetStubFilesExist, Trees

\* Agents, commits and audits.
LEMMA AgentSteps ==
    ASSUME AttemptInv,
           Stub \/ Generator \/ Tester \/ Both \/ Commit \/ AuditCode \/ AuditInline \/ AuditTests \/ Mark
    PROVE  AttemptInv'
<1>1. todo # <<>> /\ Head(todo) \in TurnSteps
  BY DEF Stub, Generator, Tester, Both, Commit, AuditCode, AuditInline, AuditTests, Mark, Do, Running, TurnSteps
<1> DEFINE Facts == /\ todo \in Seq(AttemptSteps) /\ Rest \in Seq(AttemptSteps)
                    /\ mode \in Modes /\ ws \in Trees /\ branch \in Seq(Trees) /\ branch # <<>>
                    /\ "status" \in DOMAIN task /\ "good" \in DOMAIN seen /\ "passed" \in DOMAIN at
<1>2. Facts
  BY <1>1, InAttempt
<1>3. {"generator", "tester", "both", "commit"} \subseteq AttemptSteps
  BY DEF AttemptSteps, TurnSteps
<1>4. ASSUME Stub PROVE AttemptGoesOn
  BY <1>2, <1>4, StubTyped DEF Stub, others, AttemptGoesOn
<1>5. ASSUME Generator PROVE AttemptGoesOn
  BY <1>2, <1>5, Written DEF Generator, others, AttemptGoesOn
<1>6. ASSUME Tester PROVE AttemptGoesOn
  BY <1>2, <1>6, Written DEF Tester, others, AttemptGoesOn
<1>7. ASSUME Both PROVE AttemptGoesOn
  <2>1. PICK impl \in mode.code \union {ws.impl}, tests \in mode.suites \union {ws.tests} :
             ws' = [ws EXCEPT !.impl = impl, !.tests = tests]
    BY <1>7 DEF Both
  <2>2. ws' \in Trees
    BY <1>2, <2>1, Written
  <2> QED BY <1>2, <1>7, <2>2 DEF Both, others, AttemptGoesOn
<1>8. ASSUME Commit PROVE AttemptGoesOn
  BY <1>2, <1>8, KeptTyped DEF Commit, StageAndCommit, others, AttemptGoesOn
<1>9. ASSUME AuditCode PROVE AttemptGoesOn
  BY <1>2, <1>3, <1>9, PairPushed DEF AuditCode, others, AttemptGoesOn
<1>10. ASSUME AuditInline PROVE AttemptGoesOn
  BY <1>2, <1>3, <1>10, Pushed DEF AuditInline, others, AttemptGoesOn
<1>11. ASSUME AuditTests PROVE AttemptGoesOn
  BY <1>2, <1>3, <1>11, PairPushed DEF AuditTests, others, AttemptGoesOn
<1>12. ASSUME Mark PROVE AttemptGoesOn
  BY <1>2, <1>12 DEF Mark, others, AttemptGoesOn
<1> QED BY <1>1, <1>4, <1>5, <1>6, <1>7, <1>8, <1>9, <1>10, <1>11, <1>12, GoingOn

\* Two candidates and what may become of them.
LEMMA Raced ==
    ASSUME mode \in Modes, ws \in Trees, Head0 \in Trees, branch \in Seq(Trees), branch # <<>>, Race
    PROVE  ws' \in Trees /\ branch' \in Seq(Trees) /\ branch' # <<>>
<1>1. Candidates \subseteq Trees
  BY AttemptAssumption DEF Candidates, Trees
<1>2. \A r \in HypothesisResult : r.tree \in Trees
  <2> SUFFICES ASSUME NEW r \in HypothesisResult PROVE r.tree \in Candidates
    BY <1>1
  <2>1. CASE r \in [err : {TRUE}, tree : Candidates, score : {0}]
    BY <2>1
  <2>2. CASE r \notin [err : {TRUE}, tree : Candidates, score : {0}]
    <3>1. PICK t \in Candidates :
            r \in {[err |-> FALSE, tree |-> t, score |-> PassRate(t, v) + IF v.ok THEN 1000 ELSE 0]
                   : v \in ValidateTask(t, Task.targets)}
      BY <2>2, Zenon DEF HypothesisResult
    <3> QED BY <3>1
  <2> QED BY <2>1, <2>2
<1>3. \A t, winner \in Trees : ApplyDiff(t, winner) \in Trees
  <2> SUFFICES ASSUME NEW t \in Trees, NEW winner \in Trees PROVE ApplyDiff(t, winner) \in Trees
    OBVIOUS
  <2>1. /\ t.impl \in CodeFiles /\ winner.impl \in CodeFiles
        /\ t.tests \subseteq TestFiles /\ winner.tests \subseteq TestFiles
    BY DEF Trees
  <2>2. [winner.impl EXCEPT !.parses = FALSE] \in CodeFiles
    BY <2>1 DEF CodeFiles
  <2> QED BY <2>1, <2>2 DEF ApplyDiff, Trees
<1>4. PICK r1 \in HypothesisResult, r2 \in HypothesisResult, mixed \in Candidates \union {ws} :
            /\ ws' \in {mixed, ApplyDiff(mixed, bestHypothesis(r1, r2).tree)}
            /\ \E ok1, ok2 \in BOOLEAN :
                   branch' = Kept(ok1, branch, mixed) \/ branch' = Kept(ok2, Kept(ok1, branch, mixed), ws')
  BY DEF Race
<1>5. bestHypothesis(r1, r2).tree \in Trees /\ mixed \in Trees
  BY <1>1, <1>2 DEF bestHypothesis
<1>6. ws' \in Trees
  BY <1>3, <1>4, <1>5
<1>7. \A ok : Kept(ok, branch, mixed) \in Seq(Trees) /\ Kept(ok, branch, mixed) # <<>>
  BY <1>5, KeptTyped
<1> QED BY <1>4, <1>6, <1>7, KeptTyped

LEMMA Repaired ==
    ASSUME mode \in Modes, ws \in Trees, branch \in Seq(Trees), branch # <<>>, HeadTree \in Trees, Repair
    PROVE  ws' \in Trees /\ branch' \in Seq(Trees) /\ branch' # <<>>
<1>1. PICK impl \in mode.code \union {ws.impl}, tests \in mode.suites \union {ws.tests} :
            \/ /\ ws' = [ws EXCEPT !.impl = impl, !.tests = tests]
               /\ branch' = branch \/ \E ok \in BOOLEAN : branch' = Kept(ok, branch, ws')
            \/ \E fresh \in SUBSET tests : ws' = [HeadTree EXCEPT !.tests = HeadTree.tests \union fresh] /\ branch' = branch
  <2>1. PICK impl \in mode.code \union {ws.impl}, tests \in mode.suites \union {ws.tests},
             elsewhere \in SUBSET {"other.file"}, traceback \in SUBSET {"tests.file"} :
          LET tracked(f) == \E g \in HeadTree.tests : g.dir = f.dir /\ g.base = f.base
              modified == (IF impl # HeadTree.impl /\ HeadTree.impl # NoCode THEN Task.files ELSE {})
                          \union (IF \E f \in HeadTree.tests : f \notin tests THEN {"tests.file"} ELSE {})
                          \union elsewhere
              repaired == [ws EXCEPT !.impl = impl, !.tests = tests]
          IN  \E ok \in BOOLEAN :
              IF ValidateRepairAlignment(modified, traceback)
              THEN ws' = repaired /\ StageAndCommit(ok, repaired)
              ELSE /\ ws' = IF ok THEN [HeadTree EXCEPT !.tests = @ \union {f \in tests : ~tracked(f)}] ELSE repaired
                   /\ MayFail(ok) /\ faults' = Spent(ok) /\ branch' = branch
    BY DEF Repair
  <2> DEFINE fresh == {f \in tests : ~(\E g \in HeadTree.tests : g.dir = f.dir /\ g.base = f.base)}
             repaired == [ws EXCEPT !.impl = impl, !.tests = tests]
  <2>2. PICK ok \in BOOLEAN :
          \/ ws' = repaired /\ StageAndCommit(ok, repaired)
          \/ ws' = [HeadTree EXCEPT !.tests = HeadTree.tests \union fresh] /\ branch' = branch
          \/ ws' = repaired /\ branch' = branch
    BY <2>1
  <2>3. fresh \in SUBSET tests
    OBVIOUS
  <2> HIDE DEF fresh
  <2> QED BY <2>2, <2>3 DEF StageAndCommit
<1>2. [ws EXCEPT !.impl = impl, !.tests = tests] \in Trees /\ tests \subseteq TestFiles
  BY Written, AttemptAssumption DEF Trees
<1>3. \A fresh \in SUBSET tests : [HeadTree EXCEPT !.tests = HeadTree.tests \union fresh] \in Trees
  BY <1>2 DEF Trees
<1>4. ws' \in Trees
  BY <1>1, <1>2, <1>3
<1> QED BY <1>1, <1>4, KeptTyped

\* The list when the last turn is skipped.
LEMMA Skipped ==
    ASSUME NEW S, NEW s \in Seq(S)
    PROVE  SubSeq(s, Len(refactorTurn), Len(s)) \in Seq(S)
<1>1. Len(refactorTurn) = 5
  BY DEF refactorTurn
<1>2. Len(s) \in Nat /\ \A i \in 5..Len(s) : s[i] \in S
  BY LenProperties, ElementOfSeq
<1> QED BY <1>1, <1>2, SubSeqProperties

\* Validation, the repair and the hypotheses.
LEMMA ValidationSteps ==
    ASSUME AttemptInv, FastExit \/ Evaluate \/ Race \/ Validate \/ Repair
    PROVE  AttemptInv'
<1>1. todo # <<>> /\ Head(todo) \in TurnSteps
  BY DEF FastExit, Evaluate, Race, Validate, Repair, Do, Running, TurnSteps
<1>2. /\ todo \in Seq(AttemptSteps) /\ Rest \in Seq(AttemptSteps)
      /\ mode \in Modes /\ ws \in Trees /\ branch \in Seq(Trees) /\ branch # <<>>
      /\ "status" \in DOMAIN task /\ "good" \in DOMAIN seen /\ "passed" \in DOMAIN at
  BY <1>1, InAttempt
<1>3. {"repair", "validate"} \subseteq AttemptSteps
  BY DEF AttemptSteps, TurnSteps
<1>4. ASSUME FastExit PROVE AttemptGoesOn
  <2>1. PICK v : /\ ws' = AfterValidate(ws, v)
                 /\ branch' = branch \/ \E ok \in BOOLEAN : branch' = Kept(ok, branch, ws')
                 /\ todo' = IF v.ok THEN SubSeq(Rest, Len(refactorTurn), Len(Rest)) ELSE Rest
    BY <1>4 DEF FastExit, StageAndCommit
  <2>2. ws' \in Trees
    BY <1>2, <2>1, AfterValidateTyped
  <2>3. todo' \in Seq(AttemptSteps)
    BY <1>2, <2>1, Skipped
  <2> QED BY <1>2, <1>4, <2>1, <2>2, <2>3, KeptTyped DEF FastExit, others, AttemptGoesOn
<1>5. ASSUME Evaluate PROVE AttemptGoesOn
  <2>1. PICK v, asked : /\ ws' = IF asked THEN AfterValidate(ws, v) ELSE ws
                        /\ at' = [at EXCEPT !.blocked = IF asked /\ ~v.ok THEN "generator_no_op_validation_failed" ELSE @]
    BY <1>5 DEF Evaluate
  <2> QED BY <1>2, <1>5, <2>1, AfterValidateTyped DEF Evaluate, others, AttemptGoesOn
<1>6. ASSUME Race PROVE AttemptGoesOn
  <2>1. Head0 \in Trees
    BY <1>1, InAttempt
  <2>2. ws' \in Trees /\ branch' \in Seq(Trees) /\ branch' # <<>>
    BY <1>2, <1>6, <2>1, Raced
  <2> QED BY <1>2, <1>6, <2>2 DEF Race, others, AttemptGoesOn
<1>7. ASSUME Validate PROVE AttemptGoesOn
  <2>1. PICK v0, v : /\ ws' = AfterValidate(ws, v0)
                     /\ at' = [at EXCEPT !.passed = v.ok, !.gate = v.gate, !.log = v.log,
                                         !.blocked = IF at.repaired /\ v.ok THEN "" ELSE @]
                     /\ todo' = IF ~v.ok /\ ~at.repaired /\ Repairable(v, at.blocked)
                                THEN <<"repair", "validate">> \o Rest ELSE Rest
                     /\ seen' = IF v.ok THEN [seen EXCEPT !.good = ws'] ELSE seen
    BY <1>7 DEF Validate
  <2>2. ws' \in Trees
    BY <1>2, <2>1, AfterValidateTyped
  <2>3. <<"repair", "validate">> \o Rest \in Seq(AttemptSteps)
    BY <1>2, <1>3, PairPushed
  <2>4. todo' \in Seq(AttemptSteps) /\ "passed" \in DOMAIN at' /\ "good" \in DOMAIN seen'
    BY <1>2, <2>1, <2>3
  <2> QED BY <1>2, <1>7, <2>2, <2>4 DEF Validate, others, AttemptGoesOn
<1>8. ASSUME Repair PROVE AttemptGoesOn
  <2>1. HeadTree \in Trees
    BY <1>1, InAttempt
  <2>2. ws' \in Trees /\ branch' \in Seq(Trees) /\ branch' # <<>>
    BY <1>2, <1>8, <2>1, Repaired
  <2>3. todo' = Rest /\ at' = [at EXCEPT !.repaired = TRUE] /\ "good" \in DOMAIN seen'
    BY <1>2, <1>8 DEF Repair
  <2> QED BY <1>2, <1>8, <2>2, <2>3 DEF Repair, others, AttemptGoesOn
<1> QED BY <1>1, <1>4, <1>5, <1>6, <1>7, <1>8, GoingOn

\* The QA gate and the decision after it.
LEMMA ReviewSteps ==
    ASSUME AttemptInv, runQAGate \/ BeginReview \/ EndReview \/ Reviewed \/ TakePatch \/ Fix \/ Escalate
    PROVE  AttemptInv'
<1>1. todo # <<>> /\ Head(todo) \in TurnSteps
  BY DEF runQAGate, BeginReview, EndReview, Reviewed, TakePatch, Fix, Escalate, Do, Running, TurnSteps
<1>2. /\ todo \in Seq(AttemptSteps) /\ Rest \in Seq(AttemptSteps)
      /\ mode \in Modes /\ ws \in Trees /\ branch \in Seq(Trees) /\ branch # <<>>
      /\ "status" \in DOMAIN task /\ "good" \in DOMAIN seen /\ "passed" \in DOMAIN at
  BY <1>1, InAttempt
<1>3. \A step \in {"review", "reviewing", "reviewed", "fix", "takePatch", "fallback"} :
          <<step>> \o Rest \in Seq(AttemptSteps)
  BY <1>2, Pushed DEF AttemptSteps, TurnSteps, FallbackSteps
<1>4. \A reason : "passed" \in DOMAIN Block(reason)
  BY <1>2 DEF Block
<1>5. ASSUME runQAGate PROVE AttemptGoesOn
  <2>1. /\ todo' \in {Rest, <<"review">> \o Rest}
        /\ \/ at' = at \/ at' = [at EXCEPT !.attempt = 1]
           \/ at' = Block("persistence_failed") \/ at' = Block("artifact_changed")
    BY <1>5 DEF runQAGate
  <2>2. todo' \in Seq(AttemptSteps) /\ "passed" \in DOMAIN at'
    BY <1>2, <1>3, <1>4, <2>1
  <2> QED BY <1>2, <1>5, <2>2 DEF runQAGate, AttemptGoesOn
<1>6. ASSUME BeginReview PROVE AttemptGoesOn
  <2>1. /\ todo' \in {Rest, <<"reviewing">> \o Rest}
        /\ at' = [at EXCEPT !.id = NewId, !.result = Locals.result] \/ at' = Block("persistence_failed")
    BY <1>6 DEF BeginReview
  <2>2. todo' \in Seq(AttemptSteps) /\ "passed" \in DOMAIN at'
    BY <1>2, <1>3, <1>4, <2>1
  <2> QED BY <1>2, <1>6, <2>2 DEF BeginReview, AttemptGoesOn
<1>7. ASSUME EndReview PROVE AttemptGoesOn
  <2>1. /\ todo' = <<"reviewed">> \o Rest
        /\ at' = Block("persistence_failed") \/ \E review, saved : at' = [at EXCEPT !.result = review, !.applied = saved]
        /\ seen' = seen \/ seen' = [seen EXCEPT !.reviewed = HeadTree.impl]
    <3>1. PICK r \in Review(HeadTree, Len(branch), at.attempt = 1, Contracts), saved \in BOOLEAN, cleaned \in BOOLEAN :
            LET review == IF cleaned \/ ~saved THEN r
                          ELSE [r EXCEPT !.status = "INCONCLUSIVE", !.reason = "isolation_failed"]
            IN  /\ at' = IF ~saved /\ at.attempt > 1 THEN Block("persistence_failed")
                         ELSE [at EXCEPT !.result = review, !.applied = saved]
                /\ seen' = IF review.status = "PASS" THEN [seen EXCEPT !.reviewed = HeadTree.impl] ELSE seen
      BY <1>7 DEF EndReview
    <3>2. todo' = <<"reviewed">> \o Rest
      BY <1>7 DEF EndReview
    <3> QED BY <3>1, <3>2
  <2>2. todo' \in Seq(AttemptSteps) /\ "passed" \in DOMAIN at' /\ "good" \in DOMAIN seen'
    BY <1>2, <1>3, <1>4, <2>1
  <2> QED BY <1>2, <1>7, <2>2 DEF EndReview, AttemptGoesOn
<1>8. ASSUME Reviewed PROVE AttemptGoesOn
  <2>1. /\ todo' \in {Rest, <<"fix">> \o Rest, <<"takePatch">> \o Rest}
        /\ at' = at \/ at' = Block(at.result.reason)
        /\ \E tests \in mode.suites \union {ws.tests} : ws' = [ws EXCEPT !.tests = tests]
    BY <1>8 DEF Reviewed
  <2>2. todo' \in Seq(AttemptSteps) /\ "passed" \in DOMAIN at'
    BY <1>2, <1>3, <1>4, <2>1
  <2>3. ws' \in Trees
    BY <1>2, <2>1, Written
  <2> QED BY <1>2, <1>8, <2>2, <2>3 DEF Reviewed, others, AttemptGoesOn
<1>9. ASSUME TakePatch PROVE AttemptGoesOn
  <2>1. PICK v : /\ ws' = AfterValidate(ws, v) \/ ws' = ws
                 /\ at' = at \/ at' = Block("tester_patch_failed") \/ at' = Block("validation_failed")
                 /\ seen' = seen \/ seen' = [seen EXCEPT !.good = ws']
    BY <1>9 DEF TakePatch
  <2>2. todo' = Rest
    BY <1>9 DEF TakePatch
  <2>5. PICK ok \in BOOLEAN : branch' = Kept(ok, branch, ws)
    BY <1>9 DEF TakePatch, StageAndCommit
  <2>6. branch' \in Seq(Trees) /\ branch' # <<>>
    BY <1>2, <2>5, KeptTyped
  <2>3. ws' \in Trees /\ branch' \in Seq(Trees) /\ branch' # <<>>
    BY <1>2, <2>1, <2>6, AfterValidateTyped
  <2>4. "passed" \in DOMAIN at' /\ "good" \in DOMAIN seen'
    BY <1>2, <1>4, <2>1
  <2> QED BY <1>2, <1>9, <2>2, <2>3, <2>4 DEF TakePatch, others, AttemptGoesOn
<1>10. ASSUME Fix PROVE AttemptGoesOn
  <2>6. PICK impl \in mode.code \union {ws.impl}, ok \in BOOLEAN :
            LET tree == [ws EXCEPT !.impl = impl]
            IN  \E v \in ValidateTask(tree, Task.targets) :
                LET taken == ok /\ tree # HeadTree
                    reason == IF ~taken THEN "artifact_changed" ELSE IF ~v.ok THEN "validation_failed" ELSE ""
                IN  /\ StageAndCommit(ok, tree)
                    /\ ws' = IF taken THEN AfterValidate(tree, v) ELSE tree
                    /\ at' = [Block(reason) EXCEPT !.attempt = @ + 1]
                    /\ todo' = IF reason = "" THEN <<"review">> \o Rest ELSE Rest
                    /\ seen' = IF reason = "" THEN [seen EXCEPT !.good = ws'] ELSE seen
    BY <1>10 DEF Fix
  <2>1. LET tree == [ws EXCEPT !.impl = impl]
        IN  \E v, reason : /\ branch' = Kept(ok, branch, tree)
                           /\ ws' = AfterValidate(tree, v) \/ ws' = tree
                           /\ at' = [Block(reason) EXCEPT !.attempt = @ + 1]
                           /\ todo' \in {Rest, <<"review">> \o Rest}
                           /\ seen' = seen \/ seen' = [seen EXCEPT !.good = ws']
    BY <2>6 DEF StageAndCommit
  <2> DEFINE tree == [ws EXCEPT !.impl = impl]
  <2>2. tree \in Trees
    BY <1>2, Written
  <2>5. branch' = Kept(ok, branch, tree) /\ \E v : ws' = AfterValidate(tree, v) \/ ws' = tree
    BY <2>1
  <2> HIDE DEF tree
  <2>3. ws' \in Trees /\ branch' \in Seq(Trees) /\ branch' # <<>>
    BY <1>2, <2>2, <2>5, AfterValidateTyped, KeptTyped
  <2>4. todo' \in Seq(AttemptSteps) /\ "passed" \in DOMAIN at' /\ "good" \in DOMAIN seen'
    BY <1>2, <1>3, <1>4, <2>1
  <2> QED BY <1>2, <1>10, <2>3, <2>4 DEF Fix, others, AttemptGoesOn
<1>11. ASSUME Escalate PROVE AttemptGoesOn
  <2>1. /\ todo' \in {Rest, <<"fallback">> \o Rest}
        /\ \E passed, log : at' = [at EXCEPT !.passed = passed, !.log = log]
    BY <1>11 DEF Escalate
  <2>2. todo' \in Seq(AttemptSteps) /\ "passed" \in DOMAIN at'
    BY <1>2, <1>3, <2>1
  <2> QED BY <1>2, <1>11, <2>2 DEF Escalate, others, AttemptGoesOn
<1> QED BY <1>1, <1>5, <1>6, <1>7, <1>8, <1>9, <1>10, <1>11, GoingOn

\* What is merged is a tree, wherever the branch left the integration branch.
LEMMA MergedTyped ==
    ASSUME NEW b \in Seq(Trees), b # <<>>, Head0 \in Trees
    PROVE  MergeInto(b) \in Trees
<1>1. Last(b) \in Trees
  BY LastTyped
<1> QED BY <1>1 DEF MergeInto, Trees

LEMMA MergeStep ==
    ASSUME AttemptInv, Merge
    PROVE  AttemptInv'
<1>1. todo # <<>> /\ Head(todo) \in TurnSteps
  BY DEF Merge, Do, Running, TurnSteps
<1>2. /\ mode \in Modes /\ main \in Seq(Trees) /\ main # <<>> /\ branch \in Seq(Trees) /\ branch # <<>>
      /\ Head0 \in Trees /\ "status" \in DOMAIN task /\ "good" \in DOMAIN seen
  BY <1>1, InAttempt
<1>3. /\ todo' = <<>> /\ at' = Locals /\ ws' = NoTree /\ UNCHANGED <<mode, seen>>
      /\ main' = main \/ main' = Append(main, MergeInto(branch))
      /\ branch' = branch \/ branch' = <<>>
      /\ build' = build \/ build' = [build EXCEPT !.status = "FAILING"]
      /\ "status" \in DOMAIN task'
  BY <1>2 DEF Merge
<1>4. main' \in Seq(Trees) /\ main' # <<>> /\ branch' \in Seq(Trees) /\ ws' \in Trees
  <2>1. MergeInto(branch) \in Trees
    BY <1>2, MergedTyped
  <2>2. Append(main, MergeInto(branch)) \in Seq(Trees) /\ Append(main, MergeInto(branch)) # <<>>
    BY <1>2, <2>1, AppendProperties
  <2>3. main' \in Seq(Trees) /\ main' # <<>>
    BY <1>2, <1>3, <2>2
  <2>4. branch' \in Seq(Trees) /\ ws' \in Trees
    BY <1>2, <1>3, EmptySeq, NoTreeTyped
  <2> QED BY <2>3, <2>4
<1>5. build' \in [status : {"UNKNOWN", "PASSING", "FAILING"}, final : BOOLEAN] /\ ~build'.final
  BY <1>1, <1>3 DEF AttemptInv, FieldsInv, FinalInv
<1>6. "passed" \in DOMAIN at'
  BY <1>3 DEF Locals
<1>7. Attempting' /\ ~Repairing'
  BY <1>3 DEF Attempting, Repairing
<1> QED BY <1>2, <1>3, <1>4, <1>5, <1>6, <1>7
        DEF AttemptInv, TreesInv, FieldsInv, StepsInv, RepairInv, FinalInv

-----------------------------------------------------------------------------
(* The repair of the integration branch. *)

\* What a step of the repair finds.
LEMMA InRepair ==
    ASSUME AttemptInv, Repairing
    PROVE  /\ todo # <<>> /\ todo \in Seq(RepairSteps) /\ Rest \in Seq(RepairSteps) /\ Last(todo) = "closing"
           /\ (Rest # <<>> => Last(Rest) = "closing") /\ (Head(todo) # "closing" => Rest # <<>>)
           /\ mode \in Modes /\ ws \in Trees /\ branch \in Seq(Trees) /\ branch # <<>>
           /\ main \in Seq(Trees) /\ main # <<>> /\ Last(branch) \in Trees
           /\ "status" \in DOMAIN task /\ "good" \in DOMAIN seen /\ "passed" \in DOMAIN at
           /\ build \in [status : {"UNKNOWN", "PASSING", "FAILING"}, final : BOOLEAN] /\ ~build.final
           /\ Finished /\ (at.passed => todo = <<"closing">> /\ ws = seen.good)
<1>1. todo # <<>> /\ todo \in Seq(RepairSteps) /\ Last(todo) = "closing"
  BY DEF Repairing
<1>2. Rest \in Seq(RepairSteps) /\ (Rest # <<>> => Last(Rest) = "closing") /\ (Head(todo) # "closing" => Rest # <<>>)
  BY <1>1, RestTyped
<1>3. branch \in Seq(Trees) /\ branch # <<>> /\ Last(branch) \in Trees
  BY <1>1, LastTyped DEF AttemptInv, TreesInv
<1> QED BY <1>1, <1>2, <1>3 DEF AttemptInv, TreesInv, FieldsInv, RepairInv, FinalInv

\* A step that only the repair has on its list.
LEMMA OnlyRepair ==
    ASSUME AttemptInv, todo # <<>>, Head(todo) \in ClosingSteps
    PROVE  Repairing
<1>1. ASSUME Attempting PROVE FALSE
  <2>1. Head(todo) \in AttemptSteps
    BY <1>1, RestTyped DEF Attempting
  <2> QED BY <2>1 DEF AttemptSteps, TurnSteps, FallbackSteps, ClosingSteps
<1> QED BY <1>1 DEF AttemptInv, StepsInv

\* A single step is not the list of an attempt when it is the last one of a repair.
LEMMA ClosingList == <<"closing">> \in Seq(RepairSteps) /\ <<"closing">> # <<>> /\ Last(<<"closing">>) = "closing"
BY DEF RepairSteps, ClosingSteps, Last

\* What a step that stays within the repair has to keep.
LEMMA RepairGoesOn ==
    ASSUME AttemptInv, Repairing,
           todo' \in Seq(RepairSteps), todo' # <<>>, Last(todo') = "closing",
           ws' \in Trees, branch' \in Seq(Trees), branch' # <<>>,
           "good" \in DOMAIN seen', "passed" \in DOMAIN at',
           UNCHANGED <<task, mode, main, build>>,
           at'.passed => todo' = <<"closing">> /\ ws' = seen'.good
    PROVE  AttemptInv'
<1>1. /\ mode \in Modes /\ main \in Seq(Trees) /\ main # <<>> /\ "status" \in DOMAIN task
      /\ build \in [status : {"UNKNOWN", "PASSING", "FAILING"}, final : BOOLEAN] /\ ~build.final /\ Finished
  BY InRepair
<1>2. Repairing' /\ Finished'
  BY <1>1 DEF Repairing, Finished
<1> QED BY <1>1, <1>2 DEF AttemptInv, TreesInv, FieldsInv, StepsInv, RepairInv, FinalInv

LEMMA RecheckStep == ASSUME AttemptInv, Recheck PROVE AttemptInv'
<1>1. todo # <<>> /\ Head(todo) = "recheck"
  BY DEF Recheck, Do, Running
<1>2. Repairing
  BY <1>1, OnlyRepair DEF ClosingSteps
<1>3. /\ Rest \in Seq(RepairSteps) /\ Rest # <<>> /\ Last(Rest) = "closing"
      /\ ws \in Trees /\ branch \in Seq(Trees) /\ branch # <<>> /\ Last(branch) \in Trees
      /\ "good" \in DOMAIN seen /\ "passed" \in DOMAIN at
  BY <1>1, <1>2, InRepair
<1>4. PICK v \in ValidateTask(ws, FALSE) :
          /\ ws' = AfterValidate(ws, v)
          /\ todo' = IF v.ok THEN <<"closing">> ELSE Rest
          /\ at' = [at EXCEPT !.passed = v.ok]
          /\ seen' = IF v.ok THEN [seen EXCEPT !.good = ws'] ELSE seen
  BY DEF Recheck
<1>5. branch' = branch /\ UNCHANGED <<task, mode, main, build>>
  BY DEF Recheck, others
<1>6. ws' \in Trees
  BY <1>3, <1>4, AfterValidateTyped
<1>7. todo' \in Seq(RepairSteps) /\ todo' # <<>> /\ Last(todo') = "closing"
  BY <1>3, <1>4, ClosingList
<1>8. "good" \in DOMAIN seen' /\ "passed" \in DOMAIN at'
  BY <1>3, <1>4
<1>9. ASSUME at'.passed PROVE todo' = <<"closing">> /\ ws' = seen'.good
  BY <1>3, <1>4, <1>9
<1> QED BY <1>2, <1>3, <1>5, <1>6, <1>7, <1>8, <1>9, RepairGoesOn

\* A turn whose call failed also drops the check behind it; with no step left after that
\* nothing runs any more, and the repair starts again.
LEMMA RepairTurnStep == ASSUME AttemptInv, RepairTurn PROVE AttemptInv'
<1>1. todo # <<>> /\ Head(todo) = "repairTurn"
  BY DEF RepairTurn, Do, Running
<1>2. Repairing
  BY <1>1, OnlyRepair DEF ClosingSteps
<1>3. /\ Rest \in Seq(RepairSteps) /\ Rest # <<>> /\ Last(Rest) = "closing"
      /\ ws \in Trees /\ branch \in Seq(Trees) /\ branch # <<>> /\ Last(branch) \in Trees
      /\ mode \in Modes /\ main \in Seq(Trees) /\ main # <<>>
      /\ "good" \in DOMAIN seen /\ "passed" \in DOMAIN at /\ "status" \in DOMAIN task
      /\ build \in [status : {"UNKNOWN", "PASSING", "FAILING"}, final : BOOLEAN] /\ ~build.final
  BY <1>1, <1>2, InRepair
<1>4. UNCHANGED <<task, mode, main, build, at, seen>>
  BY DEF RepairTurn, others
<1>5. ~at.passed
  <2>1. todo # <<"closing">>
    BY <1>1
  <2> QED BY <1>2, <2>1, InRepair
<1>6. Tail(Rest) \in Seq(RepairSteps) /\ (Tail(Rest) # <<>> => Last(Tail(Rest)) = "closing")
  <2>1. Tail(Rest) \in Seq(RepairSteps) /\ Len(Tail(Rest)) = Len(Rest) - 1
        /\ \A i \in 1..Len(Tail(Rest)) : Tail(Rest)[i] = Rest[i + 1]
    BY <1>3, HeadTailProperties
  <2>2. ASSUME Tail(Rest) # <<>> PROVE Last(Tail(Rest)) = "closing"
    <3>1. Len(Tail(Rest)) \in Nat \ {0} /\ Len(Rest) \in Nat \ {0}
      BY <1>3, <2>1, <2>2, LastTyped
    <3> QED BY <1>3, <2>1, <3>1 DEF Last
  <2> QED BY <2>1, <2>2
<1>7. CASE todo' = Tail(Rest) /\ UNCHANGED <<branch, ws>>
  <2>1. CASE Tail(Rest) # <<>>
    BY <1>2, <1>3, <1>4, <1>5, <1>6, <1>7, <2>1, RepairGoesOn
  <2>2. CASE Tail(Rest) = <<>>
    <3>1. todo' = <<>>
      BY <1>7, <2>2
    <3>2. Attempting' /\ ~Repairing'
      BY <3>1 DEF Attempting, Repairing
    <3> QED BY <1>3, <1>4, <1>7, <3>1, <3>2
            DEF AttemptInv, TreesInv, FieldsInv, StepsInv, RepairInv, FinalInv
  <2> QED BY <2>1, <2>2
<1>8. CASE /\ todo' = Rest
           /\ \E impl \in mode.code \union {ws.impl}, tests \in mode.suites \union {ws.tests}, ok \in BOOLEAN :
                 ws' = [ws EXCEPT !.impl = impl, !.tests = tests] /\ StageAndCommit(ok, ws')
  <2>3. PICK impl \in mode.code \union {ws.impl}, tests \in mode.suites \union {ws.tests}, ok \in BOOLEAN :
               ws' = [ws EXCEPT !.impl = impl, !.tests = tests] /\ branch' = Kept(ok, branch, ws')
    BY <1>8 DEF StageAndCommit
  <2>1. ws' \in Trees
    BY <1>3, <2>3, Written
  <2>2. branch' \in Seq(Trees) /\ branch' # <<>>
    BY <1>3, <2>1, <2>3, KeptTyped
  <2> QED BY <1>2, <1>3, <1>4, <1>5, <1>8, <2>1, <2>2, RepairGoesOn
<1> QED BY <1>7, <1>8 DEF RepairTurn

LEMMA ClosingStep == ASSUME AttemptInv, Closing PROVE AttemptInv'
<1>1. todo # <<>> /\ Head(todo) = "closing"
  BY DEF Closing, Do, Running
<1>2. Repairing
  BY <1>1, OnlyRepair DEF ClosingSteps
<1>3. /\ branch \in Seq(Trees) /\ branch # <<>> /\ mode \in Modes
      /\ "status" \in DOMAIN task /\ "good" \in DOMAIN seen /\ Finished /\ main \in Seq(Trees) /\ main # <<>>
  BY <1>2, InRepair
<1>4. /\ todo' = <<>> /\ (main' = branch \/ main' = main) /\ branch' = <<>> /\ ws' = NoTree /\ at' = Locals
      /\ build' = [status |-> IF at.passed THEN "PASSING" ELSE "FAILING", final |-> TRUE]
      /\ UNCHANGED <<task, mode, seen>>
  BY DEF Closing
<1>5. Attempting' /\ ~Repairing'
  BY <1>4 DEF Attempting, Repairing
<1>6. TreesInv'
  BY <1>3, <1>4, NoTreeTyped DEF TreesInv
<1>7. FieldsInv'
  BY <1>3, <1>4 DEF FieldsInv, Locals
<1>8. FinalInv'
  BY <1>3, <1>4 DEF FinalInv, Finished
<1> QED BY <1>5, <1>6, <1>7, <1>8 DEF AttemptInv, StepsInv, RepairInv

-----------------------------------------------------------------------------
(* The fallback agent, which serves both. *)

LEMMA GlobalIsRepair == Repairing <=> todo \in Seq(RepairSteps) /\ Global
BY DEF Repairing, Global, Running

\* What the agent finds in either case.
LEMMA InFallback ==
    ASSUME AttemptInv, todo # <<>>
    PROVE  /\ mode \in Modes /\ ws \in Trees /\ branch \in Seq(Trees) /\ branch # <<>> /\ Last(branch) \in Trees
           /\ "status" \in DOMAIN task /\ "good" \in DOMAIN seen /\ "passed" \in DOMAIN at
BY LastTyped DEF AttemptInv, TreesInv, FieldsInv

\* A list with further steps of the agent in front, for an attempt and for the repair.
LEMMA FallbackList ==
    ASSUME NEW s, NEW a \in FallbackSteps
    PROVE  /\ s \in Seq(AttemptSteps) => <<a>> \o s \in Seq(AttemptSteps)
           /\ s \in Seq(RepairSteps) /\ s # <<>> /\ Last(s) = "closing"
                => /\ <<a>> \o s \in Seq(RepairSteps) /\ <<a>> \o s # <<>>
                   /\ Last(<<a>> \o s) = "closing"
<1>1. a \in AttemptSteps /\ a \in RepairSteps
  BY DEF AttemptSteps, RepairSteps
<1> QED BY <1>1, Pushed

\* Steps of the agent that only move it forward.
LEMMA FallbackMoves ==
    ASSUME AttemptInv, todo # <<>>, Head(todo) \in FallbackSteps,
           UNCHANGED <<mode, branch, ws, at, main, build, seen>>, "status" \in DOMAIN task',
           Repairing => task' = task,
           Rest \in Seq(AttemptSteps) => todo' \in Seq(AttemptSteps),
           Rest \in Seq(RepairSteps) /\ Rest # <<>> /\ Last(Rest) = "closing"
               => todo' \in Seq(RepairSteps) /\ todo' # <<>> /\ Last(todo') = "closing"
    PROVE  AttemptInv'
<1>1. CASE Attempting
  <2>1. Rest \in Seq(AttemptSteps)
    BY <1>1, RestTyped DEF Attempting
  <2> QED BY <2>1, InFallback, GoingOn DEF AttemptGoesOn
<1>2. CASE Repairing
  <2>1. Rest \in Seq(RepairSteps) /\ Rest # <<>> /\ Last(Rest) = "closing"
    BY <1>2, InRepair DEF FallbackSteps
  <2>2. ~at.passed
    <3>1. todo # <<"closing">>
      BY DEF FallbackSteps
    <3> QED BY <1>2, <3>1, InRepair
  <2> QED BY <1>2, <2>1, <2>2, InFallback, RepairGoesOn
<1> QED BY <1>1, <1>2 DEF AttemptInv, StepsInv

LEMMA FallbackTurns ==
    ASSUME AttemptInv, FallbackStart \/ FallbackTurn \/ FallbackEndTurn
    PROVE  AttemptInv'
<1>1. todo # <<>> /\ Head(todo) \in FallbackSteps
  BY DEF FallbackStart, FallbackTurn, FallbackEndTurn, Do, Running, FallbackSteps
<1>2. "status" \in DOMAIN task
  BY DEF AttemptInv, FieldsInv
<1>3. CASE FallbackStart
  <2>1. Repairing => task' = task
    BY <1>3, GlobalIsRepair DEF FallbackStart
  <2>2. "status" \in DOMAIN task' /\ UNCHANGED <<mode, branch, ws, at, main, build, seen>> /\ todo' = <<"turn">> \o Rest
    BY <1>2, <1>3 DEF FallbackStart
  <2> QED BY <1>1, <2>1, <2>2, FallbackList, FallbackMoves DEF FallbackSteps
<1>4. CASE FallbackTurn
  <2>1. UNCHANGED <<task, mode, branch, ws, at, main, build, seen>>
    BY <1>4 DEF FallbackTurn
  <2> DEFINE end == <<"endTurn">> \o Rest
             one == <<"candidate">> \o end
             two == <<"candidate">> \o one
  <2>2. /\ Rest \in Seq(AttemptSteps) => one \in Seq(AttemptSteps) /\ two \in Seq(AttemptSteps)
        /\ Rest \in Seq(RepairSteps) /\ Rest # <<>> /\ Last(Rest) = "closing"
              => /\ one \in Seq(RepairSteps) /\ one # <<>> /\ Last(one) = "closing"
                 /\ two \in Seq(RepairSteps) /\ two # <<>> /\ Last(two) = "closing"
    <3>1. /\ Rest \in Seq(AttemptSteps) => end \in Seq(AttemptSteps)
          /\ Rest \in Seq(RepairSteps) /\ Rest # <<>> /\ Last(Rest) = "closing"
                => end \in Seq(RepairSteps) /\ end # <<>> /\ Last(end) = "closing"
      BY FallbackList DEF FallbackSteps
    <3> HIDE DEF end
    <3>2. /\ end \in Seq(AttemptSteps) => one \in Seq(AttemptSteps)
          /\ end \in Seq(RepairSteps) /\ end # <<>> /\ Last(end) = "closing"
                => one \in Seq(RepairSteps) /\ one # <<>> /\ Last(one) = "closing"
      BY FallbackList DEF FallbackSteps
    <3> HIDE DEF one
    <3>3. /\ one \in Seq(AttemptSteps) => two \in Seq(AttemptSteps)
          /\ one \in Seq(RepairSteps) /\ one # <<>> /\ Last(one) = "closing"
                => two \in Seq(RepairSteps) /\ two # <<>> /\ Last(two) = "closing"
      BY FallbackList DEF FallbackSteps
    <3> QED BY <3>1, <3>2, <3>3
  <2>3. todo' = one \/ todo' = two
    <3>1. PICK S : Rest \in Seq(S)
      BY <1>1, RestTyped DEF AttemptInv, StepsInv, Attempting, Repairing
    <3>2. todo' = <<"candidate">> \o (<<"endTurn">> \o Rest) \/ todo' = <<"candidate">> \o (<<"candidate">> \o (<<"endTurn">> \o Rest))
      BY <1>4, <3>1 DEF FallbackTurn
    <3> QED BY <3>2
  <2> HIDE DEF one, two
  <2> QED BY <1>1, <1>2, <2>1, <2>2, <2>3, FallbackMoves
<1>5. CASE FallbackEndTurn
  <2>1. UNCHANGED <<task, mode, branch, ws, at, main, build, seen>> /\ todo' \in {Rest, <<"turn">> \o Rest}
    BY <1>5 DEF FallbackEndTurn
  <2> QED BY <1>1, <1>2, <2>1, FallbackList, FallbackMoves DEF FallbackSteps
<1> QED BY <1>3, <1>4, <1>5

\* A candidate that passes ends the agent, and the worktree is the tree that passed; any
\* other is rolled back, or stays where it is when that fails.
LEMMA CandidateStep == ASSUME AttemptInv, Candidate PROVE AttemptInv'
<1>1. todo # <<>> /\ Head(todo) = "candidate"
  BY DEF Candidate, Do, Running
<1>2. /\ mode \in Modes /\ ws \in Trees /\ branch \in Seq(Trees) /\ branch # <<>> /\ Last(branch) \in Trees
      /\ "status" \in DOMAIN task /\ "good" \in DOMAIN seen /\ "passed" \in DOMAIN at
  BY <1>1, InFallback
<1>3. UNCHANGED <<task, mode, main, build>>
  BY DEF Candidate
<1>4. CASE todo' = Rest /\ UNCHANGED <<branch, ws, at, seen>>
  BY <1>1, <1>2, <1>3, <1>4, FallbackMoves DEF FallbackSteps
<1>5. CASE ~(todo' = Rest /\ UNCHANGED <<branch, ws, at, seen>>)
  <2>1. PICK mutating \in BOOLEAN, ok \in BOOLEAN, undone \in BOOLEAN,
             impl \in mode.code \union {ws.impl}, tests \in mode.suites \union {ws.tests} :
            LET tree == [ws EXCEPT !.impl = impl, !.tests = tests]
                b == IF mutating THEN Kept(ok, branch, tree) ELSE branch
                out == SuiteRun(AutoFixImports(tree))
            IN  /\ tree = ws \/ mutating
                /\ ok \/ (mutating /\ tree # HeadTree)
                /\ MayFail(ok /\ undone) /\ faults' = Spent(ok /\ undone)
                /\ \E v \in FallbackVerdicts(tree) :
                    IF v.ok
                    THEN /\ undone /\ branch' = b /\ ws' = AfterValidate(tree, v)
                         /\ at' = [at EXCEPT !.passed = TRUE, !.log = {}]
                         /\ seen' = [seen EXCEPT !.good = ws']
                         /\ todo' = <<Last(todo)>> /\ fb' = NoFallback
                    ELSE /\ branch' = IF undone THEN Rollback(b) ELSE b
                         /\ ws' = IF undone THEN Last(branch') ELSE AfterValidate(tree, v)
                         /\ fb' = [fb EXCEPT !.mutating = @ \/ mutating, !.gate = v.gate,
                                      !.failed = IF v.gate = "runs" THEN out.total - out.passed ELSE 0,
                                      !.passed = IF v.gate = "runs" THEN out.passed ELSE 0]
                         /\ todo' = Rest /\ UNCHANGED <<at, seen>>
    BY <1>5 DEF Candidate
  <2> DEFINE tree == [ws EXCEPT !.impl = impl, !.tests = tests]
             b == IF mutating THEN Kept(ok, branch, tree) ELSE branch
  <2>2. PICK v \in FallbackVerdicts(tree) :
            \/ /\ v.ok /\ branch' = b /\ ws' = AfterValidate(tree, v)
               /\ at' = [at EXCEPT !.passed = TRUE, !.log = {}]
               /\ seen' = [seen EXCEPT !.good = ws']
               /\ todo' = <<Last(todo)>>
            \/ /\ \/ branch' = Rollback(b) /\ ws' = Last(branch')
                  \/ branch' = b /\ ws' = AfterValidate(tree, v)
               /\ todo' = Rest /\ UNCHANGED <<at, seen>>
    BY <2>1
  <2>4. tree \in Trees
    BY <1>2, Written
  <2> HIDE DEF tree
  <2>5. b \in Seq(Trees) /\ b # <<>> /\ Last(b) \in Trees
    BY <1>2, <2>4, KeptTyped, LastTyped
  <2> HIDE DEF b
  <2>7. CASE /\ v.ok /\ branch' = b /\ ws' = AfterValidate(tree, v)
             /\ at' = [at EXCEPT !.passed = TRUE, !.log = {}]
             /\ seen' = [seen EXCEPT !.good = ws']
             /\ todo' = <<Last(todo)>>
    <3>1. ws' \in Trees
      BY <2>4, <2>7, AfterValidateTyped
    <3>2. "good" \in DOMAIN seen' /\ "passed" \in DOMAIN at' /\ seen'.good = ws'
      BY <1>2, <2>7
    <3>3. CASE Attempting
      <4>1. Last(todo) \in AttemptSteps
        BY <1>1, <3>3, LastTyped DEF Attempting
      <4>2. todo' \in Seq(AttemptSteps)
        BY <2>7, <4>1
      <4> QED BY <1>1, <1>2, <1>3, <2>5, <2>7, <3>1, <3>2, <4>2, GoingOn DEF AttemptGoesOn
    <3>4. CASE Repairing
      <4>1. todo' = <<"closing">>
        BY <2>7, <3>4 DEF Repairing
      <4>2. todo' \in Seq(RepairSteps) /\ todo' # <<>> /\ Last(todo') = "closing"
        BY <4>1, ClosingList
      <4> QED BY <1>3, <2>5, <2>7, <3>1, <3>2, <3>4, <4>1, <4>2, RepairGoesOn
    <3> QED BY <3>3, <3>4 DEF AttemptInv, StepsInv
  <2>8. CASE /\ \/ branch' = Rollback(b) /\ ws' = Last(branch')
                \/ branch' = b /\ ws' = AfterValidate(tree, v)
             /\ todo' = Rest /\ UNCHANGED <<at, seen>>
    <3>1. branch' \in Seq(Trees) /\ branch' # <<>> /\ ws' \in Trees
      BY <2>4, <2>5, <2>8, RollbackTyped, LastTyped, AfterValidateTyped
    <3>2. "good" \in DOMAIN seen' /\ "passed" \in DOMAIN at'
      BY <1>2, <2>8
    <3>3. CASE Attempting
      <4>1. todo' \in Seq(AttemptSteps)
        BY <1>1, <2>8, <3>3, RestTyped DEF Attempting
      <4> QED BY <1>1, <1>2, <1>3, <3>1, <3>2, <4>1, GoingOn DEF AttemptGoesOn
    <3>4. CASE Repairing
      <4>1. todo' \in Seq(RepairSteps) /\ todo' # <<>> /\ Last(todo') = "closing"
        BY <1>1, <2>8, <3>4, InRepair
      <4>2. ~at.passed
        <5>1. todo # <<"closing">>
          BY <1>1
        <5> QED BY <3>4, <5>1, InRepair
      <4> QED BY <1>3, <2>8, <3>1, <3>2, <3>4, <4>1, <4>2, RepairGoesOn
    <3> QED BY <3>3, <3>4 DEF AttemptInv, StepsInv
  <2> QED BY <2>2, <2>7, <2>8
<1> QED BY <1>4, <1>5

-----------------------------------------------------------------------------
(* Dispatch, the beginning of the repair, healing and restarts. *)

LEMMA TurnsTyped ==
    ASSUME NEW m, NEW retries
    PROVE  Turns(m, retries) \in Seq(AttemptSteps)
<1>1. refactorTurn \in Seq(AttemptSteps)
  BY DEF refactorTurn, AttemptSteps, TurnSteps
<1>2. /\ <<"stub", "tester", "commit", "auditTests", "generator", "commit", "fastExit">> \in Seq(AttemptSteps)
      /\ <<"stub", "generator", "commit", "auditCode", "tester", "commit", "auditTests", "fastExit">> \in Seq(AttemptSteps)
      /\ <<"stub", "both", "commit", "auditCode", "auditTests", "fastExit">> \in Seq(AttemptSteps)
      /\ <<"tester", "commit", "auditTests">> \in Seq(AttemptSteps)
  BY DEF AttemptSteps, TurnSteps
<1>3. /\ executeTesterFirstTurn \in Seq(AttemptSteps) /\ executeGeneratorFirstTurn \in Seq(AttemptSteps)
      /\ executeParallelCoSynthesisTurn \in Seq(AttemptSteps) /\ executeRetryTurn \in Seq(AttemptSteps)
  <2> HIDE DEF refactorTurn
  <2> QED BY <1>1, <1>2, ConcatProperties DEF executeTesterFirstTurn, executeGeneratorFirstTurn,
                                              executeParallelCoSynthesisTurn, executeRetryTurn
<1>4. /\ executeTaskSinglePass \in Seq(AttemptSteps) /\ ExecuteSinglePassHypotheses \in Seq(AttemptSteps)
      /\ executeTaskBreadthFirst(retries) \in Seq(AttemptSteps)
  <2>1. /\ <<"both", "auditInline", "commit", "validate">> \in Seq(AttemptSteps)
        /\ <<"race", "validate">> \in Seq(AttemptSteps)
        /\ <<"generator", "commit", "tester", "commit", "validate">> \in Seq(AttemptSteps)
        /\ <<"generator", "commit", "validate">> \in Seq(AttemptSteps)
    BY DEF AttemptSteps, TurnSteps
  <2> QED BY <2>1 DEF executeTaskSinglePass, ExecuteSinglePassHypotheses, executeTaskBreadthFirst
<1>5. executeTaskCodeFirst(m, retries) \in Seq(AttemptSteps)
  BY <1>3 DEF executeTaskCodeFirst
<1> QED BY <1>4, <1>5 DEF Turns

LEMMA DispatchStep == ASSUME AttemptInv, Dispatch PROVE AttemptInv'
<1>1. /\ task.status = "PENDING" /\ at' = Locals /\ branch' = setupTaskWorkspace /\ ws' = Last(branch')
      /\ UNCHANGED <<mode, main, build>>
  BY DEF Dispatch
<1>2. branch' \in Seq(Trees) /\ branch' # <<>> /\ ws' \in Trees
  <2>1. branch' \in Seq(Trees) /\ branch' # <<>>
    BY <1>1 DEF setupTaskWorkspace, AttemptInv, TreesInv
  <2> QED BY <1>1, <2>1, LastTyped
<1>3. todo' \in Seq(AttemptSteps)
  <2>1. <<"fallback", "merge">> \in Seq(AttemptSteps) /\ <<"qa", "escalate", "merge">> \in Seq(AttemptSteps)
    BY DEF AttemptSteps, TurnSteps, FallbackSteps
  <2>2. Turns(mode.arch, task.retries) \o <<"qa", "escalate", "merge">> \in Seq(AttemptSteps)
    BY <2>1, TurnsTyped, ConcatProperties
  <2>3. <<>> \in Seq(AttemptSteps)
    OBVIOUS
  <2>4. \/ todo' = <<>> \/ todo' = <<"fallback", "merge">>
        \/ todo' = Turns(mode.arch, task.retries) \o <<"qa", "escalate", "merge">>
    BY DEF Dispatch
  <2> QED BY <2>1, <2>2, <2>3, <2>4
<1>4. "status" \in DOMAIN task' /\ "good" \in DOMAIN seen' /\ "passed" \in DOMAIN at'
  BY <1>1 DEF Dispatch, AttemptInv, FieldsInv, Locals
<1> QED BY <1>1, <1>2, <1>3, <1>4, GoingOn DEF AttemptGoesOn

LEMMA PostMergeStep == ASSUME AttemptInv, PostMerge PROVE AttemptInv'
<1>1. /\ Finished /\ ~build.final /\ branch' \in {main, Base} /\ ws' = Last(branch')
      /\ \E on \in BOOLEAN : at' = [Locals EXCEPT !.onBranch = on]
      /\ UNCHANGED <<task, mode, main, build, seen>>
      /\ todo' = <<"recheck", "repairTurn", "recheck", "repairTurn", "recheck">>
                 \o (IF Fallback.enabled THEN <<"fallback">> ELSE <<>>) \o <<"closing">>
  BY DEF PostMerge
<1>2. /\ mode \in Modes /\ main \in Seq(Trees) /\ main # <<>>
      /\ "status" \in DOMAIN task /\ "good" \in DOMAIN seen
      /\ build \in [status : {"UNKNOWN", "PASSING", "FAILING"}, final : BOOLEAN]
  BY DEF AttemptInv, TreesInv, FieldsInv
<1>6. branch' \in Seq(Trees) /\ branch' # <<>> /\ ws' \in Trees
  BY <1>1, <1>2, LastTyped, AttemptAssumption
<1>3. Repairing'
  <2> DEFINE front == <<"recheck", "repairTurn", "recheck", "repairTurn", "recheck">>
                      \o (IF Fallback.enabled THEN <<"fallback">> ELSE <<>>)
  <2>1. front \in Seq(RepairSteps)
    <3>1. /\ <<"recheck", "repairTurn", "recheck", "repairTurn", "recheck">> \in Seq(RepairSteps)
          /\ <<"fallback">> \in Seq(RepairSteps) /\ <<>> \in Seq(RepairSteps)
      BY DEF RepairSteps, ClosingSteps, FallbackSteps
    <3> QED BY <3>1, ConcatProperties
  <2> HIDE DEF front
  <2>2. todo' = Append(front, "closing")
    BY <1>1, <2>1, ClosingList, AppendIsConcat DEF front, RepairSteps, ClosingSteps
  <2> QED BY <2>1, <2>2, AppendProperties DEF Repairing, Last, RepairSteps, ClosingSteps
<1>4. RepairInv' /\ FieldsInv'
  BY <1>1, <1>2 DEF RepairInv, FieldsInv, Finished, Locals
<1>5. TreesInv'
  BY <1>1, <1>2, <1>6 DEF TreesInv
<1> QED BY <1>1, <1>3, <1>4, <1>5 DEF AttemptInv, StepsInv, FinalInv

LEMMA HealStep == ASSUME AttemptInv, Heal PROVE AttemptInv'
<1>1. /\ task.status = "IN_PROGRESS" /\ todo = <<>>
      /\ UNCHANGED <<mode, branch, ws, todo, at, main, build, seen>>
  BY DEF Heal, Running
<1>2. "status" \in DOMAIN task'
  BY DEF Heal, AttemptInv, FieldsInv
<1>3. ~Repairing' /\ Attempting' /\ ~build'.final
  BY <1>1 DEF Repairing, Attempting, AttemptInv, FinalInv
<1> QED BY <1>1, <1>2, <1>3 DEF AttemptInv, TreesInv, FieldsInv, StepsInv, RepairInv, FinalInv

\* A crash during the repair leaves what it had committed on the integration branch.
LEMMA RestartStep == ASSUME AttemptInv, Restart PROVE AttemptInv'
<1>1. /\ todo' = <<>> /\ at' = Locals /\ ws' = NoTree
      /\ main' = IF Global /\ at.onBranch THEN branch ELSE main
      /\ branch' = IF Global THEN <<>> ELSE branch
      /\ UNCHANGED <<mode, build, seen>>
      /\ task' = task \/ task' = [task EXCEPT !.status = "INTERRUPTED"]
  BY DEF Restart
<1>2. ~Repairing' /\ Attempting'
  BY <1>1 DEF Repairing, Attempting
<1>3. Global => todo # <<>>
  BY DEF Global, Running
<1>4. TreesInv'
  BY <1>1, <1>3, NoTreeTyped DEF AttemptInv, TreesInv
<1>5. FieldsInv'
  BY <1>1 DEF AttemptInv, FieldsInv, Locals
<1>6. FinalInv'
  BY <1>1 DEF AttemptInv, FieldsInv, FinalInv
<1> QED BY <1>2, <1>4, <1>5, <1>6 DEF AttemptInv, StepsInv, RepairInv

LEMMA AttemptInit == Init => AttemptInv
<1> SUFFICES ASSUME Init PROVE AttemptInv
  OBVIOUS
<1>1. TreesInv
  BY AttemptAssumption, NoTreeTyped DEF Init, TreesInv
<1>2. FieldsInv
  BY DEF Init, FieldsInv, Locals
<1>3. Attempting /\ ~Repairing /\ ~build.final
  BY DEF Init, Attempting, Repairing
<1> QED BY <1>1, <1>2, <1>3 DEF AttemptInv, StepsInv, RepairInv, FinalInv

LEMMA AttemptStep == AttemptInv /\ [Next]_vars => AttemptInv'
<1> SUFFICES ASSUME AttemptInv, [Next]_vars PROVE AttemptInv'
  OBVIOUS
<1>1. CASE Step
  BY <1>1, AgentSteps, ValidationSteps, ReviewSteps, MergeStep, RecheckStep, RepairTurnStep, ClosingStep,
     FallbackTurns, CandidateStep DEF Step
<1>2. CASE Dispatch \/ PostMerge \/ Heal \/ Restart
  BY <1>2, DispatchStep, PostMergeStep, HealStep, RestartStep
<1>3. CASE UNCHANGED vars
  BY <1>3 DEF vars, AttemptInv, TreesInv, FieldsInv, StepsInv, Attempting, Repairing, RepairInv, Finished, FinalInv
<1> QED BY <1>1, <1>2, <1>3 DEF Next, Done

-----------------------------------------------------------------------------
(* What is merged is what was validated and reviewed.                        *)

\* The steps after the turns; among them the ones that end the attempt and, with nothing
\* of theirs behind them, those of a review.
Ending == FallbackSteps \union {"merge"}
Inner == {"review", "reviewing", "reviewed", "takePatch", "fix"}
Late == {"qa", "escalate"} \union Inner \union Ending

Deep == {"turn", "candidate", "endTurn"}

\* Which step may follow which on the list.
Link(a, b) ==
    /\ a # "merge" /\ b \notin Inner \union {"fallback", "turn"}
    /\ b \in {"candidate", "endTurn"} => a = "candidate"
    /\ a \in Late \union {"validate"} <=> b \in Late
    /\ b \in Ending => a \in Ending \union {"escalate"}
    /\ a = "validate" => b = "qa"

Chained(s) == \A i \in 1..(Len(s) - 1) : Link(s[i], s[i + 1])

Working == Attempting /\ todo # <<>>

\* A tree that passed has its imports completed.
RecordsInv ==
    /\ {"passed", "blocked", "attempt", "result", "applied"} \subseteq DOMAIN at
    /\ {"good", "reviewed"} \subseteq DOMAIN seen /\ AutoFixImports(seen.good) = seen.good
    /\ {"status", "fallback"} \subseteq DOMAIN task

\* The list of an attempt, which ends with its merge.
Shaped(s) == s \in Seq(AttemptSteps) /\ s # <<>> /\ Chained(s) /\ Last(s) = "merge"
ShapeInv == Working => Shaped(todo) /\ task.status = "IN_PROGRESS"

\* The verdict that counts is the validation's or a later one.
PassInv == Working /\ at.passed => Head(todo) \in Late \ FallbackSteps

\* The worktree is the tree that passed, except between a review that adds tests to it and
\* the step that has to judge them.
Unblocked == at.passed /\ (at.blocked = "" \/ Head(todo) \in Ending)
SoundInv == Working /\ Unblocked /\ Head(todo) \notin {"takePatch", "fix"} => ws = seen.good

\* In a review and after it the worktree is what was committed, up to completed imports
\* after a fix.
Level == AutoFixImports(ws) = AutoFixImports(HeadTree) /\ (at.attempt = 1 => ws = HeadTree)
LevelInv ==
    Working =>
        /\ Head(todo) \in {"review", "reviewing", "reviewed"} /\ at.blocked = "" => Level
        /\ Gated /\ Unblocked /\ Head(todo) \in {"escalate", "merge"} => Level

\* Only the first review of an attempt hands in a patch, and then a step follows that
\* commits it.
PatchInv ==
    Working =>
        /\ Head(todo) \in Inner => QA.enabled /\ at.attempt \in Nat \ {0} /\ at.passed
        /\ Head(todo) \in {"review", "reviewing"} => at.blocked = ""
        /\ Head(todo) = "reviewing" => "patch" \in DOMAIN at.result /\ ~at.result.patch
        /\ Head(todo) = "reviewed" => "patch" \in DOMAIN at.result /\ (at.result.patch => at.blocked = "" /\ at.attempt = 1)

\* The branch extends the integration branch until the fallback agent, which may reset
\* commits that are not its own, was called.
Extends(b) == Len(main) <= Len(b) /\ \A i \in 1..Len(main) : b[i] = main[i]
PrefixInv == branch # <<>> /\ task.status \in {"PENDING", "IN_PROGRESS"} /\ ~task.fallback => Extends(branch)

MergeInv == RecordsInv /\ ShapeInv /\ PassInv /\ SoundInv /\ LevelInv /\ PatchInv /\ PrefixInv

\* The fallback agent's calls are on record.
CalledInv == Working /\ Head(todo) \in Deep => task.fallback

\* The tester's patch leaves the code that was committed.
SameCodeInv == Working /\ Head(todo) = "takePatch" => ws.impl = HeadTree.impl /\ AutoFixImports(ws) = ws

\* A review has an end: passed, or a reason that blocks.
VerdictInv ==
    Working /\ Head(todo) = "reviewed" /\ at.blocked = "" =>
        /\ at.result.status \notin {"SKIPPED"}
        /\ at.result.status = "PASS" => HeadTree.impl = seen.reviewed
        /\ at.result.status # "PASS" => at.result.reason # ""

\* Past its review the head of the branch is the code a review passed.
PassedReviewInv ==
    Working /\ Skip = "" /\ ~task.fallback /\ Unblocked /\ Head(todo) \in {"takePatch", "escalate", "merge"}
        => HeadTree.impl = seen.reviewed

ReviewInv == MergeInv /\ CalledInv /\ SameCodeInv /\ VerdictInv /\ PassedReviewInv

-----------------------------------------------------------------------------
(* Lists of steps, branches and verdicts. *)

LEMMA RestShaped ==
    ASSUME NEW s, Shaped(s), Head(s) # "merge"
    PROVE  Shaped(Tail(s)) /\ Link(Head(s), Head(Tail(s)))
<1>1. s \in Seq(AttemptSteps) /\ s # <<>> /\ Len(s) \in Nat \ {0}
  BY LastTyped DEF Shaped
<1>2. Tail(s) \in Seq(AttemptSteps) /\ Len(Tail(s)) = Len(s) - 1
      /\ \A i \in 1..Len(Tail(s)) : Tail(s)[i] = s[i + 1]
  BY <1>1, HeadTailProperties
<1>3. Len(s) > 1
  BY <1>1 DEF Shaped, Last
<1> DEFINE t == Tail(s)
<1> HIDE DEF t
<1>4. t \in Seq(AttemptSteps) /\ Len(t) = Len(s) - 1 /\ \A i \in 1..Len(t) : t[i] = s[i + 1]
  BY <1>2 DEF t
<1>5. t # <<>>
  BY <1>3, <1>4
<1>6. Last(t) = "merge" /\ Head(t) = s[2] /\ Head(s) = s[1]
  BY <1>1, <1>3, <1>4, <1>5 DEF Last, Shaped
<1>7. Chained(t)
  BY <1>1, <1>3, <1>4 DEF Chained, Shaped
<1>8. Link(s[1], s[2])
  BY <1>1, <1>3 DEF Shaped, Chained
<1> QED BY <1>4, <1>5, <1>6, <1>7, <1>8 DEF Shaped, t

LEMMA PushShaped ==
    ASSUME NEW s, Shaped(s), NEW a \in AttemptSteps, Link(a, Head(s))
    PROVE  Shaped(<<a>> \o s) /\ Head(<<a>> \o s) = a
<1>1. s \in Seq(AttemptSteps) /\ s # <<>> /\ Len(s) \in Nat \ {0}
  BY LastTyped DEF Shaped
<1>2. <<a>> \o s \in Seq(AttemptSteps) /\ <<a>> \o s # <<>> /\ Last(<<a>> \o s) = "merge"
  BY <1>1, Pushed DEF Shaped
<1>3. /\ Len(<<a>> \o s) = 1 + Len(s)
      /\ \A i \in 1..(1 + Len(s)) : (<<a>> \o s)[i] = IF i <= 1 THEN a ELSE s[i - 1]
  BY <1>1, ConcatProperties
<1> DEFINE q == <<a>> \o s
<1> HIDE DEF q
<1>4. /\ q \in Seq(AttemptSteps) /\ q # <<>> /\ Last(q) = "merge" /\ Len(q) = 1 + Len(s)
      /\ \A i \in 1..(1 + Len(s)) : q[i] = IF i <= 1 THEN a ELSE s[i - 1]
  BY <1>2, <1>3 DEF q
<1>5. Head(q) = a
  BY <1>1, <1>4
<1>6. Chained(q)
  <2> SUFFICES ASSUME NEW i \in 1..(Len(q) - 1) PROVE Link(q[i], q[i + 1])
    BY DEF Chained
  <2>1. CASE i = 1
    <3>1. q[1] = a /\ q[2] = s[1] /\ Head(s) = s[1]
      BY <1>1, <1>4
    <3> QED BY <2>1, <3>1
  <2>2. CASE i > 1
    <3>1. i - 1 \in 1..(Len(s) - 1) /\ q[i] = s[i - 1] /\ q[i + 1] = s[(i - 1) + 1]
      BY <1>1, <1>4, <2>2
    <3> QED BY <3>1 DEF Shaped, Chained
  <2> QED BY <1>1, <1>4, <2>1, <2>2
<1> QED BY <1>4, <1>5, <1>6 DEF Shaped, q

LEMMA TwoPushed ==
    ASSUME NEW S, NEW s \in Seq(S), NEW a \in S, NEW b \in S
    PROVE  <<a, b>> \o s = <<a>> \o (<<b>> \o s)
<1>1. <<a>> \in Seq(S) /\ <<b>> \in Seq(S) /\ <<a, b>> \in Seq(S) /\ Len(<<a, b>>) = 2
      /\ <<a, b>>[1] = a /\ <<a, b>>[2] = b
  OBVIOUS
<1>2. Append(<<a>>, b) \in Seq(S) /\ Len(Append(<<a>>, b)) = 2 /\ Append(<<a>>, b)[1] = a /\ Append(<<a>>, b)[2] = b
  BY <1>1, AppendProperties
<1>3. <<a, b>> = Append(<<a>>, b)
  <2> DEFINE p == <<a, b>>
             q == Append(<<a>>, b)
  <2>1. p \in Seq(S) /\ q \in Seq(S) /\ Len(p) = Len(q) /\ \A i \in 1..Len(p) : p[i] = q[i]
    BY <1>1, <1>2
  <2> HIDE DEF p, q
  <2>2. p = q
    BY <2>1, SeqEqual
  <2> QED BY <2>2 DEF p, q
<1>4. Append(<<a>>, b) = <<a>> \o <<b>>
  BY <1>1, AppendIsConcat
<1>5. (<<a>> \o <<b>>) \o s = <<a>> \o (<<b>> \o s)
  BY <1>1, ConcatAssociative
<1> QED BY <1>3, <1>4, <1>5

LEMMA PairShaped ==
    ASSUME NEW s, Shaped(s), NEW a \in AttemptSteps, NEW b \in AttemptSteps, Link(a, b), Link(b, Head(s))
    PROVE  Shaped(<<a, b>> \o s) /\ Head(<<a, b>> \o s) = a
<1>1. Shaped(<<b>> \o s) /\ Head(<<b>> \o s) = b
  BY PushShaped
<1>2. Shaped(<<a>> \o (<<b>> \o s)) /\ Head(<<a>> \o (<<b>> \o s)) = a
  <2> DEFINE t == <<b>> \o s
  <2> HIDE DEF t
  <2>1. Shaped(<<a>> \o t) /\ Head(<<a>> \o t) = a
    BY <1>1, PushShaped DEF t
  <2> QED BY <2>1 DEF t
<1>3. <<a, b>> \o s = <<a>> \o (<<b>> \o s)
  BY TwoPushed DEF Shaped
<1> QED BY <1>2, <1>3

\* The list after an early end of the turns: nothing, or a list again.
LEMMA SkipShaped ==
    ASSUME NEW s, Shaped(s), NEW h, Link(h, Head(s)), h # "candidate"
    PROVE  LET t == SubSeq(s, Len(refactorTurn), Len(s))
           IN  t = <<>> \/ (Shaped(t) /\ Head(t) \notin Inner \union Deep)
<1>0. Len(refactorTurn) = 5
  BY DEF refactorTurn
<1>1. s \in Seq(AttemptSteps) /\ s # <<>> /\ Len(s) \in Nat \ {0} /\ \A i \in 5..Len(s) : s[i] \in AttemptSteps
  BY LastTyped, ElementOfSeq DEF Shaped
<1> DEFINE t == SubSeq(s, 5, Len(s))
<1>2. /\ t \in Seq(AttemptSteps) /\ Len(t) = IF 5 <= Len(s) THEN Len(s) - 4 ELSE 0
      /\ \A i \in 1..Len(t) : t[i] = s[i + 4]
  BY <1>1, SubSeqProperties
<1> HIDE DEF t
<1>3. CASE t # <<>>
  <2>1. Len(t) \in Nat \ {0} /\ Len(t) = Len(s) - 4
    BY <1>1, <1>2, <1>3, LastTyped
  <2>2. Last(t) = "merge" /\ Head(t) = s[5]
    BY <1>1, <1>2, <1>3, <2>1 DEF Last, Shaped
  <2>3. Chained(t)
    <3> SUFFICES ASSUME NEW i \in 1..(Len(t) - 1) PROVE Link(t[i], t[i + 1])
      BY DEF Chained
    <3>1. i + 4 \in 1..(Len(s) - 1) /\ t[i] = s[i + 4] /\ t[i + 1] = s[(i + 4) + 1]
      BY <1>1, <1>2, <2>1
    <3> QED BY <3>1 DEF Shaped, Chained
  <2>4. s[5] \notin Inner \union Deep
    <3>1. Link(s[1], s[2]) /\ Link(s[2], s[3]) /\ Link(s[3], s[4]) /\ Link(s[4], s[5]) /\ Link(h, s[1])
      <4>1. \A i \in 1..4 : i \in 1..(Len(s) - 1)
        BY <1>1, <2>1
      <4>2. Head(s) = s[1]
        BY <1>1
      <4> QED BY <4>1, <4>2 DEF Shaped, Chained
    <3>2. \A a, b : Link(a, b) => b \notin Inner \union {"turn"} /\ (b \in Deep => a = "candidate")
      BY DEF Link, Deep
    <3> QED BY <3>1, <3>2 DEF Deep
  <2> QED BY <1>0, <1>2, <1>3, <2>2, <2>3, <2>4 DEF Shaped, t
<1> QED BY <1>0, <1>3 DEF t

LEMMA CommittedExtends ==
    ASSUME main \in Seq(Trees), NEW b \in Seq(Trees), b # <<>>, NEW t \in Trees, NEW ok, Extends(b)
    PROVE  Extends(Kept(ok, b, t))
<1>1. Len(main) \in Nat /\ Len(b) \in Nat
  BY LenProperties
<1>2. Len(Append(b, t)) = Len(b) + 1 /\ \A i \in 1..Len(b) : Append(b, t)[i] = b[i]
  BY AppendProperties
<1> QED BY <1>1, <1>2 DEF Kept, Committed, Extends

\* A branch that extends the integration branch is merged as it is.
LEMMA MergedAsIs ==
    ASSUME main \in Seq(Trees), main # <<>>, branch \in Seq(Trees), branch # <<>>, Extends(branch)
    PROVE  MergeInto(branch) = HeadTree
<1>1. Len(main) \in Nat \ {0} /\ Len(branch) \in Nat \ {0} /\ Len(main) <= Len(branch)
      /\ Head0 \in Trees /\ HeadTree \in Trees
  BY LastTyped DEF Extends, Head0, HeadTree
<1> DEFINE S == {i \in DOMAIN main : i <= Len(branch) /\ SubSeq(branch, 1, i) = SubSeq(main, 1, i)}
<1>2. Len(main) \in S
  <2>1. /\ SubSeq(main, 1, Len(main)) \in Seq(Trees) /\ Len(SubSeq(main, 1, Len(main))) = Len(main)
        /\ \A i \in 1..Len(main) : SubSeq(main, 1, Len(main))[i] = main[i]
    BY <1>1, SubSeqProperties, ElementOfSeq
  <2>2. /\ SubSeq(branch, 1, Len(main)) \in Seq(Trees) /\ Len(SubSeq(branch, 1, Len(main))) = Len(main)
        /\ \A i \in 1..Len(main) : SubSeq(branch, 1, Len(main))[i] = branch[i]
    BY <1>1, SubSeqProperties, ElementOfSeq
  <2> DEFINE f == SubSeq(main, 1, Len(main))
             g == SubSeq(branch, 1, Len(main))
  <2> HIDE DEF f, g
  <2>3. /\ f \in Seq(Trees) /\ Len(f) = Len(main) /\ g \in Seq(Trees) /\ Len(g) = Len(main)
        /\ \A i \in 1..Len(main) : f[i] = g[i]
    BY <2>1, <2>2 DEF f, g, Extends
  <2>4. f = g
    BY <1>1, <2>3, SeqEqual
  <2> QED BY <1>1, <2>4 DEF f, g
<1>3. \A i \in S : i <= Len(main) /\ i \in Nat
  BY <1>1
<1> HIDE DEF S
<1>4. Max(S) = Len(main)
  <2>1. \A x \in S : (\A y \in S : y <= x) => x = Len(main)
    BY <1>1, <1>2, <1>3
  <2> QED BY <1>1, <1>2, <1>3, <2>1 DEF Max
<1>5. main[Max(S)] = Head0
  BY <1>4 DEF Head0, Last
<1>6. MergeInto(branch) = [impl |-> IF HeadTree.impl = Head0.impl THEN Head0.impl ELSE HeadTree.impl,
                           tests |-> (Head0.tests \ (Head0.tests \ HeadTree.tests)) \union (HeadTree.tests \ Head0.tests)]
  BY <1>5 DEF MergeInto, HeadTree, S
<1>7. (Head0.tests \ (Head0.tests \ HeadTree.tests)) \union (HeadTree.tests \ Head0.tests) = HeadTree.tests
  BY Zenon
<1> QED BY <1>1, <1>6, <1>7 DEF Trees

LEMMA PrefixExtends ==
    ASSUME main \in Seq(Trees), NEW b \in Seq(Trees), IsPrefix(main, b)
    PROVE  Extends(b)
<1>1. Len(main) \in Nat /\ Len(b) \in Nat /\ Len(main) <= Len(b)
  BY LenProperties DEF IsPrefix
<1>2. /\ \A i \in 1..Len(main) : SubSeq(main, 1, Len(main))[i] = main[i]
      /\ \A i \in 1..Len(main) : SubSeq(b, 1, Len(main))[i] = b[i]
  BY <1>1, SubSeqProperties, ElementOfSeq
<1> DEFINE f == SubSeq(main, 1, Len(main))
           g == SubSeq(b, 1, Len(main))
<1> HIDE DEF f, g
<1>3. f = g /\ (\A i \in 1..Len(main) : f[i] = main[i]) /\ \A i \in 1..Len(main) : g[i] = b[i]
  BY <1>2 DEF f, g, IsPrefix
<1> QED BY <1>1, <1>3 DEF Extends

\* Other tests leave the imports as they are.
LEMMA TestsOnly ==
    ASSUME NEW t \in Trees, NEW tests, AutoFixImports(t) = t
    PROVE  AutoFixImports([t EXCEPT !.tests = tests]) = [t EXCEPT !.tests = tests]
<1>1. t = [impl |-> t.impl, tests |-> t.tests] /\ t.impl \in CodeFiles
  BY DEF Trees
<1>2. [t.impl EXCEPT !.imports = TRUE] = t.impl
  <2>1. AutoFixImports(t).impl = [t.impl EXCEPT !.imports = TRUE]
    BY <1>1 DEF AutoFixImports, Trees
  <2> QED BY <2>1
<1>3. [t EXCEPT !.tests = tests] = [impl |-> t.impl, tests |-> tests]
  BY <1>1 DEF Trees
<1> DEFINE u == [impl |-> t.impl, tests |-> tests]
<1>4. AutoFixImports(u) = [u EXCEPT !.impl = [u.impl EXCEPT !.imports = TRUE]]
  BY DEF AutoFixImports
<1>5. AutoFixImports(u) = u
  BY <1>2, <1>4
<1> QED BY <1>3, <1>5

\* What a review may conclude.
LEMMA ReviewResults ==
    ASSUME NEW r \in Review(HeadTree, Len(branch), at.attempt = 1, Contracts)
    PROVE  /\ {"status", "reason", "patch"} \subseteq DOMAIN r
           /\ r.patch => at.attempt = 1
           /\ r.status # "SKIPPED"
           /\ r.status # "PASS" => r.reason # ""
<1> DEFINE Fine(x) == /\ {"status", "reason", "patch"} \subseteq DOMAIN x /\ x.status # "SKIPPED"
                      /\ x.status # "PASS" => x.reason # ""
<1>1. \A reason \in reviewFaults : \A a : Fine(Result(FaultStatus(reason), reason, a)) /\ ~Result(FaultStatus(reason), reason, a).patch
  BY DEF Result, FaultStatus, reviewFaults, faultsWith, faultsWithout
<1>2. \A a : Fine(Result("INCONCLUSIVE", "validation_surface_unavailable", a))
             /\ ~Result("INCONCLUSIVE", "validation_surface_unavailable", a).patch
  BY DEF Result
<1>3. \A impl, p, a, c : Fine(deriveAndExecute(impl, p, a, c)) /\ ~deriveAndExecute(impl, p, a, c).patch
                         /\ Fine([deriveAndExecute(impl, p, a, c) EXCEPT !.patch = TRUE])
  <2> SUFFICES ASSUME NEW impl, NEW p, NEW a, NEW c
               PROVE  Fine(deriveAndExecute(impl, p, a, c)) /\ ~deriveAndExecute(impl, p, a, c).patch
                      /\ Fine([deriveAndExecute(impl, p, a, c) EXCEPT !.patch = TRUE])
    OBVIOUS
  <2>1. deriveAndExecute(impl, p, a, c) \in {Result("ERROR", "invalid_model_output", a),
                                             Result("FINDINGS", "public_contract_failed", a), Result("PASS", "", a)}
    BY DEF deriveAndExecute
  <2> DEFINE d == deriveAndExecute(impl, p, a, c)
  <2> HIDE DEF d
  <2>2. /\ DOMAIN d = {"status", "reason", "artifact", "patch"}
        /\ \/ d.status = "ERROR" /\ d.reason = "invalid_model_output"
           \/ d.status = "FINDINGS" /\ d.reason = "public_contract_failed"
           \/ d.status = "PASS"
        /\ ~d.patch
    <3>1. PICK st, re : /\ d = [status |-> st, reason |-> re, artifact |-> a, patch |-> FALSE]
                        /\ <<st, re>> \in {<<"ERROR", "invalid_model_output">>, <<"FINDINGS", "public_contract_failed">>, <<"PASS", "">>}
      BY <2>1 DEF d, Result
    <3>2. /\ DOMAIN d = {"status", "reason", "artifact", "patch"} /\ d.status = st /\ d.reason = re /\ ~d.patch
      BY <3>1
    <3> QED BY <3>1, <3>2
  <2>3. Fine(d) /\ ~d.patch
    BY <2>2
  <2>4. Fine([d EXCEPT !.patch = TRUE])
    BY <2>2
  <2> QED BY <2>3, <2>4 DEF d
<1>4. \/ \E reason \in reviewFaults : \E a : r = Result(FaultStatus(reason), reason, a)
      \/ r = Result("INCONCLUSIVE", "validation_surface_unavailable", 0)
      \/ \E p : r = deriveAndExecute(HeadTree.impl, p, ArtifactID(Len(branch)), Contracts)
      \/ \E p : at.attempt = 1 /\ r = [deriveAndExecute(HeadTree.impl, p, ArtifactID(Len(branch)), Contracts) EXCEPT !.patch = TRUE]
  BY DEF Review, reviewFaults
<1>5. CASE \E reason \in reviewFaults : \E a : r = Result(FaultStatus(reason), reason, a)
  BY <1>1, <1>5
<1>6. CASE r = Result("INCONCLUSIVE", "validation_surface_unavailable", 0)
  BY <1>2, <1>6
<1>7. CASE \E p : r = deriveAndExecute(HeadTree.impl, p, ArtifactID(Len(branch)), Contracts)
  BY <1>3, <1>7
<1>8. CASE at.attempt = 1 /\ \E p : r = [deriveAndExecute(HeadTree.impl, p, ArtifactID(Len(branch)), Contracts) EXCEPT !.patch = TRUE]
  BY <1>3, <1>8
<1> QED BY <1>4, <1>5, <1>6, <1>7, <1>8

-----------------------------------------------------------------------------
(* The turns: nothing has passed yet. *)

\* What a step of the turns finds.
LEMMA InTurn ==
    ASSUME AttemptInv, ReviewInv, todo # <<>>, Head(todo) \in TurnSteps \ (Late \union {"validate"})
    PROVE  /\ Working /\ ~at.passed /\ RecordsInv
           /\ Shaped(todo) /\ Shaped(Rest) /\ Link(Head(todo), Head(Rest))
           /\ Head(Rest) \notin Inner \union Deep \union Late
<1>1. Working
  BY InAttempt DEF Working, Attempting
<1>2. Shaped(todo) /\ ~at.passed /\ RecordsInv
  BY <1>1 DEF ReviewInv, MergeInv, ShapeInv, PassInv
<1>3. Head(todo) # "merge" /\ Head(todo) # "candidate"
  BY DEF Late, Ending, TurnSteps, FallbackSteps
<1>4. Shaped(Rest) /\ Link(Head(todo), Head(Rest))
  BY <1>2, <1>3, RestShaped DEF Rest
<1> QED BY <1>1, <1>2, <1>3, <1>4 DEF Link, Deep

LEMMA TurnGoesOn ==
    ASSUME AttemptInv, ReviewInv, todo # <<>>, Head(todo) \in TurnSteps \ (Late \union {"validate"}),
           RecordsInv', UNCHANGED <<task, main>>, at'.passed = at.passed,
           Extends(branch) => Extends(branch'),
           todo' = <<>> \/ (Shaped(todo') /\ Head(todo') \notin Inner \union Deep)
    PROVE  ReviewInv'
<1>1. Working /\ ~at.passed
  BY InTurn
<1>2. RecordsInv' /\ ShapeInv' /\ PassInv' /\ SoundInv' /\ PassedReviewInv'
  BY <1>1 DEF ReviewInv, MergeInv, ShapeInv, Working, PassInv, SoundInv, PassedReviewInv, Unblocked
<1>3. PatchInv' /\ SameCodeInv' /\ VerdictInv' /\ LevelInv'
  <2>1. Working' => Head(todo') \notin Inner
    BY DEF Working
  <2> QED BY <1>1, <2>1 DEF PatchInv, SameCodeInv, VerdictInv, LevelInv, Unblocked, Inner
<1>4. PrefixInv'
  <2>1. branch # <<>>
    BY DEF AttemptInv, TreesInv
  <2> QED BY <2>1 DEF ReviewInv, MergeInv, PrefixInv, Extends
<1>5. CalledInv'
  BY DEF CalledInv, Working
<1> QED BY <1>2, <1>3, <1>4, <1>5 DEF ReviewInv, MergeInv

LEMMA TurnsDeliver ==
    ASSUME AttemptInv, ReviewInv, AttemptInv',
           \/ Stub \/ Generator \/ Tester \/ Both \/ Commit \/ AuditCode \/ AuditInline \/ AuditTests \/ Mark
           \/ FastExit \/ Evaluate \/ Race \/ Repair
    PROVE  ReviewInv'
<1>1. todo # <<>> /\ Head(todo) \in TurnSteps \ (Late \union {"validate"})
  BY DEF Stub, Generator, Tester, Both, Commit, AuditCode, AuditInline, AuditTests, Mark, FastExit, Evaluate, Race,
         Repair, Do, Running, TurnSteps, Late, Inner, Ending, FallbackSteps
<1>2. /\ Working /\ ~at.passed /\ RecordsInv /\ Shaped(todo) /\ Shaped(Rest) /\ Link(Head(todo), Head(Rest))
      /\ Head(Rest) \notin Inner \union Deep \union Late
  BY <1>1, InTurn
<1>3. /\ mode \in Modes /\ ws \in Trees /\ branch \in Seq(Trees) /\ branch # <<>> /\ HeadTree \in Trees
      /\ main \in Seq(Trees) /\ main # <<>> /\ Head0 \in Trees
  BY <1>1, InAttempt
<1>4. UNCHANGED <<task, main>>
  BY DEF Stub, Generator, Tester, Both, Commit, AuditCode, AuditInline, AuditTests, Mark, FastExit, Evaluate, Race,
         Repair, others
<1>5. ws' \in Trees
  BY DEF AttemptInv, TreesInv
<1>6. CASE Stub \/ Generator \/ Tester \/ Both \/ Mark
  <2>1. /\ todo' = Rest /\ branch' = branch /\ seen' = seen
        /\ at' = at \/ at' = [at EXCEPT !.before = Len(branch)]
    BY <1>6 DEF Stub, Generator, Tester, Both, Mark, others
  <2>2. RecordsInv' /\ at'.passed = at.passed
    BY <1>2, <1>4, <2>1 DEF RecordsInv
  <2> QED BY <1>1, <1>2, <1>4, <2>1, <2>2, TurnGoesOn DEF Extends
<1>7. CASE Commit
  <2>1. PICK ok \in BOOLEAN :
            /\ branch' = Kept(ok, branch, ws)
            /\ at' = [at EXCEPT !.blocked = IF ok \/ Head(todo) = "commit" THEN @ ELSE "generator_commit_failed"]
    BY <1>7 DEF Commit, StageAndCommit
  <2>2. todo' = Rest /\ seen' = seen
    BY <1>7 DEF Commit
  <2>3. RecordsInv' /\ at'.passed = at.passed
    BY <1>2, <1>4, <2>1, <2>2 DEF RecordsInv
  <2>4. Extends(branch) => Extends(branch')
    BY <1>3, <1>4, <2>1, CommittedExtends DEF Extends
  <2> QED BY <1>1, <1>2, <1>4, <2>2, <2>3, <2>4, TurnGoesOn
<1>8. CASE AuditCode \/ AuditTests \/ AuditInline
  <2>1. /\ branch' = branch /\ seen' = seen /\ at' = at
        /\ \/ todo' = Rest \/ todo' = <<"generator", "commit">> \o Rest \/ todo' = <<"tester", "commit">> \o Rest
           \/ todo' = <<"both">> \o Rest
    BY <1>8 DEF AuditCode, AuditTests, AuditInline, others
  <2>2. RecordsInv'
    BY <1>2, <1>4, <2>1 DEF RecordsInv
  <2>3. \A a \in {"generator", "tester", "both", "commit"} :
            /\ Link(a, Head(Rest)) /\ Link(a, "commit") /\ a \notin Late \union Inner \union Deep
            /\ a \in AttemptSteps
    BY <1>2 DEF Link, Late, Inner, Ending, Deep, FallbackSteps, AttemptSteps, TurnSteps
  <2>4. /\ Shaped(<<"generator", "commit">> \o Rest) /\ Head(<<"generator", "commit">> \o Rest) = "generator"
        /\ Shaped(<<"tester", "commit">> \o Rest) /\ Head(<<"tester", "commit">> \o Rest) = "tester"
        /\ Shaped(<<"both">> \o Rest) /\ Head(<<"both">> \o Rest) = "both"
    BY <1>2, <2>3, PushShaped, PairShaped
  <2>5. Shaped(todo') /\ Head(todo') \notin Inner \union Deep
    BY <1>2, <2>1, <2>3, <2>4
  <2> QED BY <1>1, <1>4, <2>1, <2>2, <2>5, TurnGoesOn DEF Extends
<1>9. CASE FastExit
  <2>1. PICK v : /\ \/ branch' = branch
                    \/ \E ok : branch' = Kept(ok, branch, ws')
                 /\ todo' = IF v.ok THEN SubSeq(Rest, Len(refactorTurn), Len(Rest)) ELSE Rest
    BY <1>9 DEF FastExit, StageAndCommit
  <2>2. UNCHANGED <<at, seen>> /\ Head(todo) = "fastExit"
    BY <1>9 DEF FastExit, Do
  <2>3. RecordsInv'
    BY <1>2, <1>4, <2>2 DEF RecordsInv
  <2>4. Extends(branch) => Extends(branch')
    BY <1>3, <1>4, <1>5, <2>1, CommittedExtends DEF Extends
  <2>5. todo' = <<>> \/ (Shaped(todo') /\ Head(todo') \notin Inner \union Deep)
    BY <1>2, <2>1, <2>2, SkipShaped
  <2> QED BY <1>1, <1>4, <2>2, <2>3, <2>4, <2>5, TurnGoesOn
<1>10. CASE Evaluate
  <2>1. PICK v, asked : at' = [at EXCEPT !.blocked = IF asked /\ ~v.ok THEN "generator_no_op_validation_failed" ELSE @]
    BY <1>10 DEF Evaluate
  <2>2. UNCHANGED <<branch, seen>> /\ todo' = Rest
    BY <1>10 DEF Evaluate, Do
  <2>3. RecordsInv' /\ at'.passed = at.passed
    BY <1>2, <1>4, <2>1, <2>2 DEF RecordsInv
  <2> QED BY <1>1, <1>2, <1>4, <2>2, <2>3, TurnGoesOn DEF Extends
<1>11. CASE Race
  <2>1. PICK mixed \in Candidates \union {ws}, ok1 \in BOOLEAN, ok2 \in BOOLEAN :
            branch' = Kept(ok1, branch, mixed) \/ branch' = Kept(ok2, Kept(ok1, branch, mixed), ws')
    BY <1>11 DEF Race
  <2>2. UNCHANGED <<at, seen>> /\ todo' = Rest
    BY <1>11 DEF Race
  <2>3. RecordsInv'
    BY <1>2, <1>4, <2>2 DEF RecordsInv
  <2>4. mixed \in Trees
    BY <1>3, AttemptAssumption DEF Candidates, Trees
  <2> DEFINE below == Kept(ok1, branch, mixed)
  <2>5. below \in Seq(Trees) /\ below # <<>> /\ (Extends(branch) => Extends(below))
    BY <1>3, <2>4, KeptTyped, CommittedExtends
  <2> HIDE DEF below
  <2>6. Extends(below) => Extends(branch')
    <3>1. Extends(below) => Extends(Kept(ok2, below, ws'))
      BY <1>3, <1>5, <2>5, CommittedExtends
    <3> QED BY <1>4, <2>1, <3>1 DEF below, Extends
  <2> QED BY <1>1, <1>2, <1>4, <2>2, <2>3, <2>5, <2>6, TurnGoesOn
<1>12. CASE Repair
  <2>1. branch' = branch \/ \E ok : branch' = Kept(ok, branch, ws')
    BY <1>12 DEF Repair, StageAndCommit
  <2>2. at' = [at EXCEPT !.repaired = TRUE] /\ todo' = Rest /\ seen' = seen
    BY <1>12 DEF Repair
  <2>3. RecordsInv' /\ at'.passed = at.passed
    BY <1>2, <1>4, <2>2 DEF RecordsInv
  <2>4. Extends(branch) => Extends(branch')
    BY <1>3, <1>4, <1>5, <2>1, CommittedExtends DEF Extends
  <2> QED BY <1>1, <1>2, <1>4, <2>2, <2>3, <2>4, TurnGoesOn
<1> QED BY <1>6, <1>7, <1>8, <1>9, <1>10, <1>11, <1>12

-----------------------------------------------------------------------------
(* Validation and review: the verdict is of the tree on the branch. *)

\* What the steps of an attempt find, its merge apart.
LEMMA InLate ==
    ASSUME AttemptInv, ReviewInv, Working, Head(todo) # "merge"
    PROVE  /\ RecordsInv /\ Shaped(todo) /\ Shaped(Rest) /\ Link(Head(todo), Head(Rest))
           /\ mode \in Modes /\ ws \in Trees /\ branch \in Seq(Trees) /\ branch # <<>> /\ HeadTree \in Trees
           /\ main \in Seq(Trees) /\ main # <<>>
           /\ Head(todo) \in Inner \union {"qa"} => Head(Rest) \in {"qa", "escalate"}
           /\ Head(todo) = "escalate" => Head(Rest) \in {"qa", "escalate", "merge"}
<1>1. RecordsInv /\ Shaped(todo)
  BY DEF ReviewInv, MergeInv, ShapeInv
<1>2. Shaped(Rest) /\ Link(Head(todo), Head(Rest))
  BY <1>1, RestShaped DEF Rest
<1>3. /\ mode \in Modes /\ ws \in Trees /\ branch \in Seq(Trees) /\ branch # <<>> /\ HeadTree \in Trees
      /\ main \in Seq(Trees) /\ main # <<>>
  BY LastTyped DEF AttemptInv, TreesInv, Working, HeadTree
<1>4. Head(todo) \in Inner \union {"qa"} => Head(Rest) \in {"qa", "escalate"}
  BY <1>2 DEF Link, Late, Inner, Ending, FallbackSteps
<1>5. Head(todo) = "escalate" => Head(Rest) \in {"qa", "escalate", "merge"}
  BY <1>2 DEF Link, Late, Inner, Ending, FallbackSteps
<1> QED BY <1>1, <1>2, <1>3, <1>4, <1>5

\* What every step that keeps the attempt going keeps.
LEMMA AttemptKept ==
    ASSUME AttemptInv, ReviewInv, Working, RecordsInv', UNCHANGED <<task, main>>,
           Extends(branch) => Extends(branch'),
           Shaped(todo'), Head(todo') \notin Deep \/ task.fallback
    PROVE  RecordsInv' /\ ShapeInv' /\ PrefixInv' /\ CalledInv'
<1>1. ShapeInv'
  BY DEF ReviewInv, MergeInv, ShapeInv
<1>2. PrefixInv'
  <2>1. branch # <<>>
    BY DEF AttemptInv, TreesInv, Working
  <2> QED BY <2>1 DEF ReviewInv, MergeInv, PrefixInv, Extends
<1>3. CalledInv'
  BY DEF CalledInv
<1> QED BY <1>1, <1>2, <1>3

\* The head of the branch and what is skipped, when neither branch nor mode changes.
LEMMA SameHead == ASSUME branch' = branch PROVE HeadTree' = HeadTree
BY DEF HeadTree

LEMMA SameSkip == ASSUME mode' = mode PROVE Skip' = Skip /\ (task' = task => Gated' = Gated)
BY DEF Skip, Contracts, Gated

LEMMA ValidateStep == ASSUME AttemptInv, ReviewInv, Validate PROVE ReviewInv'
<1>1. Working /\ Head(todo) = "validate"
  <2>1. todo # <<>> /\ Head(todo) = "validate"
    BY DEF Validate, Do, Running
  <2> QED BY <2>1, InAttempt DEF Working, Attempting, TurnSteps
<1>2. RecordsInv /\ Shaped(Rest) /\ Link("validate", Head(Rest)) /\ ws \in Trees
  BY <1>1, InLate
<1>3. Head(Rest) = "qa"
  BY <1>2 DEF Link
<1>4. PICK verdict \in ValidateTask(ws, Task.targets) :
        LET tree == AfterValidate(ws, verdict)
            v == checkTaskMutations(tree, verdict)
        IN  /\ ws' = tree
            /\ at' = [at EXCEPT !.passed = v.ok, !.gate = v.gate, !.log = v.log,
                                !.blocked = IF at.repaired /\ v.ok THEN "" ELSE @]
            /\ todo' = IF ~v.ok /\ ~at.repaired /\ Repairable(v, at.blocked)
                       THEN <<"repair", "validate">> \o Rest ELSE Rest
            /\ seen' = IF v.ok THEN [seen EXCEPT !.good = tree] ELSE seen
  BY DEF Validate
<1> DEFINE v == checkTaskMutations(AfterValidate(ws, verdict), verdict)
<1> HIDE DEF v
<1>5. /\ ws' = AfterValidate(ws, verdict)
      /\ at' = [at EXCEPT !.passed = v.ok, !.gate = v.gate, !.log = v.log,
                          !.blocked = IF at.repaired /\ v.ok THEN "" ELSE @]
      /\ todo' = Rest \/ (~v.ok /\ todo' = <<"repair", "validate">> \o Rest)
      /\ seen' = IF v.ok THEN [seen EXCEPT !.good = ws'] ELSE seen
  BY <1>4 DEF v
<1>6. UNCHANGED <<task, main, branch, mode>> /\ HeadTree' = HeadTree
  BY SameHead DEF Validate, others
<1>7. (at'.passed <=> v.ok) /\ (v.ok => ws' = AutoFixImports(ws) /\ seen'.good = ws')
  <2>1. v.ok => verdict.ok
    BY DEF v, checkTaskMutations, Verdict
  <2> QED BY <1>2, <1>4, <1>5, <2>1, PassedVerdict DEF RecordsInv
<1>8. RecordsInv'
  <2>1. AutoFixImports(seen'.good) = seen'.good
    BY <1>2, <1>5, <1>7, AutoFix DEF RecordsInv
  <2> QED BY <1>2, <1>5, <1>6, <2>1 DEF RecordsInv
<1>9. /\ Shaped(todo') /\ Head(todo') \in {"qa", "repair"} /\ (at'.passed => Head(todo') = "qa")
  <2>1. Shaped(<<"repair", "validate">> \o Rest) /\ Head(<<"repair", "validate">> \o Rest) = "repair"
    <3>1. "repair" \in AttemptSteps /\ "validate" \in AttemptSteps /\ Link("repair", "validate")
      BY DEF AttemptSteps, TurnSteps, Link, Late, Inner, Ending, FallbackSteps
    <3> QED BY <1>2, <3>1, PairShaped
  <2> QED BY <1>2, <1>3, <1>5, <1>7, <2>1
<1>10. RecordsInv' /\ ShapeInv' /\ PrefixInv' /\ CalledInv'
  BY <1>1, <1>6, <1>8, <1>9, AttemptKept DEF Deep, Extends
<1>11. PassInv' /\ SoundInv' /\ LevelInv'
  BY <1>7, <1>9 DEF PassInv, SoundInv, Unblocked, LevelInv, Late, FallbackSteps
<1>12. PatchInv' /\ SameCodeInv' /\ VerdictInv' /\ PassedReviewInv'
  BY <1>9 DEF PatchInv, SameCodeInv, VerdictInv, PassedReviewInv, Inner
<1> QED BY <1>10, <1>11, <1>12 DEF ReviewInv, MergeInv

\* A step pushed in front of what follows a review.
LEMMA ReviewPushed ==
    ASSUME Shaped(Rest), Head(Rest) \in {"qa", "escalate", "merge"}, NEW a \in Inner \union {"fallback"},
           Head(Rest) = "merge" => a = "fallback"
    PROVE  Shaped(<<a>> \o Rest) /\ Head(<<a>> \o Rest) = a
<1>1. a \in AttemptSteps /\ Link(a, Head(Rest))
  BY DEF AttemptSteps, TurnSteps, FallbackSteps, Link, Inner, Late, Ending
<1> QED BY <1>1, PushShaped

LEMMA GateStep == ASSUME AttemptInv, ReviewInv, runQAGate PROVE ReviewInv'
<1>1. Working /\ Head(todo) = "qa"
  <2>1. todo # <<>> /\ Head(todo) = "qa"
    BY DEF runQAGate, Do, Running
  <2> QED BY <2>1, InAttempt DEF Working, Attempting, TurnSteps
<1>2. RecordsInv /\ Shaped(Rest) /\ Head(Rest) \in {"qa", "escalate"}
  BY <1>1, InLate
<1>3. UNCHANGED <<task, main, branch, mode, ws, seen>> /\ HeadTree' = HeadTree /\ Skip' = Skip
  BY SameHead, SameSkip DEF runQAGate
<1>4. \/ (~at.passed \/ at.blocked # "") /\ todo' = Rest /\ at' = at
      \/ Skip # "" /\ todo' = Rest /\ at' = at
      \/ \E reason \in {"persistence_failed", "artifact_changed"} : todo' = Rest /\ at' = [at EXCEPT !.blocked = reason]
      \/ /\ at.passed /\ at.blocked = "" /\ Skip = "" /\ ws = HeadTree
         /\ at' = [at EXCEPT !.attempt = 1] /\ todo' = <<"review">> \o Rest
  BY DEF runQAGate, Block
<1>5. Shaped(<<"review">> \o Rest) /\ Head(<<"review">> \o Rest) = "review"
  BY <1>2, ReviewPushed DEF Inner
<1>6. at.passed /\ at.blocked = "" => ws = seen.good
  BY <1>1 DEF ReviewInv, MergeInv, SoundInv, Unblocked
<1>7. /\ RecordsInv' /\ Shaped(todo') /\ Head(todo') \in {"qa", "escalate", "review"}
      /\ Head(todo') = "review" => at'.passed /\ at'.blocked = "" /\ at'.attempt = 1 /\ ws = HeadTree /\ Skip = ""
      /\ at'.passed /\ at'.blocked = "" => at.passed /\ at.blocked = ""
      /\ at'.passed /\ at'.blocked = "" /\ Head(todo') # "review" => Skip # ""
  BY <1>2, <1>3, <1>4, <1>5 DEF RecordsInv
<1>8. RecordsInv' /\ ShapeInv' /\ PrefixInv' /\ CalledInv'
  BY <1>1, <1>3, <1>7, AttemptKept DEF Deep, Extends
<1>9. PassInv' /\ SoundInv'
  BY <1>3, <1>6, <1>7 DEF PassInv, SoundInv, Unblocked, Late, Inner, FallbackSteps, Ending
<1>10. LevelInv'
  BY <1>3, <1>7 DEF LevelInv, Level, Gated, Unblocked, Ending, FallbackSteps
<1>11. PatchInv' /\ SameCodeInv' /\ VerdictInv'
  <2>0. 1 \in Nat \ {0}
    OBVIOUS
  <2>1. Head(todo') \notin Inner \ {"review"}
    BY <1>7 DEF Inner
  <2>2. Head(todo') = "review" => QA.enabled /\ at'.attempt \in Nat \ {0} /\ at'.blocked = "" /\ at'.passed
    <3>1. Skip = "" => QA.enabled
      BY DEF Skip, SkipReason
    <3> QED BY <1>7, <2>0, <3>1
  <2>3. PatchInv'
    BY <2>1, <2>2 DEF PatchInv, Inner
  <2> QED BY <2>1, <2>3 DEF SameCodeInv, VerdictInv, Inner
<1>12. PassedReviewInv'
  BY <1>3, <1>7 DEF PassedReviewInv, Unblocked, Ending, FallbackSteps
<1> QED BY <1>8, <1>9, <1>10, <1>11, <1>12 DEF ReviewInv, MergeInv

LEMMA BeginReviewStep == ASSUME AttemptInv, ReviewInv, BeginReview PROVE ReviewInv'
<1>1. Working /\ Head(todo) = "review"
  <2>1. todo # <<>> /\ Head(todo) = "review"
    BY DEF BeginReview, Do, Running
  <2> QED BY <2>1, InAttempt DEF Working, Attempting, TurnSteps
<1>2. RecordsInv /\ Shaped(Rest) /\ Head(Rest) \in {"qa", "escalate"}
  BY <1>1, InLate DEF Inner
<1>3. UNCHANGED <<task, main, branch, mode, ws, seen>> /\ HeadTree' = HeadTree
  BY SameHead DEF BeginReview
<1>4. \/ at' = [at EXCEPT !.id = NewId, !.result = Locals.result] /\ todo' = <<"reviewing">> \o Rest
      \/ at' = [at EXCEPT !.blocked = "persistence_failed"] /\ todo' = Rest
  BY DEF BeginReview, Block
<1>5. Shaped(<<"reviewing">> \o Rest) /\ Head(<<"reviewing">> \o Rest) = "reviewing"
  BY <1>2, ReviewPushed DEF Inner
<1>6. QA.enabled /\ at.blocked = "" /\ at.attempt \in Nat \ {0} /\ at.passed /\ Level /\ ws = seen.good
  BY <1>1 DEF ReviewInv, MergeInv, LevelInv, SoundInv, Unblocked, PatchInv, Inner
<1>7. /\ RecordsInv' /\ Shaped(todo') /\ Head(todo') \in {"qa", "escalate", "reviewing"}
      /\ at'.passed = at.passed
      /\ Head(todo') = "reviewing" => at'.blocked = "" /\ at'.attempt = at.attempt /\ at'.result = Locals.result
      /\ Head(todo') # "reviewing" => at'.blocked # ""
  BY <1>2, <1>3, <1>4, <1>5, <1>6 DEF RecordsInv
<1>8. "patch" \in DOMAIN Locals.result /\ ~Locals.result.patch
  BY DEF Locals, Result
<1>9. RecordsInv' /\ ShapeInv' /\ PrefixInv' /\ CalledInv'
  BY <1>1, <1>3, <1>7, AttemptKept DEF Deep, Extends
<1>10. PassInv' /\ SoundInv' /\ LevelInv'
  BY <1>3, <1>6, <1>7 DEF PassInv, SoundInv, Unblocked, LevelInv, Level, Late, Inner, FallbackSteps, Ending
<1>11. PatchInv' /\ SameCodeInv' /\ VerdictInv'
  BY <1>3, <1>6, <1>7, <1>8 DEF PatchInv, SameCodeInv, VerdictInv, Inner
<1>12. PassedReviewInv'
  BY <1>3, <1>7 DEF PassedReviewInv, Unblocked, Ending, FallbackSteps
<1> QED BY <1>9, <1>10, <1>11, <1>12 DEF ReviewInv, MergeInv

\* The review of a commit: a patch comes with the first one only, a pass is recorded with
\* the code that was reviewed.
LEMMA EndReviewStep == ASSUME AttemptInv, ReviewInv, EndReview PROVE ReviewInv'
<1>1. Working /\ Head(todo) = "reviewing"
  <2>1. todo # <<>> /\ Head(todo) = "reviewing"
    BY DEF EndReview, Do, Running
  <2> QED BY <2>1, InAttempt DEF Working, Attempting, TurnSteps
<1>2. RecordsInv /\ Shaped(Rest) /\ Head(Rest) \in {"qa", "escalate"}
  BY <1>1, InLate DEF Inner
<1>3. UNCHANGED <<task, main, branch, mode, ws>> /\ HeadTree' = HeadTree
  BY SameHead DEF EndReview
<1>4. Shaped(todo') /\ Head(todo') = "reviewed"
  BY <1>2, ReviewPushed DEF Inner, EndReview
<1>5. /\ QA.enabled /\ at.blocked = "" /\ at.attempt \in Nat \ {0} /\ at.passed /\ Level /\ ws = seen.good
      /\ "patch" \in DOMAIN at.result /\ ~at.result.patch
  BY <1>1 DEF ReviewInv, MergeInv, LevelInv, SoundInv, Unblocked, PatchInv, Inner
<1>6. PICK r \in Review(HeadTree, Len(branch), at.attempt = 1, Contracts), saved \in BOOLEAN, cleaned \in BOOLEAN :
        LET review == IF cleaned \/ ~saved THEN r
                      ELSE [r EXCEPT !.status = "INCONCLUSIVE", !.reason = "isolation_failed"]
        IN  /\ at' = IF ~saved /\ at.attempt > 1 THEN Block("persistence_failed")
                     ELSE [at EXCEPT !.result = review, !.applied = saved]
            /\ seen' = IF review.status = "PASS" THEN [seen EXCEPT !.reviewed = HeadTree.impl] ELSE seen
  BY DEF EndReview
<1>7. /\ {"status", "reason", "patch"} \subseteq DOMAIN r /\ r.status # "SKIPPED" /\ (r.status # "PASS" => r.reason # "")
      /\ r.patch => at.attempt = 1
  BY <1>6, ReviewResults
<1> DEFINE review == IF cleaned \/ ~saved THEN r
                     ELSE [r EXCEPT !.status = "INCONCLUSIVE", !.reason = "isolation_failed"]
<1>8. /\ "patch" \in DOMAIN review /\ review.status # "SKIPPED" /\ (review.status # "PASS" => review.reason # "")
      /\ review.patch => at.attempt = 1
  BY <1>7
<1>9. /\ \/ at' = [at EXCEPT !.blocked = "persistence_failed"]
         \/ at' = [at EXCEPT !.result = review, !.applied = saved]
      /\ seen' = IF review.status = "PASS" THEN [seen EXCEPT !.reviewed = HeadTree.impl] ELSE seen
  BY <1>6 DEF Block
<1> HIDE DEF review
<1>10. /\ RecordsInv' /\ at'.passed = at.passed /\ at'.attempt = at.attempt
       /\ seen'.good = seen.good
       /\ review.status = "PASS" => seen'.reviewed = HeadTree.impl
       /\ \/ at'.blocked = "persistence_failed" /\ at'.result = at.result
          \/ at'.blocked = "" /\ at'.result = review
  BY <1>2, <1>3, <1>5, <1>9 DEF RecordsInv
<1>11. RecordsInv' /\ ShapeInv' /\ PrefixInv' /\ CalledInv'
  BY <1>1, <1>3, <1>4, <1>10, AttemptKept DEF Deep, Extends
<1>12. PassInv' /\ SoundInv' /\ LevelInv'
  BY <1>3, <1>4, <1>5, <1>10 DEF PassInv, SoundInv, Unblocked, LevelInv, Level, Late, Inner, FallbackSteps, Ending
<1>13. PatchInv'
  BY <1>4, <1>5, <1>8, <1>10 DEF PatchInv, Inner
<1>14. SameCodeInv' /\ VerdictInv'
  BY <1>3, <1>4, <1>5, <1>8, <1>10 DEF SameCodeInv, VerdictInv
<1>15. PassedReviewInv'
  BY <1>4 DEF PassedReviewInv
<1> QED BY <1>11, <1>12, <1>13, <1>14, <1>15 DEF ReviewInv, MergeInv

\* What the gate makes of it: a patch is never left in the worktree without a step that
\* commits it, as a review with findings is always followed by a first fix.
LEMMA ReviewedStep == ASSUME AttemptInv, ReviewInv, Reviewed PROVE ReviewInv'
<1>1. Working /\ Head(todo) = "reviewed"
  <2>1. todo # <<>> /\ Head(todo) = "reviewed"
    BY DEF Reviewed, Do, Running
  <2> QED BY <2>1, InAttempt DEF Working, Attempting, TurnSteps
<1>2. RecordsInv /\ Shaped(Rest) /\ Head(Rest) \in {"qa", "escalate"} /\ ws \in Trees
  BY <1>1, InLate DEF Inner
<1>3. UNCHANGED <<task, main, branch, mode, seen>> /\ HeadTree' = HeadTree
  BY SameHead DEF Reviewed, others
<1> DEFINE r == at.result
           blocked == at.blocked # ""
           more == r.status = "FINDINGS" /\ at.attempt <= QA.rounds
           patched == r.patch /\ r.status \in {"PASS", "FINDINGS"}
<1>4. PICK tests \in mode.suites \union {ws.tests} :
            /\ tests # ws.tests => patched
            /\ ws' = [ws EXCEPT !.tests = tests]
            /\ at' = IF blocked \/ more \/ r.status \in {"PASS", "SKIPPED"} THEN at ELSE Block(r.reason)
            /\ todo' = IF blocked THEN Rest
                       ELSE IF more THEN <<"fix">> \o Rest
                       ELSE IF r.status = "PASS" /\ patched THEN <<"takePatch">> \o Rest
                       ELSE Rest
  BY DEF Reviewed
<1>5. /\ QA.enabled /\ at.attempt \in Nat \ {0} /\ at.passed /\ (~blocked => Level /\ ws = seen.good)
      /\ r.patch => ~blocked /\ at.attempt = 1
      /\ ~blocked => /\ r.status # "SKIPPED"
                     /\ r.status = "PASS" => HeadTree.impl = seen.reviewed
                     /\ r.status # "PASS" => r.reason # ""
  BY <1>1 DEF ReviewInv, MergeInv, LevelInv, SoundInv, Unblocked, PatchInv, VerdictInv, Inner
<1>6. patched /\ ~more => r.status = "PASS"
  <2>1. 1 <= QA.rounds
    <3>1. QA.enabled
      BY <1>5, Zenon
    <3>2. QA.rounds \in Nat /\ (QA.enabled => QA.rounds # 0)
      BY AttemptAssumption, Zenon
    <3>3. QA.rounds # 0
      BY <3>1, <3>2, Zenon
    <3> QED BY <3>2, <3>3
  <2>2. patched => at.attempt <= QA.rounds
    BY <1>5, <2>1
  <2> QED BY <2>2
<1>7. ws'.impl = ws.impl /\ (~patched => ws' = ws) /\ (~blocked => AutoFixImports(ws') = ws')
  <2>1. ~patched => tests = ws.tests
    BY <1>4
  <2>2. ~blocked => AutoFixImports(ws') = ws'
    BY <1>2, <1>4, <1>5, TestsOnly DEF RecordsInv
  <2> QED BY <1>2, <1>4, <2>1, <2>2 DEF Trees
<1>8. \/ blocked /\ at' = at /\ todo' = Rest
      \/ ~blocked /\ more /\ at' = at /\ todo' = <<"fix">> \o Rest
      \/ ~blocked /\ ~more /\ r.status = "PASS" /\ patched /\ at' = at /\ todo' = <<"takePatch">> \o Rest
      \/ ~blocked /\ ~more /\ r.status = "PASS" /\ ~patched /\ at' = at /\ todo' = Rest
      \/ ~blocked /\ ~more /\ r.status # "PASS" /\ at' = [at EXCEPT !.blocked = r.reason] /\ todo' = Rest
  <2>1. ~blocked => r.status # "SKIPPED"
    BY <1>5
  <2>2. more => r.status # "PASS"
    OBVIOUS
  <2> HIDE DEF more, patched, blocked, r
  <2>3. CASE blocked
    BY <1>4, <2>3
  <2>4. CASE ~blocked /\ more
    BY <1>4, <2>4
  <2>5. CASE ~blocked /\ ~more /\ r.status = "PASS"
    BY <1>4, <2>5
  <2>6. CASE ~blocked /\ ~more /\ r.status # "PASS"
    BY <1>4, <2>1, <2>6 DEF Block
  <2> QED BY <2>3, <2>4, <2>5, <2>6
<1> HIDE DEF more, patched
<1>9. /\ Shaped(<<"fix">> \o Rest) /\ Head(<<"fix">> \o Rest) = "fix"
      /\ Shaped(<<"takePatch">> \o Rest) /\ Head(<<"takePatch">> \o Rest) = "takePatch"
  BY <1>2, ReviewPushed DEF Inner
<1>10. /\ RecordsInv' /\ Shaped(todo') /\ Head(todo') \in {"qa", "escalate", "fix", "takePatch"}
       /\ at'.passed = at.passed /\ at'.attempt = at.attempt
       /\ at'.blocked = "" => ~blocked
       /\ Head(todo') \in {"qa", "escalate"} => ws' = ws
       /\ Head(todo') = "takePatch" => ~blocked /\ ws.impl = HeadTree.impl
       /\ Head(todo') \in {"qa", "escalate", "takePatch"} /\ at'.blocked = "" => HeadTree.impl = seen.reviewed
  <2>1. blocked => ~patched
    BY <1>5 DEF patched
  <2>2. patched => at.attempt = 1
    BY <1>5 DEF patched
  <2>3. CASE blocked /\ at' = at /\ todo' = Rest
    BY <1>2, <1>3, <1>7, <2>1, <2>3 DEF RecordsInv
  <2>4. CASE ~blocked /\ more /\ at' = at /\ todo' = <<"fix">> \o Rest
    BY <1>2, <1>3, <1>9, <2>4 DEF RecordsInv
  <2>5. CASE ~blocked /\ ~more /\ r.status = "PASS" /\ patched /\ at' = at /\ todo' = <<"takePatch">> \o Rest
    BY <1>2, <1>3, <1>5, <1>9, <2>2, <2>5 DEF RecordsInv, Level
  <2>6. CASE ~blocked /\ ~more /\ r.status = "PASS" /\ ~patched /\ at' = at /\ todo' = Rest
    BY <1>2, <1>3, <1>5, <1>7, <2>6 DEF RecordsInv
  <2>7. CASE ~blocked /\ ~more /\ r.status # "PASS" /\ at' = [at EXCEPT !.blocked = r.reason] /\ todo' = Rest
    BY <1>2, <1>3, <1>5, <1>6, <1>7, <2>7 DEF RecordsInv
  <2> QED BY <1>8, <2>3, <2>4, <2>5, <2>6, <2>7
<1>11. RecordsInv' /\ ShapeInv' /\ PrefixInv' /\ CalledInv'
  BY <1>1, <1>3, <1>10, AttemptKept DEF Deep, Extends
<1>12. PassInv' /\ SoundInv' /\ LevelInv'
  BY <1>3, <1>5, <1>10 DEF PassInv, SoundInv, Unblocked, LevelInv, Level, Late, Inner, FallbackSteps, Ending
<1>13. PatchInv' /\ SameCodeInv' /\ VerdictInv'
  BY <1>3, <1>5, <1>7, <1>10 DEF PatchInv, SameCodeInv, VerdictInv
<1>14. PassedReviewInv'
  BY <1>3, <1>10 DEF PassedReviewInv, Unblocked, Ending, FallbackSteps
<1> QED BY <1>11, <1>12, <1>13, <1>14 DEF ReviewInv, MergeInv

LEMMA TakePatchStep == ASSUME AttemptInv, ReviewInv, TakePatch PROVE ReviewInv'
<1>1. Working /\ Head(todo) = "takePatch"
  <2>1. todo # <<>> /\ Head(todo) = "takePatch"
    BY DEF TakePatch, Do, Running
  <2> QED BY <2>1, InAttempt DEF Working, Attempting, TurnSteps
<1>2. /\ RecordsInv /\ Shaped(Rest) /\ Head(Rest) \in {"qa", "escalate"} /\ ws \in Trees
      /\ branch \in Seq(Trees) /\ branch # <<>> /\ main \in Seq(Trees)
  BY <1>1, InLate DEF Inner
<1>3. UNCHANGED <<task, main, mode>> /\ Skip' = Skip /\ todo' = Rest
  BY SameSkip DEF TakePatch, others
<1>4. PICK v \in ValidateTask(ws, Task.targets), ok \in BOOLEAN, taken \in BOOLEAN :
            /\ branch' = Kept(ok, branch, ws) /\ (taken => ok)
            /\ ws' = IF taken THEN AfterValidate(ws, v) ELSE ws
            /\ at' = IF ~taken THEN Block("tester_patch_failed")
                     ELSE IF ~v.ok THEN Block("validation_failed")
                     ELSE at
            /\ seen' = IF taken /\ v.ok THEN [seen EXCEPT !.good = ws'] ELSE seen
  BY DEF TakePatch, StageAndCommit
<1>5. /\ ws.impl = HeadTree.impl /\ AutoFixImports(ws) = ws
      /\ Skip = "" /\ ~task.fallback /\ at.passed /\ at.blocked = "" => HeadTree.impl = seen.reviewed
  BY <1>1 DEF ReviewInv, SameCodeInv, PassedReviewInv, Unblocked
<1>6. /\ Extends(branch) => Extends(branch')
      /\ \/ at' = at /\ HeadTree' = ws /\ ws' = ws /\ seen' = [seen EXCEPT !.good = ws]
         \/ \E reason \in {"tester_patch_failed", "validation_failed"} : at' = [at EXCEPT !.blocked = reason] /\ seen' = seen
  <2>1. Extends(branch) => Extends(branch')
    BY <1>2, <1>3, <1>4, CommittedExtends DEF Extends
  <2>2. CASE taken /\ v.ok
    <3>1. ws' = AfterValidate(ws, v) /\ at' = at /\ seen' = [seen EXCEPT !.good = ws'] /\ ok
      BY <1>4, <2>2
    <3>2. ws' = ws
      BY <1>5, <2>2, <3>1, PassedVerdict
    <3>3. HeadTree' = ws
      BY <1>2, <1>4, <3>1, KeptTyped DEF HeadTree
    <3> QED BY <2>1, <3>1, <3>2, <3>3
  <2>3. CASE ~taken
    <3>1. at' = [at EXCEPT !.blocked = "tester_patch_failed"] /\ seen' = seen
      BY <1>4, <2>3 DEF Block
    <3> QED BY <2>1, <3>1
  <2>4. CASE taken /\ ~v.ok
    <3>1. at' = [at EXCEPT !.blocked = "validation_failed"] /\ seen' = seen
      BY <1>4, <2>4 DEF Block
    <3> QED BY <2>1, <3>1
  <2> QED BY <2>2, <2>3, <2>4
<1>7. /\ RecordsInv' /\ seen'.reviewed = seen.reviewed
      /\ at'.blocked = "" => at' = at /\ HeadTree' = ws /\ ws' = ws /\ seen'.good = ws
  BY <1>2, <1>3, <1>5, <1>6 DEF RecordsInv
<1>8. RecordsInv' /\ ShapeInv' /\ PrefixInv' /\ CalledInv'
  BY <1>1, <1>2, <1>3, <1>6, <1>7, AttemptKept DEF Deep
<1>9. PassInv' /\ SoundInv' /\ LevelInv'
  BY <1>2, <1>3, <1>7 DEF PassInv, SoundInv, Unblocked, LevelInv, Level, Late, Inner, FallbackSteps, Ending
<1>10. PatchInv' /\ SameCodeInv' /\ VerdictInv'
  BY <1>2, <1>3 DEF PatchInv, SameCodeInv, VerdictInv, Inner
<1>11. PassedReviewInv'
  BY <1>2, <1>3, <1>5, <1>7 DEF PassedReviewInv, Unblocked, Ending, FallbackSteps
<1> QED BY <1>8, <1>9, <1>10, <1>11 DEF ReviewInv, MergeInv

LEMMA FixStep == ASSUME AttemptInv, ReviewInv, Fix PROVE ReviewInv'
<1>1. Working /\ Head(todo) = "fix"
  <2>1. todo # <<>> /\ Head(todo) = "fix"
    BY DEF Fix, Do, Running
  <2> QED BY <2>1, InAttempt DEF Working, Attempting, TurnSteps
<1>2. /\ RecordsInv /\ Shaped(Rest) /\ Head(Rest) \in {"qa", "escalate"} /\ ws \in Trees
      /\ branch \in Seq(Trees) /\ branch # <<>> /\ main \in Seq(Trees) /\ mode \in Modes
  BY <1>1, InLate DEF Inner
<1>3. UNCHANGED <<task, main, mode>>
  BY DEF Fix, others
<1>4. PICK impl \in mode.code \union {ws.impl}, ok \in BOOLEAN :
        LET tree == [ws EXCEPT !.impl = impl]
        IN  \E v \in ValidateTask(tree, Task.targets) :
            LET taken == ok /\ tree # HeadTree
                reason == IF ~taken THEN "artifact_changed"
                          ELSE IF ~v.ok THEN "validation_failed"
                          ELSE ""
            IN  /\ StageAndCommit(ok, tree)
                /\ ws' = IF taken THEN AfterValidate(tree, v) ELSE tree
                /\ at' = [Block(reason) EXCEPT !.attempt = @ + 1]
                /\ todo' = IF reason = "" THEN <<"review">> \o Rest ELSE Rest
                /\ seen' = IF reason = "" THEN [seen EXCEPT !.good = ws'] ELSE seen
  BY DEF Fix
<1> DEFINE tree == [ws EXCEPT !.impl = impl]
<1>5. tree \in Trees
  <2>1. ws.tests \in mode.suites \union {ws.tests}
    OBVIOUS
  <2> QED BY <1>2, <2>1, Written
<1> HIDE DEF tree
<1>6. PICK v \in ValidateTask(tree, Task.targets) :
               LET taken == ok /\ tree # HeadTree
                   reason == IF ~taken THEN "artifact_changed"
                             ELSE IF ~v.ok THEN "validation_failed"
                             ELSE ""
               IN  /\ StageAndCommit(ok, tree)
                   /\ ws' = IF taken THEN AfterValidate(tree, v) ELSE tree
                   /\ at' = [Block(reason) EXCEPT !.attempt = @ + 1]
                   /\ todo' = IF reason = "" THEN <<"review">> \o Rest ELSE Rest
                   /\ seen' = IF reason = "" THEN [seen EXCEPT !.good = ws'] ELSE seen
  BY <1>4 DEF tree
<1> DEFINE reason == IF ~(ok /\ tree # HeadTree) THEN "artifact_changed" ELSE IF ~v.ok THEN "validation_failed" ELSE ""
<1>7. /\ branch' = Kept(ok, branch, tree)
      /\ reason = "" => ok /\ v.ok /\ ws' = AfterValidate(tree, v)
      /\ at' = [[at EXCEPT !.blocked = reason] EXCEPT !.attempt = @ + 1]
      /\ todo' = IF reason = "" THEN <<"review">> \o Rest ELSE Rest
      /\ seen' = IF reason = "" THEN [seen EXCEPT !.good = ws'] ELSE seen
  BY <1>6 DEF Block, StageAndCommit
<1> HIDE DEF reason
<1>8. /\ Extends(branch) => Extends(branch')
      /\ reason = "" => /\ HeadTree' = tree /\ ws' = AutoFixImports(tree)
                        /\ AutoFixImports(ws') = ws' /\ AutoFixImports(ws') = AutoFixImports(tree)
  <2>1. Extends(branch) => Extends(branch')
    BY <1>2, <1>3, <1>5, <1>7, CommittedExtends DEF Extends
  <2>2. reason = "" => HeadTree' = tree /\ ws' = AutoFixImports(tree)
    BY <1>2, <1>5, <1>7, KeptTyped, PassedVerdict DEF HeadTree
  <2> QED BY <1>5, <2>1, <2>2, AutoFix
<1>9. QA.enabled /\ at.attempt \in Nat \ {0} /\ at.passed
  BY <1>1 DEF ReviewInv, MergeInv, PatchInv, Inner
<1>10. Shaped(<<"review">> \o Rest) /\ Head(<<"review">> \o Rest) = "review"
  BY <1>2, ReviewPushed DEF Inner
<1>11. /\ RecordsInv' /\ at'.blocked = reason /\ at'.attempt = at.attempt + 1 /\ at'.passed = at.passed
       /\ reason = "" => seen'.good = ws'
  BY <1>2, <1>3, <1>7, <1>8 DEF RecordsInv
<1>12. /\ Shaped(todo') /\ Head(todo') \in {"qa", "escalate", "review"}
       /\ Head(todo') = "review" <=> reason = ""
  BY <1>2, <1>7, <1>10
<1>13. at'.attempt \in Nat \ {0} /\ at'.attempt # 1
  <2>1. \A n \in Nat \ {0} : n + 1 \in Nat \ {0} /\ n + 1 # 1
    OBVIOUS
  <2> QED BY <1>9, <1>11, <2>1
<1>14. RecordsInv' /\ ShapeInv' /\ PrefixInv' /\ CalledInv'
  BY <1>1, <1>3, <1>8, <1>11, <1>12, AttemptKept DEF Deep
<1>15. PassInv' /\ SoundInv' /\ LevelInv'
  BY <1>8, <1>11, <1>12, <1>13 DEF PassInv, SoundInv, Unblocked, LevelInv, Level, Late, Inner, FallbackSteps, Ending
<1>16. PatchInv' /\ SameCodeInv' /\ VerdictInv'
  BY <1>9, <1>11, <1>12, <1>13 DEF PatchInv, SameCodeInv, VerdictInv, Inner
<1>17. PassedReviewInv'
  BY <1>11, <1>12 DEF PassedReviewInv, Unblocked, Ending, FallbackSteps
<1> QED BY <1>14, <1>15, <1>16, <1>17 DEF ReviewInv, MergeInv

LEMMA EscalateStep == ASSUME AttemptInv, ReviewInv, Escalate PROVE ReviewInv'
<1>1. Working /\ Head(todo) = "escalate"
  <2>1. todo # <<>> /\ Head(todo) = "escalate"
    BY DEF Escalate, Do, Running
  <2> QED BY <2>1, InAttempt DEF Working, Attempting, TurnSteps
<1>2. RecordsInv /\ Shaped(Rest) /\ Head(Rest) \in {"qa", "escalate", "merge"}
  BY <1>1, InLate
<1>3. UNCHANGED <<task, main, branch, mode, ws, seen>> /\ HeadTree' = HeadTree /\ Skip' = Skip /\ Gated' = Gated
  BY SameHead, SameSkip DEF Escalate, others
<1>4. PICK passed, log : /\ passed <=> at.passed /\ at.blocked = ""
                         /\ at' = [at EXCEPT !.passed = passed, !.log = log]
                         /\ todo' = Rest \/ (~passed /\ todo' = <<"fallback">> \o Rest)
  BY DEF Escalate
<1>5. Shaped(<<"fallback">> \o Rest) /\ Head(<<"fallback">> \o Rest) = "fallback"
  BY <1>2, ReviewPushed
<1>6. /\ at.passed /\ at.blocked = "" => ws = seen.good /\ (Gated => Level)
      /\ Skip = "" /\ ~task.fallback /\ at.passed /\ at.blocked = "" => HeadTree.impl = seen.reviewed
  BY <1>1 DEF ReviewInv, MergeInv, LevelInv, SoundInv, Unblocked, PassedReviewInv
<1>7. /\ RecordsInv' /\ Shaped(todo') /\ Head(todo') \in {"qa", "escalate", "merge", "fallback"}
      /\ at'.passed => at.passed /\ at.blocked = "" /\ Head(todo') # "fallback"
      /\ at'.attempt = at.attempt
  BY <1>2, <1>3, <1>4, <1>5 DEF RecordsInv
<1>8. RecordsInv' /\ ShapeInv' /\ PrefixInv' /\ CalledInv'
  BY <1>1, <1>3, <1>7, AttemptKept DEF Deep, Extends
<1>9. PassInv' /\ SoundInv' /\ LevelInv'
  BY <1>3, <1>6, <1>7 DEF PassInv, SoundInv, Unblocked, LevelInv, Level, Late, Inner, FallbackSteps, Ending
<1>10. PatchInv' /\ SameCodeInv' /\ VerdictInv'
  BY <1>7 DEF PatchInv, SameCodeInv, VerdictInv, Inner
<1>11. PassedReviewInv'
  BY <1>3, <1>6, <1>7 DEF PassedReviewInv, Unblocked
<1> QED BY <1>8, <1>9, <1>10, <1>11 DEF ReviewInv, MergeInv

-----------------------------------------------------------------------------
(* The fallback agent in an attempt, and the end of the attempt. *)

LEMMA Apart ==
    ASSUME NEW s \in Seq(AttemptSteps), s # <<>>, Last(s) = "closing"
    PROVE  FALSE
<1>1. Last(s) \in AttemptSteps
  BY LastTyped
<1> QED BY <1>1 DEF AttemptSteps, TurnSteps, FallbackSteps

\* When no attempt is running only the branch and the record of the task count.
LEMMA Outside ==
    ASSUME RecordsInv', todo' = <<>> \/ Last(todo') = "closing", PrefixInv'
    PROVE  ReviewInv'
<1>1. ~Working'
  BY Apart DEF Working, Attempting
<1> QED BY <1>1 DEF ReviewInv, MergeInv, ShapeInv, PassInv, SoundInv, LevelInv, PatchInv, SameCodeInv, VerdictInv,
                    PassedReviewInv, CalledInv

\* A step of the repair of the integration branch.
LEMMA RepairKept ==
    ASSUME RecordsInv', Finished, task' = task, todo' = <<>> \/ Last(todo') = "closing"
    PROVE  ReviewInv'
<1>1. PrefixInv'
  BY DEF PrefixInv, Finished
<1> QED BY <1>1, Outside

\* What the agent finds on the list of an attempt.
LEMMA InAgent ==
    ASSUME AttemptInv, ReviewInv, Working, Head(todo) \in FallbackSteps
    PROVE  /\ RecordsInv /\ Shaped(todo) /\ Shaped(Rest) /\ Link(Head(todo), Head(Rest)) /\ ~Global /\ ~at.passed
           /\ mode \in Modes /\ ws \in Trees /\ branch \in Seq(Trees) /\ branch # <<>> /\ HeadTree \in Trees
           /\ main \in Seq(Trees) /\ main # <<>> /\ Last(todo) = "merge"
           /\ Head(Rest) \in Late
           /\ Head(Rest) \notin Inner \union {"fallback", "turn"}
           /\ Head(todo) # "candidate" => Head(Rest) \notin {"candidate", "endTurn"}
           /\ Head(todo) # "fallback" => task.fallback
<1>1. Head(todo) # "merge"
  BY DEF FallbackSteps
<1>2. /\ RecordsInv /\ Shaped(todo) /\ Shaped(Rest) /\ Link(Head(todo), Head(Rest))
      /\ mode \in Modes /\ ws \in Trees /\ branch \in Seq(Trees) /\ branch # <<>> /\ HeadTree \in Trees
      /\ main \in Seq(Trees) /\ main # <<>>
  BY <1>1, InLate
<1>3. Last(todo) = "merge" /\ ~Global
  BY <1>2 DEF Shaped, Global
<1>4. ~at.passed /\ (Head(todo) # "fallback" => task.fallback)
  BY DEF ReviewInv, MergeInv, PassInv, CalledInv, Late, Ending, Inner, Deep, FallbackSteps
<1>5. /\ Head(Rest) \in Late /\ Head(Rest) \notin Inner \union {"fallback", "turn"}
      /\ Head(todo) # "candidate" => Head(Rest) \notin {"candidate", "endTurn"}
  BY <1>2 DEF Link, Late, Ending
<1> QED BY <1>2, <1>3, <1>4, <1>5

\* A step of the agent in an attempt: nothing has passed while it works.
LEMMA AgentKept ==
    ASSUME AttemptInv, ReviewInv, Working, Head(todo) \in FallbackSteps,
           RecordsInv', task'.fallback, task'.status = task.status, at' = at, Shaped(todo'), Head(todo') \notin Inner
    PROVE  ReviewInv'
<1>1. ~at.passed
  BY InAgent
<1>2. ShapeInv' /\ PassInv' /\ SoundInv' /\ LevelInv' /\ PassedReviewInv'
  BY <1>1 DEF ReviewInv, MergeInv, ShapeInv, PassInv, SoundInv, Unblocked, LevelInv, PassedReviewInv, Inner
<1>3. PatchInv' /\ SameCodeInv' /\ VerdictInv'
  BY DEF PatchInv, SameCodeInv, VerdictInv, Inner
<1>4. PrefixInv' /\ CalledInv'
  BY DEF PrefixInv, CalledInv
<1> QED BY <1>2, <1>3, <1>4 DEF ReviewInv, MergeInv

LEMMA AgentPushed ==
    ASSUME Shaped(Rest), Head(Rest) \in Late, Head(Rest) \notin Inner \union {"fallback", "turn", "candidate", "endTurn"}
    PROVE  /\ Shaped(<<"turn">> \o Rest) /\ Head(<<"turn">> \o Rest) = "turn"
           /\ Shaped(<<"candidate">> \o (<<"endTurn">> \o Rest))
           /\ Head(<<"candidate">> \o (<<"endTurn">> \o Rest)) = "candidate"
           /\ Shaped(<<"candidate">> \o (<<"candidate">> \o (<<"endTurn">> \o Rest)))
           /\ Head(<<"candidate">> \o (<<"candidate">> \o (<<"endTurn">> \o Rest))) = "candidate"
<1>1. \A a \in {"turn", "endTurn"} : a \in AttemptSteps /\ Link(a, Head(Rest))
  BY DEF AttemptSteps, FallbackSteps, Link, Late, Ending, Inner
<1>2. "candidate" \in AttemptSteps /\ Link("candidate", "endTurn") /\ Link("candidate", "candidate")
  BY DEF AttemptSteps, FallbackSteps, Link, Late, Ending, Inner
<1> DEFINE end == <<"endTurn">> \o Rest
           one == <<"candidate">> \o end
           two == <<"candidate">> \o one
<1>3. Shaped(<<"turn">> \o Rest) /\ Head(<<"turn">> \o Rest) = "turn" /\ Shaped(end) /\ Head(end) = "endTurn"
  BY <1>1, PushShaped
<1> HIDE DEF end
<1>4. Shaped(one) /\ Head(one) = "candidate"
  BY <1>2, <1>3, PushShaped
<1> HIDE DEF one
<1>5. Shaped(two) /\ Head(two) = "candidate"
  BY <1>2, <1>4, PushShaped
<1> QED BY <1>3, <1>4, <1>5 DEF end, one

\* The lists of a turn, whoever the agent works for.
LEMMA TurnList ==
    ASSUME AttemptInv, todo # <<>>, FallbackTurn
    PROVE  \/ todo' = <<"candidate">> \o (<<"endTurn">> \o Rest)
           \/ todo' = <<"candidate">> \o (<<"candidate">> \o (<<"endTurn">> \o Rest))
<1>1. PICK S : Rest \in Seq(S)
  BY RestTyped DEF AttemptInv, StepsInv, Attempting, Repairing
<1> QED BY <1>1 DEF FallbackTurn

LEMMA FallbackKept ==
    ASSUME AttemptInv, ReviewInv, AttemptInv', FallbackStart \/ FallbackTurn \/ FallbackEndTurn
    PROVE  ReviewInv'
<1>1. todo # <<>> /\ Head(todo) \in FallbackSteps /\ RecordsInv
  BY DEF FallbackStart, FallbackTurn, FallbackEndTurn, Do, Running, FallbackSteps, ReviewInv, MergeInv
<1>2. UNCHANGED <<at, seen>>
  BY DEF FallbackStart, FallbackTurn, FallbackEndTurn
<1>3. /\ FallbackStart => Head(todo) = "fallback" /\ todo' = <<"turn">> \o Rest
                          /\ task' = IF Global THEN task ELSE [task EXCEPT !.fallback = TRUE]
      /\ FallbackTurn => Head(todo) = "turn" /\ task' = task
      /\ FallbackEndTurn => Head(todo) = "endTurn" /\ task' = task /\ todo' \in {Rest, <<"turn">> \o Rest}
  BY DEF FallbackStart, FallbackTurn, FallbackEndTurn, Do
<1>4. RecordsInv'
  BY <1>1, <1>2, <1>3 DEF RecordsInv
<1>5. CASE Attempting
  <2>1. Working
    BY <1>1, <1>5 DEF Working
  <2>2. /\ Shaped(Rest) /\ Head(Rest) \in Late /\ Head(Rest) \notin Inner \union {"fallback", "turn", "candidate", "endTurn"}
        /\ ~Global
        /\ Head(todo) # "fallback" => task.fallback
    BY <1>1, <1>3, <2>1, InAgent
  <2>3. task'.fallback /\ task'.status = task.status
    BY <1>1, <1>3, <2>2 DEF RecordsInv
  <2>4. Shaped(todo') /\ Head(todo') \notin Inner
    BY <1>1, <1>3, <2>2, AgentPushed, TurnList DEF Inner
  <2> QED BY <1>1, <1>2, <1>4, <2>1, <2>2, <2>3, <2>4, AgentKept
<1>6. CASE Repairing
  <2>1. Rest \in Seq(RepairSteps) /\ Rest # <<>> /\ Last(Rest) = "closing" /\ Finished
    BY <1>1, <1>6, InRepair DEF FallbackSteps
  <2>2. todo' # <<>> /\ Last(todo') = "closing"
    <3>1. \A s, a : s \in Seq(RepairSteps) /\ s # <<>> /\ Last(s) = "closing" /\ a \in FallbackSteps
                       => /\ <<a>> \o s \in Seq(RepairSteps) /\ <<a>> \o s # <<>>
                          /\ Last(<<a>> \o s) = "closing"
      BY FallbackList
    <3> DEFINE end == <<"endTurn">> \o Rest
               one == <<"candidate">> \o end
               two == <<"candidate">> \o one
               turn == <<"turn">> \o Rest
               Fine(s) == s \in Seq(RepairSteps) /\ s # <<>> /\ Last(s) = "closing"
    <3>2. Fine(end) /\ Fine(turn)
      BY <2>1, <3>1 DEF FallbackSteps
    <3> HIDE DEF end
    <3>3. Fine(one)
      BY <3>1, <3>2 DEF FallbackSteps
    <3> HIDE DEF one
    <3>4. Fine(two)
      BY <3>1, <3>3 DEF FallbackSteps
    <3>5. todo' \in {Rest, turn, one, two}
      BY <1>1, <1>3, TurnList DEF end, one
    <3> HIDE DEF two, turn
    <3> QED BY <2>1, <3>2, <3>3, <3>4, <3>5
  <2>3. task' = task
    BY <1>3, <1>6 DEF Global, Running, Repairing, FallbackStart, FallbackTurn, FallbackEndTurn
  <2> QED BY <1>4, <2>1, <2>2, <2>3, RepairKept
<1> QED BY <1>5, <1>6 DEF AttemptInv, StepsInv

LEMMA CandidateKept == ASSUME AttemptInv, ReviewInv, Candidate PROVE ReviewInv'
<1>1. /\ todo # <<>> /\ Head(todo) = "candidate" /\ RecordsInv /\ UNCHANGED <<task, mode, main>>
      /\ mode \in Modes /\ ws \in Trees
  BY DEF Candidate, Do, Running, ReviewInv, MergeInv, AttemptInv, TreesInv
<1>2. \/ todo' = Rest /\ UNCHANGED <<at, seen>>
      \/ /\ \E tree \in Trees : ws' = AutoFixImports(tree)
         /\ at' = [at EXCEPT !.passed = TRUE, !.log = {}]
         /\ seen' = [seen EXCEPT !.good = ws']
         /\ todo' = <<Last(todo)>>
  <2> SUFFICES ASSUME ~(todo' = Rest /\ UNCHANGED <<at, seen>>)
               PROVE  /\ \E tree \in Trees : ws' = AutoFixImports(tree)
                      /\ at' = [at EXCEPT !.passed = TRUE, !.log = {}]
                      /\ seen' = [seen EXCEPT !.good = ws']
                      /\ todo' = <<Last(todo)>>
    OBVIOUS
  <2>1. PICK impl \in mode.code \union {ws.impl}, tests \in mode.suites \union {ws.tests} :
            \E v \in FallbackVerdicts([ws EXCEPT !.impl = impl, !.tests = tests]) :
                    /\ v.ok /\ ws' = AfterValidate([ws EXCEPT !.impl = impl, !.tests = tests], v)
                    /\ at' = [at EXCEPT !.passed = TRUE, !.log = {}]
                    /\ seen' = [seen EXCEPT !.good = ws']
                    /\ todo' = <<Last(todo)>>
    <3>1. PICK mutating \in BOOLEAN, ok \in BOOLEAN, undone \in BOOLEAN,
               impl \in mode.code \union {ws.impl}, tests \in mode.suites \union {ws.tests} :
            LET tree == [ws EXCEPT !.impl = impl, !.tests = tests]
                b == IF mutating THEN Kept(ok, branch, tree) ELSE branch
                out == SuiteRun(AutoFixImports(tree))
            IN  /\ tree = ws \/ mutating
                /\ ok \/ (mutating /\ tree # HeadTree)
                /\ MayFail(ok /\ undone) /\ faults' = Spent(ok /\ undone)
                /\ \E v \in FallbackVerdicts(tree) :
                    IF v.ok
                    THEN /\ undone /\ branch' = b /\ ws' = AfterValidate(tree, v)
                         /\ at' = [at EXCEPT !.passed = TRUE, !.log = {}]
                         /\ seen' = [seen EXCEPT !.good = ws']
                         /\ todo' = <<Last(todo)>> /\ fb' = NoFallback
                    ELSE /\ branch' = IF undone THEN Rollback(b) ELSE b
                         /\ ws' = IF undone THEN Last(branch') ELSE AfterValidate(tree, v)
                         /\ fb' = [fb EXCEPT !.mutating = @ \/ mutating, !.gate = v.gate,
                                      !.failed = IF v.gate = "runs" THEN out.total - out.passed ELSE 0,
                                      !.passed = IF v.gate = "runs" THEN out.passed ELSE 0]
                         /\ todo' = Rest /\ UNCHANGED <<at, seen>>
      BY DEF Candidate
    <3>2. PICK v \in FallbackVerdicts([ws EXCEPT !.impl = impl, !.tests = tests]) :
            IF v.ok
            THEN /\ ws' = AfterValidate([ws EXCEPT !.impl = impl, !.tests = tests], v)
                 /\ at' = [at EXCEPT !.passed = TRUE, !.log = {}]
                 /\ seen' = [seen EXCEPT !.good = ws']
                 /\ todo' = <<Last(todo)>>
            ELSE todo' = Rest /\ UNCHANGED <<at, seen>>
      BY <3>1
    <3> QED BY <3>2
  <2> DEFINE tree == [ws EXCEPT !.impl = impl, !.tests = tests]
  <2>2. tree \in Trees
    BY <1>1, Written
  <2> HIDE DEF tree
  <2>3. PICK v \in FallbackVerdicts(tree) :
            /\ v.ok /\ ws' = AfterValidate(tree, v)
            /\ at' = [at EXCEPT !.passed = TRUE, !.log = {}]
            /\ seen' = [seen EXCEPT !.good = ws']
            /\ todo' = <<Last(todo)>>
    BY <2>1 DEF tree
  <2> QED BY <2>2, <2>3, PassedFallbackVerdict
<1>3. CASE todo' = Rest /\ UNCHANGED <<at, seen>>
  <2>1. RecordsInv'
    BY <1>1, <1>3 DEF RecordsInv
  <2>2. CASE Attempting
    <3>1. Working
      BY <1>1, <2>2 DEF Working
    <3>2. Shaped(Rest) /\ Head(Rest) \notin Inner /\ task.fallback
      BY <1>1, <3>1, InAgent DEF FallbackSteps
    <3> QED BY <1>1, <1>3, <2>1, <3>1, <3>2, AgentKept DEF FallbackSteps
  <2>3. CASE Repairing
    <3>1. Last(Rest) = "closing" /\ Finished
      BY <1>1, <2>3, InRepair
    <3> QED BY <1>1, <1>3, <2>1, <3>1, RepairKept
  <2> QED BY <2>2, <2>3 DEF AttemptInv, StepsInv
<1>4. CASE /\ \E tree \in Trees : ws' = AutoFixImports(tree)
           /\ at' = [at EXCEPT !.passed = TRUE, !.log = {}]
           /\ seen' = [seen EXCEPT !.good = ws']
           /\ todo' = <<Last(todo)>>
  <2>1. AutoFixImports(ws') = ws'
    BY <1>4, AutoFix
  <2>2. RecordsInv' /\ seen'.good = ws'
    BY <1>1, <1>4, <2>1 DEF RecordsInv
  <2>3. CASE Attempting
    <3>1. Working
      BY <1>1, <2>3 DEF Working
    <3>2. Last(todo) = "merge" /\ task'.fallback
      BY <1>1, <3>1, InAgent DEF FallbackSteps
    <3>3. todo' = <<"merge">> /\ Head(todo') = "merge" /\ Shaped(todo')
      <4>1. "merge" \in AttemptSteps
        BY DEF AttemptSteps, TurnSteps
      <4> QED BY <1>4, <3>2, <4>1 DEF Shaped, Chained, Last
    <3>4. ShapeInv' /\ PassInv' /\ SoundInv' /\ LevelInv'
      BY <1>1, <2>2, <3>1, <3>2, <3>3 DEF ReviewInv, MergeInv, ShapeInv, PassInv, SoundInv, LevelInv, Gated, Late, Ending,
                                          FallbackSteps
    <3>5. PrefixInv' /\ PassedReviewInv' /\ CalledInv'
      BY <3>2, <3>3 DEF PrefixInv, PassedReviewInv, CalledInv
    <3>6. PatchInv' /\ SameCodeInv' /\ VerdictInv'
      BY <3>3 DEF PatchInv, SameCodeInv, VerdictInv, Inner
    <3> QED BY <2>2, <3>4, <3>5, <3>6 DEF ReviewInv, MergeInv
  <2>4. CASE Repairing
    <3>1. Finished
      BY <1>1, <2>4, InRepair
    <3>2. Last(todo') = "closing"
      BY <1>4, <2>4, ClosingList DEF Repairing
    <3> QED BY <1>1, <2>2, <3>1, <3>2, RepairKept
  <2> QED BY <2>3, <2>4 DEF AttemptInv, StepsInv
<1> QED BY <1>2, <1>3, <1>4

LEMMA MergeKept == ASSUME AttemptInv, ReviewInv, Merge PROVE ReviewInv'
<1>1. Working
  <2>1. todo # <<>> /\ Head(todo) = "merge"
    BY DEF Merge, Do, Running
  <2> QED BY <2>1, InAttempt DEF Working, Attempting, TurnSteps
<1>2. RecordsInv /\ (branch # <<>> /\ ~task.fallback => Extends(branch))
  BY <1>1 DEF ReviewInv, MergeInv, PrefixInv, ShapeInv
<1>3. /\ todo' = <<>> /\ at' = Locals /\ seen' = seen
      /\ branch' = <<>> \/ (branch' = branch /\ main' = main)
      /\ \/ task' = [task EXCEPT !.status = "SUCCESS"]
         \/ task' = [task EXCEPT !.status = "PENDING", !.retries = @ + 1]
         \/ task' = [task EXCEPT !.status = "FAILED"]
  BY DEF Merge
<1>4. RecordsInv' /\ task'.fallback = task.fallback
  BY <1>2, <1>3 DEF RecordsInv, Locals
<1>5. PrefixInv'
  BY <1>2, <1>3, <1>4 DEF PrefixInv, Extends
<1> QED BY <1>3, <1>4, <1>5, Outside

-----------------------------------------------------------------------------
(* The repair of the integration branch, dispatch and restarts. *)

LEMMA RepairsKept ==
    ASSUME AttemptInv, ReviewInv, Recheck \/ RepairTurn
    PROVE  ReviewInv'
<1>1. todo # <<>> /\ Head(todo) \in ClosingSteps \ {"closing"} /\ RecordsInv
  BY DEF Recheck, RepairTurn, Do, Running, ClosingSteps, ReviewInv, MergeInv
<1>2. Repairing
  BY <1>1, OnlyRepair
<1>3. Rest \in Seq(RepairSteps) /\ Rest # <<>> /\ Last(Rest) = "closing" /\ Finished /\ ws \in Trees
  BY <1>1, <1>2, InRepair DEF AttemptInv, TreesInv
<1>4. UNCHANGED <<task, main>>
  BY DEF Recheck, RepairTurn, others
<1>5. CASE Recheck
  <2>1. PICK v \in ValidateTask(ws, FALSE) :
            /\ ws' = AfterValidate(ws, v)
            /\ todo' = IF v.ok THEN <<"closing">> ELSE Rest
            /\ at' = [at EXCEPT !.passed = v.ok]
            /\ seen' = IF v.ok THEN [seen EXCEPT !.good = ws'] ELSE seen
    BY <1>5 DEF Recheck
  <2>2. ASSUME v.ok PROVE AutoFixImports(ws') = ws'
    <3>1. ws' = AutoFixImports(ws)
      BY <2>1, <2>2, PassedVerdict
    <3> QED BY <1>3, <3>1, AutoFix
  <2>3. RecordsInv'
    BY <1>1, <1>4, <2>1, <2>2 DEF RecordsInv
  <2>4. Last(todo') = "closing"
    BY <1>3, <2>1, ClosingList
  <2> QED BY <1>3, <1>4, <2>3, <2>4, RepairKept
<1>6. CASE RepairTurn
  <2>1. UNCHANGED <<at, seen>> /\ (todo' = Rest \/ todo' = Tail(Rest))
    BY <1>6 DEF RepairTurn
  <2>2. RecordsInv'
    BY <1>1, <1>4, <2>1 DEF RecordsInv
  <2>3. todo' = <<>> \/ Last(todo') = "closing"
    <3>1. CASE todo' = Rest
      BY <1>3, <3>1
    <3>2. CASE todo' = Tail(Rest) /\ todo' # <<>>
      <4>1. Len(Rest) \in Nat \ {0} /\ Len(Tail(Rest)) = Len(Rest) - 1 /\ Tail(Rest) \in Seq(RepairSteps)
            /\ \A i \in 1..Len(Tail(Rest)) : Tail(Rest)[i] = Rest[i + 1]
        BY <1>3, LastTyped, HeadTailProperties
      <4> DEFINE t == Tail(Rest)
      <4> HIDE DEF t
      <4>2. Len(Rest) \in Nat \ {0} /\ Len(t) = Len(Rest) - 1 /\ t \in Seq(RepairSteps) /\ t # <<>>
            /\ \A i \in 1..Len(t) : t[i] = Rest[i + 1]
        BY <3>2, <4>1 DEF t
      <4>3. Len(t) \in Nat \ {0}
        BY <4>2, LastTyped
      <4>4. Last(t) = Last(Rest)
        BY <4>2, <4>3 DEF Last
      <4> QED BY <1>3, <3>2, <4>4 DEF t
    <3> QED BY <2>1, <3>1, <3>2
  <2> QED BY <1>3, <1>4, <2>2, <2>3, RepairKept
<1> QED BY <1>5, <1>6

LEMMA ClosingKept == ASSUME AttemptInv, ReviewInv, Closing PROVE ReviewInv'
<1>1. todo # <<>> /\ Head(todo) \in ClosingSteps /\ RecordsInv
  BY DEF Closing, Do, Running, ClosingSteps, ReviewInv, MergeInv
<1>2. todo' = <<>> /\ branch' = <<>> /\ at' = Locals /\ UNCHANGED <<task, seen>>
  BY DEF Closing
<1>3. RecordsInv' /\ PrefixInv'
  BY <1>1, <1>2 DEF RecordsInv, Locals, PrefixInv
<1> QED BY <1>2, <1>3, Outside

LEMMA PostMergeKept == ASSUME AttemptInv, ReviewInv, PostMerge PROVE ReviewInv'
<1>1. /\ Finished /\ UNCHANGED <<task, seen>> /\ \E on : at' = [Locals EXCEPT !.onBranch = on]
      /\ todo' = <<"recheck", "repairTurn", "recheck", "repairTurn", "recheck">>
                 \o (IF Fallback.enabled THEN <<"fallback">> ELSE <<>>) \o <<"closing">>
  BY DEF PostMerge
<1>2. todo' # <<>> /\ Last(todo') = "closing"
  <2> DEFINE front == <<"recheck", "repairTurn", "recheck", "repairTurn", "recheck">>
                      \o (IF Fallback.enabled THEN <<"fallback">> ELSE <<>>)
  <2>1. front \in Seq(RepairSteps)
    <3>1. /\ <<"recheck", "repairTurn", "recheck", "repairTurn", "recheck">> \in Seq(RepairSteps)
          /\ <<"fallback">> \in Seq(RepairSteps) /\ <<>> \in Seq(RepairSteps)
      BY DEF RepairSteps, ClosingSteps, FallbackSteps
    <3> QED BY <3>1, ConcatProperties
  <2> HIDE DEF front
  <2>2. todo' = Append(front, "closing")
    BY <1>1, <2>1, ClosingList, AppendIsConcat DEF front, RepairSteps, ClosingSteps
  <2> QED BY <2>1, <2>2, AppendProperties DEF Last, RepairSteps, ClosingSteps
<1>3. RecordsInv'
  BY <1>1 DEF ReviewInv, MergeInv, RecordsInv, Locals
<1> QED BY <1>1, <1>2, <1>3, RepairKept

\* A restart in the repair of the integration branch leaves no branch behind.
LEMMA OutsideKept == ASSUME AttemptInv, ReviewInv, Heal \/ Restart PROVE ReviewInv'
<1>1. RecordsInv /\ PrefixInv
  BY DEF ReviewInv, MergeInv
<1>2. CASE Heal
  <2>1. /\ task.status = "IN_PROGRESS" /\ todo' = <<>> /\ UNCHANGED <<branch, at, main, seen>>
        /\ \/ task' = [task EXCEPT !.status = "FAILED"]
           \/ task' = [task EXCEPT !.status = "PENDING", !.stall = BypassStalls]
           \/ task' = [task EXCEPT !.stall = @ + 1, !.retries = @ + 1,
                                   !.status = IF task.retries + 1 >= MaxRetries THEN "FAILED" ELSE "PENDING"]
    BY <1>2 DEF Heal, Running
  <2>2. RecordsInv' /\ task'.fallback = task.fallback
    BY <1>1, <2>1 DEF RecordsInv
  <2>3. PrefixInv'
    BY <1>1, <2>1, <2>2 DEF PrefixInv, Extends
  <2> QED BY <2>1, <2>2, <2>3, Outside
<1>3. CASE Restart
  <2>1. /\ todo' = <<>> /\ at' = Locals /\ seen' = seen
        /\ branch' = <<>> \/ (branch' = branch /\ main' = main)
        /\ task' = task \/ task' = [task EXCEPT !.status = "INTERRUPTED"]
    BY <1>3 DEF Restart
  <2>2. /\ RecordsInv' /\ task'.fallback = task.fallback
        /\ task'.status \in {task.status, "INTERRUPTED"}
    BY <1>1, <2>1 DEF RecordsInv, Locals
  <2>3. PrefixInv'
    BY <1>1, <2>1, <2>2 DEF PrefixInv, Extends
  <2> QED BY <2>1, <2>2, <2>3, Outside
<1> QED BY <1>2, <1>3

LEMMA ChainConcat ==
    ASSUME NEW s \in Seq(AttemptSteps), s # <<>>, Chained(s), NEW t \in Seq(AttemptSteps), t # <<>>, Chained(t),
           Link(Last(s), Head(t))
    PROVE  /\ s \o t \in Seq(AttemptSteps) /\ s \o t # <<>> /\ Chained(s \o t)
           /\ Last(s \o t) = Last(t) /\ Head(s \o t) = Head(s)
<1>1. Len(s) \in Nat \ {0} /\ Len(t) \in Nat \ {0}
  BY LastTyped
<1>2. /\ s \o t \in Seq(AttemptSteps) /\ Len(s \o t) = Len(s) + Len(t)
      /\ \A i \in 1..(Len(s) + Len(t)) : (s \o t)[i] = IF i <= Len(s) THEN s[i] ELSE t[i - Len(s)]
  BY ConcatProperties
<1> DEFINE q == s \o t
<1> HIDE DEF q
<1>3. /\ q \in Seq(AttemptSteps) /\ Len(q) = Len(s) + Len(t)
      /\ \A i \in 1..(Len(s) + Len(t)) : q[i] = IF i <= Len(s) THEN s[i] ELSE t[i - Len(s)]
  BY <1>2 DEF q
<1>4. q # <<>>
  BY <1>1, <1>3, EmptySeq
<1>5. Last(q) = Last(t) /\ Head(q) = Head(s) /\ Head(t) = t[1]
  BY <1>1, <1>3, <1>4 DEF Last
<1>6. Chained(q)
  <2> SUFFICES ASSUME NEW i \in 1..(Len(q) - 1) PROVE Link(q[i], q[i + 1])
    BY DEF Chained
  <2>1. CASE i < Len(s)
    <3>1. i \in 1..(Len(s) - 1) /\ q[i] = s[i] /\ q[i + 1] = s[i + 1]
      BY <1>1, <1>3, <2>1
    <3> QED BY <3>1 DEF Chained
  <2>2. CASE i = Len(s)
    <3>1. q[i] = Last(s) /\ q[i + 1] = Head(t)
      BY <1>1, <1>3, <1>5, <2>2 DEF Last
    <3> QED BY <3>1
  <2>3. CASE i > Len(s)
    <3>1. i - Len(s) \in 1..(Len(t) - 1) /\ q[i] = t[i - Len(s)] /\ q[i + 1] = t[(i - Len(s)) + 1]
      BY <1>1, <1>3, <2>3
    <3> QED BY <3>1 DEF Chained
  <2> QED BY <1>1, <1>3, <2>1, <2>2, <2>3
<1> QED BY <1>3, <1>4, <1>5, <1>6 DEF q

\* The lists of steps that are dispatched.
Orderly(s) == s \in Seq(AttemptSteps) /\ s # <<>> /\ Chained(s) /\ Last(s) = "validate"
              /\ Head(s) \notin Late

LEMMA RefactorOrderly == Orderly(refactorTurn) /\ Head(refactorTurn) = "mark"
<1>1. /\ Link("mark", "generator") /\ Link("generator", "commitOrBlock") /\ Link("commitOrBlock", "evaluate")
      /\ Link("evaluate", "validate")
  BY DEF Link, Late, Inner, Ending, FallbackSteps
<1>2. Chained(refactorTurn)
  BY <1>1 DEF refactorTurn, Chained
<1>3. refactorTurn \in Seq(AttemptSteps)
  BY DEF refactorTurn, AttemptSteps, TurnSteps
<1>4. refactorTurn # <<>> /\ Last(refactorTurn) = "validate" /\ Head(refactorTurn) = "mark"
  BY DEF refactorTurn, Last
<1> QED BY <1>2, <1>3, <1>4 DEF Orderly, Late, Inner, Ending, FallbackSteps

LEMMA BeforeRefactor ==
    ASSUME NEW s \in Seq(AttemptSteps), s # <<>>, Chained(s), Last(s) \in {"fastExit", "auditTests"},
           Head(s) \in {"stub", "tester"}
    PROVE  Orderly(s \o refactorTurn)
<1>1. Link(Last(s), Head(refactorTurn))
  BY RefactorOrderly DEF Link, Late, Inner, Ending, FallbackSteps
<1>2. Head(s) \notin Late
  BY DEF Late, Inner, Ending, FallbackSteps
<1> DEFINE r == refactorTurn
<1>3. r \in Seq(AttemptSteps) /\ r # <<>> /\ Chained(r) /\ Last(r) = "validate" /\ Link(Last(s), Head(r))
  BY <1>1, RefactorOrderly DEF Orderly
<1> HIDE DEF r
<1>4. /\ s \o r \in Seq(AttemptSteps) /\ s \o r # <<>> /\ Chained(s \o r)
      /\ Last(s \o r) = Last(r) /\ Head(s \o r) = Head(s)
  BY <1>3, ChainConcat
<1>5. Orderly(s \o r)
  BY <1>2, <1>3, <1>4 DEF Orderly
<1> QED BY <1>5 DEF r

LEMMA TurnsOrderly == ASSUME NEW m, NEW retries PROVE Orderly(Turns(m, retries))
<1>1. /\ Link("stub", "tester") /\ Link("tester", "commit") /\ Link("commit", "auditTests")
      /\ Link("auditTests", "generator") /\ Link("generator", "commit") /\ Link("commit", "fastExit")
      /\ Link("stub", "generator") /\ Link("commit", "auditCode") /\ Link("auditCode", "tester")
      /\ Link("auditTests", "fastExit") /\ Link("stub", "both") /\ Link("both", "commit")
      /\ Link("auditCode", "auditTests") /\ Link("both", "auditInline") /\ Link("auditInline", "commit")
      /\ Link("commit", "validate") /\ Link("race", "validate") /\ Link("commit", "tester")
  BY DEF Link, Late, Inner, Ending, FallbackSteps
<1>2. Orderly(executeTesterFirstTurn)
  <2> DEFINE s == <<"stub", "tester", "commit", "auditTests", "generator", "commit", "fastExit">>
  <2>1. Chained(s)
    BY <1>1 DEF Chained
  <2>2. s \in Seq(AttemptSteps) /\ s # <<>> /\ Last(s) = "fastExit" /\ Head(s) = "stub"
    BY DEF AttemptSteps, TurnSteps, Last
  <2> HIDE DEF s
  <2>3. Orderly(s \o refactorTurn)
    BY <2>1, <2>2, BeforeRefactor
  <2> QED BY <2>3 DEF executeTesterFirstTurn, s
<1>3. Orderly(executeGeneratorFirstTurn)
  <2> DEFINE s == <<"stub", "generator", "commit", "auditCode", "tester", "commit", "auditTests", "fastExit">>
  <2>1. Chained(s)
    BY <1>1 DEF Chained
  <2>2. s \in Seq(AttemptSteps) /\ s # <<>> /\ Last(s) = "fastExit" /\ Head(s) = "stub"
    BY DEF AttemptSteps, TurnSteps, Last
  <2> HIDE DEF s
  <2>3. Orderly(s \o refactorTurn)
    BY <2>1, <2>2, BeforeRefactor
  <2> QED BY <2>3 DEF executeGeneratorFirstTurn, s
<1>4. Orderly(executeParallelCoSynthesisTurn)
  <2> DEFINE s == <<"stub", "both", "commit", "auditCode", "auditTests", "fastExit">>
  <2>1. Chained(s)
    BY <1>1 DEF Chained
  <2>2. s \in Seq(AttemptSteps) /\ s # <<>> /\ Last(s) = "fastExit" /\ Head(s) = "stub"
    BY DEF AttemptSteps, TurnSteps, Last
  <2> HIDE DEF s
  <2>3. Orderly(s \o refactorTurn)
    BY <2>1, <2>2, BeforeRefactor
  <2> QED BY <2>3 DEF executeParallelCoSynthesisTurn, s
<1>5. Orderly(executeRetryTurn)
  <2> DEFINE s == <<"tester", "commit", "auditTests">>
  <2>1. Chained(s)
    BY <1>1 DEF Chained
  <2>2. s \in Seq(AttemptSteps) /\ s # <<>> /\ Last(s) = "auditTests" /\ Head(s) = "tester"
    BY DEF AttemptSteps, TurnSteps, Last
  <2> HIDE DEF s
  <2>3. Orderly(s \o refactorTurn)
    BY <2>1, <2>2, BeforeRefactor
  <2> QED BY <2>3 DEF executeRetryTurn, s
<1>6. /\ Orderly(<<"both", "auditInline", "commit", "validate">>) /\ Orderly(<<"race", "validate">>)
      /\ Orderly(<<"generator", "commit", "tester", "commit", "validate">>)
      /\ Orderly(<<"generator", "commit", "validate">>)
  <2>1. /\ Chained(<<"both", "auditInline", "commit", "validate">>) /\ Chained(<<"race", "validate">>)
        /\ Chained(<<"generator", "commit", "tester", "commit", "validate">>)
        /\ Chained(<<"generator", "commit", "validate">>)
    BY <1>1 DEF Chained
  <2>2. {"both", "race", "generator"} \intersect (Late) = {}
    BY DEF Late, Inner, Ending, FallbackSteps
  <2> QED BY <2>1, <2>2 DEF Orderly, AttemptSteps, TurnSteps, Last
<1>7. /\ Orderly(executeTaskSinglePass) /\ Orderly(ExecuteSinglePassHypotheses) /\ Orderly(executeTaskBreadthFirst(retries))
  BY <1>6 DEF executeTaskSinglePass, ExecuteSinglePassHypotheses, executeTaskBreadthFirst
<1>8. executeTaskCodeFirst(m, retries) \in {executeRetryTurn, executeTesterFirstTurn, executeParallelCoSynthesisTurn,
                                            executeGeneratorFirstTurn}
  BY DEF executeTaskCodeFirst
<1>9. Turns(m, retries) \in {executeTaskSinglePass, ExecuteSinglePassHypotheses, executeTaskBreadthFirst(retries),
                             executeTaskCodeFirst(m, retries)}
  BY DEF Turns
<1> QED BY <1>2, <1>3, <1>4, <1>5, <1>7, <1>8, <1>9

\* The list of an attempt as it is dispatched.
LEMMA Dispatched ==
    ASSUME NEW m, NEW retries
    PROVE  /\ Shaped(<<"fallback", "merge">>) /\ Head(<<"fallback", "merge">>) = "fallback"
           /\ LET list == Turns(m, retries) \o <<"qa", "escalate", "merge">>
              IN  Shaped(list) /\ Head(list) \notin Late
<1>1. /\ Link("fallback", "merge") /\ Link("qa", "escalate") /\ Link("escalate", "merge") /\ Link("validate", "qa")
  BY DEF Link, Late, Inner, Ending, FallbackSteps
<1>2. Shaped(<<"fallback", "merge">>) /\ Head(<<"fallback", "merge">>) = "fallback"
  BY <1>1 DEF Shaped, Chained, Last, AttemptSteps, TurnSteps, FallbackSteps
<1>3. Shaped(<<"qa", "escalate", "merge">>) /\ Head(<<"qa", "escalate", "merge">>) = "qa"
  BY <1>1 DEF Shaped, Chained, Last, AttemptSteps, TurnSteps
<1> DEFINE s == Turns(m, retries)
           t == <<"qa", "escalate", "merge">>
<1>4. Orderly(s)
  BY TurnsOrderly
<1> HIDE DEF s, t
<1>5. Shaped(t) /\ Head(t) = "qa"
  BY <1>3 DEF t
<1>6. /\ s \o t \in Seq(AttemptSteps) /\ s \o t # <<>> /\ Chained(s \o t)
      /\ Last(s \o t) = Last(t) /\ Head(s \o t) = Head(s)
  BY <1>1, <1>4, <1>5, ChainConcat DEF Orderly, Shaped
<1>7. Shaped(s \o t) /\ Head(s \o t) \notin Late
  BY <1>4, <1>5, <1>6 DEF Orderly, Shaped
<1> QED BY <1>2, <1>7 DEF s, t

LEMMA DispatchKept == ASSUME AttemptInv, ReviewInv, Dispatch PROVE ReviewInv'
<1>1. /\ task.status = "PENDING" /\ todo = <<>> /\ at' = Locals /\ branch' = setupTaskWorkspace /\ ws' = Last(branch')
      /\ \E s : task' = [task EXCEPT !.status = s] /\ (todo' # <<>> => s = "IN_PROGRESS")
      /\ seen' = [seen EXCEPT !.reviewed = NoCode]
      /\ UNCHANGED <<mode, main>>
  <2>1. PICK s \in {"SKIPPED", "IN_PROGRESS"} : task' = [task EXCEPT !.status = s]
    BY DEF Dispatch
  <2>2. todo' # <<>> => task'.status # "SKIPPED"
    BY DEF Dispatch
  <2>3. todo' # <<>> => s = "IN_PROGRESS"
    BY <2>1, <2>2 DEF AttemptInv, FieldsInv
  <2> QED BY <2>1, <2>3 DEF Dispatch, Running
<1>2. RecordsInv /\ PrefixInv
  BY DEF ReviewInv, MergeInv
<1>3. RecordsInv' /\ task'.fallback = task.fallback /\ (todo' # <<>> => task'.status = "IN_PROGRESS")
  <2>1. RecordsInv'
    BY <1>1, <1>2 DEF RecordsInv, Locals
  <2> QED BY <1>1, <1>2, <2>1 DEF RecordsInv
<1>4. PrefixInv'
  <2>1. Len(main) \in Nat
    BY LenProperties DEF AttemptInv, TreesInv
  <2>2. branch' = main \/ (branch # <<>> /\ branch' = branch)
    BY <1>1 DEF setupTaskWorkspace
  <2> QED BY <1>1, <1>2, <1>3, <2>1, <2>2 DEF PrefixInv, Extends
<1>5. \/ todo' = <<>>
      \/ Shaped(todo') /\ Head(todo') = "fallback"
      \/ Shaped(todo') /\ Head(todo') \notin Late
  <2>1. \/ todo' = <<>> \/ todo' = <<"fallback", "merge">>
        \/ todo' = Turns(mode.arch, task.retries) \o <<"qa", "escalate", "merge">>
    BY DEF Dispatch
  <2>2. CASE todo' = <<"fallback", "merge">>
    BY <2>2, Dispatched
  <2>3. CASE todo' = Turns(mode.arch, task.retries) \o <<"qa", "escalate", "merge">>
    <3> DEFINE list == Turns(mode.arch, task.retries) \o <<"qa", "escalate", "merge">>
    <3>1. Shaped(list) /\ Head(list) \notin Late
      BY Dispatched
    <3> HIDE DEF list
    <3>2. todo' = list
      BY <2>3 DEF list
    <3> QED BY <3>1, <3>2
  <2> QED BY <2>1, <2>2, <2>3
<1>6. ~at'.passed
  BY <1>1 DEF Locals
<1>7. CalledInv'
  <2>1. Head(todo') \in Deep => todo' = <<>>
    BY <1>5 DEF Deep, Late, Ending, FallbackSteps
  <2> QED BY <2>1 DEF CalledInv, Working
<1>8. CASE todo' = <<>>
  BY <1>3, <1>4, <1>8, Outside
<1>9. CASE todo' # <<>>
  <2>1. ShapeInv' /\ Head(todo') \notin Inner
    BY <1>3, <1>5, <1>9 DEF ShapeInv, Late, Inner, Ending, FallbackSteps
  <2>2. PassInv' /\ SoundInv' /\ PassedReviewInv' /\ LevelInv'
    BY <1>6, <2>1 DEF PassInv, SoundInv, PassedReviewInv, Unblocked, LevelInv, Inner
  <2>3. PatchInv' /\ SameCodeInv' /\ VerdictInv'
    BY <2>1 DEF PatchInv, SameCodeInv, VerdictInv, Inner
  <2> QED BY <1>3, <1>4, <1>7, <2>1, <2>2, <2>3 DEF ReviewInv, MergeInv
<1> QED BY <1>8, <1>9

LEMMA ReviewInit == Init => ReviewInv
<1> SUFFICES ASSUME Init PROVE ReviewInv
  OBVIOUS
<1>1. todo = <<>> /\ ~Working /\ branch = <<>>
  BY DEF Init, Working
<1>2. RecordsInv
  <2>1. AutoFixImports(NoTree) = NoTree
    <3>1. [NoCode EXCEPT !.imports = TRUE] = NoCode
      <4>1. NoCode.imports = TRUE
        BY DEF NoCode
      <4> QED BY <4>1, NoTreeTyped DEF CodeFiles
    <3>2. AutoFixImports(NoTree) = [NoTree EXCEPT !.impl = [NoTree.impl EXCEPT !.imports = TRUE]]
      BY DEF AutoFixImports
    <3> QED BY <3>1, <3>2 DEF NoTree
  <2> QED BY <2>1 DEF Init, RecordsInv, Locals
<1> QED BY <1>1, <1>2 DEF ReviewInv, MergeInv, ShapeInv, PassInv, SoundInv, LevelInv, PatchInv, PrefixInv, CalledInv,
                          SameCodeInv, VerdictInv, PassedReviewInv

LEMMA ReviewStep == AttemptInv /\ ReviewInv /\ [Next]_vars => ReviewInv'
<1> SUFFICES ASSUME AttemptInv, ReviewInv, [Next]_vars PROVE ReviewInv'
  OBVIOUS
<1>1. AttemptInv'
  BY AttemptStep
<1>2. CASE Step
  BY <1>1, <1>2, TurnsDeliver, ValidateStep, GateStep, BeginReviewStep, EndReviewStep, ReviewedStep, TakePatchStep,
     FixStep, EscalateStep, FallbackKept, CandidateKept, MergeKept, RepairsKept, ClosingKept DEF Step
<1>3. CASE Dispatch \/ PostMerge \/ Heal \/ Restart
  BY <1>1, <1>3, DispatchKept, PostMergeKept, OutsideKept
<1>4. CASE UNCHANGED vars
  <2>1. UNCHANGED <<task, mode, branch, ws, todo, at, main, seen>>
    BY <1>4 DEF vars
  <2>2. RecordsInv' = RecordsInv /\ ShapeInv' = ShapeInv /\ PassInv' = PassInv /\ PrefixInv' = PrefixInv /\ PatchInv' = PatchInv
    BY <2>1 DEF RecordsInv, ShapeInv, PassInv, PrefixInv, PatchInv, Extends, Working, Attempting
  <2>3. SoundInv' = SoundInv /\ LevelInv' = LevelInv /\ SameCodeInv' = SameCodeInv /\ VerdictInv' = VerdictInv
    BY <2>1, SameSkip DEF SoundInv, LevelInv, Level, SameCodeInv, VerdictInv, Unblocked, HeadTree, Working, Attempting
  <2>4. CalledInv' = CalledInv /\ PassedReviewInv' = PassedReviewInv
    BY <2>1, SameSkip DEF CalledInv, PassedReviewInv, Unblocked, HeadTree, Working, Attempting
  <2> QED BY <2>2, <2>3, <2>4 DEF ReviewInv, MergeInv
<1> QED BY <1>2, <1>3, <1>4 DEF Next, Done

\* Only a merge makes the task a success, and it merges the head of the branch as it is if
\* the branch extends the integration branch.
LEMMA OnlyMerge ==
    ASSUME AttemptInv, ReviewInv, [Next]_vars, task.status # "SUCCESS", task'.status = "SUCCESS"
    PROVE  /\ Working /\ Head(todo) = "merge" /\ Unblocked
           /\ Extends(branch) => Last(main') = HeadTree
<1>1. "status" \in DOMAIN task /\ main \in Seq(Trees) /\ main # <<>>
  BY DEF AttemptInv, FieldsInv, TreesInv
<1>2. Merge
  <2>1. task' # task
    OBVIOUS
  <2>2. ~Dispatch /\ ~Heal /\ ~Restart
    <3>1. Dispatch => task'.status \in {"SKIPPED", "IN_PROGRESS"}
      BY <1>1 DEF Dispatch
    <3>2. Heal => task'.status \in {"FAILED", "PENDING"}
      BY <1>1 DEF Heal
    <3>3. Restart => task'.status \in {task.status, "INTERRUPTED"}
      BY <1>1 DEF Restart
    <3> QED BY <3>1, <3>2, <3>3
  <2>3. ~FallbackStart
    BY <1>1 DEF FallbackStart
  <2>4. /\ ~PostMerge /\ ~FallbackTurn /\ ~Candidate /\ ~FallbackEndTurn /\ ~Closing
        /\ ~runQAGate /\ ~BeginReview /\ ~EndReview
    BY <2>1 DEF PostMerge, FallbackTurn, Candidate, FallbackEndTurn, Closing, runQAGate, BeginReview, EndReview
  <2>5. /\ ~Stub /\ ~Generator /\ ~Tester /\ ~Both /\ ~Commit /\ ~AuditCode /\ ~AuditInline /\ ~AuditTests /\ ~FastExit
        /\ ~Mark /\ ~Evaluate /\ ~Race /\ ~Validate /\ ~Repair
    BY <2>1, Zenon DEF Stub, Generator, Tester, Both, Commit, AuditCode, AuditInline, AuditTests, FastExit, Mark, Evaluate,
                       Race, Validate, Repair, others
  <2>6. ~Reviewed /\ ~TakePatch /\ ~Fix /\ ~Escalate /\ ~RepairTurn /\ ~Recheck
    BY <2>1, Zenon DEF Reviewed, TakePatch, Fix, Escalate, RepairTurn, Recheck, others
  <2>7. ~UNCHANGED vars
    BY <2>1 DEF vars
  <2> QED BY <2>2, <2>3, <2>4, <2>5, <2>6, <2>7 DEF Next, Step, Done
<1>3. Working /\ Head(todo) = "merge"
  <2>1. todo # <<>> /\ Head(todo) = "merge"
    BY <1>2 DEF Merge, Do, Running
  <2> QED BY <2>1, InAttempt DEF Working, Attempting, TurnSteps
<1>4. at.passed /\ main' = Append(main, MergeInto(branch))
  <2>1. PICK pushed \in BOOLEAN :
            /\ at.passed \/ ~pushed
            /\ LET log == IF at.passed THEN {} ELSE at.log
               IN  task' = IF pushed THEN [task EXCEPT !.status = "SUCCESS"]
                           ELSE IF canRetry(task, log) THEN [task EXCEPT !.status = "PENDING", !.retries = @ + 1]
                           ELSE [task EXCEPT !.status = "FAILED"]
            /\ main' = IF pushed THEN Append(main, MergeInto(branch)) ELSE main
    BY <1>2 DEF Merge
  <2>2. pushed
    <3>1. ~pushed => task' = [task EXCEPT !.status = "PENDING", !.retries = @ + 1] \/ task' = [task EXCEPT !.status = "FAILED"]
      BY <2>1
    <3> QED BY <1>1, <3>1
  <2> QED BY <2>1, <2>2
<1>5. Extends(branch) => MergeInto(branch) = HeadTree
  BY <1>1, <1>3, MergedAsIs DEF AttemptInv, TreesInv, Working
<1>6. ASSUME Extends(branch) PROVE Last(main') = HeadTree
  <2>1. HeadTree \in Trees /\ main' = Append(main, HeadTree)
    BY <1>3, <1>4, <1>5, <1>6, LastTyped DEF AttemptInv, TreesInv, Working, HeadTree
  <2> HIDE DEF HeadTree
  <2> QED BY <1>1, <2>1, AppendProperties DEF Last
<1> QED BY <1>3, <1>4, <1>6 DEF Unblocked, Ending

\* Only the end of the repair finalizes the story.
LEMMA OnlyClosing ==
    ASSUME AttemptInv, [Next]_vars, ~build.final, build'.final
    PROVE  Closing
<1>1. build' # build /\ build \in [status : {"UNKNOWN", "PASSING", "FAILING"}, final : BOOLEAN]
  BY DEF AttemptInv, FieldsInv
<1>2. ~Merge
  BY <1>1 DEF Merge
<1>3. /\ ~Dispatch /\ ~Heal /\ ~Restart /\ ~PostMerge /\ ~FallbackStart /\ ~FallbackTurn /\ ~Candidate
      /\ ~FallbackEndTurn /\ ~runQAGate /\ ~BeginReview /\ ~EndReview
  BY <1>1 DEF Dispatch, Heal, Restart, PostMerge, FallbackStart, FallbackTurn, Candidate, FallbackEndTurn, runQAGate,
              BeginReview, EndReview
<1>4. /\ ~Stub /\ ~Generator /\ ~Tester /\ ~Both /\ ~Commit /\ ~AuditCode /\ ~AuditInline /\ ~AuditTests /\ ~FastExit
      /\ ~Mark /\ ~Evaluate /\ ~Race /\ ~Validate /\ ~Repair
  BY <1>1, Zenon DEF Stub, Generator, Tester, Both, Commit, AuditCode, AuditInline, AuditTests, FastExit, Mark, Evaluate,
                     Race, Validate, Repair, others
<1>5. ~Reviewed /\ ~TakePatch /\ ~Fix /\ ~Escalate /\ ~RepairTurn /\ ~Recheck
  BY <1>1, Zenon DEF Reviewed, TakePatch, Fix, Escalate, RepairTurn, Recheck, others
<1>6. ~UNCHANGED vars
  BY <1>1 DEF vars
<1> QED BY <1>2, <1>3, <1>4, <1>5, <1>6 DEF Next, Step, Done

-----------------------------------------------------------------------------
(* The result. *)

\* RunPostMergeRepairPhase calls a build passing only on the tree its last check passed, and
\* the integration branch has that tree, up to completed imports, unless another branch is
\* checked out or changes wait to be committed: for any files, suites and answers, any verdict
\* of a flaky suite, whichever checkouts and commits fail, over crashes and restarts, and
\* whatever the fallback agent committed and reset on the way.
THEOREM PassingBuildPassed == Spec => BuildTruthful
<1> DEFINE Truthful == (~build.final /\ build'.final /\ build'.status = "PASSING") =>
                           /\ ws = seen.good
                           /\ at.onBranch /\ Settled => AutoFixImports(Last(main')) = AutoFixImports(seen.good)
<1>1. AttemptInv /\ [Next]_vars => [Truthful]_vars
  <2> SUFFICES ASSUME AttemptInv, [Next]_vars, ~build.final, build'.final, build'.status = "PASSING"
               PROVE  ws = seen.good /\ (at.onBranch /\ Settled => AutoFixImports(Last(main')) = AutoFixImports(seen.good))
    OBVIOUS
  <2>1. Closing
    BY OnlyClosing
  <2>2. todo # <<>> /\ Head(todo) \in ClosingSteps /\ at.passed
    BY <2>1 DEF Closing, Do, Running, ClosingSteps
  <2>3. ws = seen.good
    BY <2>2, OnlyRepair DEF AttemptInv, RepairInv
  <2>4. at.onBranch => Last(main') = HeadTree
    BY <2>1 DEF Closing, HeadTree
  <2> QED BY <2>3, <2>4 DEF Settled
<1> QED BY AttemptInit, AttemptStep, <1>1, PTL DEF Spec, BuildTruthful

\* executeTask merges a task only on the tree its last passing validation judged, whichever
\* of its commits and resets failed: the worktree is that tree whatever the turns, the
\* surgical repair, the rounds of review, the tester's patch and the fallback agent put
\* between that validation and the merge, and what the QA gate let through was committed.
THEOREM MergedIsValidated == Spec => MergedValidated
<1> DEFINE Validated == (task.status # "SUCCESS" /\ task'.status = "SUCCESS") =>
            /\ ws = seen.good
            /\ Gated \/ (Settled /\ IsPrefix(main, branch)) => AutoFixImports(Last(main')) = AutoFixImports(seen.good)
            /\ Gated /\ at.attempt = 1 => Last(main') = seen.good
<1>1. AttemptInv /\ ReviewInv /\ [Next]_vars => [Validated]_vars
  <2> SUFFICES ASSUME AttemptInv, ReviewInv, [Next]_vars, task.status # "SUCCESS", task'.status = "SUCCESS"
               PROVE  /\ ws = seen.good
                      /\ Gated \/ (Settled /\ IsPrefix(main, branch))
                            => AutoFixImports(Last(main')) = AutoFixImports(seen.good)
                      /\ Gated /\ at.attempt = 1 => Last(main') = seen.good
    OBVIOUS
  <2>1. Working /\ Head(todo) = "merge" /\ Unblocked /\ (Extends(branch) => Last(main') = HeadTree)
    BY OnlyMerge
  <2>2. ws = seen.good /\ (Gated => Level)
    BY <2>1 DEF ReviewInv, MergeInv, SoundInv, LevelInv
  <2>3. Gated => Extends(branch)
    BY <2>1 DEF ReviewInv, MergeInv, PrefixInv, ShapeInv, Gated, AttemptInv, TreesInv, Working
  <2>4. IsPrefix(main, branch) => Extends(branch)
    BY PrefixExtends DEF AttemptInv, TreesInv
  <2> QED BY <2>1, <2>2, <2>3, <2>4 DEF Settled, Level
<1> QED BY AttemptInit, AttemptStep, ReviewInit, ReviewStep, <1>1, PTL DEF Spec, MergedValidated

\* runQAGate, its rounds of fixes and the tester's patch let no code through to the merge
\* that a review of the running attempt did not pass, unless the fallback agent was called.
THEOREM MergedIsReviewed == Spec => QAPassReviewed
<1> DEFINE ByReview == (Skip = "" /\ task.status # "SUCCESS" /\ task'.status = "SUCCESS" /\ ~task.fallback)
                           => Last(main').impl = seen.reviewed
<1>1. AttemptInv /\ ReviewInv /\ [Next]_vars => [ByReview]_vars
  <2> SUFFICES ASSUME AttemptInv, ReviewInv, [Next]_vars, Skip = "", task.status # "SUCCESS", task'.status = "SUCCESS",
                      ~task.fallback
               PROVE  Last(main').impl = seen.reviewed
    OBVIOUS
  <2>1. Working /\ Head(todo) = "merge" /\ Unblocked /\ (Extends(branch) => Last(main') = HeadTree)
    BY OnlyMerge
  <2>2. Extends(branch)
    BY <2>1 DEF ReviewInv, MergeInv, PrefixInv, ShapeInv, AttemptInv, TreesInv, Working
  <2> QED BY <2>1, <2>2 DEF ReviewInv, PassedReviewInv
<1> QED BY AttemptInit, AttemptStep, ReviewInit, ReviewStep, <1>1, PTL DEF Spec, QAPassReviewed

-----------------------------------------------------------------------------
(* The merge queue. *)

Resting == {"idle", "stopped"}
Tiers == {"merge", "tier2", "commit2", "tier3", "commit3", "tier4", "commit4", "tier5"}

\* The consumer executes a job exactly when it is not resting.
JobInv == pc \notin Resting => job \in Jobs

\* A job that stashed something finds it on the stack.
StashInv == stashed => stash # << >>

\* A merge that is resolved and not committed leaves its files in the tree, so
\* that git stash has something to save.
StagedInv == index = "staged" => dirty # {}

\* What the stash leaves to a job whose context is not done: an unmerged index,
\* to be recovered from, or a tree in which only markdown files were staged.
CheckoutInv ==
    pc = "checkout" /\ Live /\ index # "unmerged" =>
        index = "clean" /\ dirty \subseteq {Roadmap}

\* While it merges, the tree holds nothing but its own branch and such files.
TierInv == pc \in Tiers /\ Live => dirty \subseteq {Roadmap, Branch}

QueueInv == QueueTypeOK /\ JobInv /\ StashInv /\ StagedInv /\ CheckoutInv /\ TierInv /\ CleanStart
-----------------------------------------------------------------------------
\* The queue starts empty on a clean tree.
LEMMA QueueStarts == QueueInit => QueueInv
<1> SUFFICES ASSUME QueueInit PROVE QueueInv
  OBVIOUS
<1>1. QueueTypeOK
  <2>1. jobs \in Seq(Jobs) /\ Len(jobs) <= QueueCap /\ stash \in Seq(SUBSET Items)
    BY BoundAssumption DEF QueueInit
  <2> QED
    BY <2>1 DEF QueueInit, QueueTypeOK, Steps
<1> QED
  BY <1>1 DEF QueueInit, QueueInv, JobInv, StashInv, StagedInv, CheckoutInv, TierInv,
              CleanStart, Resting, Tiers

\* The pushing side changes neither the consumer nor, but for the markdown file
\* of a finished task, the tree.
LEMMA QueuePushing ==
    ASSUME QueueInv,
           \/ \E j \in Jobs : Pusher(j) \/ Deadline(j)
           \/ \E b \in Branches, n \in 1..MaxPushes : Begin(b, n)
           \/ Shutdown
    PROVE  QueueInv'
<1> USE DEF QueueInv, JobInv, StashInv, StagedInv, CheckoutInv, TierInv, CleanStart,
            Live, Branch, gitVars
<1>1. ASSUME NEW j \in Jobs, Send(j) PROVE QueueInv'
  BY <1>1, BoundAssumption DEF Send, QueueTypeOK
<1>2. ASSUME NEW j \in Jobs, Receive(j) PROVE QueueInv'
  BY <1>2 DEF Receive, QueueTypeOK
<1>3. ASSUME NEW j \in Jobs, GiveUp(j) PROVE QueueInv'
  BY <1>3 DEF GiveUp, QueueTypeOK
<1>4. ASSUME NEW j \in Jobs, Finalize(j) PROVE QueueInv'
  BY <1>4 DEF Finalize, QueueTypeOK, Items
<1>5. ASSUME NEW j \in Jobs, Deadline(j) PROVE QueueInv'
  BY <1>5 DEF Deadline, QueueTypeOK
<1>6. ASSUME NEW b \in Branches, NEW n \in 1..MaxPushes, Begin(b, n) PROVE QueueInv'
  BY <1>6 DEF Begin, QueueTypeOK, Jobs
<1>7. CASE Shutdown
  BY <1>7 DEF Shutdown, QueueTypeOK
<1> QED
  BY <1>1, <1>2, <1>3, <1>4, <1>5, <1>6, <1>7 DEF Pusher

\* The consumer.  Taking a job, the stash and the checkout establish what the
\* tiers rely on.
LEMMA QueuePreparing ==
    ASSUME QueueInv, Take \/ Stop \/ Stash \/ Checkout \/ Recover
    PROVE  QueueInv'
<1> USE DEF QueueInv, JobInv, StashInv, StagedInv, CheckoutInv, TierInv, CleanStart,
            Resting, Tiers, Steps, Live, Branch, Move, callVars, gitVars
<1>1. CASE Take
  <2>1. /\ Head(jobs) \in Jobs
        /\ Tail(jobs) \in Seq(Jobs)
        /\ Len(Tail(jobs)) <= QueueCap
    BY <1>1, BoundAssumption DEF Take, QueueTypeOK
  <2>2. QueueTypeOK'
    BY <1>1, <2>1 DEF Take, QueueTypeOK
  <2> QED
    BY <1>1, <2>1, <2>2 DEF Take
<1>2. CASE Stop
  BY <1>2 DEF Stop, QueueTypeOK
<1>3. CASE Stash
  <2>1. /\ << dirty >> \o stash \in Seq(SUBSET Items)
        /\ << dirty >> \o stash # << >>
    BY DEF QueueTypeOK
  <2>2. QueueTypeOK' /\ StashInv'
    BY <1>3, <2>1 DEF Stash, QueueTypeOK
  <2>3. JobInv' /\ StagedInv' /\ TierInv' /\ CleanStart'
    BY <1>3 DEF Stash
  <2>4. CheckoutInv'
    BY <1>3 DEF Stash, QueueTypeOK
  <2> QED
    BY <2>2, <2>3, <2>4
<1>4. CASE Checkout
  BY <1>4 DEF Checkout, QueueTypeOK
<1>5. CASE Recover
  BY <1>5 DEF Recover, QueueTypeOK
<1> QED
  BY <1>1, <1>2, <1>3, <1>4, <1>5

\* The branch of the job under way is a branch.
LEMMA BranchType ==
    ASSUME QueueInv, pc \notin Resting PROVE Branch \in Branches
  BY DEF QueueInv, JobInv, Branch, Jobs

\* The tiers stage and commit only the branch of the job and markdown files.
LEMMA QueueMerging ==
    ASSUME QueueInv,
           \/ Tier1 \/ Tier2 \/ Tier3 \/ Tier4 \/ Tier5
           \/ CommitTier("commit2", "tier3")
           \/ CommitTier("commit3", "tier4")
           \/ CommitTier("commit4", "tier5")
    PROVE  QueueInv'
<1> USE DEF QueueInv, JobInv, StashInv, StagedInv, CheckoutInv, TierInv, CleanStart,
            Resting, Tiers, Steps, Live, Move, callVars, gitVars, QueueTypeOK, Items
<1>1. pc \notin Resting
  BY DEF Tier1, Tier2, Tier3, Tier4, Tier5, CommitTier
<1>2. Branch \in Branches /\ Branch' = Branch
  BY <1>1, BranchType DEF Tier1, Tier2, Tier3, Tier4, Tier5, CommitTier, Branch
<1>3. CASE Tier1
  BY <1>2, <1>3 DEF Tier1
<1>4. CASE Tier2
  BY <1>2, <1>4 DEF Tier2, StageAll
<1>5. CASE Tier3
  BY <1>2, <1>5 DEF Tier3, Resolve, StageAll
<1>6. CASE Tier4
  BY <1>2, <1>6 DEF Tier4, StageAll
<1>7. CASE Tier5
  BY <1>2, <1>7 DEF Tier5
<1>8. ASSUME NEW from \in {"commit2", "commit3", "commit4"},
             NEW next \in {"tier3", "tier4", "tier5"}, CommitTier(from, next)
      PROVE  QueueInv'
  BY <1>2, <1>8 DEF CommitTier
<1> QED
  BY <1>3, <1>4, <1>5, <1>6, <1>7, <1>8

\* The cleanup, the stash pop and the result.
LEMMA QueueFinishing ==
    ASSUME QueueInv,
           Cleanup \/ Finish("popok", "ok") \/ Finish("poperr", "err")
    PROVE  QueueInv'
<1> USE DEF QueueInv, JobInv, StashInv, StagedInv, CheckoutInv, TierInv, CleanStart,
            Resting, Tiers, Steps, Live, Branch, Move, callVars, gitVars
<1>1. CASE Cleanup
  BY <1>1 DEF Cleanup, QueueTypeOK
<1>2. ASSUME NEW from \in {"popok", "poperr"}, NEW res \in {"ok", "err"}, Finish(from, res)
      PROVE  QueueInv'
  <2>1. dirty' \subseteq Items /\ stash' \in Seq(SUBSET Items)
    <3>1. stashed => Head(stash) \in SUBSET Items /\ Tail(stash) \in Seq(SUBSET Items)
      <4>1. stash \in Seq(SUBSET Items) /\ (stashed => stash # << >>)
        BY DEF QueueTypeOK
      <4> QED
        BY <4>1
    <3>2. dirty \subseteq Items /\ stash \in Seq(SUBSET Items)
      BY DEF QueueTypeOK
    <3> QED
      BY <1>2, <3>1, <3>2 DEF Finish
  <2>2. QueueTypeOK'
    <3>1. job \in Jobs /\ result' \in [Jobs -> {"none", "ok", "err"}]
      BY <1>2 DEF Finish, QueueTypeOK
    <3> QED
      BY <1>2, <2>1, <3>1 DEF Finish, QueueTypeOK
  <2>3. StagedInv'
    BY <1>2 DEF Finish
  <2> QED
    BY <1>2, <2>2, <2>3 DEF Finish
<1> QED
  BY <1>1, <1>2

\* Every step preserves the invariant.
LEMMA QueueSteps == QueueInv /\ [QueueNext]_queueVars => QueueInv'
<1> SUFFICES ASSUME QueueInv, [QueueNext]_queueVars PROVE QueueInv'
  OBVIOUS
<1>1. CASE Consumer
  BY <1>1, QueuePreparing, QueueMerging, QueueFinishing DEF Consumer
<1>2. CASE UNCHANGED queueVars
  BY <1>2 DEF queueVars, QueueInv, QueueTypeOK, JobInv, StashInv, StagedInv, CheckoutInv, TierInv,
              CleanStart, Live, Branch
<1> QED
  BY <1>1, <1>2, QueuePushing DEF QueueNext, Terminated

\* The inductive invariant holds in every reachable state.
LEMMA QueueCorrect == QueueSpec => []QueueInv
  BY QueueStarts, QueueSteps, PTL DEF QueueSpec
-----------------------------------------------------------------------------
\* The state of the queue stays well typed; in particular the job channel never
\* holds more than its capacity.
THEOREM QueueTypeCorrect == QueueSpec => []QueueTypeOK
<1>1. QueueInv => QueueTypeOK
  BY DEF QueueInv
<1> QED
  BY <1>1, QueueCorrect, PTL

\* executeRebase: no merge starts on an index that another job left unmerged or
\* staged, for any number of branches and attempts.
THEOREM MergesStartClean == QueueSpec => []CleanStart
<1>1. QueueInv => CleanStart
  BY DEF QueueInv
<1> QED
  BY <1>1, QueueCorrect, PTL

\* Only the job of a branch puts it on the integration branch.
LEMMA StepNoStowaway ==
    ASSUME QueueInv, [QueueNext]_queueVars
    PROVE  \A b \in base' \ base : b \in Branches => job # NoJob /\ Branch = b
<1>1. CASE base' = base
  BY <1>1
<1>2. ASSUME \/ Tier1 \/ Tier5
             \/ CommitTier("commit2", "tier3")
             \/ CommitTier("commit3", "tier4")
             \/ CommitTier("commit4", "tier5"),
             base' # base
      PROVE  \A b \in base' \ base : b \in Branches => job # NoJob /\ Branch = b
  <2>1. pc \in Tiers /\ Live
    BY <1>2 DEF Tier1, Tier5, CommitTier, Move, Tiers, gitVars
  <2>2. job \in Jobs /\ job # NoJob /\ dirty \subseteq {Roadmap, Branch}
    BY <2>1 DEF QueueInv, JobInv, TierInv, Tiers, Resting, Jobs, NoJob
  <2>3. base' \subseteq base \cup {Branch} \cup dirty
    BY <1>2 DEF Tier1, Tier5, CommitTier, gitVars
  <2> QED
    BY <2>2, <2>3, RoadmapAssumption
<1>3. CASE Consumer
  <2>1. CASE Take \/ Stop \/ Stash \/ Checkout \/ Recover
    BY <1>1, <2>1 DEF Take, Stop, Stash, Checkout, Recover, gitVars
  <2>2. CASE Tier2 \/ Tier3 \/ Tier4
    BY <1>1, <2>2 DEF Tier2, Tier3, Tier4, Resolve, StageAll, gitVars
  <2>3. CASE Cleanup \/ Finish("popok", "ok") \/ Finish("poperr", "err")
    BY <1>1, <2>3 DEF Cleanup, Finish
  <2> QED
    BY <1>1, <1>2, <1>3, <2>1, <2>2, <2>3 DEF Consumer
<1>4. ASSUME NEW j \in Jobs, Pusher(j) \/ Deadline(j) PROVE base' = base
  BY <1>4 DEF Pusher, Send, Receive, GiveUp, Finalize, Deadline, gitVars
<1>5. ASSUME NEW b \in Branches, NEW n \in 1..MaxPushes, Begin(b, n) PROVE base' = base
  BY <1>5 DEF Begin, gitVars
<1>6. CASE Shutdown \/ Terminated \/ UNCHANGED queueVars
  BY <1>1, <1>6 DEF Shutdown, Terminated, queueVars, gitVars
<1> QED
  BY <1>1, <1>3, <1>4, <1>5, <1>6 DEF QueueNext

\* executeRebase: what a cancelled job left in the tree is never committed by the
\* job of another branch.
THEOREM NothingSwept == QueueSpec => NoStowaway
<1>1. QueueInv /\ [QueueNext]_queueVars =>
        [\A b \in base' \ base : b \in Branches => job # NoJob /\ Branch = b]_queueVars
  BY StepNoStowaway
<1> QED
  BY <1>1, QueueCorrect, PTL DEF QueueSpec, NoStowaway

=============================================================================
