---------------------------- MODULE StoryRunProofs ----------------------------
(***************************************************************************)
(* Proofs about StoryRun for every set of stories, dependencies, roadmap   *)
(* passes, loops, rescue turns and concurrency, streamed or found on disk, *)
(* with any number of crashes, edits and deletions.                        *)
(***************************************************************************)
EXTENDS StoryRun, TLAPS

Outcomes == {"none", "ok", "pending", "err", "stuck"}
Statuses == {"absent", "pending", "running", "success", "failed"}
Phases == {"boot", "pass", "sequential", "check", "gate", "rescue", "regate", "enter", "standby", "done"}
Commits == Nat \X (0..4)

LoopRec == [list : SUBSET Stories, active : SUBSET Stories, idx : Nat, total : Nat, ext : Nat,
            changed : BOOLEAN, sig : SUBSET (Stories \X Outcomes), resume : BOOLEAN]
GenRec == [pc : {"off", "plan", "expand", "audit", "close", "done"}, pass : Nat, attempt : Nat,
           todo : SUBSET Stories, direct : SUBSET Stories, expanded : SUBSET Stories, refined : BOOLEAN]
RescueRec == [turn : Nat, max : Nat, grace : Nat, head : Commits, best : Commits, next : Nat,
              osc : [history : Seq(Nat), reconciliations : Nat], audit : BOOLEAN, failed : SUBSET Stories]
StreamRec == [streaming : BOOLEAN, closed : BOOLEAN, pipelined : BOOLEAN]
ExecRec == [pc : {"idle", "top", "wait", "rejoin", "done"}, launched : BOOLEAN]

DagType ==
    /\ node \in [Stories -> Statuses] /\ deps \in [Stories -> SUBSET Nat]
    /\ stream \in StreamRec /\ exec \in ExecRec
LoopType == loop \in LoopRec /\ outcome \in [Stories -> Outcomes] /\ recorded \in BOOLEAN
GenType == gen \in GenRec /\ files \in SUBSET Stories
RescueType == rescue \in RescueRec
StoryType == DagType /\ LoopType /\ GenType /\ RescueType /\ phase \in Phases

\* What the phases say about the scheduler and the generator.
PhaseInv ==
    /\ phase = "boot" => /\ outcome = NoOutcome /\ exec.pc = "idle"
                         /\ node = [s \in Stories |-> "absent"]
    /\ gen.pc # "off" => stream.streaming
    /\ stream.streaming => phase = "pass" /\ exec.pc # "idle"

\* In a streamed pass every story waits for the foundation story.
FoundationInv ==
    stream.streaming =>
        \A s \in Stories \ {1} :
            /\ node[s] # "absent" => 1 \in deps[s]
            /\ ~stream.pipelined /\ node[s] \in {"running", "success", "failed"} =>
                 1 \in Stories /\ node[1] = "success"

\* An outcome "ok" is the record of a verified story, as long as its file is there -
\* and while the generator may still create files, whether or not it is; and every
\* story file the run-level check looks at has an outcome.
OutcomeInv ==
    /\ phase \in {"pass", "sequential", "check"} =>
         \A s \in Stories : outcome[s] = "ok" /\ (s \in files \/ stream.streaming) => s \in verified
    /\ phase \in {"pass", "sequential", "check"} /\ ~stream.streaming =>
         \A s \in loop.list \cap files : outcome[s] # "none"

\* After the check, what is not verified is what the rescue works on, and nothing is
\* left when the gate is reached.
EarnedInv ==
    /\ phase = "rescue" /\ ~rescue.audit => loop.list \cap files \subseteq verified \cup rescue.failed
    /\ phase = "rescue" /\ rescue.audit => loop.list \cap files \subseteq verified
    /\ phase \in {"gate", "regate", "enter", "standby"} => loop.list \cap files \subseteq verified
    /\ result = "success" => phase \in {"enter", "standby", "done"} /\ loop.list \cap files \subseteq verified

\* What an exhausted rescue left stays.
GreenInv == result = "exhausted" => phase = "done" /\ RescueKeepsGreen

StoryInv == StoryType /\ PhaseInv /\ FoundationInv /\ OutcomeInv /\ EarnedInv /\ GreenInv
-----------------------------------------------------------------------------
(* The records the steps build. *)

LEMMA Constants1 ==
    /\ NoLoop \in LoopRec /\ NoGen \in GenRec /\ NoOutcome \in [Stories -> Outcomes]
    /\ NoLoop.list = {} /\ NoGen.pc = "off"
<1>1. NoLoop \in LoopRec /\ NoLoop.list = {}
  BY DEF NoLoop, LoopRec
<1>2. NoGen \in GenRec /\ NoGen.pc = "off"
  BY DEF NoGen, GenRec
<1>3. NoOutcome \in [Stories -> Outcomes]
  BY DEF NoOutcome, Outcomes
<1> QED
  BY <1>1, <1>2, <1>3

LEMMA RescueConstant == NoRescue \in RescueRec /\ ~NoRescue.audit
<1>1. << >> \in Seq(Nat)
  OBVIOUS
<1>2. NewOscillationCircuitBreaker \in [history : Seq(Nat), reconciliations : Nat]
  BY <1>1 DEF NewOscillationCircuitBreaker
<1>3. <<0, 0>> \in Commits
  BY DEF Commits
<1> HIDE DEF NewOscillationCircuitBreaker, Commits
<1> QED
  BY <1>2, <1>3 DEF NoRescue, RescueRec

LEMMA DispatchType ==
    ASSUME NEW gaps \in Nat, NEW lvl \in Levels
    PROVE  DispatchSovereignRescue(gaps, lvl) \in RescueRec /\ ~DispatchSovereignRescue(gaps, lvl).audit
<1>1. <<0, lvl>> \in Commits /\ RescueTurns \in Nat
  BY StoryRunAssumption DEF Commits
<1> DEFINE wanted == IF gaps = 0 THEN RescueTurns ELSE IF gaps < 5 THEN 5 ELSE gaps
           max == IF wanted > RescueTurns THEN RescueTurns ELSE wanted
<1>2. max \in Nat
  BY <1>1
<1>3. DispatchSovereignRescue(gaps, lvl) =
        [NoRescue EXCEPT !.turn = 1, !.max = max, !.head = <<0, lvl>>, !.best = <<0, lvl>>, !.next = 1]
  BY DEF DispatchSovereignRescue
<1> DEFINE one == [NoRescue EXCEPT !.turn = 1, !.max = max]
           two == [one EXCEPT !.head = <<0, lvl>>, !.best = <<0, lvl>>]
<1> HIDE DEF max, Commits, NoRescue
<1>4. one \in RescueRec /\ ~one.audit
  BY <1>2, RescueConstant DEF RescueRec
<1>5. two \in RescueRec /\ ~two.audit
  <2> HIDE DEF one
  <2> QED
    BY <1>1, <1>4 DEF RescueRec
<1>6. DispatchSovereignRescue(gaps, lvl) = [two EXCEPT !.next = 1]
  BY <1>3
<1> HIDE DEF two
<1> QED
  BY <1>5, <1>6 DEF RescueRec

LEMMA RecordFailureType ==
    ASSUME NEW cb \in [history : Seq(Nat), reconciliations : Nat], NEW log, log.failure \in Nat
    PROVE  RecordFailure(cb, log) \in [history : Seq(Nat), reconciliations : Nat]
<1> DEFINE all == Append(cb.history, Fingerprint(log))
           cut == IF Len(all) > maxWindow THEN Tail(all) ELSE all
           recs == cb.reconciliations + (IF OscillationDecision(cb, log) = "reconcile" THEN 1 ELSE 0)
<1>1. all \in Seq(Nat)
  BY DEF Fingerprint
<1>2. cut \in Seq(Nat)
  <2> HIDE DEF all
  <2>1. CASE Len(all) > maxWindow
    <3>1. all # << >>
      BY <1>1, <2>1 DEF maxWindow
    <3>2. Tail(all) \in Seq(Nat)
      BY <1>1, <3>1
    <3> QED
      BY <2>1, <3>2
  <2> QED
    BY <1>1, <2>1
<1>3. recs \in Nat
  OBVIOUS
<1>4. RecordFailure(cb, log) = [history |-> cut, reconciliations |-> recs]
  BY DEF RecordFailure
<1> HIDE DEF all, cut, recs
<1> QED
  BY <1>2, <1>3, <1>4

LEMMA ResetType == SchedulerReset => DagType' /\ ~stream'.streaming /\ exec'.pc = "idle"
                                     /\ node' = [s \in Stories |-> "absent"]
  BY DEF SchedulerReset, DagType, Statuses, StreamRec, ExecRec

\* What AddStory does to the scheduler.
LEMMA AddEffect ==
    ASSUME DagType, NEW s \in Stories, AddStory(s)
    PROVE  /\ DagType' /\ stream' = stream /\ (exec.pc # "idle" => exec'.pc # "idle")
           /\ \A t \in Stories \ {s} : node'[t] = node[t] /\ deps'[t] = deps[t]
           /\ node'[s] = IF node[s] = "absent" THEN "pending" ELSE node[s]
           /\ stream.streaming /\ s # 1 => 1 \in deps'[s]
<1>1. DependsOn(s, stream.streaming, Known) \in SUBSET Nat
  BY StoryDagAssumption DEF DependsOn
<1>2. deps' \in [Stories -> SUBSET Nat]
  BY <1>1 DEF AddStory, DagType
<1>3. node' \in [Stories -> Statuses]
  BY DEF AddStory, DagType, Statuses
<1>4. exec' \in ExecRec /\ (exec.pc # "idle" => exec'.pc # "idle")
  BY DEF AddStory, Broadcast, DagType, ExecRec
<1>5. stream.streaming /\ s # 1 => 1 \in DependsOn(s, stream.streaming, Known)
  BY StoryDagAssumption DEF DependsOn
<1> QED
  BY <1>1, <1>2, <1>3, <1>4, <1>5 DEF AddStory, DagType
-----------------------------------------------------------------------------
(* Every step keeps the types. *)

LEMMA NextAttempt ==
    ASSUME gen \in GenRec
    PROVE  [gen EXCEPT !.attempt = @ + 1, !.pc = IF gen.attempt = 2 THEN "close" ELSE "plan"] \in GenRec
<1> DEFINE a == gen.attempt + 1
           pc == IF gen.attempt = 2 THEN "close" ELSE "plan"
<1>1. a \in Nat /\ pc \in {"close", "plan"}
  BY DEF GenRec
<1>2. [gen EXCEPT !.attempt = @ + 1, !.pc = pc] = [gen EXCEPT !.attempt = a, !.pc = pc]
  BY DEF GenRec
<1> HIDE DEF a, pc
<1>3. [gen EXCEPT !.attempt = a, !.pc = pc] \in GenRec
  BY <1>1 DEF GenRec
<1> QED
  BY <1>2, <1>3 DEF pc

LEMMA TypeRoadmap ==
    ASSUME StoryType, RoadmapStep PROVE StoryType'
<1> USE DEF StoryType
<1>0. DagType /\ LoopType /\ GenType /\ RescueType /\ phase \in Phases
  OBVIOUS
<1>1. ASSUME NEW d \in SUBSET Stories, NEW o \in SUBSET Stories, PlanRoadmap(d, o) PROVE StoryType'
  <2>1. GenType'
    BY <1>0, <1>1 DEF PlanRoadmap, GenType, GenRec
  <2> QED
    BY <1>0, <1>1, <2>1 DEF PlanRoadmap, dagVars, DagType, LoopType, RescueType
<1>2. CASE PlanFails
  <2>1. GenType'
    BY <1>0, <1>2, NextAttempt DEF PlanFails, GenType
  <2> QED
    BY <1>0, <1>2, <2>1 DEF PlanFails, dagVars, DagType, LoopType, RescueType
<1>3. ASSUME NEW s \in Stories, ExpandRoadmapStory(s) PROVE StoryType'
  <2>1. GenType'
    BY <1>0, <1>3 DEF ExpandRoadmapStory, GenType, GenRec
  <2>2. DagType'
    BY <1>0, <1>3, AddEffect DEF ExpandRoadmapStory
  <2> QED
    BY <1>0, <1>3, <2>1, <2>2 DEF ExpandRoadmapStory, LoopType, RescueType
<1>4. ASSUME NEW r \in BOOLEAN, NEW k \in [Stories -> {Legacy, Feature, Hardening}],
             SanitizeAndCapStories(r, k)
      PROVE  StoryType'
  <2>2. files' \in SUBSET Stories
    BY <1>0, <1>4 DEF SanitizeAndCapStories, GenType
  <2>3. \/ gen' = [gen EXCEPT !.attempt = @ + 1, !.pc = IF gen.attempt = 2 THEN "close" ELSE "plan"]
        \/ gen' = [gen EXCEPT !.pc = "audit", !.direct = {}, !.expanded = {}, !.refined = TRUE]
    BY <1>4 DEF SanitizeAndCapStories
  <2>4. gen' \in GenRec
    <3>1. [gen EXCEPT !.pc = "audit", !.direct = {}, !.expanded = {}, !.refined = TRUE] \in GenRec
      BY <1>0 DEF GenType, GenRec
    <3> QED
      BY <1>0, <2>3, <3>1, NextAttempt DEF GenType
  <2> QED
    BY <1>0, <1>4, <2>2, <2>4 DEF SanitizeAndCapStories, dagVars, DagType, GenType, LoopType, RescueType
<1>5. CASE NextRoadmapPass
  <2>0. gen.pass + 1 \in Nat /\ files \in SUBSET Stories
    BY <1>0 DEF GenType, GenRec
  <2>1. gen' \in GenRec
    <3>1. [gen EXCEPT !.pc = "close"] \in GenRec
      BY <1>0 DEF GenType, GenRec
    <3>2. [gen EXCEPT !.pc = "plan", !.pass = gen.pass + 1, !.attempt = 0] \in GenRec
      BY <1>0, <2>0 DEF GenType, GenRec
    <3>3. [gen EXCEPT !.pc = "audit", !.pass = gen.pass + 1, !.todo = files, !.refined = FALSE] \in GenRec
      BY <1>0, <2>0 DEF GenType, GenRec
    <3>4. \/ gen' = [gen EXCEPT !.pc = "close"]
          \/ gen' = [gen EXCEPT !.pc = "plan", !.pass = gen.pass + 1, !.attempt = 0]
          \/ gen' = [gen EXCEPT !.pc = "audit", !.pass = gen.pass + 1, !.todo = files, !.refined = FALSE]
      BY <1>0, <1>5 DEF NextRoadmapPass, GenType, GenRec
    <3> QED
      BY <3>1, <3>2, <3>3, <3>4
  <2> QED
    BY <1>0, <1>5, <2>1 DEF NextRoadmapPass, dagVars, DagType, GenType, LoopType, RescueType
<1>6. ASSUME NEW s \in Stories, NEW v \in {"good", "refined", "failed"}, AuditStory(s, v) PROVE StoryType'
  <2>1. GenType'
    <3>1. (gen.refined \/ v = "refined") \in BOOLEAN
      OBVIOUS
    <3>2. gen' \in GenRec
      BY <1>0, <1>6, <3>1 DEF AuditStory, GenType, GenRec
    <3> QED
      BY <1>0, <1>6, <3>2 DEF AuditStory, GenType
  <2>2. DagType'
    BY <1>0, <1>6, AddEffect DEF AuditStory, dagVars, DagType
  <2> QED
    BY <1>0, <1>6, <2>1, <2>2 DEF AuditStory, LoopType, RescueType
<1>7. CASE GenerateRoadmapStreaming
  <2>1. GenType'
    BY <1>0, <1>7 DEF GenerateRoadmapStreaming, GenType, GenRec
  <2>2. DagType'
    BY <1>0, <1>7 DEF GenerateRoadmapStreaming, CloseStoryStream, Broadcast, DagType, StreamRec, ExecRec
  <2> QED
    BY <1>0, <1>7, <2>1, <2>2 DEF GenerateRoadmapStreaming, LoopType, RescueType
<1> QED
  BY <1>1, <1>2, <1>3, <1>4, <1>5, <1>6, <1>7 DEF RoadmapStep

LEMMA TypeExecute ==
    ASSUME StoryType, ExecuteStep \/ SignalStep \/ (\E s \in Stories : StoryStep(s)) PROVE StoryType'
<1> USE DEF StoryType
<1>0. DagType /\ LoopType /\ GenType /\ RescueType /\ phase \in Phases
  OBVIOUS
<1>1. CASE ExecuteStep
  <2>1. CASE ExecuteTop
    <3>1. node' \in [Stories -> Statuses]
      BY <1>0, <2>1 DEF ExecuteTop, DagType, Statuses
    <3>2. exec' \in ExecRec
      <4>1. PICK started : \/ exec' = [exec EXCEPT !.pc = "done"]
                           \/ exec' = [exec EXCEPT !.pc = IF StreamOpen THEN "wait" ELSE "done"]
                           \/ exec' = [pc |-> "rejoin", launched |-> started # {}]
        BY <2>1 DEF ExecuteTop
      <4>2. (started # {}) \in BOOLEAN
        OBVIOUS
      <4>3. CASE exec' = [exec EXCEPT !.pc = "done"] \/ exec' = [exec EXCEPT !.pc = IF StreamOpen THEN "wait" ELSE "done"]
        BY <1>0, <4>3 DEF DagType, ExecRec
      <4>4. CASE exec' = [pc |-> "rejoin", launched |-> started # {}]
        <5>1. PICK b \in BOOLEAN : b = (started # {})
          BY <4>2
        <5>2. exec' = [pc |-> "rejoin", launched |-> b]
          BY <4>4, <5>1
        <5> QED
          BY <5>2 DEF ExecRec
      <4> QED
        BY <4>1, <4>3, <4>4
    <3> QED
      BY <1>0, <1>1, <2>1, <3>1, <3>2 DEF ExecuteStep, ExecuteTop, runVars, DagType, LoopType, GenType, RescueType
  <2>2. CASE ExecuteRejoin
    BY <1>0, <1>1, <2>2 DEF ExecuteStep, ExecuteRejoin, runVars, DagType, ExecRec, LoopType, GenType, RescueType
  <2> QED
    BY <1>1, <2>1, <2>2 DEF ExecuteStep
<1>2. CASE SignalStep
  <2>1. DagType'
    BY <1>0, <1>2 DEF SignalStep, Signal, Broadcast, DagType, ExecRec
  <2> QED
    BY <1>0, <1>2, <2>1 DEF SignalStep, runVars, LoopType, GenType, RescueType
<1>3. ASSUME NEW s \in Stories, StoryStep(s) PROVE StoryType'
  <2>1. DagType'
    BY <1>0, <1>3 DEF StoryStep, SkipVanished, processFunc, StoryReturns, DagType, Statuses
  <2>2. CASE SkipVanished(s)
    BY <1>0, <2>1, <2>2 DEF SkipVanished, runVars, LoopType, GenType, RescueType
  <2>3. ASSUME NEW end \in Ends, processFunc(s, end) PROVE StoryType'
    <3>1. end.ret \in Outcomes
      BY DEF Ends, Outcomes
    <3>2. outcome' \in [Stories -> Outcomes]
      BY <1>0, <2>3, <3>1 DEF processFunc, Executed, LoopType
    <3>3. loop' \in LoopRec
      BY <1>0, <2>3 DEF processFunc, Executed, LoopType, LoopRec
    <3> QED
      BY <1>0, <2>1, <2>3, <3>2, <3>3 DEF processFunc, Executed, LoopType, GenType, RescueType
  <2> QED
    BY <1>3, <2>2, <2>3 DEF StoryStep
<1> QED
  BY <1>1, <1>2, <1>3

LEMMA TypeEnvironment ==
    ASSUME StoryType, StandbyStep \/ Developer \/ Crash \/ UNCHANGED vars PROVE StoryType'
<1> USE DEF StoryType
<1>0. DagType /\ LoopType /\ GenType /\ RescueType /\ phase \in Phases
  OBVIOUS
<1>1. CASE StandbyStep
  BY <1>0, <1>1 DEF StandbyStep, Watch, Serve, SendOrder, dagVars, runVars, DagType, LoopType, GenType, RescueType
<1>2. CASE Developer
  BY <1>0, <1>2 DEF Developer, dagVars, runVars, DagType, LoopType, GenType, RescueType
<1>3. CASE Crash
  <2>1. DagType'
    BY <1>3, ResetType DEF Crash
  <2> QED
    BY <1>0, <1>3, <2>1, Constants1, RescueConstant DEF Crash, LoopType, GenType, RescueType, Phases
<1>4. CASE UNCHANGED vars
  BY <1>0, <1>4 DEF vars, dagVars, runVars, DagType, LoopType, GenType, RescueType
<1> QED
  BY <1>1, <1>2, <1>3, <1>4

\* A rescue turn's commits.
LEMMA TurnCommits ==
    ASSUME RescueType, NEW lvl \in Levels, NEW changed \in BOOLEAN
    PROVE  (IF changed THEN <<rescue.next, lvl>> ELSE rescue.head) \in Commits
<1>1. rescue.next \in Nat /\ rescue.head \in Commits /\ lvl \in 0..4
  BY StoryRunAssumption DEF RescueType, RescueRec
<1>2. <<rescue.next, lvl>> \in Commits
  BY <1>1 DEF Commits
<1> QED
  BY <1>1, <1>2

LEMMA RescueTurnType ==
    ASSUME StoryType, NEW lvl \in Levels, NEW changed \in BOOLEAN, NEW toolErrors \in BOOLEAN,
           RescueTurn(lvl, changed, toolErrors)
    PROVE  StoryType'
<1>0. DagType /\ LoopType /\ GenType /\ RescueType /\ phase \in Phases
  BY DEF StoryType
<1> DEFINE head == IF changed THEN <<rescue.next, lvl>> ELSE rescue.head
           best == IF unit(head) THEN head ELSE rescue.best
           kept == IF ~unit(head) /\ toolErrors THEN rescue.best ELSE head
           log == [failure |-> head[2], turn |-> rescue.turn]
           osc == RecordFailure(rescue.osc, log)
<1>1. head \in Commits
  BY <1>0, TurnCommits
<1>2. rescue.best \in Commits /\ rescue.audit \in BOOLEAN /\ rescue.turn + 1 \in Nat /\ rescue.next + 1 \in Nat
      /\ rescue.osc \in [history : Seq(Nat), reconciliations : Nat]
  BY <1>0 DEF RescueType, RescueRec
<1>3. \/ rescue' = [NoRescue EXCEPT !.audit = rescue.audit, !.head = head]
      \/ rescue' = [NoRescue EXCEPT !.head = kept, !.best = best]
      \/ rescue' = [rescue EXCEPT !.turn = @ + 1, !.head = kept, !.next = @ + 1, !.best = best, !.osc = RecordFailure(@, log)]
  BY DEF RescueTurn
<1>4. phase' \in {phase, "regate", "gate", "done"}
  BY DEF RescueTurn
<1>5. log.failure \in Nat
  BY <1>1 DEF Commits
<1>6. osc \in [history : Seq(Nat), reconciliations : Nat]
  <2> HIDE DEF log
  <2> QED
    BY <1>2, <1>5, RecordFailureType
<1>7. best \in Commits /\ kept \in Commits
  <2> HIDE DEF head
  <2> QED
    BY <1>1, <1>2
<1> HIDE DEF head, best, kept, log
<1>8. RescueType'
  <2>1. CASE rescue' = [NoRescue EXCEPT !.audit = rescue.audit, !.head = head]
    BY <1>1, <1>2, <2>1, RescueConstant DEF RescueType, RescueRec
  <2>2. CASE rescue' = [NoRescue EXCEPT !.head = kept, !.best = best]
    BY <1>7, <2>2, RescueConstant DEF RescueType, RescueRec
  <2>3. CASE rescue' = [rescue EXCEPT !.turn = @ + 1, !.head = kept, !.next = @ + 1, !.best = best, !.osc = RecordFailure(@, log)]
    <3> DEFINE one == [rescue EXCEPT !.turn = rescue.turn + 1, !.head = kept]
               two == [one EXCEPT !.next = rescue.next + 1, !.best = best]
    <3>1. one \in RescueRec
      BY <1>0, <1>2, <1>7 DEF RescueType, RescueRec
    <3>2. two \in RescueRec
      <4> HIDE DEF one
      <4> QED
        BY <1>2, <1>7, <3>1 DEF RescueRec
    <3>3. rescue' = [two EXCEPT !.osc = osc]
      BY <1>0, <2>3 DEF RescueType, RescueRec
    <3> HIDE DEF two, osc
    <3> QED
      BY <1>6, <3>2, <3>3 DEF RescueType, RescueRec
  <2> QED
    BY <1>3, <2>1, <2>2, <2>3
<1> QED
  BY <1>0, <1>4, <1>8 DEF StoryType, RescueTurn, dagVars, DagType, LoopType, GenType, Phases

LEMMA TypeMain ==
    ASSUME StoryType, MainStep PROVE StoryType'
<1> USE DEF StoryType
<1>0. DagType /\ LoopType /\ GenType /\ RescueType /\ phase \in Phases
  OBVIOUS
<1>c. /\ TotalLoops \in Nat /\ {Pipelined, RescueEnabled, WantStandby} \subseteq BOOLEAN /\ MaxGaps \in Nat
      /\ (Pipelined /\ MaxConcurrent > 1) \in BOOLEAN
  BY StoryRunAssumption
<1>1. CASE Boot
  <2>1. CASE files = {}
    <3>1. gen' \in GenRec
      <4>1. gen' = [NoGen EXCEPT !.pc = "plan", !.pass = 1]
        BY <1>1, <2>1 DEF Boot
      <4> QED
        BY <4>1, Constants1 DEF GenRec
    <3>2. loop' \in LoopRec
      <4>1. loop' = [NoLoop EXCEPT !.idx = 1, !.total = TotalLoops]
        BY <1>1, <2>1 DEF Boot
      <4> QED
        BY <1>c, <4>1, Constants1 DEF LoopRec
    <3>3. stream' \in StreamRec
      <4>1. PICK b \in BOOLEAN : b = (Pipelined /\ MaxConcurrent > 1)
        BY <1>c
      <4>2. stream' = [streaming |-> TRUE, closed |-> FALSE, pipelined |-> b]
        BY <1>1, <2>1, <4>1 DEF Boot
      <4> QED
        BY <4>2 DEF StreamRec
    <3>4. exec' \in ExecRec
      <4>1. exec' = [pc |-> "top", launched |-> FALSE]
        BY <1>1, <2>1 DEF Boot
      <4> QED
        BY <4>1 DEF ExecRec
    <3> QED
      BY <1>0, <1>1, <2>1, <3>1, <3>2, <3>3, <3>4 DEF Boot, DagType, LoopType, GenType, RescueType, Phases
  <2>2. CASE files # {}
    <3>1. loop' = [NoLoop EXCEPT !.list = files, !.idx = 1, !.total = TotalLoops, !.resume = recorded]
      BY <1>1, <2>2 DEF Boot
    <3>2. outcome' \in [Stories -> Outcomes]
      BY <1>1, <2>2 DEF Boot, Outcomes
    <3>3. loop' \in LoopRec
      <4>1. recorded \in BOOLEAN /\ files \in SUBSET Stories
        BY <1>0 DEF LoopType, GenType
      <4>2. [NoLoop EXCEPT !.list = files, !.idx = 1] \in LoopRec
        BY <4>1, Constants1 DEF LoopRec
      <4> QED
        BY <1>c, <3>1, <4>1, <4>2, Constants1 DEF LoopRec
    <3> QED
      BY <1>0, <1>1, <2>2, <3>2, <3>3 DEF Boot, dagVars, DagType, LoopType, GenType, RescueType, Phases
  <2> QED
    BY <2>1, <2>2
<1>2. CASE BeginPass
  <2> DEFINE active == loop.list \cap files
             skip == IF loop.idx > 1 \/ loop.resume THEN active \cap verified ELSE {}
  <2>1. active \in SUBSET Stories
    BY <1>0 DEF GenType
  <2>2. CASE active = {}
    BY <1>0, <1>2, <2>2 DEF BeginPass, dagVars, DagType, LoopType, GenType, RescueType, Phases
  <2>3. CASE active # {}
    <3>1. loop' = [loop EXCEPT !.active = active, !.changed = FALSE]
      BY <1>2, <2>3 DEF BeginPass
    <3>2. loop' \in LoopRec
      <4> HIDE DEF active
      <4> QED
        BY <1>0, <2>1, <3>1 DEF LoopType, LoopRec
    <3>3. outcome' \in [Stories -> Outcomes]
      <4>1. outcome' = [s \in Stories |-> IF s \in skip THEN "ok" ELSE outcome[s]]
        BY <1>2, <2>3 DEF BeginPass
      <4> HIDE DEF skip
      <4> QED
        BY <1>0, <4>1 DEF LoopType, Outcomes
    <3>4. node' \in [Stories -> Statuses] /\ deps' \in [Stories -> SUBSET Nat]
      <4>1. node' = NodesOf(active, skip) /\ deps' = DepsOf(active)
        BY <1>2, <2>3 DEF BeginPass
      <4> HIDE DEF active, skip
      <4> QED
        BY <4>1, StoryDagAssumption DEF NodesOf, DepsOf, DependsOn, Statuses
    <3>5. stream' \in StreamRec /\ exec' \in ExecRec
      <4>1. stream' = [streaming |-> FALSE, closed |-> FALSE, pipelined |-> Pipelined]
        BY <1>2, <2>3 DEF BeginPass
      <4>2. PICK pc \in {"top", "idle"} : exec' = [pc |-> pc, launched |-> FALSE]
        BY <1>2, <2>3 DEF BeginPass
      <4>3. stream' \in StreamRec
        BY <1>c, <4>1 DEF StreamRec
      <4> QED
        BY <4>2, <4>3 DEF ExecRec
    <3>6. phase' \in Phases
      BY <1>2, <2>3 DEF BeginPass, Phases
    <3> QED
      BY <1>0, <1>2, <3>2, <3>3, <3>4, <3>5, <3>6 DEF BeginPass, DagType, LoopType, GenType, RescueType
  <2> QED
    BY <2>2, <2>3
<1>3. ASSUME NEW end \in Ends, SequentialStory(end) PROVE StoryType'
  <2> DEFINE todo == {s \in Stories : node[s] = "pending"}
             x == CHOOSE x \in todo : \A y \in todo : x <= y
  <2>1. node' \in [Stories -> Statuses]
    BY <1>0, <1>3 DEF SequentialStory, DagType, Statuses
  <2>2. end.ret \in Outcomes /\ "ok" \in Outcomes
    BY DEF Ends, Outcomes
  <2>3. outcome' \in [Stories -> Outcomes] /\ recorded' \in BOOLEAN
    BY <1>0, <1>3, <2>2 DEF SequentialStory, Executed, LoopType
  <2>4. loop' \in LoopRec
    <3>1. loop' \in {loop, [loop EXCEPT !.changed = TRUE]}
      BY <1>3 DEF SequentialStory, Executed
    <3> QED
      BY <1>0, <3>1 DEF LoopType, LoopRec
  <2> QED
    BY <1>0, <1>3, <2>1, <2>3, <2>4 DEF SequentialStory, DagType, LoopType, GenType, RescueType
<1>4. CASE EndStreamedPass
  <2>1. DagType'
    BY <1>4, ResetType DEF EndStreamedPass
  <2>2. loop' \in LoopRec
    BY <1>0, <1>4, Constants1 DEF EndStreamedPass, GenType, LoopRec
  <2>3. outcome' \in [Stories -> Outcomes]
    BY <1>0, <1>4 DEF EndStreamedPass, Discovered, LoopType, Outcomes
  <2> QED
    BY <1>0, <1>4, <2>1, <2>2, <2>3, Constants1 DEF EndStreamedPass, LoopType, GenType, RescueType, Phases
<1>5. ASSUME NEW p \in BOOLEAN, EndPass(p) PROVE StoryType'
  <2>1. DagType'
    BY <1>5, ResetType DEF EndPass
  <2>2. loop' \in LoopRec
    <3> DEFINE extend == loop.idx = loop.total /\ loop.ext < 2 /\ p
               total == IF extend THEN loop.total + 1 ELSE loop.total
               ext == IF extend THEN loop.ext + 1 ELSE loop.ext
    <3>1. total \in Nat /\ ext \in Nat /\ loop.idx + 1 \in Nat /\ loop.list \in SUBSET Stories
      BY <1>0 DEF LoopType, LoopRec
    <3>2. FailureSignature \in SUBSET (Stories \X Outcomes)
      BY <1>0 DEF FailureSignature, LoopType
    <3>3. \/ loop' = [NoLoop EXCEPT !.list = loop.list]
          \/ loop' = [loop EXCEPT !.active = {}, !.sig = FailureSignature, !.idx = loop.idx + 1,
                                  !.total = total, !.ext = ext]
      BY <1>0, <1>5 DEF EndPass, LoopType, LoopRec
    <3> HIDE DEF total, ext
    <3>4. CASE loop' = [NoLoop EXCEPT !.list = loop.list]
      BY <3>1, <3>4, Constants1 DEF LoopRec
    <3>5. CASE loop' = [loop EXCEPT !.active = {}, !.sig = FailureSignature, !.idx = loop.idx + 1,
                                    !.total = total, !.ext = ext]
      <4> DEFINE one == [loop EXCEPT !.active = {}, !.sig = FailureSignature]
      <4>1. one \in LoopRec
        BY <1>0, <3>2 DEF LoopType, LoopRec
      <4>2. loop' = [one EXCEPT !.idx = loop.idx + 1, !.total = total, !.ext = ext]
        BY <3>5
      <4> HIDE DEF one
      <4> QED
        BY <3>1, <4>1, <4>2 DEF LoopRec
    <3> QED
      BY <3>3, <3>4, <3>5
  <2>3. phase' \in Phases
    BY <1>5 DEF EndPass, Phases
  <2> QED
    BY <1>0, <1>5, <2>1, <2>2, <2>3 DEF EndPass, LoopType, GenType, RescueType
<1>6. ASSUME NEW lvl \in Levels, RunLevelCheck(lvl) PROVE StoryType'
  <2>1. loop' \in LoopRec /\ outcome' \in [Stories -> Outcomes]
    BY <1>0, <1>6, Constants1 DEF RunLevelCheck, LoopType, LoopRec
  <2>2. phase' \in Phases
    BY <1>6 DEF RunLevelCheck, Phases
  <2>3. rescue' \in RescueRec
    <3> DEFINE failed == {s \in loop.list : outcome[s] \notin {"ok", "none"}} \ verified
    <3>1. failed \in SUBSET Stories
      BY <1>0 DEF LoopType, LoopRec
    <3>2. rescue' = rescue \/ rescue' = [DispatchSovereignRescue(0, lvl) EXCEPT !.failed = failed]
      BY <1>6 DEF RunLevelCheck
    <3>3. DispatchSovereignRescue(0, lvl) \in RescueRec
      BY DispatchType
    <3> HIDE DEF failed
    <3> QED
      BY <1>0, <3>1, <3>2, <3>3 DEF RescueType, RescueRec
  <2> QED
    BY <1>0, <1>6, <2>1, <2>2, <2>3 DEF RunLevelCheck, dagVars, DagType, LoopType, GenType, RescueType
<1>7. CASE RescueCallFails
  <2>1. rescue.grace + 1 \in Nat /\ rescue.turn + 1 \in Nat
    BY <1>0 DEF RescueType, RescueRec
  <2>2. rescue' = [rescue EXCEPT !.grace = rescue.grace + 1] \/ rescue' = [rescue EXCEPT !.turn = rescue.turn + 1]
    BY <1>0, <1>7 DEF RescueCallFails, RescueType, RescueRec
  <2>3. rescue' \in RescueRec
    BY <1>0, <2>1, <2>2 DEF RescueType, RescueRec
  <2> QED
    BY <1>0, <1>7, <2>3 DEF RescueCallFails, dagVars, DagType, LoopType, GenType, RescueType
<1>8. ASSUME NEW lvl \in Levels, NEW a \in BOOLEAN, NEW e \in BOOLEAN, RescueTurn(lvl, a, e) PROVE StoryType'
  BY <1>8, RescueTurnType
<1>9. CASE RescueExhausted
  <2>1. rescue.head \in Commits /\ rescue.best \in Commits
    BY <1>0 DEF RescueType, RescueRec
  <2>2. PICK h \in Commits : rescue' = [NoRescue EXCEPT !.head = h, !.best = rescue.best]
    BY <1>9, <2>1 DEF RescueExhausted
  <2>3. rescue' \in RescueRec
    BY <2>1, <2>2, RescueConstant DEF RescueRec
  <2> QED
    BY <1>0, <1>9, <2>3 DEF RescueExhausted, dagVars, DagType, LoopType, GenType, RescueType, Phases
<1>10. ASSUME NEW v, NEW g \in 1..MaxGaps, NEW lvl \in Levels, AcceptanceGate(v, g, lvl) PROVE StoryType'
  <2>1. g \in Nat
    BY <1>c
  <2>2. DispatchSovereignRescue(g, lvl) \in RescueRec
    BY <2>1, DispatchType
  <2>3. rescue' = NoRescue \/ rescue' = [DispatchSovereignRescue(g, lvl) EXCEPT !.audit = TRUE]
    BY <1>10 DEF AcceptanceGate
  <2>4. rescue' \in RescueRec
    BY <2>2, <2>3, RescueConstant DEF RescueRec
  <2>5. phase' \in Phases
    BY <1>10 DEF AcceptanceGate, Phases
  <2> QED
    BY <1>0, <1>10, <2>4, <2>5 DEF AcceptanceGate, dagVars, DagType, LoopType, GenType, RescueType
<1>11. ASSUME NEW p \in BOOLEAN, ReAudit(p) PROVE StoryType'
  BY <1>0, <1>11, RescueConstant DEF ReAudit, dagVars, DagType, LoopType, GenType, RescueType, Phases
<1>12. CASE runStandbyMode
  BY <1>0, <1>12 DEF runStandbyMode, dagVars, DagType, LoopType, GenType, RescueType, Phases
<1> QED
  BY <1>1, <1>2, <1>3, <1>4, <1>5, <1>6, <1>7, <1>8, <1>9, <1>10, <1>11, <1>12 DEF MainStep

LEMMA StoryTypeNext == StoryType /\ [Next]_vars => StoryType'
  BY TypeRoadmap, TypeExecute, TypeMain, TypeEnvironment DEF Next
-----------------------------------------------------------------------------
(* The phases. *)

LEMMA PhaseNext == StoryType /\ PhaseInv /\ [Next]_vars => PhaseInv'
<1> SUFFICES ASSUME StoryType, PhaseInv, [Next]_vars PROVE PhaseInv'
  OBVIOUS
<1>0. DagType /\ LoopType /\ GenType /\ RescueType
  BY DEF StoryType
<1>1. CASE RoadmapStep
  <2>0. /\ gen.pc # "off" => phase = "pass" /\ stream.streaming /\ exec.pc # "idle"
        /\ phase' = phase /\ outcome' = outcome
    BY <1>1 DEF PhaseInv, RoadmapStep, PlanRoadmap, PlanFails, ExpandRoadmapStory, SanitizeAndCapStories,
                NextRoadmapPass, AuditStory, GenerateRoadmapStreaming
  <2>1. gen.pc # "off"
    BY <1>1 DEF RoadmapStep, PlanRoadmap, PlanFails, ExpandRoadmapStory, SanitizeAndCapStories,
                NextRoadmapPass, AuditStory, GenerateRoadmapStreaming
  <2>2. stream'.streaming /\ exec'.pc # "idle"
    <3>1. CASE UNCHANGED dagVars
      BY <2>0, <2>1, <3>1 DEF dagVars
    <3>2. CASE \E s \in Stories : AddStory(s)
      BY <1>0, <2>0, <2>1, <3>2, AddEffect
    <3>3. CASE CloseStoryStream
      BY <1>0, <2>0, <2>1, <3>3 DEF CloseStoryStream, Broadcast, DagType, StreamRec, ExecRec
    <3> QED
      BY <1>1, <3>1, <3>2, <3>3 DEF RoadmapStep, PlanRoadmap, PlanFails, ExpandRoadmapStory,
         SanitizeAndCapStories, NextRoadmapPass, AuditStory, GenerateRoadmapStreaming
  <2> QED
    BY <2>0, <2>1, <2>2 DEF PhaseInv
<1>2. CASE ExecuteStep
  <2>1. /\ exec.pc # "idle" /\ exec'.pc # "idle" /\ stream' = stream
        /\ UNCHANGED <<phase, gen, outcome>>
    BY <1>0, <1>2 DEF ExecuteStep, ExecuteTop, ExecuteRejoin, DagType, ExecRec, runVars
  <2> QED
    BY <2>1 DEF PhaseInv
<1>3. CASE SignalStep
  <2>1. /\ exec.pc # "idle" => exec'.pc # "idle"
        /\ exec.pc = "idle" => exec'.pc = "idle"
        /\ UNCHANGED <<phase, gen, outcome, stream, node>>
    BY <1>0, <1>3 DEF SignalStep, Signal, Broadcast, DagType, ExecRec, runVars
  <2> QED
    BY <2>1 DEF PhaseInv
<1>4. CASE \E s \in Stories : StoryStep(s)
  <2>1. phase = "pass" /\ UNCHANGED <<phase, gen, stream, exec>>
    BY <1>4 DEF StoryStep, SkipVanished, processFunc, StoryReturns, runVars
  <2> QED
    BY <2>1 DEF PhaseInv
<1>5. CASE MainStep
  <2>1. CASE Boot
    <3>0. ~stream.streaming /\ gen.pc = "off"
      BY <2>1 DEF Boot, PhaseInv
    <3>1. CASE files = {}
      BY <2>1, <3>1 DEF Boot, PhaseInv
    <3>2. CASE files # {}
      BY <2>1, <3>0, <3>2 DEF Boot, PhaseInv, dagVars
    <3> QED
      BY <3>1, <3>2
  <2>2. CASE BeginPass
    <3>1. ~stream.streaming /\ gen.pc = "off" /\ gen' = gen
      BY <2>2 DEF BeginPass, PhaseInv
    <3>2. ~stream'.streaming /\ phase' # "boot"
      BY <2>2, <3>1 DEF BeginPass, dagVars
    <3> QED
      BY <3>1, <3>2 DEF PhaseInv
  <2>3. CASE \E end \in Ends : SequentialStory(end)
    <3>1. phase = "sequential" /\ UNCHANGED <<phase, gen, stream, exec>>
      BY <2>3 DEF SequentialStory
    <3> QED
      BY <3>1 DEF PhaseInv
  <2>4. CASE EndStreamedPass
    BY <2>4, ResetType, Constants1 DEF EndStreamedPass, PhaseInv
  <2>5. CASE \E p \in BOOLEAN : EndPass(p)
    <3>1. gen' = gen /\ gen.pc = "off" /\ phase' # "boot" /\ SchedulerReset
      BY <2>5 DEF EndPass, PhaseInv
    <3> QED
      BY <3>1, ResetType DEF PhaseInv
  <2>6. CASE \/ \E lvl \in Levels : RunLevelCheck(lvl)
             \/ RescueCallFails \/ RescueExhausted
             \/ \E lvl \in Levels, a, e \in BOOLEAN : RescueTurn(lvl, a, e)
             \/ \E v \in {"passed", "error", "gaps"}, g \in 1..MaxGaps, lvl \in Levels : AcceptanceGate(v, g, lvl)
             \/ \E p \in BOOLEAN : ReAudit(p)
             \/ runStandbyMode
    <3>1. phase \notin {"boot", "pass"} /\ phase' # "boot" /\ UNCHANGED <<dagVars, gen>>
      <4>1. CASE \E lvl \in Levels : RunLevelCheck(lvl)
        BY <4>1 DEF RunLevelCheck
      <4>2. CASE RescueCallFails \/ RescueExhausted \/ runStandbyMode \/ \E p \in BOOLEAN : ReAudit(p)
        BY <4>2 DEF RescueCallFails, RescueExhausted, runStandbyMode, ReAudit
      <4>3. CASE \E lvl \in Levels, a, e \in BOOLEAN : RescueTurn(lvl, a, e)
        BY <4>3 DEF RescueTurn
      <4>4. CASE \E v \in {"passed", "error", "gaps"}, g \in 1..MaxGaps, lvl \in Levels : AcceptanceGate(v, g, lvl)
        BY <4>4 DEF AcceptanceGate
      <4> QED
        BY <2>6, <4>1, <4>2, <4>3, <4>4
    <3> QED
      BY <3>1 DEF PhaseInv, dagVars
  <2> QED
    BY <1>5, <2>1, <2>2, <2>3, <2>4, <2>5, <2>6 DEF MainStep
<1>6. CASE StandbyStep \/ Developer \/ UNCHANGED vars
  <2>1. UNCHANGED <<dagVars, phase, gen, outcome>>
    BY <1>6 DEF StandbyStep, Watch, Serve, SendOrder, Developer, runVars, vars
  <2> QED
    BY <2>1 DEF PhaseInv, dagVars
<1>7. CASE Crash
  BY <1>7, ResetType, Constants1 DEF Crash, PhaseInv
<1> QED
  BY <1>1, <1>2, <1>3, <1>4, <1>5, <1>6, <1>7 DEF Next

(* The foundation story. *)

LEMMA FoundationNext == StoryType /\ PhaseInv /\ FoundationInv /\ [Next]_vars => FoundationInv'
<1> SUFFICES ASSUME StoryType, PhaseInv, FoundationInv, [Next]_vars, stream'.streaming PROVE FoundationInv'
  BY DEF FoundationInv
<1>0. DagType
  BY DEF StoryType
<1>u. ASSUME UNCHANGED <<node, deps>>, stream'.streaming = stream.streaming, stream'.pipelined = stream.pipelined
      PROVE  FoundationInv'
  BY <1>u DEF FoundationInv
<1>1. CASE RoadmapStep
  <2>1. CASE UNCHANGED dagVars
    BY <1>u, <2>1 DEF dagVars
  <2>2. ASSUME NEW s \in Stories, AddStory(s) PROVE FoundationInv'
    <3>1. /\ stream' = stream
          /\ \A t \in Stories \ {s} : node'[t] = node[t] /\ deps'[t] = deps[t]
          /\ node'[s] = IF node[s] = "absent" THEN "pending" ELSE node[s]
          /\ stream.streaming /\ s # 1 => 1 \in deps'[s]
      BY <1>0, <2>2, AddEffect
    <3>2. ASSUME NEW t \in Stories \ {1}, node'[t] # "absent" PROVE 1 \in deps'[t]
      BY <3>1, <3>2 DEF FoundationInv
    <3>3. ASSUME NEW t \in Stories \ {1}, ~stream'.pipelined, node'[t] \in {"running", "success", "failed"}
          PROVE  1 \in Stories /\ node'[1] = "success"
      <4>1. node[t] \in {"running", "success", "failed"}
        BY <3>1, <3>3
      <4>2. 1 \in Stories /\ node[1] = "success"
        BY <3>1, <3>3, <4>1 DEF FoundationInv
      <4> QED
        BY <3>1, <4>2
    <3> QED
      BY <3>2, <3>3 DEF FoundationInv
  <2>3. CASE CloseStoryStream
    BY <1>0, <1>u, <2>3 DEF CloseStoryStream, DagType, StreamRec
  <2> QED
    BY <1>1, <2>1, <2>2, <2>3 DEF RoadmapStep, PlanRoadmap, PlanFails, ExpandRoadmapStory,
       SanitizeAndCapStories, NextRoadmapPass, AuditStory, GenerateRoadmapStreaming
<1>2. CASE ExecuteStep
  <2>1. CASE ExecuteTop
    <3>1. CASE node' = node
      BY <1>u, <2>1, <3>1 DEF ExecuteTop
    <3>2. CASE node' # node
      <4>1. PICK started : IsDispatch(started) /\ node' = [s \in Stories |-> IF s \in started THEN "running" ELSE node[s]]
        BY <2>1, <3>2 DEF ExecuteTop
      <4>2. deps' = deps /\ stream' = stream
        BY <2>1 DEF ExecuteTop
      <4>3. ASSUME NEW s \in started PROVE s \in Stories /\ node[s] = "pending"
        BY <4>1, <4>3 DEF IsDispatch
      <4>4. node[1] = "success" /\ 1 \in Stories => node'[1] = "success"
        BY <4>1, <4>3
      <4>5. ASSUME NEW s \in Stories \ {1}, s \in started, ~stream.pipelined
            PROVE  1 \in Stories /\ node[1] = "success"
        <5> DEFINE at == [t \in Stories |-> IF t \in started /\ Before(t, s) THEN "running" ELSE node[t]]
        <5>1. node[s] = "pending" /\ DepsSatisfied(at, s)
          BY <4>1, <4>5 DEF IsDispatch
        <5>2. 1 \in deps[s]
          BY <4>2, <4>5, <5>1 DEF FoundationInv
        <5>3. 1 \in Stories /\ at[1] = "success"
          BY <4>5, <5>1, <5>2 DEF DepsSatisfied
        <5> QED
          BY <5>3
      <4>7. ASSUME NEW s \in Stories \ {1} PROVE node'[s] # "absent" => 1 \in deps'[s]
        BY <1>0, <4>1, <4>2, <4>3 DEF FoundationInv
      <4>8. ASSUME NEW s \in Stories \ {1}, ~stream'.pipelined, node'[s] \in {"running", "success", "failed"}
            PROVE  1 \in Stories /\ node'[1] = "success"
        <5>1. 1 \in Stories /\ node[1] = "success"
          BY <4>1, <4>2, <4>5, <4>8 DEF FoundationInv
        <5> QED
          BY <4>4, <5>1
      <4> QED
        BY <4>7, <4>8 DEF FoundationInv
    <3> QED
      BY <3>1, <3>2
  <2>2. CASE ExecuteRejoin
    BY <1>u, <2>2 DEF ExecuteRejoin
  <2> QED
    BY <1>2, <2>1, <2>2 DEF ExecuteStep
<1>3. CASE SignalStep
  BY <1>3, <1>u DEF SignalStep, Signal
<1>4. ASSUME NEW s \in Stories, StoryStep(s) PROVE FoundationInv'
  <2>1. node[s] = "running" /\ deps' = deps /\ stream' = stream
        /\ \E v \in {"success", "failed"} : node' = [node EXCEPT ![s] = v]
    BY <1>4 DEF StoryStep, SkipVanished, processFunc, StoryReturns
  <2> QED
    BY <1>0, <2>1 DEF FoundationInv, DagType
<1>5. CASE MainStep
  <2>1. CASE Boot
    <3>1. node' = node /\ node = [s \in Stories |-> "absent"]
      BY <2>1 DEF Boot, PhaseInv, dagVars
    <3> QED
      BY <3>1 DEF FoundationInv
  <2>2. CASE BeginPass
    <3>1. ~stream.streaming
      BY <2>2 DEF BeginPass, PhaseInv
    <3> QED
      BY <2>2, <3>1 DEF BeginPass, dagVars
  <2>3. CASE \E end \in Ends : SequentialStory(end)
    BY <2>3 DEF SequentialStory, PhaseInv
  <2>4. CASE EndStreamedPass \/ \E p \in BOOLEAN : EndPass(p)
    BY <2>4, ResetType DEF EndStreamedPass, EndPass
  <2>6. CASE \/ \E lvl \in Levels : RunLevelCheck(lvl)
             \/ RescueCallFails \/ RescueExhausted
             \/ \E lvl \in Levels, a, e \in BOOLEAN : RescueTurn(lvl, a, e)
             \/ \E v \in {"passed", "error", "gaps"}, g \in 1..MaxGaps, lvl \in Levels : AcceptanceGate(v, g, lvl)
             \/ \E p \in BOOLEAN : ReAudit(p)
             \/ runStandbyMode
    <3>1. UNCHANGED dagVars
      BY <2>6 DEF RunLevelCheck, RescueCallFails, RescueExhausted, RescueTurn, AcceptanceGate, ReAudit, runStandbyMode
    <3> QED
      BY <1>u, <3>1 DEF dagVars
  <2> QED
    BY <1>5, <2>1, <2>2, <2>3, <2>4, <2>6 DEF MainStep
<1>6. CASE StandbyStep \/ Developer \/ UNCHANGED vars
  <2>1. UNCHANGED dagVars
    BY <1>6 DEF StandbyStep, Watch, Serve, SendOrder, Developer, vars
  <2> QED
    BY <1>u, <2>1 DEF dagVars
<1>7. CASE Crash
  BY <1>7, ResetType DEF Crash
<1> QED
  BY <1>1, <1>2, <1>3, <1>4, <1>5, <1>6, <1>7 DEF Next
-----------------------------------------------------------------------------
(* Outcomes, what is verified, and what the rescue leaves. *)

LEMMA RoadmapFrame ==
    ASSUME StoryType, PhaseInv, RoadmapStep
    PROVE  /\ phase = "pass" /\ stream.streaming /\ stream'.streaming
           /\ UNCHANGED <<phase, loop, outcome, rescue, verified, result>>
<1>0. DagType
  BY DEF StoryType
<1>1. gen.pc # "off" /\ UNCHANGED <<phase, loop, outcome, rescue, verified, result>>
  BY DEF RoadmapStep, PlanRoadmap, PlanFails, ExpandRoadmapStory, SanitizeAndCapStories,
         NextRoadmapPass, AuditStory, GenerateRoadmapStreaming
<1>2. stream'.streaming = stream.streaming
  <2>1. CASE UNCHANGED dagVars \/ \E s \in Stories : AddStory(s)
    BY <2>1 DEF dagVars, AddStory
  <2>2. CASE CloseStoryStream
    BY <1>0, <2>2 DEF CloseStoryStream, DagType, StreamRec
  <2> QED
    BY <2>1, <2>2 DEF RoadmapStep, PlanRoadmap, PlanFails, ExpandRoadmapStory,
       SanitizeAndCapStories, NextRoadmapPass, AuditStory, GenerateRoadmapStreaming
<1> QED
  BY <1>1, <1>2 DEF PhaseInv

\* What an execution records keeps an "ok" outcome earned.
LEMMA ExecutedKeeps ==
    ASSUME LoopType, NEW s, NEW end \in Ends, Executed(s, end), UNCHANGED <<phase, files, stream>>,
           phase \in {"pass", "sequential"}, OutcomeInv
    PROVE  OutcomeInv' /\ loop'.list = loop.list
<1>1. loop'.list = loop.list
  BY DEF Executed, LoopType, LoopRec
<1>2. /\ outcome' = [outcome EXCEPT ![s] = end.ret] /\ end.ret # "none"
      /\ end.ret = "ok" => s \in verified'
      /\ \A t : t # s => (t \in verified' <=> t \in verified)
  BY DEF Executed, Ends
<1>3. ASSUME NEW t \in Stories, outcome'[t] = "ok", t \in files \/ stream.streaming PROVE t \in verified'
  BY <1>2, <1>3 DEF OutcomeInv, LoopType
<1>4. ASSUME NEW t \in loop.list \cap files, ~stream.streaming PROVE outcome'[t] # "none"
  BY <1>2, <1>4 DEF OutcomeInv, LoopType, LoopRec
<1> QED
  BY <1>1, <1>3, <1>4 DEF OutcomeInv

LEMMA OutcomeNext == StoryType /\ PhaseInv /\ OutcomeInv /\ [Next]_vars => OutcomeInv'
<1> SUFFICES ASSUME StoryType, PhaseInv, OutcomeInv, [Next]_vars PROVE OutcomeInv'
  OBVIOUS
<1>0. DagType /\ LoopType /\ GenType
  BY DEF StoryType
<1>u. ASSUME UNCHANGED <<phase, outcome, files, verified, stream, loop>> PROVE OutcomeInv'
  BY <1>u DEF OutcomeInv
<1>o. ASSUME phase' \notin {"pass", "sequential", "check"} PROVE OutcomeInv'
  BY <1>o DEF OutcomeInv
<1>1. CASE RoadmapStep
  BY <1>1, RoadmapFrame DEF OutcomeInv
<1>2. CASE ExecuteStep \/ SignalStep
  <2>1. UNCHANGED <<phase, outcome, files, verified, stream, loop>>
    BY <1>2 DEF ExecuteStep, ExecuteTop, ExecuteRejoin, SignalStep, Signal, runVars
  <2> QED
    BY <1>u, <2>1
<1>3. ASSUME NEW s \in Stories, StoryStep(s) PROVE OutcomeInv'
  <2>1. CASE SkipVanished(s)
    BY <1>u, <2>1 DEF SkipVanished, StoryReturns, runVars
  <2>2. ASSUME NEW end \in Ends, processFunc(s, end) PROVE OutcomeInv'
    <3>1. Executed(s, end) /\ phase = "pass" /\ UNCHANGED <<phase, files, stream>>
      BY <2>2 DEF processFunc, StoryReturns
    <3> QED
      BY <1>0, <3>1, ExecutedKeeps
  <2> QED
    BY <1>3, <2>1, <2>2 DEF StoryStep
<1>4. CASE MainStep
  <2>1. CASE Boot
    <3>0. outcome = NoOutcome /\ ~stream.streaming /\ files' = files
      BY <2>1 DEF Boot, PhaseInv
    <3>1. CASE files = {}
      <4>1. stream'.streaming /\ outcome' = NoOutcome
        BY <2>1, <3>0, <3>1 DEF Boot
      <4> QED
        BY <4>1 DEF OutcomeInv, NoOutcome
    <3>2. CASE files # {}
      <4>1. \A s \in Stories : outcome'[s] # "ok" /\ (s \in files => outcome'[s] # "none")
        BY <2>1, <3>2 DEF Boot
      <4> QED
        BY <1>0, <3>0, <4>1 DEF OutcomeInv, GenType
    <3> QED
      BY <3>1, <3>2
  <2>2. CASE BeginPass
    <3>0. ~stream.streaming /\ phase = "pass" /\ files' = files /\ verified' = verified
      BY <2>2 DEF BeginPass, PhaseInv
    <3> DEFINE active == loop.list \cap files
               skip == IF loop.idx > 1 \/ loop.resume THEN active \cap verified ELSE {}
    <3>1. CASE active = {}
      <4>1. UNCHANGED <<loop, outcome, stream>>
        BY <2>2, <3>1 DEF BeginPass, dagVars
      <4> QED
        BY <3>0, <4>1 DEF OutcomeInv
    <3>2. CASE active # {}
      <4>1. outcome' = [s \in Stories |-> IF s \in skip THEN "ok" ELSE outcome[s]] /\ ~stream'.streaming
        BY <2>2, <3>2 DEF BeginPass
      <4>2. loop'.list = loop.list
        BY <1>0, <2>2, <3>2 DEF BeginPass, LoopType, LoopRec
      <4>3. skip \subseteq verified
        OBVIOUS
      <4> HIDE DEF skip
      <4>4. ASSUME NEW s \in Stories, outcome'[s] = "ok", s \in files PROVE s \in verified
        BY <3>0, <4>1, <4>3, <4>4 DEF OutcomeInv
      <4>5. ASSUME NEW s \in loop.list \cap files PROVE outcome'[s] # "none"
        BY <1>0, <3>0, <4>1 DEF OutcomeInv, GenType
      <4> QED
        BY <3>0, <4>1, <4>2, <4>4, <4>5 DEF OutcomeInv
    <3> QED
      BY <3>1, <3>2
  <2>3. ASSUME NEW end \in Ends, SequentialStory(end) PROVE OutcomeInv'
    <3> DEFINE todo == {s \in Stories : node[s] = "pending"}
               x == CHOOSE x \in todo : \A y \in todo : x <= y
    <3>0. phase = "sequential" /\ UNCHANGED <<phase, files, stream>> /\ ~stream.streaming
      BY <2>3 DEF SequentialStory, PhaseInv
    <3>1. CASE x \in files
      <4>1. Executed(x, end)
        BY <2>3, <3>1 DEF SequentialStory
      <4> HIDE DEF x
      <4> QED
        BY <1>0, <3>0, <4>1, ExecutedKeeps
    <3>2. CASE x \notin files
      <4>1. outcome' = [outcome EXCEPT ![x] = "ok"] /\ UNCHANGED <<verified, loop>>
        BY <2>3, <3>2 DEF SequentialStory
      <4> HIDE DEF x
      <4>2. ASSUME NEW s \in Stories, s \in files PROVE outcome'[s] = outcome[s]
        BY <1>0, <3>2, <4>1, <4>2 DEF LoopType
      <4> QED
        BY <1>0, <3>0, <4>1, <4>2 DEF OutcomeInv, GenType
    <3> QED
      BY <3>1, <3>2
  <2>4. CASE EndStreamedPass
    <3>1. /\ phase = "pass" /\ stream.streaming /\ ~stream'.streaming
          /\ UNCHANGED <<files, verified>> /\ outcome' = Discovered /\ loop'.list = files
      BY <2>4, ResetType, Constants1 DEF EndStreamedPass, PhaseInv, LoopRec
    <3>2. \A s \in Stories : /\ outcome'[s] = "ok" => outcome[s] = "ok"
                             /\ s \in files => outcome'[s] # "none"
      BY <1>0, <3>1 DEF Discovered, LoopType
    <3> QED
      BY <1>0, <3>1, <3>2 DEF OutcomeInv, GenType
  <2>5. ASSUME NEW p \in BOOLEAN, EndPass(p) PROVE OutcomeInv'
    <3>1. phase \in {"pass", "sequential"} /\ ~stream.streaming /\ UNCHANGED <<outcome, files, verified>>
      BY <2>5 DEF EndPass, PassEnded
    <3>2. loop'.list = loop.list
      BY <1>0, <2>5, Constants1 DEF EndPass, LoopType, LoopRec
    <3>3. ~stream'.streaming
      BY <2>5, ResetType DEF EndPass
    <3> QED
      BY <3>1, <3>2, <3>3 DEF OutcomeInv
  <2>6. CASE \/ \E lvl \in Levels : RunLevelCheck(lvl)
             \/ RescueCallFails \/ RescueExhausted
             \/ \E p \in BOOLEAN : ReAudit(p)
             \/ runStandbyMode
    BY <1>o, <2>6 DEF RunLevelCheck, RescueCallFails, RescueExhausted, ReAudit, runStandbyMode
  <2>7. CASE \E lvl \in Levels, a, e \in BOOLEAN : RescueTurn(lvl, a, e)
    BY <1>o, <2>7 DEF RescueTurn
  <2>8. CASE \E v \in {"passed", "error", "gaps"}, g \in 1..MaxGaps, lvl \in Levels : AcceptanceGate(v, g, lvl)
    BY <1>o, <2>8 DEF AcceptanceGate
  <2> QED
    BY <1>4, <2>1, <2>2, <2>3, <2>4, <2>5, <2>6, <2>7, <2>8 DEF MainStep
<1>5. CASE StandbyStep \/ UNCHANGED vars
  <2>1. UNCHANGED <<phase, outcome, files, verified, stream, loop>>
    BY <1>5 DEF StandbyStep, Watch, Serve, SendOrder, dagVars, runVars, vars
  <2> QED
    BY <1>u, <2>1
<1>6. CASE Developer
  <2>1. /\ UNCHANGED <<phase, outcome, verified, stream, loop>>
        /\ files' = files \/ (files' \subseteq files /\ ~stream.streaming)
    BY <1>6 DEF Developer, dagVars, runVars
  <2> QED
    BY <2>1 DEF OutcomeInv
<1>7. CASE Crash
  BY <1>7, <1>o DEF Crash
<1> QED
  BY <1>1, <1>2, <1>3, <1>4, <1>5, <1>6, <1>7 DEF Next

LEMMA EarnedNext ==
    StoryType /\ PhaseInv /\ OutcomeInv /\ EarnedInv /\ GreenInv /\ [Next]_vars => EarnedInv' /\ GreenInv'
<1> SUFFICES ASSUME StoryType, PhaseInv, OutcomeInv, EarnedInv, GreenInv, [Next]_vars
             PROVE  EarnedInv' /\ GreenInv'
  OBVIOUS
<1>0. DagType /\ LoopType /\ GenType /\ RescueType
  BY DEF StoryType
\* Steps within the phases before the gate, and steps that touch nothing of this.
<1>e. ASSUME phase' \in {"boot", "pass", "sequential", "check"}, result' \notin {"success", "exhausted"}
      PROVE  EarnedInv' /\ GreenInv'
  BY <1>e DEF EarnedInv, GreenInv
<1>r. phase \in {"boot", "pass", "sequential", "check", "gate", "rescue", "regate"} =>
        result \notin {"success", "exhausted"}
  BY DEF EarnedInv, GreenInv
<1>u. ASSUME UNCHANGED runVars PROVE EarnedInv' /\ GreenInv'
  BY <1>u DEF EarnedInv, GreenInv, RescueKeepsGreen, unit, runVars
<1>1. CASE RoadmapStep
  BY <1>1, <1>e, <1>r, RoadmapFrame
<1>2. CASE ExecuteStep \/ SignalStep \/ StandbyStep \/ UNCHANGED vars
  <2>1. UNCHANGED runVars
    BY <1>2 DEF ExecuteStep, SignalStep, StandbyStep, Watch, Serve, SendOrder, vars
  <2> QED
    BY <1>u, <2>1
<1>3. CASE \E s \in Stories : StoryStep(s)
  <2>1. phase = "pass" /\ phase' = phase /\ result' = result
    BY <1>3 DEF StoryStep, SkipVanished, processFunc, runVars
  <2> QED
    BY <1>e, <1>r, <2>1
<1>4. CASE Developer
  <2>1. UNCHANGED runVars \/ (phase \in {"pass", "sequential"} /\ phase' = phase /\ result' = result)
    BY <1>4 DEF Developer
  <2> QED
    BY <1>e, <1>r, <1>u, <2>1
<1>5. CASE Crash
  BY <1>5, <1>e DEF Crash
<1>6. CASE Boot \/ BeginPass \/ EndStreamedPass \/ (\E p \in BOOLEAN : EndPass(p)) \/ \E end \in Ends : SequentialStory(end)
  <2>1. CASE Boot
    BY <1>e, <1>r, <2>1 DEF Boot
  <2>2. CASE BeginPass
    BY <1>e, <1>r, <2>2 DEF BeginPass
  <2>3. CASE EndStreamedPass
    BY <1>e, <1>r, <2>3 DEF EndStreamedPass, PassEnded
  <2>4. CASE \E p \in BOOLEAN : EndPass(p)
    BY <1>e, <1>r, <2>4 DEF EndPass, PassEnded
  <2>5. CASE \E end \in Ends : SequentialStory(end)
    BY <1>e, <1>r, <2>5 DEF SequentialStory
  <2> QED
    BY <1>6, <2>1, <2>2, <2>3, <2>4, <2>5
<1>7. ASSUME NEW lvl \in Levels, RunLevelCheck(lvl) PROVE EarnedInv' /\ GreenInv'
  <2> DEFINE failed == {s \in loop.list : outcome[s] \notin {"ok", "none"}} \ verified
  <2>0. phase = "check" /\ ~stream.streaming /\ UNCHANGED <<files, verified>> /\ result \notin {"success", "exhausted"}
    BY <1>7, <1>r DEF RunLevelCheck, PhaseInv
  <2>1. loop'.list = loop.list /\ loop.list \subseteq Stories
    BY <1>0, <1>7, Constants1 DEF RunLevelCheck, LoopType, LoopRec
  <2>2. loop.list \cap files \subseteq verified \cup failed
    BY <2>0, <2>1 DEF OutcomeInv
  <2>3. CASE failed = {}
    <3>1. phase' = "gate" /\ result' = result
      BY <1>7, <2>3 DEF RunLevelCheck
    <3> QED
      BY <2>0, <2>1, <2>2, <2>3, <3>1 DEF EarnedInv, GreenInv
  <2>4. CASE failed # {} /\ ~RescueEnabled
    <3>1. phase' = "done" /\ result' = "failed"
      BY <1>7, <2>4 DEF RunLevelCheck
    <3> QED
      BY <3>1 DEF EarnedInv, GreenInv
  <2>5. CASE failed # {} /\ RescueEnabled
    <3>1. phase' = "rescue" /\ result' = result /\ rescue' = [DispatchSovereignRescue(0, lvl) EXCEPT !.failed = failed]
      BY <1>7, <2>5 DEF RunLevelCheck
    <3>2. DispatchSovereignRescue(0, lvl) \in RescueRec /\ ~DispatchSovereignRescue(0, lvl).audit
      BY DispatchType
    <3>3. rescue'.failed = failed /\ ~rescue'.audit
      <4> HIDE DEF failed
      <4> QED
        BY <3>1, <3>2 DEF RescueRec
    <3> HIDE DEF failed
    <3> QED
      BY <2>0, <2>1, <2>2, <3>1, <3>3 DEF EarnedInv, GreenInv
  <2> QED
    BY <2>3, <2>4, <2>5
<1>8. CASE RescueCallFails
  <2>1. /\ phase = "rescue" /\ UNCHANGED <<phase, files, loop, verified, result>>
        /\ rescue'.audit = rescue.audit /\ rescue'.failed = rescue.failed
    BY <1>0, <1>8 DEF RescueCallFails, RescueType, RescueRec
  <2> QED
    BY <1>r, <2>1 DEF EarnedInv, GreenInv
<1>9. ASSUME NEW lvl \in Levels, NEW a \in BOOLEAN, NEW e \in BOOLEAN, RescueTurn(lvl, a, e)
      PROVE  EarnedInv' /\ GreenInv'
  <2>0. phase = "rescue" /\ UNCHANGED <<files, loop>> /\ rescue.audit \in BOOLEAN
    BY <1>0, <1>9 DEF RescueTurn, RescueType, RescueRec
  <2>1. CASE phase' = (IF rescue.audit THEN "regate" ELSE "gate") /\ verified' = verified \cup rescue.failed /\ result' = result
    BY <1>r, <2>0, <2>1 DEF EarnedInv, GreenInv
  <2>2. CASE phase' = "done" /\ result' = "failed"
    BY <2>2 DEF EarnedInv, GreenInv
  <2>3. CASE UNCHANGED <<phase, verified, result>> /\ rescue'.audit = rescue.audit /\ rescue'.failed = rescue.failed
    BY <1>r, <2>0, <2>3 DEF EarnedInv, GreenInv
  <2>4. \/ phase' = (IF rescue.audit THEN "regate" ELSE "gate") /\ verified' = verified \cup rescue.failed /\ result' = result
        \/ phase' = "done" /\ result' = "failed"
        \/ /\ UNCHANGED <<phase, verified, result>>
           /\ \E h, b, o : rescue' = [rescue EXCEPT !.turn = @ + 1, !.head = h, !.next = @ + 1, !.best = b, !.osc = o]
    BY <1>9 DEF RescueTurn
  <2>5. ASSUME NEW h, NEW b, NEW o,
               rescue' = [rescue EXCEPT !.turn = @ + 1, !.head = h, !.next = @ + 1, !.best = b, !.osc = o]
        PROVE  rescue'.audit = rescue.audit /\ rescue'.failed = rescue.failed
    BY <1>0, <2>5 DEF RescueType, RescueRec
  <2> QED
    BY <2>1, <2>2, <2>3, <2>4, <2>5
<1>10. CASE RescueExhausted
  <2>1. phase' = "done" /\ result' = "exhausted"
    BY <1>10 DEF RescueExhausted
  <2>2. PICK h : /\ rescue' = [NoRescue EXCEPT !.head = h, !.best = rescue.best]
                 /\ h = IF rescue.head # rescue.best /\ ~unit(rescue.head) THEN rescue.best ELSE rescue.head
    BY <1>10 DEF RescueExhausted
  <2>3. rescue'.head = h /\ rescue'.best = rescue.best
    BY <2>2, RescueConstant DEF RescueRec
  <2>4. unit(rescue.best) => unit(h)
    BY <2>2
  <2>5. RescueKeepsGreen'
    BY <2>3, <2>4 DEF RescueKeepsGreen, unit
  <2> QED
    BY <2>1, <2>5 DEF EarnedInv, GreenInv
<1>11. ASSUME NEW v, NEW g \in 1..MaxGaps, NEW lvl \in Levels, AcceptanceGate(v, g, lvl)
       PROVE  EarnedInv' /\ GreenInv'
  <2>0. phase = "gate" /\ UNCHANGED <<files, loop, verified>> /\ loop.list \cap files \subseteq verified
    BY <1>11 DEF AcceptanceGate, EarnedInv
  <2>1. \/ phase' \in {"enter", "done"} /\ result' = "success"
        \/ phase' = "done" /\ result' = "failed"
        \/ /\ phase' = "rescue" /\ result' = result
           /\ rescue' = [DispatchSovereignRescue(g, lvl) EXCEPT !.audit = TRUE]
    BY <1>11 DEF AcceptanceGate
  <2>2. CASE \/ phase' \in {"enter", "done"} /\ result' = "success"
             \/ phase' = "done" /\ result' = "failed"
    BY <2>0, <2>2 DEF EarnedInv, GreenInv
  <2>3. CASE /\ phase' = "rescue" /\ result' = result
             /\ rescue' = [DispatchSovereignRescue(g, lvl) EXCEPT !.audit = TRUE]
    <3>1. g \in Nat
      BY StoryRunAssumption
    <3>2. rescue'.audit
      BY <2>3, <3>1, DispatchType DEF RescueRec
    <3> QED
      BY <1>r, <2>0, <2>3, <3>2 DEF EarnedInv, GreenInv
  <2> QED
    BY <2>1, <2>2, <2>3
<1>12. CASE \E p \in BOOLEAN : ReAudit(p)
  <2>1. /\ phase = "regate" /\ UNCHANGED <<files, loop, verified>>
        /\ \/ phase' \in {"enter", "done"} /\ result' = "success"
           \/ phase' = "done" /\ result' = "failed"
    BY <1>12 DEF ReAudit
  <2> QED
    BY <2>1 DEF EarnedInv, GreenInv
<1>13. CASE runStandbyMode
  <2>1. phase = "enter" /\ phase' = "standby" /\ UNCHANGED <<files, loop, verified, result, rescue>>
    BY <1>13 DEF runStandbyMode
  <2> QED
    BY <2>1 DEF EarnedInv, GreenInv
<1> QED
  BY <1>1, <1>2, <1>3, <1>4, <1>5, <1>6, <1>7, <1>8, <1>9, <1>10, <1>11, <1>12, <1>13 DEF Next, MainStep
-----------------------------------------------------------------------------
(* The theorems. *)

LEMMA StoryInit == Init => StoryInv
<1> SUFFICES ASSUME Init PROVE StoryInv
  OBVIOUS
<1>1. DagType /\ ~stream.streaming /\ exec.pc = "idle" /\ node = [s \in Stories |-> "absent"]
  BY DEF Init, NewScheduler, DagType, Statuses, StreamRec, ExecRec
<1>2. LoopType /\ GenType /\ RescueType /\ phase \in Phases /\ gen.pc = "off"
  BY Constants1, RescueConstant DEF Init, LoopType, GenType, RescueType, Phases
<1>3. PhaseInv /\ FoundationInv
  BY <1>1, <1>2 DEF Init, PhaseInv, FoundationInv
<1>4. OutcomeInv /\ EarnedInv /\ GreenInv
  BY DEF Init, OutcomeInv, EarnedInv, GreenInv
<1> QED
  BY <1>1, <1>2, <1>3, <1>4 DEF StoryInv, StoryType

LEMMA StoryInvariant == Spec => []StoryInv
<1>1. StoryInv /\ [Next]_vars => StoryInv'
  BY StoryTypeNext, PhaseNext, FoundationNext, OutcomeNext, EarnedNext DEF StoryInv
<1> QED
  BY <1>1, StoryInit, PTL DEF Spec

\* While the roadmap is streamed without pipelining, StoryDAGScheduler starts no story
\* before US-001 has succeeded, in whatever order the expansion and audit workers call
\* AddStory, however often a story is added again with other dependencies, and whether
\* or not the roadmap has a US-001 at all.
THEOREM FoundationComesFirst == Spec => []FoundationFirst
<1>1. StoryInv => FoundationFirst
  BY DEF StoryInv, FoundationInv, FoundationFirst
<1> QED
  BY <1>1, StoryInvariant, PTL

\* runStart reports success only if every story file it looks at belongs to a story the
\* repository knows as completed: no purge, resumption, vanished file, streamed or
\* skipped story, rescue, gate that passes on errors, crash or restart leaves a gap.
THEOREM ReportedRunsAreEarned == Spec => []SuccessIsEarned
<1>1. StoryInv => SuccessIsEarned
  BY DEF StoryInv, EarnedInv, SuccessIsEarned
<1> QED
  BY <1>1, StoryInvariant, PTL

\* runSovereignProjectRescue, out of turns, leaves a workspace that passes its unit tests
\* if its best commit does, and nothing the process does afterwards changes that.
THEOREM RescueLeavesGreen == Spec => []RescueKeepsGreen
<1>1. StoryInv => RescueKeepsGreen
  BY DEF StoryInv, GreenInv, RescueKeepsGreen
<1> QED
  BY <1>1, StoryInvariant, PTL
=============================================================================
