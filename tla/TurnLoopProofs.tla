--------------------------- MODULE TurnLoopProofs ---------------------------
(* A generator that is believed has seen a suite pass since the last        *)
(* production file it changed.  The loop itself never looks at the files:   *)
(* it believes the number of passes the circuit breaker has counted, so the *)
(* proof is about that number and what may happen to it while the workspace *)
(* changes.  The second part is about the workspace itself: a tool call     *)
(* that fails half way through its list has undone what it had written.     *)
EXTENDS TurnLoop, TLAPS, WellFoundedInduction, NaturalsInduction

Breaker == [passes : Nat, testOnly : Nat, inspections : Nat, tripped : BOOLEAN]

\* What a pass counted by the breaker vouches for.
Vouches(breaker, changed) == breaker.passes > 0 => "prod" \notin changed

TurnType == pc \in {"turn", "calls", "closed", "done"} /\ cb \in Breaker

\* The breaker counts no pass that an edit of a production file has made stale.
PassesInv == Vouches(cb, since)

\* Once a run is over nothing is changed any more.
EndInv == outcome = "concluded" => pc = "done"

\* The inductive invariant.
TurnInv == TurnType /\ PassesInv /\ EndInv /\ ConcludedOnGreen

-----------------------------------------------------------------------------
(* What the operations of the breaker return. *)

LEMMA BoundedKeeps ==
    ASSUME NEW breaker \in Breaker
    PROVE  /\ Bounded(breaker) \in Breaker
           /\ Bounded(breaker).passes > 0 <=> breaker.passes > 0
<1> DEFINE upTo2(n) == IF n > 2 THEN 2 ELSE n
<1>1. \A n \in Nat : upTo2(n) \in Nat /\ (upTo2(n) > 0 <=> n > 0)
  OBVIOUS
<1>2. Bounded(breaker) = [breaker EXCEPT !.passes = upTo2(breaker.passes), !.testOnly = upTo2(breaker.testOnly)]
  BY DEF Bounded, Breaker
<1>3. breaker.passes \in Nat /\ breaker.testOnly \in Nat
  BY DEF Breaker
<1> HIDE DEF upTo2
<1> QED BY <1>1, <1>2, <1>3 DEF Breaker

LEMMA NewBreaker == NewTaskCircuitBreaker \in Breaker /\ NewTaskCircuitBreaker.passes = 0
BY DEF NewTaskCircuitBreaker, Breaker

\* Only an edit of a production file takes passes back, and it takes all of them.
LEMMA RecordActionKeeps ==
    ASSUME NEW breaker \in Breaker, NEW touched
    PROVE  /\ RecordAction(breaker, touched) \in Breaker
           /\ touched = "prod" => RecordAction(breaker, touched).passes = 0
           /\ touched # "prod" => RecordAction(breaker, touched).passes = breaker.passes
<1>1. CASE touched = "prod"
  BY <1>1, NewBreaker DEF RecordAction
<1>2. CASE touched # "prod" /\ touched = "test"
  <2>1. RecordAction(breaker, touched) = [passes |-> breaker.passes, testOnly |-> breaker.testOnly + 1,
                                          inspections |-> 0, tripped |-> breaker.tripped]
    BY <1>2 DEF RecordAction, Breaker
  <2>2. breaker.testOnly + 1 \in Nat
    BY DEF Breaker
  <2> QED BY <1>2, <2>1, <2>2 DEF Breaker
<1>3. CASE touched # "prod" /\ touched # "test"
  BY <1>3 DEF RecordAction, Breaker
<1> QED BY <1>1, <1>2, <1>3

LEMMA RecordTestResultKeeps ==
    ASSUME NEW breaker \in Breaker, NEW passed
    PROVE  /\ RecordTestResult(breaker, passed) \in Breaker
           /\ ~passed => RecordTestResult(breaker, passed).passes = 0
<1>1. CASE passed
  <2>1. RecordTestResult(breaker, passed) = [breaker EXCEPT !.passes = breaker.passes + 1]
    BY <1>1 DEF RecordTestResult, Breaker
  <2>2. breaker.passes + 1 \in Nat
    BY DEF Breaker
  <2> QED BY <1>1, <2>1, <2>2 DEF Breaker
<1>2. CASE ~passed
  <2>1. RecordTestResult(breaker, passed) = [passes |-> 0, testOnly |-> breaker.testOnly,
                                             inspections |-> breaker.inspections, tripped |-> FALSE]
    BY <1>2 DEF RecordTestResult, Breaker
  <2> QED BY <1>2, <2>1 DEF Breaker
<1> QED BY <1>1, <1>2

LEMMA InspectionsKeep ==
    ASSUME NEW breaker \in Breaker
    PROVE  /\ RecordDuplicateInspection(breaker) \in Breaker
           /\ RecordDuplicateInspection(breaker).passes = breaker.passes
           /\ ResetTurn(breaker) \in Breaker
           /\ ResetTurn(breaker).passes = breaker.passes
BY DEF RecordDuplicateInspection, ResetTurn, Breaker

LEMMA LatchKeeps ==
    ASSUME NEW breaker \in Breaker
    PROVE  Latch(breaker) \in Breaker /\ Latch(breaker).passes = breaker.passes
<1>1. Tripped(breaker) \in BOOLEAN
  BY DEF Tripped, ShouldTrip, Breaker
<1> QED BY <1>1 DEF Latch, Breaker

\* A run of the suite leaves a breaker that vouches for what it may: a pass clears what was
\* changed, a failure clears the passes.
LEMMA SuiteVouches ==
    ASSUME NEW breaker \in Breaker, NEW changed, NEW result
    PROVE  /\ Bounded(RecordTestResult(breaker, result.ok)) \in Breaker
           /\ Vouches(Bounded(RecordTestResult(breaker, result.ok)), SuiteRan(changed, result))
<1>1. CASE result.ok
  BY <1>1, BoundedKeeps, RecordTestResultKeeps DEF SuiteRan, Vouches
<1>2. CASE ~result.ok
  <2>1. RecordTestResult(breaker, result.ok) \in Breaker /\ RecordTestResult(breaker, result.ok).passes = 0
    BY <1>2, RecordTestResultKeeps
  <2> QED BY <2>1, BoundedKeeps DEF Vouches
<1> QED BY <1>1, <1>2

\* An edit of a production file is the only one that is recorded as such, by the breaker
\* and by the ghost alike.
LEMMA EditVouches ==
    ASSUME NEW breaker \in Breaker, NEW changed, NEW call, Vouches(breaker, changed)
    PROVE  LET touched == Touched(call)
           IN  /\ Bounded(RecordAction(breaker, touched)) \in Breaker
               /\ Vouches(Bounded(RecordAction(breaker, touched)),
                          changed \union {IF touched = "none" THEN "unnamed" ELSE touched})
<1> DEFINE touched == Touched(call)
           next == Bounded(RecordAction(breaker, touched))
<1>1. next \in Breaker /\ (next.passes > 0 <=> RecordAction(breaker, touched).passes > 0)
  BY BoundedKeeps, RecordActionKeeps
<1>2. CASE touched = "prod"
  BY <1>1, <1>2, RecordActionKeeps DEF Vouches
<1>3. CASE touched # "prod"
  <2>1. next.passes > 0 => breaker.passes > 0
    BY <1>1, <1>3, RecordActionKeeps
  <2> HIDE DEF touched, next
  <2> QED BY <1>1, <1>3, <2>1 DEF Vouches, touched, next
<1> QED BY <1>2, <1>3

-----------------------------------------------------------------------------
(* The steps. *)

LEMMA TurnInit == Init => TurnInv
BY NewBreaker DEF Init, TurnInv, TurnType, PassesInv, Vouches, EndInv, ConcludedOnGreen, Role

\* A call of an open turn: the run goes on, so only the breaker has to be looked at.
LEMMA TakeCallStep == TurnInv /\ TakeCall => TurnInv'
<1> SUFFICES ASSUME TurnInv, TakeCall PROVE TurnInv'
  OBVIOUS
<1> PICK call \in Calls :
        \/ Noop(call) \/ Refused(call) \/ ServeResult(call) \/ Repeat(call)
        \/ Inspect(call) \/ Edit(call) \/ RunTests(call) \/ RunLinter(call) \/ RequestTestFix(call)
  BY DEF TakeCall
<1>1. pc = "calls" /\ outcome # "concluded" /\ cb \in Breaker /\ Vouches(cb, since)
  BY DEF TurnInv, TurnType, PassesInv, EndInv, TakeCall
<1>2. /\ outcome' = outcome /\ pc' \in {"calls", "closed"}
      /\ cb' \in Breaker /\ Vouches(cb', since')
  <2>1. CASE Noop(call) \/ Refused(call) \/ ServeResult(call) \/ Inspect(call) \/ RunLinter(call)
    BY <1>1, <2>1 DEF Noop, Refused, ServeResult, Inspect, RunLinter
  <2>2. CASE Repeat(call)
    BY <1>1, <2>2, InspectionsKeep DEF Repeat, Vouches
  <2>3. CASE Edit(call)
    <3>1. CASE Mutate(ws, call).ok
      <4>1. /\ cb' = Bounded(RecordAction(cb, Touched(call)))
            /\ since' = since \union {IF Touched(call) = "none" THEN "unnamed" ELSE Touched(call)}
            /\ outcome' = outcome /\ pc' = pc
        BY <2>3, <3>1 DEF Edit
      <4> QED BY <1>1, <4>1, EditVouches
    <3>2. CASE ~Mutate(ws, call).ok
      BY <1>1, <2>3, <3>2 DEF Edit
    <3> QED BY <3>1, <3>2
  <2>4. CASE RunTests(call)
    BY <1>1, <2>4, SuiteVouches DEF RunTests
  <2>5. CASE RequestTestFix(call)
    BY <1>1, <2>5 DEF RequestTestFix, Vouches
  <2> QED BY <2>1, <2>2, <2>3, <2>4, <2>5
<1> QED BY <1>1, <1>2 DEF TurnInv, TurnType, PassesInv, EndInv, ConcludedOnGreen

\* The decision at the end of a turn, whatever was run and recorded before it.
LEMMA Decision ==
    ASSUME NEW w, NEW r, NEW breaker \in Breaker, NEW c, NEW s,
           Vouches(breaker, s), outcome # "concluded", agent' = agent,
           EndTurnWith(w, r, breaker, c, s)
    PROVE  TurnInv'
<1> DEFINE r1 == Trip(r, breaker)
           b1 == Latch(breaker)
<1>1. b1 \in Breaker /\ Vouches(b1, s)
  BY LatchKeeps DEF Vouches
<1>2. Role' = Role
  BY DEF Role
<1> HIDE DEF r1, b1
<1>3. CASE Role = "generator" /\ GeneratorDecides(r1, b1) /\ since' = s
  BY <1>1, <1>2, <1>3
     DEF GeneratorDecides, TurnInv, TurnType, PassesInv, EndInv, ConcludedOnGreen, Vouches
<1>4. ASSUME Role = "generator", NEW result, AutoRunTests(r1, b1, result), since' = SuiteRan(s, result)
      PROVE  TurnInv'
  <2>1. cb' \in Breaker /\ Vouches(cb', since')
    BY <1>1, <1>4, SuiteVouches DEF AutoRunTests
  <2>2. \/ result.ok /\ pc' = "done" /\ outcome' = "concluded"
        \/ pc' = "turn" /\ outcome' = outcome
    BY <1>4 DEF AutoRunTests
  <2>3. result.ok => since' = {}
    BY <1>4 DEF SuiteRan
  <2> QED BY <2>1, <2>2, <2>3 DEF TurnInv, TurnType, PassesInv, EndInv, ConcludedOnGreen
<1>5. ASSUME Role = "tester", NEW result, TesterDecides(r1, b1, result), since' = s
      PROVE  TurnInv'
  <2>1. cb' = b1 /\ (pc' = "done" \/ (pc' = "turn" /\ outcome' = outcome))
    BY <1>5 DEF TesterDecides
  <2> QED BY <1>1, <1>2, <1>5, <2>1 DEF TurnInv, TurnType, PassesInv, EndInv, ConcludedOnGreen
<1> QED BY <1>3, <1>4, <1>5 DEF EndTurnWith, r1, b1

LEMMA EndTurnStep == TurnInv /\ EndTurn => TurnInv'
<1> SUFFICES ASSUME TurnInv, EndTurn PROVE TurnInv'
  OBVIOUS
<1>1. outcome # "concluded" /\ cb \in Breaker /\ Vouches(cb, since) /\ agent' = agent
  BY DEF TurnInv, TurnType, PassesInv, EndInv, EndTurn
<1>2. CASE EndTurnWith(ws, run, cb, cache, since)
  BY <1>1, <1>2, Decision
<1>3. ASSUME NEW spec \in SpeculativeRuns,
             EndTurnWith(spec.ws, AfterSpeculation(run, spec.result), Bounded(RecordTestResult(cb, spec.result.ok)),
                         OnToolExecuted(cache, RunTestsCall, spec.first.ok), SuiteRan(since, spec.result))
      PROVE  TurnInv'
  <2>1. /\ Bounded(RecordTestResult(cb, spec.result.ok)) \in Breaker
        /\ Vouches(Bounded(RecordTestResult(cb, spec.result.ok)), SuiteRan(since, spec.result))
    BY <1>1, SuiteVouches
  <2> QED BY <1>1, <1>3, <2>1, Decision
<1> QED BY <1>2, <1>3 DEF EndTurn

LEMMA TurnStep == TurnInv /\ [Next]_vars => TurnInv'
<1> SUFFICES ASSUME TurnInv, [Next]_vars PROVE TurnInv'
  OBVIOUS
<1>1. CASE BeginTurn
  BY <1>1, InspectionsKeep
     DEF BeginTurn, TurnInv, TurnType, PassesInv, Vouches, EndInv, ConcludedOnGreen, Role
<1>2. CASE LLMError
  BY <1>2, InspectionsKeep
     DEF LLMError, TurnInv, TurnType, PassesInv, Vouches, EndInv, ConcludedOnGreen, Role
<1>3. CASE Exhausted
  BY <1>3 DEF Exhausted, TurnInv, TurnType, PassesInv, Vouches, EndInv, ConcludedOnGreen, Role
<1>4. CASE TakeCall
  BY <1>4, TakeCallStep
<1>5. CASE EndTurn
  BY <1>5, EndTurnStep
<1>6. CASE Done \/ UNCHANGED vars
  BY <1>6 DEF Done, vars, TurnInv, TurnType, PassesInv, Vouches, EndInv, ConcludedOnGreen, Role
<1> QED BY <1>1, <1>2, <1>3, <1>4, <1>5, <1>6 DEF Next

-----------------------------------------------------------------------------
(* The result. *)

\* RunGeneratorAgent never believes a noop on the strength of a suite that passed before
\* the last production file the agent changed under its own name: for any tools, files,
\* turn budget, policy and cache, whoever ran the suite (the model, the speculative run
\* after an edit, or the loop itself) and however its runs, edits and refusals interleave.
THEOREM BelievedOnGreen == Spec => []ConcludedOnGreen
<1>1. TurnInv => ConcludedOnGreen
  BY DEF TurnInv
<1> QED BY TurnInit, TurnStep, <1>1, PTL DEF Spec

-----------------------------------------------------------------------------
(* A call that fails is undone: numbers and the recursion of a rollback. *)

\* A set of numbers has a least element, which is what induction rests on below.
LEMMA LeastNat ==
    ASSUME NEW T \in SUBSET Nat, T # {}
    PROVE  \E m \in T : \A k \in T : m <= k
<1> DEFINE R == OpToRel(<, Nat)
<1>1. IsWellFoundedOn(R, Nat)
  BY NatLessThanWellFounded
<1>2. \E x \in T : \A y \in T : ~(<<y, x>> \in R)
  <2> HIDE DEF R
  <2>1. T \subseteq Nat
    OBVIOUS
  <2> QED BY <1>1, <2>1, WFMin, Zenon
<1>3. PICK m \in T : \A y \in T : ~(<<y, m>> \in R)
  BY <1>2
<1>4. \A y \in T : ~(y < m)
  BY <1>3, T \subseteq Nat DEF OpToRel
<1>5. \A k \in T : m <= k
  BY <1>4
<1> QED BY <1>5, Zenon

LEMMA Induction ==
    ASSUME NEW S \in SUBSET Nat, 0 \in S, \A n \in S : n + 1 \in S
    PROVE  S = Nat
<1> DEFINE T == Nat \ S
<1> SUFFICES ASSUME T # {} PROVE FALSE
  OBVIOUS
<1>1. T \in SUBSET Nat
  OBVIOUS
<1>2. PICK m \in T : \A k \in T : m <= k
  <2> HIDE DEF T
  <2> QED BY <1>1, LeastNat
<1>3. m \in Nat /\ m # 0
  OBVIOUS
<1>4. m - 1 \in Nat /\ ~(m <= m - 1)
  BY <1>3
<1>5. m - 1 \in S
  BY <1>2, <1>4
<1>6. (m - 1) + 1 \in S
  BY <1>5
<1> QED BY <1>6, <1>3

\* rollbackAll is what its recursion says.
Undoing(w, snaps, n) ==
    CHOOSE u : u = [k \in 0..n |-> IF k = 0 THEN w ELSE rollback(u[k - 1], snaps[n + 1 - k])]

LEMMA UndoingExists ==
    ASSUME NEW w, NEW snaps, NEW n \in Nat
    PROVE  /\ DOMAIN Undoing(w, snaps, n) = 0..n
           /\ Undoing(w, snaps, n)[0] = w
           /\ \A k \in 1..n : Undoing(w, snaps, n)[k] = rollback(Undoing(w, snaps, n)[k - 1], snaps[n + 1 - k])
<1> DEFINE Is(u, m) == u = [k \in 0..m |-> IF k = 0 THEN w ELSE rollback(u[k - 1], snaps[n + 1 - k])]
           S == {m \in Nat : \E u : Is(u, m)}
<1>1. 0 \in S
  <2> DEFINE u == [k \in 0..0 |-> w]
  <2>1. Is(u, 0)
    OBVIOUS
  <2> QED BY <2>1
<1>2. ASSUME NEW m \in S PROVE m + 1 \in S
  <2> PICK u : Is(u, m)
    OBVIOUS
  <2> DEFINE v == [k \in 0..(m + 1) |-> IF k <= m THEN u[k] ELSE rollback(u[m], snaps[n + 1 - (m + 1)])]
  <2>1. \A k \in 0..m : v[k] = u[k]
    OBVIOUS
  <2>2. \A k \in 0..(m + 1) : v[k] = IF k = 0 THEN w ELSE rollback(v[k - 1], snaps[n + 1 - k])
    OBVIOUS
  <2>3. Is(v, m + 1)
    BY <2>2
  <2> HIDE DEF v
  <2> QED BY <2>3
<1>3. n \in S
  <2> HIDE DEF S
  <2>1. S \in SUBSET Nat
    BY DEF S
  <2> QED BY <1>1, <1>2, <2>1, Induction
<1>4. \E u : Is(u, n)
  BY <1>3
<1>5. Is(Undoing(w, snaps, n), n)
  BY <1>4 DEF Undoing
<1> HIDE DEF S
<1> DEFINE und == Undoing(w, snaps, n)
<1> HIDE DEF und
<1>6. und = [k \in 0..n |-> IF k = 0 THEN w ELSE rollback(und[k - 1], snaps[n + 1 - k])]
  BY <1>5 DEF und
<1> QED BY <1>6 DEF und

LEMMA RollbackAll ==
    ASSUME NEW w, NEW snaps
    PROVE  rollbackAll(w, snaps) = Undoing(w, snaps, Len(snaps))[Len(snaps)]
BY DEF rollbackAll, Undoing

\* The last snapshot is undone first.
LEMMA RollbackAppend ==
    ASSUME NEW w, NEW S, NEW snaps \in Seq(S), NEW snap \in S
    PROVE  rollbackAll(w, Append(snaps, snap)) = rollbackAll(rollback(w, snap), snaps)
<1> DEFINE n == Len(snaps)
           all == Append(snaps, snap)
           u == Undoing(rollback(w, snap), snaps, n)
           v == Undoing(w, all, n + 1)
           T == {k \in Nat : k <= n => v[k + 1] = u[k]}
<1>1. /\ n \in Nat /\ Len(all) = n + 1 /\ all[n + 1] = snap
      /\ \A k \in 1..n : all[k] = snaps[k]
  OBVIOUS
<1>2. /\ u[0] = rollback(w, snap)
      /\ \A k \in 1..n : u[k] = rollback(u[k - 1], snaps[n + 1 - k])
  BY <1>1, UndoingExists
<1>3. /\ v[0] = w
      /\ \A k \in 1..(n + 1) : v[k] = rollback(v[k - 1], all[n + 2 - k])
  <2>1. n + 1 \in Nat /\ \A k \in 1..(n + 1) : (n + 1) + 1 - k = n + 2 - k
    BY <1>1
  <2> HIDE DEF n, all
  <2> QED BY <2>1, UndoingExists
<1> HIDE DEF n, all, u, v
<1>4. 0 \in T
  <2>1. v[1] = rollback(v[1 - 1], all[n + 2 - 1])
    BY <1>1, <1>3
  <2>2. 1 - 1 = 0 /\ n + 2 - 1 = n + 1
    BY <1>1
  <2>3. v[0 + 1] = u[0]
    BY <1>1, <1>2, <1>3, <2>1, <2>2
  <2> QED BY <2>3
<1>5. ASSUME NEW k \in T PROVE k + 1 \in T
  <2> SUFFICES ASSUME k + 1 <= n PROVE v[(k + 1) + 1] = u[k + 1]
    OBVIOUS
  <2>1. v[k + 1] = u[k]
    BY <1>1
  <2>2. u[k + 1] = rollback(u[(k + 1) - 1], snaps[n + 1 - (k + 1)])
    BY <1>1, <1>2
  <2>3. v[(k + 1) + 1] = rollback(v[((k + 1) + 1) - 1], all[n + 2 - ((k + 1) + 1)])
    BY <1>1, <1>3
  <2>4. /\ (k + 1) - 1 = k /\ ((k + 1) + 1) - 1 = k + 1 /\ n + 1 - (k + 1) = n - k
        /\ n + 2 - ((k + 1) + 1) = n - k /\ n - k \in 1..n
    BY <1>1
  <2> QED BY <1>1, <2>1, <2>2, <2>3, <2>4
<1>6. n \in T
  <2>1. T \in SUBSET Nat
    OBVIOUS
  <2> HIDE DEF T
  <2> QED BY <1>1, <1>4, <1>5, <2>1, Induction
<1>7. v[n + 1] = u[n]
  BY <1>1, <1>6
<1> QED BY <1>1, <1>7, RollbackAll DEF n, all, u, v

IsFunction(w) == w = [x \in DOMAIN w |-> w[x]]

\* What a call has done so far can be undone to w.
Undoable(acc, w) ==
    /\ acc = [ws |-> acc.ws, snaps |-> acc.snaps, ok |-> acc.ok]
    /\ IsFunction(acc.ws)
    /\ \E S : acc.snaps \in Seq(S)
    /\ rollbackAll(acc.ws, acc.snaps) = w

LEMMA UndoOne ==
    ASSUME NEW w, IsFunction(w), NEW file, NEW content
    PROVE  /\ rollback([w EXCEPT ![file] = content], snapshotFile(w, file)) = w
           /\ rollback(w, snapshotFile(w, file)) = w
           /\ IsFunction([w EXCEPT ![file] = content])
<1> DEFINE v == [w EXCEPT ![file] = content]
<1>1. IsFunction(v) /\ DOMAIN v = DOMAIN w /\ \A x \in DOMAIN w : x # file => v[x] = w[x]
  BY DEF IsFunction
<1>2. rollback(v, snapshotFile(w, file)) = [v EXCEPT ![file] = w[file]]
  BY DEF rollback, snapshotFile
<1>3. [v EXCEPT ![file] = w[file]] = w
  BY <1>1 DEF IsFunction
<1>4. rollback(w, snapshotFile(w, file)) = w
  BY DEF rollback, snapshotFile, IsFunction
<1> QED BY <1>1, <1>2, <1>3, <1>4

LEMMA UndoableAppend ==
    ASSUME NEW acc, NEW w, Undoable(acc, w), NEW v, NEW snap, NEW ok,
           IsFunction(v), rollback(v, snap) = acc.ws
    PROVE  Undoable([ws |-> v, snaps |-> Append(acc.snaps, snap), ok |-> ok], w)
<1> PICK S : acc.snaps \in Seq(S)
  BY DEF Undoable
<1> DEFINE T == S \cup {snap}
<1>1. acc.snaps \in Seq(T) /\ snap \in T
  OBVIOUS
<1> HIDE DEF T
<1>2. Append(acc.snaps, snap) \in Seq(T)
  BY <1>1
<1>3. rollbackAll(v, Append(acc.snaps, snap)) = w
  BY <1>1, RollbackAppend DEF Undoable
<1> QED BY <1>2, <1>3 DEF Undoable

LEMMA EntryUndoable ==
    ASSUME NEW acc, NEW w, Undoable(acc, w), NEW entry, NEW found
    PROVE  Undoable(applyFileDiff(acc, entry, found), w)
<1> DEFINE snap == snapshotFile(acc.ws, entry.file)
           v == [acc.ws EXCEPT ![entry.file] = entry.content]
<1>1. IsFunction(acc.ws) /\ acc = [ws |-> acc.ws, snaps |-> acc.snaps, ok |-> acc.ok]
  BY DEF Undoable
<1>2. rollback(v, snap) = acc.ws /\ rollback(acc.ws, snap) = acc.ws /\ IsFunction(v)
  BY <1>1, UndoOne
<1>3. \/ applyFileDiff(acc, entry, found) = acc
      \/ applyFileDiff(acc, entry, found) = [ws |-> acc.ws, snaps |-> Append(acc.snaps, snap), ok |-> FALSE]
      \/ applyFileDiff(acc, entry, found) = [ws |-> v, snaps |-> Append(acc.snaps, snap), ok |-> entry.content # "broken"]
  <2>1. \/ WriteOne(acc, entry) = acc
        \/ WriteOne(acc, entry) = [ws |-> v, snaps |-> Append(acc.snaps, snap), ok |-> entry.content # "broken"]
    BY DEF WriteOne
  <2> QED BY <2>1 DEF applyFileDiff
<1> HIDE DEF snap, v
<1>4. Undoable([ws |-> acc.ws, snaps |-> Append(acc.snaps, snap), ok |-> FALSE], w)
  BY <1>1, <1>2, UndoableAppend
<1>5. Undoable([ws |-> v, snaps |-> Append(acc.snaps, snap), ok |-> entry.content # "broken"], w)
  BY <1>1, <1>2, UndoableAppend
<1> QED BY <1>3, <1>4, <1>5

\* A call that fails leaves the workspace it found, a call that succeeds leaves a workspace.
LEMMA AppliedUndone ==
    ASSUME NEW w, IsFunction(w), NEW entries, Len(entries) \in Nat, NEW found
    PROVE  LET r == Applied(w, entries, found)
           IN  IsFunction(r.ws) /\ (~r.ok => r.ws = w)
<1> DEFINE n == Len(entries)
           first == [ws |-> w, snaps |-> <<>>, ok |-> TRUE]
           Is(a, m) == a = [k \in 0..m |-> IF k = 0 THEN first ELSE applyFileDiff(a[k - 1], entries[k], found)]
           all == CHOOSE a : Is(a, n)
           S == {m \in Nat : \E a : Is(a, m)}
<1>1. Undoable(first, w)
  <2>1. <<>> \in Seq({})
    OBVIOUS
  <2>2. Len(<<>>) = 0
    OBVIOUS
  <2>3. rollbackAll(w, <<>>) = w
    BY <2>2, RollbackAll, UndoingExists
  <2> QED BY <2>1, <2>3 DEF Undoable
<1> HIDE DEF first
<1>2. 0 \in S
  <2> DEFINE a == [k \in 0..0 |-> first]
  <2>1. Is(a, 0) /\ a[0] = first
    OBVIOUS
  <2> QED BY <2>1
<1>3. ASSUME NEW m \in S PROVE m + 1 \in S
  <2> PICK a : Is(a, m)
    OBVIOUS
  <2> DEFINE b == [k \in 0..(m + 1) |-> IF k <= m THEN a[k] ELSE applyFileDiff(a[m], entries[m + 1], found)]
  <2>1. \A k \in 0..m : b[k] = a[k]
    OBVIOUS
  <2>2. \A k \in 0..(m + 1) : b[k] = IF k = 0 THEN first ELSE applyFileDiff(b[k - 1], entries[k], found)
    OBVIOUS
  <2>3. Is(b, m + 1)
    BY <2>2
  <2>4. m + 1 \in Nat /\ \E c : Is(c, m + 1)
    <3> HIDE DEF b, Is
    <3> QED BY <2>3
  <2> QED BY <2>4
<1>4. n \in S
  <2> HIDE DEF S
  <2>1. S \in SUBSET Nat
    BY DEF S
  <2> QED BY <1>2, <1>3, <2>1, Induction
<1>5. Is(all, n)
  BY <1>4
<1> HIDE DEF S, all
<1>6. all[0] = first /\ \A k \in 1..n : all[k] = applyFileDiff(all[k - 1], entries[k], found)
  BY <1>5
<1>7. Undoable(all[n], w)
  <2> DEFINE T == {k \in Nat : k <= n => Undoable(all[k], w)}
  <2>1. 0 \in T
    BY <1>1, <1>6
  <2>2. ASSUME NEW k \in T PROVE k + 1 \in T
    <3> SUFFICES ASSUME k + 1 <= n PROVE Undoable(all[k + 1], w)
      OBVIOUS
    <3>1. Undoable(all[k], w)
      OBVIOUS
    <3>2. all[k + 1] = applyFileDiff(all[(k + 1) - 1], entries[k + 1], found) /\ (k + 1) - 1 = k
      BY <1>6
    <3> QED BY <3>1, <3>2, EntryUndoable
  <2>3. T \in SUBSET Nat
    OBVIOUS
  <2>4. n \in T
    <3> HIDE DEF T
    <3> QED BY <2>1, <2>2, <2>3, Induction
  <2> QED BY <2>4
<1>8. Applied(w, entries, found) =
        [ok |-> all[n].ok, ws |-> IF all[n].ok THEN all[n].ws ELSE rollbackAll(all[n].ws, all[n].snaps)]
  BY DEF Applied, all, first
<1> HIDE DEF n
<1> QED BY <1>7, <1>8 DEF Undoable

\* The same for every tool that writes.
LEMMA MutateUndone ==
    ASSUME NEW w, IsFunction(w), NEW call, Len(call.entries) \in Nat
    PROVE  IsFunction(Mutate(w, call).ws) /\ (~Mutate(w, call).ok => Mutate(w, call).ws = w)
<1>1. IsFunction(DeleteFile(w, call).ws) /\ DeleteFile(w, call).ok
  BY UndoOne DEF DeleteFile
<1>2. IsFunction(WriteFiles(w, call).ws) /\ (~WriteFiles(w, call).ok => WriteFiles(w, call).ws = w)
  BY AppliedUndone DEF WriteFiles
<1>3. IsFunction(ApplyPatch(w, call).ws) /\ (~ApplyPatch(w, call).ok => ApplyPatch(w, call).ws = w)
  BY AppliedUndone DEF ApplyPatch
<1>4. IsFunction(EditFile(w, call).ws) /\ (~EditFile(w, call).ok => EditFile(w, call).ws = w)
  BY <1>2 DEF EditFile
<1>5. \/ Mutate(w, call) = DeleteFile(w, call) \/ Mutate(w, call) = WriteFiles(w, call)
      \/ Mutate(w, call) = ApplyPatch(w, call) \/ Mutate(w, call) = EditFile(w, call)
  BY DEF Mutate, WriteFile
<1> QED BY <1>1, <1>2, <1>3, <1>4, <1>5

FilesInv == agent \in Agents /\ IsFunction(ws)

LEMMA EntriesAreSequences ==
    ASSUME FilesInv, NEW call \in Calls
    PROVE  Len(call.entries) \in Nat
BY TurnLoopAssumption DEF FilesInv, Calls

LEMMA FilesInit == Init => FilesInv
<1> SUFFICES ASSUME Init PROVE FilesInv
  OBVIOUS
<1>1. agent \in Agents /\ ws \in Workspaces
  BY TurnLoopAssumption DEF Init
<1> QED BY <1>1 DEF FilesInv, IsFunction, Workspaces

LEMMA FilesStep == FilesInv /\ [Next]_vars => FilesInv'
<1> SUFFICES ASSUME FilesInv, [Next]_vars PROVE FilesInv'
  OBVIOUS
<1>1. CASE BeginTurn \/ LLMError \/ Exhausted \/ Done \/ UNCHANGED vars
  BY <1>1 DEF BeginTurn, LLMError, Exhausted, Done, vars, FilesInv
<1>2. CASE TakeCall
  <2> PICK call \in Calls :
        \/ Noop(call) \/ Refused(call) \/ ServeResult(call) \/ Repeat(call)
        \/ Inspect(call) \/ Edit(call) \/ RunTests(call) \/ RunLinter(call) \/ RequestTestFix(call)
    BY <1>2 DEF TakeCall
  <2>1. agent' \in Agents
    BY <1>2 DEF TakeCall, FilesInv
  <2>2. IsFunction(ws')
    <3>1. CASE Edit(call)
      BY <3>1, EntriesAreSequences, MutateUndone DEF Edit, FilesInv
    <3>2. CASE RequestTestFix(call)
      <4>1. \/ ws' = ws
            \/ \E c \in [TestFiles -> {"good", "bad"}] : ws' = [f \in Files |-> IF f \in TestFiles THEN c[f] ELSE ws[f]]
        BY <3>2 DEF RequestTestFix
      <4> QED BY <4>1 DEF IsFunction, FilesInv
    <3>3. CASE Noop(call) \/ Refused(call) \/ ServeResult(call) \/ Repeat(call) \/ Inspect(call) \/ RunTests(call) \/ RunLinter(call)
      BY <3>3 DEF Noop, Refused, ServeResult, Repeat, Inspect, RunTests, RunLinter, FilesInv
    <3> QED BY <3>1, <3>2, <3>3
  <2> QED BY <2>1, <2>2 DEF FilesInv
<1>3. CASE EndTurn
  <2>1. agent' \in Agents
    BY <1>3 DEF EndTurn, FilesInv
  <2>2. ws' = ws \/ \E spec \in SpeculativeRuns : ws' = spec.ws
    BY <1>3 DEF EndTurn
  <2>3. ASSUME NEW spec \in SpeculativeRuns PROVE IsFunction(spec.ws)
    <3>1. spec.ws = ws \/ spec.ws \in SyncedWorkspaces(ws)
      BY DEF SpeculativeRuns
    <3>2. ASSUME NEW w \in SyncedWorkspaces(ws) PROVE IsFunction(w)
      <4> PICK f \in Files, c \in {"good", "bad"} : w = [ws EXCEPT ![f] = c]
        BY DEF SyncedWorkspaces
      <4> QED BY UndoOne DEF FilesInv
    <3> QED BY <3>1, <3>2 DEF FilesInv
  <2> QED BY <2>1, <2>2, <2>3 DEF FilesInv
<1> QED BY <1>1, <1>2, <1>3 DEF Next

\* A tool call that fails leaves the workspace exactly as it found it, for every list of files
\* and edits a call can hold and every place in the list at which it fails: what
\* write_files and apply_patch roll back, in the order they roll it back, undoes
\* everything they had written, a file created and a file written twice included.
THEOREM FailedCallUndone == Spec => FailedCallChangesNothing
<1>1. FilesInv /\ [Next]_vars
        => [\A call \in Calls : Edit(call) /\ ~Mutate(ws, call).ok => ws' = ws]_vars
  <2> SUFFICES ASSUME FilesInv, NEW call \in Calls, Edit(call), ~Mutate(ws, call).ok
               PROVE  ws' = ws
    OBVIOUS
  <2>1. ws' = Mutate(ws, call).ws
    BY DEF Edit
  <2> QED BY <2>1, EntriesAreSequences, MutateUndone DEF FilesInv
<1> QED BY <1>1, FilesInit, FilesStep, PTL DEF Spec, FailedCallChangesNothing
=============================================================================
