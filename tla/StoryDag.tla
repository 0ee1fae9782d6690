------------------------------ MODULE StoryDag ------------------------------
(* StoryDAGScheduler: stories wait for the stories they depend on and run   *)
(* concurrently up to a limit.  A producer may stream stories into it while *)
(* Execute runs, and every change is announced on a condition variable,     *)
(* which remembers nothing: a broadcast wakes whoever waits at that moment. *)
EXTENDS Naturals, FiniteSets, Sequences, SequencesExt

CONSTANTS
    Stories,       \* the sequence numbers of the stories, US-001 is 1
    RawDeps,       \* per story: what its text says it depends on
    Skeletons,     \* stories that look like a walking skeleton
    MaxConcurrent  \* maxConcurrent

VARIABLES
    node,      \* nodes: "absent", "pending", "running", "success", "failed"
    deps,      \* DependsOn
    stream,    \* [streaming, closed, pipelined]
    exec,      \* Execute: [pc, launched]
    signals    \* stories whose goroutine has yet to broadcast

dagVars == <<node, deps, stream, exec, signals>>

ASSUME StoryDagAssumption ==
    /\ Stories \subseteq Nat \ {0} /\ Skeletons \subseteq Stories
    /\ RawDeps \in [Stories -> SUBSET Nat] /\ MaxConcurrent \in Nat \ {0}

Known == {s \in Stories : node[s] # "absent"}
Running(n) == {s \in Stories : n[s] = "running"}
StreamOpen == stream.streaming /\ ~stream.closed

\* A broadcast wakes Execute if, and only if, it is waiting now.
Broadcast == exec' = IF exec.pc = "wait" THEN [exec EXCEPT !.pc = "top"] ELSE exec

-----------------------------------------------------------------------------
\* Mutant of DependsOn: the foundation story is a dependency like any other.
DependsOnRaw(s, streaming, known) == RawDeps[s] \ {s}

\* Dependencies of a story added: its own, and the foundation story US-001 when the
\* scheduler streams or already knows it.
DependsOn(s, streaming, known) ==
    (RawDeps[s] \ {s}) \cup (IF s > 1 /\ (streaming \/ 1 \in known) THEN {1} ELSE {})

\* AddStory of a story that is known replaces its dependencies and nothing else.
AddStory(s) ==
    /\ deps' = [deps EXCEPT ![s] = DependsOn(s, stream.streaming, Known)]
    /\ node' = IF node[s] = "absent" THEN [node EXCEPT ![s] = "pending"] ELSE node
    /\ Broadcast
    /\ UNCHANGED <<stream, signals>>

CloseStoryStream ==
    /\ stream' = [stream EXCEPT !.closed = TRUE]
    /\ Broadcast
    /\ UNCHANGED <<node, deps, signals>>

\* The nodes of a scheduler to which the stories of S were added in order, those of D
\* marked completed.
NodesOf(S, D) == [s \in Stories |-> IF s \in S \cap D THEN "success"
                                    ELSE IF s \in S THEN "pending" ELSE "absent"]
DepsOf(S) == [s \in Stories |-> IF s \in S THEN DependsOn(s, FALSE, {t \in S : t < s}) ELSE {}]

-----------------------------------------------------------------------------
\* sortStoryIDsLocked: fewest dependencies first, then skeletons, then the number.
Before(a, b) ==
    LET rank(s) == <<Cardinality(deps[s]), IF s \in Skeletons THEN 0 ELSE 1, s>>
        x == rank(a)
        y == rank(b)
    IN  \/ x[1] < y[1]
        \/ x[1] = y[1] /\ (x[2] < y[2] \/ (x[2] = y[2] /\ x[3] < y[3]))

DepsSatisfied(n, s) ==
    \A d \in deps[s] :
        d \in Stories /\ n[d] \in {"success"} \cup (IF stream.pipelined THEN {"running"} ELSE {})

\* The dispatch pass: in the order of sortStoryIDsLocked, every pending story whose
\* dependencies are satisfied, counting the ones this pass has just started, while there
\* is room.  Each story is judged on the nodes as the stories before it left them.
IsDispatch(started) ==
    LET at(s) == [t \in Stories |-> IF t \in started /\ Before(t, s) THEN "running" ELSE node[t]]
    IN  started = {s \in Stories : /\ node[s] = "pending"
                                   /\ Cardinality(Running(at(s))) < MaxConcurrent
                                   /\ DepsSatisfied(at(s), s)}

\* Execute, first critical section: finished, waiting for the stream, deadlocked, or dispatch.
ExecuteTop ==
    /\ exec.pc = "top"
    /\ LET left == {s \in Stories : node[s] \in {"pending", "running"}}
       IN  \E started \in SUBSET left :
             /\ IsDispatch(started)
             /\ IF ~StreamOpen /\ left = {} THEN exec' = [exec EXCEPT !.pc = "done"] /\ UNCHANGED node
                ELSE IF started = {} /\ Running(node) = {}
                     THEN /\ exec' = [exec EXCEPT !.pc = IF StreamOpen THEN "wait" ELSE "done"]
                          /\ UNCHANGED node
                     ELSE /\ node' = [s \in Stories |-> IF s \in started THEN "running" ELSE node[s]]
                          /\ exec' = [pc |-> "rejoin", launched |-> started # {}]
    /\ UNCHANGED <<deps, stream, signals>>

\* Mutant of ExecuteRejoin: waits even after it has launched stories.
ExecuteRejoinAlways ==
    /\ exec.pc = "rejoin"
    /\ exec' = [pc |-> "wait", launched |-> FALSE]
    /\ UNCHANGED <<node, deps, stream, signals>>

\* Execute, second critical section: nothing was launched and something may still come.
\* Stories that ended, or were added, since the first one have broadcast to nobody.
ExecuteRejoin ==
    /\ exec.pc = "rejoin"
    /\ exec' = [pc |-> IF ~exec.launched /\ (Running(node) # {} \/ StreamOpen) THEN "wait" ELSE "top",
                launched |-> FALSE]
    /\ UNCHANGED <<node, deps, stream, signals>>

\* The goroutine of a story: its result under the lock ...
StoryReturns(s, ok) ==
    /\ node[s] = "running"
    /\ node' = [node EXCEPT ![s] = IF ok THEN "success" ELSE "failed"]
    /\ signals' = signals \cup {s}
    /\ UNCHANGED <<deps, stream, exec>>

\* ... and the broadcast after it.
Signal(s) ==
    /\ s \in signals
    /\ signals' = signals \ {s}
    /\ Broadcast
    /\ UNCHANGED <<node, deps, stream>>

NewScheduler(streaming, pipelined) ==
    /\ node = [s \in Stories |-> "absent"] /\ deps = [s \in Stories |-> {}]
    /\ stream = [streaming |-> streaming, closed |-> FALSE, pipelined |-> pipelined]
    /\ exec = [pc |-> "idle", launched |-> FALSE] /\ signals = {}

=============================================================================
