------------------------------ MODULE Standby ------------------------------
(* The standby daemon a run turns into: the file watcher that notices        *)
(* edited stories, the bounded work queue, the engine that executes one item *)
(* at a time, and the prompt orders posted to it.  What survives a restart   *)
(* is what the repository stores; the queue and the watcher's memory do not. *)
EXTENDS Naturals, Sequences, FiniteSets, SequencesExt

CONSTANTS
    Watched,   \* files of roadmap/user-stories, and SPEC.md
    Orders,    \* prompt orders a developer posts; an order's story is not watched
    QueueCap,  \* capacity of storyCh
    Nothing

VARIABLES
    queue,     \* storyCh
    engine,    \* the item processStoryWorkItem works on, or Nothing
    dirty,     \* files whose modification time is newer than seenModTimes
    pending,   \* pendingEvents
    stale,     \* files edited since an execution of them last started
    dropped,   \* history: files whose last event met a queue full of other items
    orders     \* per order: "none", "accepted", "queued", "running", "finished"

standbyVars == <<queue, engine, dirty, pending, stale, dropped, orders>>

Items == Watched \cup Orders

ASSUME StandbyAssumption == QueueCap \in Nat \ {0} /\ Nothing \notin Items

\* The unfinished orders a Load returns after a restart: neither backend has a table for
\* orders, so there are none.
Persisted == {}

-----------------------------------------------------------------------------
\* The developer saves f: a modification time the watcher has not seen.
Edit(f) ==
    /\ dirty' = dirty \cup {f}
    /\ stale' = stale \cup {f}
    /\ dropped' = dropped \ {f}
    /\ UNCHANGED <<queue, engine, pending, orders>>

\* Enqueue of several items, one after the other: what does not fit is lost.
Fitting(q, items) == SubSeq(items, 1, IF Len(items) < QueueCap - Len(q) THEN Len(items) ELSE QueueCap - Len(q))
Enqueue(items) == queue' = queue \o Fitting(queue, items)

\* Mutant of scanFiles: the event of the story that is being executed is not queued again.
scanFilesNotCurrent(fired) ==
    /\ fired \subseteq pending \ dirty
    /\ pending' = (pending \ fired) \cup dirty
    /\ dirty' = {}
    /\ \E items \in SetToSeqs(fired \ {engine}) :
         /\ Enqueue(items)
         /\ dropped' = dropped \cup (ToSet(items) \ ToSet(queue \o Fitting(queue, items)))
    /\ UNCHANGED <<engine, stale, orders>>

\* scanFiles: changed files become pending events as of now; events that are older than
\* the debounce interval - never one renewed in this scan - are handed to the engine, in
\* the order the map yields them, and are gone whether or not the queue took them.
scanFiles(fired) ==
    /\ fired \subseteq pending \ dirty
    /\ pending' = (pending \ fired) \cup dirty
    /\ dirty' = {}
    /\ \E items \in SetToSeqs(fired) :
         /\ Enqueue(items)
         /\ dropped' = dropped \cup (fired \ ToSet(queue \o Fitting(queue, items)))
    /\ UNCHANGED <<engine, stale, orders>>

\* OrderCmd: the order is recorded and its story written ...
PostOrder(o) ==
    /\ orders[o] = "none"
    /\ orders' = [orders EXCEPT ![o] = "accepted"]
    /\ UNCHANGED <<queue, engine, dirty, pending, stale, dropped>>

\* ... and sent to the story channel as soon as there is room.
QueueOrder(o) ==
    /\ orders[o] = "accepted" /\ Len(queue) < QueueCap
    /\ Enqueue(<<o>>)
    /\ orders' = [orders EXCEPT ![o] = "queued"]
    /\ UNCHANGED <<engine, dirty, pending, stale, dropped>>

updateOrderStatus(item, status) ==
    orders' = IF item \in Orders THEN [orders EXCEPT ![item] = status] ELSE orders

\* Run takes the next item; processStoryWorkItem marks its order RUNNING and executes it.
TakeItem ==
    /\ engine = Nothing /\ queue # <<>>
    /\ engine' = Head(queue) /\ queue' = Tail(queue)
    /\ stale' = stale \ {Head(queue)} /\ dropped' = dropped \ {Head(queue)}
    /\ updateOrderStatus(Head(queue), "running")
    /\ UNCHANGED <<dirty, pending>>

\* The executor returns; the order is finished, COMPLETED or FAILED, and the daemon idle.
processStoryWorkItem ==
    /\ engine # Nothing
    /\ engine' = Nothing
    /\ updateOrderStatus(engine, "finished")
    /\ UNCHANGED <<queue, dirty, pending, stale, dropped>>

\* Run, on entry: reconcilePendingOrders enqueues the unfinished orders of the repository,
\* then the watcher takes the files as they are for seen.
EnterStandby ==
    /\ \E items \in SetToSeqs(Persisted) : Enqueue(items)
    /\ dirty' = {} /\ pending' = {} /\ stale' = {}
    /\ UNCHANGED <<engine, dropped, orders>>

\* The process ends: nothing of this is stored, and the orders are forgotten too.
StandbyLost ==
    /\ queue' = <<>> /\ engine' = Nothing /\ dirty' = {} /\ pending' = {}
    /\ stale' = {} /\ dropped' = {}
    /\ orders' = [o \in Orders |-> "none"]

NewStandby ==
    /\ queue = <<>> /\ engine = Nothing /\ dirty = {} /\ pending = {} /\ stale = {} /\ dropped = {}
    /\ orders = [o \in Orders |-> "none"]

=============================================================================
