------------------------------- MODULE Daemon -------------------------------
(* The daemon of `noctifab serve`: the CommandMailbox, whose loop is meant   *)
(* to be the single writer of the state, the REST handlers that send to it  *)
(* or write past it, the story queue its commands fill, and the server loop *)
(* that empties the queue and runs the stories, which in turn update the    *)
(* state through the mailbox.  The repository is the versioned register of  *)
(* StateRegister: a Load remembers the version, a Save at another version   *)
(* is a conflict.                                                           *)
EXTENDS Naturals, Sequences, FiniteSets

CONSTANTS
    Posts,       \* asynchronous commands, sent by REST handlers with Send
    StoriesOf,   \* per post: how many stories the command puts in the story queue
    Starts,      \* posts that only queue stories (StartUserStoryCmd, StartDirectoryCmd)
    Direct,      \* REST handlers that write past the mailbox (storyStatusHandler)
    Tasks,       \* task goroutines: one updateStateWithRetry each
    Server,      \* the server loop, which updates once per story it runs
    MailCap,     \* capacity of CommandMailbox.cmds
    QueueCap,    \* capacity of storyCh
    MaxAttempts, \* OCC attempts of a direct writer
    MayStop,     \* whether the shutdown signal is part of the behaviour
    None

VARIABLES
    mail,     \* CommandMailbox.cmds: the callers whose command is buffered
    running,  \* CommandMailbox.running
    rw,       \* CommandMailbox.mu: [readers, writer], writer \in {"no", "waits", "holds"}
    loop,     \* the goroutine of Start: [pc, cmd, seen, left]
    call,     \* every caller: [pc, seen, tries, res]
    done,     \* the done channel of a synchronous command
    version,  \* of the state
    applied,  \* history: how often the state holds the write of each caller
    storyq,   \* storyCh: number of buffered stories
    server,   \* runServerLoop: [pc, left]
    cancelled \* the daemon context is cancelled

vars == <<mail, running, rw, loop, call, done, version, applied, storyq, server, cancelled>>

Sync == Tasks \cup {Server}
Callers == Posts \cup Direct \cup Sync
mailbox == <<mail, running, rw, loop>>
queue == <<storyq, server>>

ASSUME DaemonAssumption ==
    /\ MailCap \in Nat \ {0} /\ QueueCap \in Nat \ {0} /\ MaxAttempts \in Nat \ {0}
    /\ StoriesOf \in [Posts -> Nat] /\ Starts \subseteq Posts /\ MayStop \in BOOLEAN
    /\ Server \notin Tasks \cup Posts \cup Direct /\ Posts \cap Tasks = {}
    /\ None \notin Callers \cup {"accepted", "ok", "conflict", "ctx"}

Goto(c, pc) == call' = [call EXCEPT ![c].pc = pc]
Return(c, res) == call' = [call EXCEPT ![c] = [pc |-> "returned", seen |-> 0, tries |-> 0, res |-> res]]
Commit(c) == version' = version + 1 /\ applied' = [applied EXCEPT ![c] = @ + 1]

-----------------------------------------------------------------------------
(* Callers. *)

\* Send: blocks while the buffer is full, takes no lock and no context.
Send(c) ==
    /\ c \in Posts /\ call[c].pc = "start"
    /\ Len(mail) < MailCap
    /\ mail' = Append(mail, c)
    /\ Return(c, "accepted")
    /\ UNCHANGED <<running, rw, loop, done, version, applied, storyq, server, cancelled>>

\* updateStateWithRetry asks IsRunning and takes the mailbox or the repository.
updateStateWithRetry(c) ==
    /\ c \in Sync /\ call[c].pc = "start"
    /\ Goto(c, IF running THEN "sendsync" ELSE "load")
    /\ UNCHANGED <<mailbox, done, version, applied, queue, cancelled>>

\* SendSync: a context that is cancelled by now returns at once.
SendSync(c) ==
    /\ call[c].pc = "sendsync"
    /\ \/ cancelled /\ Return(c, "ctx")
       \/ ~cancelled /\ Goto(c, "rlock")
    /\ UNCHANGED <<mailbox, done, version, applied, queue, cancelled>>

\* Mutant of ReadLock: the read lock is given up before the command is sent.
ReadLockReleased(c) ==
    /\ call[c].pc = "rlock" /\ rw.writer = "no"
    /\ Goto(c, IF running THEN "enqueue" ELSE "loadonce")
    /\ UNCHANGED <<mailbox, done, version, applied, queue, cancelled>>

\* SendSync, later: the read lock, which waits for a writer that holds or awaits the lock;
\* a mailbox that was stopped meanwhile means direct execution.
ReadLock(c) ==
    /\ call[c].pc = "rlock" /\ rw.writer = "no"
    /\ IF running THEN /\ rw' = [rw EXCEPT !.readers = @ \cup {c}]
                       /\ Goto(c, "enqueue")
       ELSE Goto(c, "loadonce") /\ UNCHANGED rw
    /\ UNCHANGED <<mail, running, loop, done, version, applied, queue, cancelled>>

\* Mutant of Enqueue: the send ignores the context.
EnqueueDeaf(c) ==
    /\ call[c].pc = "enqueue"
    /\ rw' = [rw EXCEPT !.readers = @ \ {c}]
    /\ Len(mail) < MailCap /\ mail' = Append(mail, c) /\ Goto(c, "await")
    /\ UNCHANGED <<running, loop, done, version, applied, queue, cancelled>>

\* SendSync under the read lock: room in the buffer, or the context.
Enqueue(c) ==
    /\ call[c].pc = "enqueue"
    /\ rw' = [rw EXCEPT !.readers = @ \ {c}]
    /\ \/ Len(mail) < MailCap /\ mail' = Append(mail, c) /\ Goto(c, "await")
       \/ cancelled /\ Return(c, "ctx") /\ UNCHANGED mail
    /\ UNCHANGED <<running, loop, done, version, applied, queue, cancelled>>

\* SendSync waits for the result or the context.
Await(c) ==
    /\ call[c].pc = "await"
    /\ \/ done[c] # None /\ Return(c, done[c])
       \/ cancelled /\ Return(c, "ctx")
    /\ UNCHANGED <<mailbox, done, version, applied, queue, cancelled>>

\* Load of a caller that writes by itself; a repository asked with a cancelled context may
\* refuse.
DirectLoad(c) ==
    /\ call[c].pc \in {"load", "loadonce"}
    /\ \/ call' = [call EXCEPT ![c].seen = version,
                               ![c].pc = IF @ = "load" THEN "save" ELSE "saveonce"]
       \/ cancelled /\ Return(c, "ctx")
    /\ UNCHANGED <<mailbox, done, version, applied, queue, cancelled>>

\* Save of such a caller: a conflict is retried by SaveStateWithBackoff and
\* updateStateWithRetry, not by a command executed directly.
DirectSave(c) ==
    /\ call[c].pc \in {"save", "saveonce"}
    /\ IF call[c].seen = version THEN Commit(c) /\ Return(c, "ok")
       ELSE /\ UNCHANGED <<version, applied>>
            /\ IF call[c].pc = "save" /\ call[c].tries + 1 < MaxAttempts
               THEN \/ call' = [call EXCEPT ![c].pc = "load", ![c].tries = @ + 1]
                    \/ cancelled /\ Return(c, "ctx")
               ELSE Return(c, "conflict")
    /\ UNCHANGED <<mailbox, done, queue, cancelled>>

-----------------------------------------------------------------------------
(* CommandMailbox.Start. *)

Selecting == [pc |-> "select", cmd |-> None, seen |-> 0, left |-> 0]

Start ==
    /\ loop.pc = "new"
    /\ running' = TRUE
    /\ loop' = Selecting
    /\ UNCHANGED <<mail, rw, call, done, version, applied, queue, cancelled>>

\* The select of the loop takes a command, or - at random if both are ready - the context.
TakeCommand ==
    /\ loop.pc = "select" /\ mail # <<>>
    /\ mail' = Tail(mail)
    /\ loop' = [loop EXCEPT !.pc = "load", !.cmd = Head(mail)]
    /\ UNCHANGED <<running, rw, call, done, version, applied, queue, cancelled>>

\* Execute: Load, mutate.  A command that only queues stories does not touch the state.
ExecuteLoad ==
    /\ loop.pc = "load"
    /\ loop' = IF loop.cmd \in Starts
               THEN [loop EXCEPT !.pc = "story", !.left = StoriesOf[loop.cmd]]
               ELSE [loop EXCEPT !.pc = "save", !.seen = version]
    /\ UNCHANGED <<mail, running, rw, call, done, version, applied, queue, cancelled>>

\* Mutant of ExecuteSave: a save at a stale version overwrites and reports the conflict.
ExecuteSaveForced ==
    /\ loop.pc = "save"
    /\ Commit(loop.cmd)
    /\ done' = IF loop.cmd \in Sync
               THEN [done EXCEPT ![loop.cmd] = IF loop.seen = version THEN "ok" ELSE "conflict"] ELSE done
    /\ loop' = Selecting
    /\ UNCHANGED <<mail, running, rw, call, queue, cancelled>>

\* Execute: Save, once; the wrapper of a synchronous command reports the error.
ExecuteSave ==
    /\ loop.pc = "save"
    /\ LET ok == loop.seen = version
           res == IF ok THEN "ok" ELSE "conflict"
       IN  /\ IF ok THEN Commit(loop.cmd) ELSE UNCHANGED <<version, applied>>
           /\ done' = IF loop.cmd \in Sync THEN [done EXCEPT ![loop.cmd] = res] ELSE done
           /\ loop' = IF ok /\ loop.cmd \in Posts /\ StoriesOf[loop.cmd] > 0
                      THEN [loop EXCEPT !.pc = "story", !.seen = 0, !.left = StoriesOf[loop.cmd]]
                      ELSE Selecting
    /\ UNCHANGED <<mail, running, rw, call, queue, cancelled>>

\* Execute: one story into the queue; blocks while it is full - OrderCmd without its context.
QueueStory ==
    /\ loop.pc = "story"
    /\ \/ /\ storyq < QueueCap
          /\ storyq' = storyq + 1
          /\ loop' = IF loop.left > 1 THEN [loop EXCEPT !.left = @ - 1] ELSE Selecting
       \/ /\ cancelled /\ loop.cmd \in Starts
          /\ loop' = Selecting
          /\ UNCHANGED storyq
    /\ UNCHANGED <<mail, running, rw, call, done, version, applied, server, cancelled>>

\* ctx.Done: the deferred function asks for the write lock ...
StopLoop ==
    /\ loop.pc = "select" /\ cancelled
    /\ loop' = [loop EXCEPT !.pc = "lock"]
    /\ rw' = [rw EXCEPT !.writer = "waits"]
    /\ UNCHANGED <<mail, running, call, done, version, applied, queue, cancelled>>

\* ... gets it when no sender holds the read lock ...
LockForDrain ==
    /\ loop.pc = "lock" /\ rw.readers = {}
    /\ rw' = [rw EXCEPT !.writer = "holds"]
    /\ running' = FALSE
    /\ loop' = [loop EXCEPT !.pc = "drain"]
    /\ UNCHANGED <<mail, call, done, version, applied, queue, cancelled>>

\* ... and empties the buffer, telling the synchronous senders, before it unlocks.
Drain ==
    /\ loop.pc = "drain"
    /\ IF mail = <<>>
       THEN /\ loop' = [loop EXCEPT !.pc = "stopped"]
            /\ rw' = [rw EXCEPT !.writer = "no"]
            /\ UNCHANGED <<mail, done>>
       ELSE /\ mail' = Tail(mail)
            /\ done' = IF Head(mail) \in Sync THEN [done EXCEPT ![Head(mail)] = "ctx"] ELSE done
            /\ UNCHANGED <<loop, rw>>
    /\ UNCHANGED <<running, call, version, applied, queue, cancelled>>

-----------------------------------------------------------------------------
(* runServerLoop. *)

\* An item from the queue, and whatever arrives in the 100 ms drain window.
TakeBatch ==
    /\ server.pc = "select" /\ storyq > 0
    /\ \E n \in 1..storyq :
         /\ storyq' = storyq - n
         /\ server' = [pc |-> "run", left |-> n]
    /\ UNCHANGED <<mailbox, call, done, version, applied, cancelled>>

\* processStory updates the state through the orchestrator ...
ProcessStory ==
    /\ server.pc = "run" /\ call[Server].pc = "none"
    /\ server' = [server EXCEPT !.pc = "update"]
    /\ Goto(Server, "start")
    /\ UNCHANGED <<mailbox, done, version, applied, storyq, cancelled>>

\* ... and ends; the loop takes the next story of the batch or the next batch.
StoryEnds ==
    /\ server.pc = "update" /\ call[Server].pc = "returned"
    /\ server' = [pc |-> IF server.left > 1 THEN "run" ELSE "select", left |-> server.left - 1]
    /\ call' = [call EXCEPT ![Server].pc = "none", ![Server].res = None]
    /\ done' = [done EXCEPT ![Server] = None]
    /\ UNCHANGED <<mailbox, version, applied, storyq, cancelled>>

\* ctx.Done: MarkStoryInterruptedCmd runs directly on the repository, then the process ends.
StopServer ==
    /\ server.pc = "select" /\ cancelled
    /\ server' = [server EXCEPT !.pc = "stopped"]
    /\ UNCHANGED <<mailbox, call, done, version, applied, storyq, cancelled>>

\* SIGTERM or SIGINT.
Signal ==
    /\ MayStop /\ ~cancelled
    /\ cancelled' = TRUE
    /\ UNCHANGED <<mailbox, call, done, version, applied, queue>>

-----------------------------------------------------------------------------
Init ==
    /\ mail = <<>> /\ running = FALSE
    /\ rw = [readers |-> {}, writer |-> "no"]
    /\ loop = [pc |-> "new", cmd |-> None, seen |-> 0, left |-> 0]
    /\ call = [c \in Callers |-> [pc |-> CASE c = Server -> "none" [] c \in Direct -> "load" [] OTHER -> "start",
                                  seen |-> 0, tries |-> 0, res |-> None]]
    /\ done = [c \in Sync |-> None]
    /\ version = 0 /\ applied = [c \in Callers |-> 0]
    /\ storyq = 0 /\ server = [pc |-> "select", left |-> 0]
    /\ cancelled = FALSE

CallStep(c) ==
    \/ Send(c) \/ updateStateWithRetry(c) \/ SendSync(c) \/ ReadLock(c) \/ Enqueue(c) \/ Await(c)
    \/ DirectLoad(c) \/ DirectSave(c)

LoopStep ==
    \/ Start \/ TakeCommand \/ ExecuteLoad \/ ExecuteSave \/ QueueStory
    \/ StopLoop \/ LockForDrain \/ Drain

ServerStep == TakeBatch \/ ProcessStory \/ StoryEnds \/ StopServer

Next == (\E c \in Callers : CallStep(c)) \/ LoopStep \/ ServerStep \/ Signal

\* Every goroutine that can take a step takes one eventually; the loop's select, offered
\* the context again and again, does not prefer commands for ever.
Spec == /\ Init /\ [][Next]_vars
        /\ \A c \in Callers : WF_vars(CallStep(c))
        /\ WF_vars(LoopStep) /\ SF_vars(StopLoop) /\ WF_vars(ServerStep)

-----------------------------------------------------------------------------
\* What SendSync tells its caller is what happened: "ok" means written, once; a conflict
\* means not written; and no command is executed twice, whoever gives up waiting for it.
ResultTruthful ==
    \A c \in Callers \ {Server} :
        /\ applied[c] <= 1
        /\ call[c].res = "ok" => applied[c] = 1
        /\ call[c].res = "conflict" => applied[c] = 0

\* Once the loop has drained the mailbox no synchronous command is left in it, so no
\* sender waits for an answer nobody will give.
NoSyncStranded ==
    loop.pc = "stopped" => \A n \in DOMAIN mail : mail[n] \notin Sync

\* The shutdown never wedges: once the context is cancelled every synchronous caller
\* returns and the mailbox loop stops - unless it is blocked on a full story queue.
ShutdownCompletes ==
    cancelled ~> /\ \A c \in Tasks : call[c].pc = "returned"
                 /\ loop.pc = "stopped" \/ loop.pc = "story"

\* A command that queues stories gets them all into the queue: the stories that run drain
\* it without ever needing the mailbox loop that waits for room.
StoriesAreQueued == loop.pc = "story" ~> loop.pc # "story"
=============================================================================
