---------------------------- MODULE DaemonProofs ----------------------------
(***************************************************************************)
(* Proofs about Daemon for every set of REST handlers, task goroutines and *)
(* direct writers, every capacity of the mailbox and of the story queue,   *)
(* and with a shutdown at any moment.                                      *)
(***************************************************************************)
EXTENDS Daemon, TLAPS

Results == {None, "accepted", "ok", "conflict", "ctx"}
CallPC == {"none", "start", "sendsync", "rlock", "enqueue", "await", "load", "save", "loadonce", "saveonce", "returned"}
CallRec == [pc : CallPC, seen : Nat, tries : Nat, res : Results]
LoopPC == {"new", "select", "load", "save", "story", "lock", "drain", "stopped"}
LoopRec == [pc : LoopPC, cmd : Callers \cup {None}, seen : Nat, left : Nat]
LockRec == [readers : SUBSET Callers, writer : {"no", "waits", "holds"}]

CallType ==
    /\ call \in [Callers -> CallRec]
    /\ \A c \in Callers : call[c].pc \in {"sendsync", "rlock", "enqueue", "await"} => c \in Sync
MailType == mail \in Seq(Callers)
LoopType == loop \in LoopRec /\ (loop.pc \in {"load", "save", "story"} => loop.cmd \in Callers)
StateType == version \in Nat /\ applied \in [Callers -> Nat]
RestType == running \in BOOLEAN /\ rw \in LockRec /\ done \in [Sync -> Results]

DaemonType == CallType /\ MailType /\ LoopType /\ StateType /\ RestType

\* The lock: the readers are the senders between SendSync and the send, and
\* from the moment the loop has the write lock there are none.
LockInv ==
    /\ rw.readers = {c \in Callers : call[c].pc = "enqueue"}
    /\ running <=> loop.pc \in {"select", "load", "save", "story", "lock"}
    /\ rw.writer = "no" <=> loop.pc \notin {"lock", "drain"}
    /\ loop.pc \in {"drain", "stopped"} => rw.readers = {}

InMail(c) == \E n \in 1..Len(mail) : mail[n] = c
Once(c) == \A m, n \in 1..Len(mail) : mail[m] = c /\ mail[n] = c => m = n
Busy(c) == loop.pc \in {"load", "save"} /\ loop.cmd = c

\* Callers whose command was neither sent nor executed.
Fresh == {"start", "sendsync", "rlock", "enqueue", "load", "save", "loadonce", "saveonce"}

\* A caller's command is in one place, and whoever knows its result knows that
\* it left that place.
TokenInv(c) ==
    /\ Once(c)
    /\ ~(InMail(c) /\ Busy(c))
    /\ call[c].pc \in Fresh =>
         ~InMail(c) /\ ~Busy(c) /\ applied[c] = 0 /\ (c \in Sync => done[c] = None)
    /\ call[c].pc # "returned" => call[c].res = None
    /\ InMail(c) \/ Busy(c) => /\ applied[c] = 0 /\ (c \in Sync => done[c] = None)
                               /\ call[c].res \notin {"ok", "conflict"}
    /\ applied[c] <= 1
    /\ c \in Sync => /\ done[c] = "ok" => applied[c] = 1
                     /\ done[c] = "conflict" => applied[c] = 0
    /\ call[c].res = "ok" => applied[c] = 1
    /\ call[c].res = "conflict" => applied[c] = 0

TokensInv == \A c \in Callers \ {Server} : TokenInv(c)

DaemonInv == DaemonType /\ LockInv /\ TokensInv /\ NoSyncStranded
-----------------------------------------------------------------------------
(* What the steps do to the callers' records, to the buffer and to the state. *)

LEMMA NoneIsNew == None \notin {"accepted", "ok", "conflict", "ctx"}
  BY DaemonAssumption

LEMMA GotoEffect ==
    ASSUME CallType, NEW c \in Callers, NEW q \in CallPC, Goto(c, q),
           q \in {"sendsync", "rlock", "enqueue", "await"} => c \in Sync
    PROVE  /\ CallType'
           /\ call'[c].pc = q /\ call'[c].res = call[c].res
           /\ \A d \in Callers \ {c} : call'[d] = call[d]
<1>1. call[c] \in CallRec
  BY DEF CallType
<1> DEFINE r == [call[c] EXCEPT !.pc = q]
<1>2. r \in CallRec /\ r.pc = q /\ r.res = call[c].res
  BY <1>1 DEF CallRec
<1>3. call' = [call EXCEPT ![c] = r]
  BY DEF Goto
<1> HIDE DEF r
<1>4. call' \in [Callers -> CallRec] /\ call'[c] = r /\ \A d \in Callers \ {c} : call'[d] = call[d]
  BY <1>2, <1>3 DEF CallType
<1> QED
  BY <1>2, <1>4 DEF CallType

LEMMA ReturnEffect ==
    ASSUME CallType, NEW c \in Callers, NEW v \in Results, Return(c, v)
    PROVE  /\ CallType'
           /\ call'[c].pc = "returned" /\ call'[c].res = v
           /\ \A d \in Callers \ {c} : call'[d] = call[d]
<1> DEFINE r == [pc |-> "returned", seen |-> 0, tries |-> 0, res |-> v]
<1>2. r \in CallRec /\ r.pc = "returned" /\ r.res = v
  BY DEF CallRec, CallPC
<1>3. call' = [call EXCEPT ![c] = r]
  BY DEF Return
<1> HIDE DEF r
<1>4. call' \in [Callers -> CallRec] /\ call'[c] = r /\ \A d \in Callers \ {c} : call'[d] = call[d]
  BY <1>2, <1>3 DEF CallType
<1> QED
  BY <1>2, <1>4 DEF CallType

LEMMA CommitEffect ==
    ASSUME StateType, NEW c \in Callers, Commit(c)
    PROVE  StateType' /\ applied'[c] = applied[c] + 1 /\ \A d \in Callers \ {c} : applied'[d] = applied[d]
  BY DEF StateType, Commit

LEMMA AppendEffect ==
    ASSUME MailType, NEW c \in Callers, mail' = Append(mail, c)
    PROVE  /\ MailType' /\ InMail(c)'
           /\ \A d : d # c => (InMail(d)' <=> InMail(d)) /\ (Once(d) => Once(d)')
           /\ ~InMail(c) => Once(c)'
<1>1. MailType'
  BY DEF MailType
<1>2. Len(mail') = Len(mail) + 1 /\ mail'[Len(mail) + 1] = c /\ Len(mail) \in Nat
  BY DEF MailType
<1>3. \A n \in 1..Len(mail) : mail'[n] = mail[n]
  BY DEF MailType
<1>4. InMail(c)'
  BY <1>2 DEF InMail
<1>5. ASSUME NEW d, d # c PROVE (InMail(d)' <=> InMail(d)) /\ (Once(d) => Once(d)')
  BY <1>2, <1>3, <1>5 DEF InMail, Once
<1>6. ~InMail(c) => Once(c)'
  BY <1>2, <1>3 DEF InMail, Once
<1> QED
  BY <1>1, <1>4, <1>5, <1>6

LEMMA TailEffect ==
    ASSUME MailType, mail # << >>, mail' = Tail(mail)
    PROVE  /\ MailType' /\ Head(mail) \in Callers /\ InMail(Head(mail))
           /\ \A d : /\ d # Head(mail) => (InMail(d)' <=> InMail(d))
                     /\ Once(d) => Once(d)'
                     /\ d = Head(mail) /\ Once(d) => ~InMail(d)'
<1>1. MailType' /\ Head(mail) \in Callers
  BY DEF MailType
<1>2. Len(mail) \in Nat \ {0} /\ Len(mail') = Len(mail) - 1 /\ Head(mail) = mail[1]
  BY DEF MailType
<1>3. \A n \in 1..Len(mail') : mail'[n] = mail[n + 1]
  BY DEF MailType
<1>4. InMail(Head(mail))
  BY <1>2 DEF InMail
<1>5. ASSUME NEW d PROVE InMail(d)' => InMail(d)
  <2> SUFFICES ASSUME NEW n \in 1..Len(mail'), mail'[n] = d PROVE InMail(d)
    BY DEF InMail
  <2>1. n + 1 \in 1..Len(mail) /\ mail[n + 1] = d
    BY <1>2, <1>3
  <2> QED
    BY <2>1 DEF InMail
<1>6. ASSUME NEW d, d # Head(mail), InMail(d) PROVE InMail(d)'
  <2>1. PICK n \in 1..Len(mail) : mail[n] = d
    BY <1>6 DEF InMail
  <2>2. n # 1
    BY <1>2, <1>6, <2>1
  <2>3. n - 1 \in 1..Len(mail') /\ mail'[n - 1] = d
    BY <1>2, <1>3, <2>1, <2>2
  <2> QED
    BY <2>3 DEF InMail
<1>7. ASSUME NEW d, Once(d) PROVE Once(d)'
  <2> SUFFICES ASSUME NEW m \in 1..Len(mail'), NEW n \in 1..Len(mail'), mail'[m] = d, mail'[n] = d PROVE m = n
    BY DEF Once
  <2>1. m + 1 \in 1..Len(mail) /\ n + 1 \in 1..Len(mail) /\ mail[m + 1] = d /\ mail[n + 1] = d
    BY <1>2, <1>3
  <2>2. m + 1 = n + 1
    BY <1>7, <2>1 DEF Once
  <2> QED
    BY <1>2, <2>2
<1>8. ASSUME NEW d, d = Head(mail), Once(d), InMail(d)' PROVE FALSE
  <2>1. PICK n \in 1..Len(mail') : mail'[n] = d
    BY <1>8 DEF InMail
  <2>2. n + 1 \in 1..Len(mail) /\ 1 \in 1..Len(mail) /\ mail[n + 1] = d /\ mail[1] = d
    BY <1>2, <1>3, <1>8, <2>1
  <2>3. n + 1 = 1
    BY <1>8, <2>2 DEF Once
  <2> QED
    BY <1>2, <2>3
<1> QED
  BY <1>1, <1>4, <1>5, <1>6, <1>7, <1>8
-----------------------------------------------------------------------------
(* Every step keeps the types. *)

LEMMA TypeCall ==
    ASSUME DaemonType, NEW c \in Callers, CallStep(c) PROVE DaemonType'
<1> USE DEF DaemonType
<1>0. {"accepted", "ok", "conflict", "ctx"} \subseteq Results
  BY DEF Results
<1>1. CASE Send(c)
  <2>1. MailType'
    BY <1>1, AppendEffect DEF Send
  <2>2. CallType'
    BY <1>0, <1>1, ReturnEffect DEF Send
  <2> QED
    BY <1>1, <2>1, <2>2 DEF Send, LoopType, StateType, RestType
<1>2. CASE updateStateWithRetry(c)
  <2>1. CallType'
    <3>1. "sendsync" \in CallPC /\ "load" \in CallPC
      BY DEF CallPC
    <3> QED
      BY <1>2, <3>1, GotoEffect DEF updateStateWithRetry
  <2> QED
    BY <1>2, <2>1 DEF updateStateWithRetry, mailbox, queue, MailType, LoopType, StateType, RestType
<1>3. CASE SendSync(c)
  <2>1. CallType'
    <3>1. "rlock" \in CallPC /\ c \in Sync
      BY <1>3 DEF CallPC, CallType, SendSync
    <3> QED
      BY <1>0, <1>3, <3>1, GotoEffect, ReturnEffect DEF SendSync
  <2> QED
    BY <1>3, <2>1 DEF SendSync, mailbox, queue, MailType, LoopType, StateType, RestType
<1>4. CASE Enqueue(c)
  <2>1. CallType'
    <3>1. "await" \in CallPC /\ c \in Sync
      BY <1>4 DEF CallPC, CallType, Enqueue
    <3> QED
      BY <1>0, <1>4, <3>1, GotoEffect, ReturnEffect DEF Enqueue
  <2>2. rw' \in LockRec
    BY <1>4 DEF Enqueue, RestType, LockRec
  <2>3. MailType'
    BY <1>4, AppendEffect DEF Enqueue, MailType
  <2> QED
    BY <1>4, <2>1, <2>2, <2>3 DEF Enqueue, queue, LoopType, StateType, RestType
<1>5. CASE Await(c)
  <2>1. c \in Sync /\ done[c] \in Results
    BY <1>5 DEF Await, CallType, RestType
  <2>2. CallType'
    BY <1>0, <1>5, <2>1, ReturnEffect DEF Await
  <2> QED
    BY <1>5, <2>2 DEF Await, mailbox, queue, MailType, LoopType, StateType, RestType
<1>6. CASE DirectLoad(c)
  <2>1. call[c] \in CallRec /\ version \in Nat
    BY DEF CallType, StateType
  <2> DEFINE r == [call[c] EXCEPT !.seen = version, !.pc = IF @ = "load" THEN "save" ELSE "saveonce"]
  <2>2. r \in CallRec /\ r.pc \in {"save", "saveonce"}
    BY <2>1 DEF CallRec, CallPC
  <2>3. call' = [call EXCEPT ![c] = r] \/ Return(c, "ctx")
    BY <1>6 DEF DirectLoad, CallType
  <2> HIDE DEF r
  <2>4. CallType'
    <3>1. CASE call' = [call EXCEPT ![c] = r]
      BY <2>2, <3>1 DEF CallType
    <3>2. CASE Return(c, "ctx")
      BY <1>0, <3>2, ReturnEffect
    <3> QED
      BY <2>3, <3>1, <3>2
  <2> QED
    BY <1>6, <2>4 DEF DirectLoad, mailbox, queue, MailType, LoopType, StateType, RestType
<1>7. CASE DirectSave(c)
  <2>1. StateType'
    BY <1>7, CommitEffect DEF DirectSave, StateType
  <2>2. CASE call' = [call EXCEPT ![c].pc = "load", ![c].tries = @ + 1]
    <3>1. call[c] \in CallRec /\ call[c].tries + 1 \in Nat
      BY DEF CallType, CallRec
    <3> DEFINE r == [call[c] EXCEPT !.pc = "load", !.tries = call[c].tries + 1]
    <3>2. r \in CallRec /\ r.pc = "load"
      BY <3>1 DEF CallRec, CallPC
    <3>3. call' = [call EXCEPT ![c] = r]
      BY <2>2, <3>1 DEF CallType, CallRec
    <3> HIDE DEF r
    <3> QED
      BY <1>7, <2>1, <3>2, <3>3 DEF DirectSave, mailbox, queue, CallType, MailType, LoopType, RestType
  <2>3. CASE \E v \in Results : Return(c, v)
    <3>1. CallType'
      BY <2>3, ReturnEffect
    <3> QED
      BY <1>7, <2>1, <3>1 DEF DirectSave, mailbox, queue, MailType, LoopType, RestType
  <2> QED
    BY <1>0, <1>7, <2>2, <2>3 DEF DirectSave
<1>8. CASE ReadLock(c)
  <2>1. CallType'
    <3>1. "enqueue" \in CallPC /\ "loadonce" \in CallPC /\ c \in Sync
      BY <1>8 DEF CallPC, CallType, ReadLock
    <3> QED
      BY <1>0, <1>8, <3>1, GotoEffect DEF ReadLock
  <2>2. rw' \in LockRec
    BY <1>8 DEF ReadLock, RestType, LockRec
  <2> QED
    BY <1>8, <2>1, <2>2 DEF ReadLock, queue, MailType, LoopType, StateType, RestType
<1> QED
  BY <1>1, <1>2, <1>3, <1>4, <1>5, <1>6, <1>7, <1>8 DEF CallStep

LEMMA TypeLoop ==
    ASSUME DaemonType, LoopStep PROVE DaemonType'
<1> USE DEF DaemonType
<1>0. Selecting \in LoopRec /\ Selecting.pc = "select"
  BY DEF Selecting, LoopRec, LoopPC
<1>1. CASE Start
  BY <1>0, <1>1 DEF Start, queue, CallType, MailType, LoopType, StateType, RestType
<1>2. CASE TakeCommand
  <2>1. MailType' /\ Head(mail) \in Callers
    BY <1>2, TailEffect DEF TakeCommand
  <2>2. LoopType'
    BY <1>2, <2>1 DEF TakeCommand, LoopType, LoopRec, LoopPC
  <2> QED
    BY <1>2, <2>1, <2>2 DEF TakeCommand, queue, CallType, StateType, RestType
<1>3. CASE ExecuteLoad
  <2>1. loop.cmd \in Starts => StoriesOf[loop.cmd] \in Nat
    BY DaemonAssumption
  <2>2. LoopType'
    BY <1>3, <2>1 DEF ExecuteLoad, LoopType, LoopRec, LoopPC, StateType
  <2> QED
    BY <1>3, <2>2 DEF ExecuteLoad, queue, CallType, MailType, StateType, RestType
<1>4. CASE ExecuteSave
  <2>0. loop.cmd \in Callers
    BY <1>4 DEF ExecuteSave, LoopType
  <2>1. StateType'
    BY <1>4, <2>0, CommitEffect DEF ExecuteSave, StateType
  <2>2. done' \in [Sync -> Results]
    <3>1. {"ok", "conflict"} \subseteq Results
      BY DEF Results
    <3> QED
      BY <1>4, <3>1 DEF ExecuteSave, RestType
  <2>3. loop.cmd \in Posts => StoriesOf[loop.cmd] \in Nat
    BY DaemonAssumption
  <2>4. LoopType'
    <3>1. CASE loop' = Selecting
      BY <1>0, <3>1 DEF LoopType
    <3>2. CASE loop.cmd \in Posts /\ loop' = [loop EXCEPT !.pc = "story", !.seen = 0, !.left = StoriesOf[loop.cmd]]
      BY <2>0, <2>3, <3>2 DEF LoopType, LoopRec, LoopPC
    <3> QED
      BY <1>4, <3>1, <3>2 DEF ExecuteSave
  <2> QED
    BY <1>4, <2>1, <2>2, <2>4 DEF ExecuteSave, queue, CallType, MailType, RestType
<1>5. CASE QueueStory
  <2>1. LoopType'
    <3>1. CASE loop' = Selecting
      BY <1>0, <3>1 DEF LoopType
    <3>2. CASE loop.left > 1 /\ loop' = [loop EXCEPT !.left = @ - 1]
      <4>1. loop.left - 1 \in Nat
        BY <3>2 DEF LoopType, LoopRec
      <4>2. loop' = [loop EXCEPT !.left = loop.left - 1]
        BY <3>2 DEF LoopType, LoopRec
      <4> QED
        BY <4>1, <4>2 DEF LoopType, LoopRec
    <3> QED
      BY <1>5, <3>1, <3>2 DEF QueueStory
  <2> QED
    BY <1>5, <2>1 DEF QueueStory, CallType, MailType, StateType, RestType
<1>6. CASE StopLoop
  <2>1. LoopType'
    BY <1>6 DEF StopLoop, LoopType, LoopRec, LoopPC
  <2>2. rw' \in LockRec
    BY <1>6 DEF StopLoop, RestType, LockRec
  <2> QED
    BY <1>6, <2>1, <2>2 DEF StopLoop, queue, CallType, MailType, StateType, RestType
<1>7. CASE LockForDrain
  <2>1. LoopType'
    BY <1>7 DEF LockForDrain, LoopType, LoopRec, LoopPC
  <2>2. rw' \in LockRec
    BY <1>7 DEF LockForDrain, RestType, LockRec
  <2> QED
    BY <1>7, <2>1, <2>2 DEF LockForDrain, queue, CallType, MailType, StateType, RestType
<1>8. CASE Drain
  <2>1. CASE mail = << >>
    <3>1. LoopType'
      BY <1>8, <2>1 DEF Drain, LoopType, LoopRec, LoopPC
    <3>2. rw' \in LockRec
      BY <1>8, <2>1 DEF Drain, RestType, LockRec
    <3> QED
      BY <1>8, <2>1, <3>1, <3>2 DEF Drain, queue, CallType, MailType, StateType, RestType
  <2>2. CASE mail # << >>
    <3>1. MailType'
      BY <1>8, <2>2, TailEffect DEF Drain
    <3>2. done' \in [Sync -> Results]
      <4>1. "ctx" \in Results
        BY DEF Results
      <4> QED
        BY <1>8, <2>2, <4>1 DEF Drain, RestType
    <3> QED
      BY <1>8, <2>2, <3>1, <3>2 DEF Drain, queue, CallType, LoopType, StateType, RestType
  <2> QED
    BY <2>1, <2>2
<1> QED
  BY <1>1, <1>2, <1>3, <1>4, <1>5, <1>6, <1>7, <1>8 DEF LoopStep

LEMMA TypeServer ==
    ASSUME DaemonType, ServerStep \/ Signal PROVE DaemonType'
<1> USE DEF DaemonType, mailbox, queue
<1>0. Server \in Callers /\ Server \in Sync
  BY DEF Callers, Sync
<1>1. CASE TakeBatch
  BY <1>1 DEF TakeBatch, CallType, MailType, LoopType, StateType, RestType
<1>2. CASE ProcessStory
  <2>1. CallType'
    <3>1. "start" \in CallPC
      BY DEF CallPC
    <3> QED
      BY <1>0, <1>2, <3>1, GotoEffect DEF ProcessStory
  <2> QED
    BY <1>2, <2>1 DEF ProcessStory, MailType, LoopType, StateType, RestType
<1>3. CASE StoryEnds
  <2>1. call[Server] \in CallRec
    BY <1>0 DEF CallType
  <2> DEFINE r == [call[Server] EXCEPT !.pc = "none", !.res = None]
  <2>2. r \in CallRec /\ r.pc = "none"
    BY <2>1 DEF CallRec, CallPC, Results
  <2>3. call' = [call EXCEPT ![Server] = r]
    BY <1>0, <1>3 DEF StoryEnds, CallType
  <2> HIDE DEF r
  <2>4. CallType'
    BY <1>0, <2>2, <2>3 DEF CallType
  <2>5. done' \in [Sync -> Results]
    <3>1. None \in Results
      BY DEF Results
    <3> QED
      BY <1>0, <1>3, <3>1 DEF StoryEnds, RestType
  <2> QED
    BY <1>3, <2>4, <2>5 DEF StoryEnds, MailType, LoopType, StateType, RestType
<1>4. CASE StopServer \/ Signal
  BY <1>4 DEF StopServer, Signal, CallType, MailType, LoopType, StateType, RestType
<1> QED
  BY <1>1, <1>2, <1>3, <1>4 DEF ServerStep

LEMMA TypeNext == DaemonType /\ [Next]_vars => DaemonType'
<1> SUFFICES ASSUME DaemonType, [Next]_vars PROVE DaemonType'
  OBVIOUS
<1>1. CASE UNCHANGED vars
  BY <1>1 DEF vars, DaemonType, CallType, MailType, LoopType, StateType, RestType
<1> QED
  BY <1>1, TypeCall, TypeLoop, TypeServer DEF Next
-----------------------------------------------------------------------------
(* The lock, and what is left in the buffer once the loop has stopped. *)

LEMMA ReadersKept ==
    ASSUME CallType, CallType', NEW c \in Callers, call[c].pc # "enqueue", call'[c].pc # "enqueue",
           \A d \in Callers \ {c} : call'[d] = call[d]
    PROVE  {d \in Callers : call'[d].pc = "enqueue"} = {d \in Callers : call[d].pc = "enqueue"}
  OBVIOUS

LEMMA LockCall ==
    ASSUME DaemonType, LockInv, NEW c \in Callers, CallStep(c) PROVE LockInv'
<1> USE DEF LockInv
<1>0. {"accepted", "ok", "conflict", "ctx"} \subseteq Results /\ CallType /\ CallType' /\ RestType
  BY TypeCall DEF Results, DaemonType
<1>a. ASSUME call[c].pc # "enqueue", call'[c].pc # "enqueue", \A d \in Callers \ {c} : call'[d] = call[d],
             UNCHANGED <<rw, running, loop>>
      PROVE  LockInv'
  BY <1>0, <1>a, ReadersKept
<1>1. CASE Send(c)
  BY <1>0, <1>1, <1>a, ReturnEffect DEF Send
<1>2. CASE updateStateWithRetry(c)
  <2>1. "sendsync" \in CallPC /\ "load" \in CallPC
    BY DEF CallPC
  <2> QED
    BY <1>0, <1>2, <1>a, <2>1, GotoEffect DEF updateStateWithRetry, mailbox
<1>3. CASE SendSync(c)
  <2>1. "rlock" \in CallPC /\ c \in Sync
    BY <1>0, <1>3 DEF CallPC, CallType, SendSync
  <2> QED
    BY <1>0, <1>3, <1>a, <2>1, GotoEffect, ReturnEffect DEF SendSync, mailbox
<1>4. CASE Enqueue(c)
  <2>0. "await" \in CallPC /\ c \in Sync
    BY <1>0, <1>4 DEF CallPC, CallType, Enqueue
  <2>1. call'[c].pc # "enqueue" /\ \A d \in Callers \ {c} : call'[d] = call[d]
    BY <1>0, <1>4, <2>0, GotoEffect, ReturnEffect DEF Enqueue
  <2>2. rw'.readers = rw.readers \ {c} /\ rw'.writer = rw.writer
    BY <1>0, <1>4 DEF Enqueue, RestType, LockRec
  <2>3. loop' = loop /\ running' = running
    BY <1>4 DEF Enqueue
  <2>4. rw'.readers = {d \in Callers : call'[d].pc = "enqueue"}
    BY <2>1, <2>2
  <2> QED
    BY <2>2, <2>3, <2>4
<1>5. CASE Await(c)
  <2>1. c \in Sync /\ done[c] \in Results
    BY <1>0, <1>5 DEF Await, CallType, RestType
  <2> QED
    BY <1>0, <1>5, <1>a, <2>1, ReturnEffect DEF Await, mailbox
<1>6. CASE DirectLoad(c)
  <2>1. call'[c].pc # "enqueue" /\ \A d \in Callers \ {c} : call'[d] = call[d]
    <3>1. CASE Return(c, "ctx")
      BY <1>0, <3>1, ReturnEffect
    <3> QED
      BY <1>0, <1>6, <3>1 DEF DirectLoad, CallType, CallRec
  <2> QED
    BY <1>6, <1>a, <2>1 DEF DirectLoad, mailbox
<1>7. CASE DirectSave(c)
  <2>1. CASE call' = [call EXCEPT ![c].pc = "load", ![c].tries = @ + 1]
    <3>1. call'[c].pc # "enqueue" /\ \A d \in Callers \ {c} : call'[d] = call[d]
      BY <1>0, <2>1 DEF CallType, CallRec
    <3> QED
      BY <1>7, <1>a, <3>1 DEF DirectSave, mailbox
  <2>2. CASE \E v \in Results : Return(c, v)
    BY <1>0, <1>7, <1>a, <2>2, ReturnEffect DEF DirectSave, mailbox
  <2> QED
    BY <1>0, <1>7, <2>1, <2>2 DEF DirectSave
<1>8. CASE ReadLock(c)
  <2>0. "enqueue" \in CallPC /\ "loadonce" \in CallPC /\ c \in Sync
    BY <1>0, <1>8 DEF CallPC, CallType, ReadLock
  <2>2. CASE Goto(c, "loadonce") /\ UNCHANGED rw
    BY <1>0, <1>8, <1>a, <2>0, <2>2, GotoEffect DEF ReadLock
  <2>3. CASE rw.writer = "no" /\ running /\ rw' = [rw EXCEPT !.readers = @ \cup {c}] /\ Goto(c, "enqueue")
    <3>1. call'[c].pc = "enqueue" /\ \A d \in Callers \ {c} : call'[d] = call[d]
      BY <1>0, <2>0, <2>3, GotoEffect
    <3>2. rw'.readers = rw.readers \cup {c} /\ rw'.writer = rw.writer
      BY <1>0, <2>3 DEF RestType, LockRec
    <3>3. loop' = loop /\ running' = running /\ loop.pc \notin {"drain", "stopped"}
      BY <1>8, <2>3 DEF ReadLock
    <3>4. rw'.readers = {d \in Callers : call'[d].pc = "enqueue"}
      BY <3>1, <3>2
    <3> QED
      BY <3>2, <3>3, <3>4
  <2> QED
    BY <1>8, <2>2, <2>3 DEF ReadLock
<1> QED
  BY <1>1, <1>2, <1>3, <1>4, <1>5, <1>6, <1>7, <1>8 DEF CallStep

LEMMA LockNext == DaemonType /\ LockInv /\ [Next]_vars => LockInv'
<1> SUFFICES ASSUME DaemonType, LockInv, [Next]_vars PROVE LockInv'
  OBVIOUS
<1>1. CASE UNCHANGED vars
  BY <1>1 DEF vars, LockInv
<1>2. CASE LoopStep
  <2>0. LoopType /\ RestType
    BY DEF DaemonType
  <2>1. CASE Start
    BY <2>0, <2>1 DEF Start, Selecting, LockInv
  <2>2. CASE TakeCommand
    BY <2>0, <2>2 DEF TakeCommand, LockInv, LoopType, LoopRec
  <2>3. CASE ExecuteLoad
    BY <2>0, <2>3 DEF ExecuteLoad, LockInv, LoopType, LoopRec
  <2>4. CASE ExecuteSave
    BY <2>0, <2>4 DEF ExecuteSave, Selecting, LockInv, LoopType, LoopRec
  <2>5. CASE QueueStory
    BY <2>0, <2>5 DEF QueueStory, Selecting, LockInv, LoopType, LoopRec
  <2>6. CASE StopLoop
    BY <2>0, <2>6 DEF StopLoop, LockInv, LoopType, LoopRec, RestType, LockRec
  <2>7. CASE LockForDrain
    BY <2>0, <2>7 DEF LockForDrain, LockInv, LoopType, LoopRec, RestType, LockRec
  <2>8. CASE Drain
    BY <2>0, <2>8 DEF Drain, LockInv, LoopType, LoopRec, RestType, LockRec
  <2> QED
    BY <1>2, <2>1, <2>2, <2>3, <2>4, <2>5, <2>6, <2>7, <2>8 DEF LoopStep
<1>3. CASE ServerStep
  <2>0. Server \in Callers /\ CallType /\ CallType'
    BY TypeNext DEF Callers, Sync, DaemonType
  <2>1. CASE TakeBatch \/ StopServer
    BY <2>1 DEF TakeBatch, StopServer, mailbox, LockInv
  <2>2. CASE ProcessStory
    <3>1. "start" \in CallPC
      BY DEF CallPC
    <3>2. call[Server].pc # "enqueue" /\ call'[Server].pc # "enqueue"
          /\ \A d \in Callers \ {Server} : call'[d] = call[d]
      BY <2>0, <2>2, <3>1, GotoEffect DEF ProcessStory
    <3> QED
      BY <2>0, <2>2, <3>2, ReadersKept DEF ProcessStory, mailbox, LockInv
  <2>3. CASE StoryEnds
    <3>1. call[Server].pc # "enqueue" /\ call'[Server].pc # "enqueue"
          /\ \A d \in Callers \ {Server} : call'[d] = call[d]
      BY <2>0, <2>3 DEF StoryEnds, CallType, CallRec
    <3> QED
      BY <2>0, <2>3, <3>1, ReadersKept DEF StoryEnds, mailbox, LockInv
  <2> QED
    BY <1>3, <2>1, <2>2, <2>3 DEF ServerStep
<1>4. CASE Signal
  BY <1>4 DEF Signal, mailbox, LockInv
<1> QED
  BY <1>1, <1>2, <1>3, <1>4, LockCall DEF Next

LEMMA StrandedNext == DaemonType /\ LockInv /\ NoSyncStranded /\ [Next]_vars => NoSyncStranded'
<1> SUFFICES ASSUME DaemonType, LockInv, NoSyncStranded, [Next]_vars, loop'.pc = "stopped"
             PROVE  \A n \in DOMAIN mail' : mail'[n] \notin Sync
  BY DEF NoSyncStranded
<1>0. MailType /\ LoopType /\ CallType
  BY DEF DaemonType
<1>1. CASE loop.pc # "stopped"
  <2>1. Drain /\ mail = << >>
    <3>1. CASE LoopStep
      <4>1. CASE Start
        BY <4>1 DEF Start, Selecting
      <4>d. CASE TakeCommand
        BY <1>0, <4>d DEF TakeCommand, LoopType, LoopRec
      <4>a. CASE ExecuteLoad
        BY <1>0, <1>1, <4>a DEF ExecuteLoad, LoopType, LoopRec
      <4>b. CASE ExecuteSave
        BY <1>0, <1>1, <4>b DEF ExecuteSave, Selecting, LoopType, LoopRec
      <4>c. CASE QueueStory
        BY <1>0, <1>1, <4>c DEF QueueStory, Selecting, LoopType, LoopRec
      <4>2. CASE StopLoop \/ LockForDrain
        BY <1>0, <1>1, <4>2 DEF StopLoop, LockForDrain, LoopType, LoopRec
      <4>3. CASE Drain
        BY <1>1, <4>3 DEF Drain
      <4> QED
        BY <3>1, <4>1, <4>d, <4>a, <4>b, <4>c, <4>2, <4>3 DEF LoopStep
    <3>2. CASE \E c \in Callers : CallStep(c)
      BY <1>1, <3>2 DEF CallStep, Send, updateStateWithRetry, SendSync, ReadLock, Enqueue, Await, DirectLoad, DirectSave, mailbox
    <3>3. CASE ServerStep \/ Signal \/ UNCHANGED vars
      BY <1>1, <3>3 DEF ServerStep, TakeBatch, ProcessStory, StoryEnds, StopServer, Signal, mailbox, vars
    <3> QED
      BY <3>1, <3>2, <3>3 DEF Next
  <2> QED
    BY <2>1 DEF Drain
<1>2. CASE loop.pc = "stopped"
  <2>0. \A n \in DOMAIN mail : mail[n] \notin Sync
    BY <1>2 DEF NoSyncStranded
  <2>1. CASE mail' = mail
    BY <2>0, <2>1
  <2>2. CASE \E c \in Callers : Send(c)
    <3>1. PICK c \in Callers : Send(c)
      BY <2>2
    <3>2. c \notin Sync /\ mail' = Append(mail, c)
      BY <3>1, DaemonAssumption DEF Send, Sync
    <3> QED
      BY <1>0, <2>0, <3>2 DEF MailType
  <2>3. CASE \E c \in Callers : Enqueue(c)
    BY <1>2, <2>3 DEF Enqueue, LockInv
  <2>4. CASE LoopStep
    BY <1>2, <2>4 DEF LoopStep, Start, TakeCommand, ExecuteLoad, ExecuteSave, QueueStory, StopLoop, LockForDrain, Drain
  <2>5. CASE ServerStep \/ Signal \/ UNCHANGED vars
    BY <2>1, <2>5 DEF ServerStep, TakeBatch, ProcessStory, StoryEnds, StopServer, Signal, mailbox, vars
  <2>6. ASSUME NEW c \in Callers, CallStep(c), ~Send(c), ~Enqueue(c) PROVE mail' = mail
    BY <2>6 DEF CallStep, updateStateWithRetry, SendSync, ReadLock, Await, DirectLoad, DirectSave, mailbox
  <2> QED
    BY <2>1, <2>2, <2>3, <2>4, <2>5, <2>6 DEF Next
<1> QED
  BY <1>1, <1>2
-----------------------------------------------------------------------------
(* The commands. *)

\* A caller nobody answers, executes or sends for keeps its invariant.
LEMMA TokenKept ==
    ASSUME NEW d \in Callers, TokenInv(d), call'[d] = call[d], applied'[d] = applied[d],
           d \in Sync => done'[d] = done[d],
           InMail(d)' => InMail(d), Busy(d)' => Busy(d), Once(d)'
    PROVE  TokenInv(d)'
  BY DEF TokenInv

LEMMA SameMail == ASSUME mail' = mail, NEW d PROVE (InMail(d)' <=> InMail(d)) /\ (Once(d)' <=> Once(d))
  BY DEF InMail, Once

LEMMA SameLoop == ASSUME loop' = loop, NEW d PROVE Busy(d)' <=> Busy(d)
  BY DEF Busy

LEMMA TokenCall ==
    ASSUME DaemonType, NEW c \in Callers, CallStep(c), NEW d \in Callers \ {Server}, TokenInv(d)
    PROVE  TokenInv(d)'
<1>0. /\ {"accepted", "ok", "conflict", "ctx"} \subseteq Results
      /\ CallType /\ CallType' /\ RestType /\ StateType /\ MailType
  BY TypeCall DEF Results, DaemonType
<1>n. None \notin {"accepted", "ok", "conflict", "ctx"}
  BY NoneIsNew
<1>u. loop' = loop /\ done' = done
  BY DEF CallStep, Send, updateStateWithRetry, SendSync, ReadLock, Enqueue, Await, DirectLoad, DirectSave, mailbox
<1>b. (Busy(d)' <=> Busy(d)) /\ Once(d)
  BY <1>u, SameLoop DEF TokenInv
<1>k. ASSUME call'[d] = call[d], applied'[d] = applied[d], InMail(d)' => InMail(d), Once(d)'
      PROVE  TokenInv(d)'
  BY <1>k, <1>u, <1>b, TokenKept
\* A caller whose command stays where it is, and the state with it.
<1>m. ASSUME mail' = mail PROVE (InMail(d)' <=> InMail(d)) /\ Once(d)'
  BY <1>m, <1>b, SameMail
<1>1. CASE Send(c)
  <2>1. call'[c].pc = "returned" /\ call'[c].res = "accepted" /\ \A e \in Callers \ {c} : call'[e] = call[e]
    BY <1>0, <1>1, ReturnEffect DEF Send
  <2>2. applied' = applied /\ mail' = Append(mail, c) /\ call[c].pc \in Fresh
    BY <1>1 DEF Send, Fresh
  <2>3. /\ InMail(c)' /\ (~InMail(c) => Once(c)')
        /\ \A e : e # c => (InMail(e)' <=> InMail(e)) /\ (Once(e) => Once(e)')
    BY <1>0, <2>2, AppendEffect
  <2>4. CASE d # c
    BY <1>b, <1>k, <2>1, <2>2, <2>3, <2>4
  <2>5. CASE d = c
    BY <1>b, <1>u, <1>n, <2>1, <2>2, <2>3, <2>5 DEF TokenInv, Fresh
  <2> QED
    BY <2>4, <2>5
<1>2. CASE updateStateWithRetry(c)
  <2>0. "sendsync" \in CallPC /\ "load" \in CallPC
    BY DEF CallPC
  <2>1. /\ call'[c].pc \in {"sendsync", "load"} /\ call'[c].res = call[c].res
        /\ \A e \in Callers \ {c} : call'[e] = call[e]
    BY <1>0, <1>2, <2>0, GotoEffect DEF updateStateWithRetry
  <2>2. applied' = applied /\ mail' = mail /\ call[c].pc = "start"
    BY <1>2 DEF updateStateWithRetry, mailbox
  <2>4. CASE d # c
    BY <1>k, <1>m, <2>1, <2>2, <2>4
  <2>5. CASE d = c
    BY <1>b, <1>m, <1>u, <2>1, <2>2, <2>5 DEF TokenInv, Fresh
  <2> QED
    BY <2>4, <2>5
<1>3. CASE SendSync(c)
  <2>0. "rlock" \in CallPC /\ c \in Sync
    BY <1>0, <1>3 DEF CallPC, CallType, SendSync
  <2>1. /\ \/ call'[c].pc = "rlock" /\ call'[c].res = call[c].res
           \/ call'[c].pc = "returned" /\ call'[c].res = "ctx"
        /\ \A e \in Callers \ {c} : call'[e] = call[e]
    BY <1>0, <1>3, <2>0, GotoEffect, ReturnEffect DEF SendSync
  <2>2. applied' = applied /\ mail' = mail /\ call[c].pc = "sendsync"
    BY <1>3 DEF SendSync, mailbox
  <2>4. CASE d # c
    BY <1>k, <1>m, <2>1, <2>2, <2>4
  <2>5. CASE d = c
    BY <1>b, <1>m, <1>u, <1>n, <2>1, <2>2, <2>5 DEF TokenInv, Fresh
  <2> QED
    BY <2>4, <2>5
<1>4. CASE Enqueue(c)
  <2>0. "await" \in CallPC /\ c \in Sync
    BY <1>0, <1>4 DEF CallPC, CallType, Enqueue
  <2>2. applied' = applied /\ call[c].pc = "enqueue"
    BY <1>4 DEF Enqueue
  <2>3. CASE mail' = Append(mail, c) /\ Goto(c, "await")
    <3>1. /\ call'[c].pc = "await" /\ call'[c].res = call[c].res
          /\ \A e \in Callers \ {c} : call'[e] = call[e]
      BY <1>0, <2>0, <2>3, GotoEffect
    <3>2. /\ InMail(c)' /\ (~InMail(c) => Once(c)')
          /\ \A e : e # c => (InMail(e)' <=> InMail(e)) /\ (Once(e) => Once(e)')
      BY <1>0, <2>3, AppendEffect
    <3>4. CASE d # c
      BY <1>b, <1>k, <2>2, <3>1, <3>2, <3>4
    <3>5. CASE d = c
      BY <1>b, <1>u, <1>n, <2>2, <3>1, <3>2, <3>5 DEF TokenInv, Fresh
    <3> QED
      BY <3>4, <3>5
  <2>4. CASE mail' = mail /\ Return(c, "ctx")
    <3>1. /\ call'[c].pc = "returned" /\ call'[c].res = "ctx"
          /\ \A e \in Callers \ {c} : call'[e] = call[e]
      BY <1>0, <2>4, ReturnEffect
    <3>4. CASE d # c
      BY <1>k, <1>m, <2>2, <2>4, <3>1, <3>4
    <3>5. CASE d = c
      BY <1>b, <1>m, <1>u, <1>n, <2>2, <2>4, <3>1, <3>5 DEF TokenInv, Fresh
    <3> QED
      BY <3>4, <3>5
  <2> QED
    BY <1>4, <2>3, <2>4 DEF Enqueue
<1>5. CASE Await(c)
  <2>0. c \in Sync /\ done[c] \in Results
    BY <1>0, <1>5 DEF Await, CallType, RestType
  <2>1. /\ call'[c].pc = "returned" /\ (call'[c].res = "ctx" \/ (done[c] # None /\ call'[c].res = done[c]))
        /\ \A e \in Callers \ {c} : call'[e] = call[e]
    BY <1>0, <1>5, <2>0, ReturnEffect DEF Await
  <2>2. applied' = applied /\ mail' = mail
    BY <1>5 DEF Await, mailbox
  <2>4. CASE d # c
    BY <1>k, <1>m, <2>1, <2>2, <2>4
  <2>5. CASE d = c
    BY <1>b, <1>m, <1>u, <1>n, <2>0, <2>1, <2>2, <2>5 DEF TokenInv, Fresh
  <2> QED
    BY <2>4, <2>5
<1>6. CASE DirectLoad(c)
  <2>1. /\ \/ call'[c].pc \in {"save", "saveonce"} /\ call'[c].res = call[c].res
           \/ call'[c].pc = "returned" /\ call'[c].res = "ctx"
        /\ \A e \in Callers \ {c} : call'[e] = call[e]
    <3>1. CASE Return(c, "ctx")
      BY <1>0, <3>1, ReturnEffect
    <3> QED
      BY <1>0, <1>6, <3>1 DEF DirectLoad, CallType, CallRec
  <2>2. applied' = applied /\ mail' = mail /\ call[c].pc \in {"load", "loadonce"}
    BY <1>6 DEF DirectLoad, mailbox
  <2>4. CASE d # c
    BY <1>k, <1>m, <2>1, <2>2, <2>4
  <2>5. CASE d = c
    BY <1>b, <1>m, <1>u, <1>n, <2>1, <2>2, <2>5 DEF TokenInv, Fresh
  <2> QED
    BY <2>4, <2>5
<1>7. CASE DirectSave(c)
  <2>0. mail' = mail /\ call[c].pc \in Fresh /\ call[c].pc # "returned"
    BY <1>7 DEF DirectSave, mailbox, Fresh
  <2>1. CASE Commit(c) /\ Return(c, "ok")
    <3>1. /\ call'[c].pc = "returned" /\ call'[c].res = "ok"
          /\ \A e \in Callers \ {c} : call'[e] = call[e]
      BY <1>0, <2>1, ReturnEffect
    <3>2. applied'[c] = applied[c] + 1 /\ \A e \in Callers \ {c} : applied'[e] = applied[e]
      BY <1>0, <2>1, CommitEffect
    <3>4. CASE d # c
      BY <1>k, <1>m, <2>0, <3>1, <3>2, <3>4
    <3>5. CASE d = c
      <4>1. applied[c] = 0 /\ applied'[c] = 1
        BY <2>0, <3>2, <3>5 DEF TokenInv
      <4> QED
        BY <1>b, <1>m, <1>u, <1>n, <2>0, <3>1, <3>5, <4>1 DEF TokenInv, Fresh
    <3> QED
      BY <3>4, <3>5
  <2>2. CASE UNCHANGED <<version, applied>> /\ (Return(c, "conflict") \/ Return(c, "ctx"))
    <3>1. /\ call'[c].pc = "returned" /\ call'[c].res \in {"conflict", "ctx"}
          /\ \A e \in Callers \ {c} : call'[e] = call[e]
      BY <1>0, <2>2, ReturnEffect
    <3>4. CASE d # c
      BY <1>k, <1>m, <2>0, <2>2, <3>1, <3>4
    <3>5. CASE d = c
      BY <1>b, <1>m, <1>u, <1>n, <2>0, <2>2, <3>1, <3>5 DEF TokenInv, Fresh
    <3> QED
      BY <3>4, <3>5
  <2>3. CASE UNCHANGED <<version, applied>> /\ call' = [call EXCEPT ![c].pc = "load", ![c].tries = @ + 1]
    <3>1. /\ call'[c].pc = "load" /\ call'[c].res = call[c].res
          /\ \A e \in Callers \ {c} : call'[e] = call[e]
      BY <1>0, <2>3 DEF CallType, CallRec
    <3>4. CASE d # c
      BY <1>k, <1>m, <2>0, <2>3, <3>1, <3>4
    <3>5. CASE d = c
      BY <1>b, <1>m, <1>u, <2>0, <2>3, <3>1, <3>5 DEF TokenInv, Fresh
    <3> QED
      BY <3>4, <3>5
  <2> QED
    BY <1>7, <2>1, <2>2, <2>3 DEF DirectSave
<1>8. CASE ReadLock(c)
  <2>0. "enqueue" \in CallPC /\ "loadonce" \in CallPC /\ c \in Sync
    BY <1>0, <1>8 DEF CallPC, CallType, ReadLock
  <2>1. /\ call'[c].pc \in {"enqueue", "loadonce"} /\ call'[c].res = call[c].res
        /\ \A e \in Callers \ {c} : call'[e] = call[e]
    BY <1>0, <1>8, <2>0, GotoEffect DEF ReadLock
  <2>2. applied' = applied /\ mail' = mail /\ call[c].pc = "rlock"
    BY <1>8 DEF ReadLock
  <2>4. CASE d # c
    BY <1>k, <1>m, <2>1, <2>2, <2>4
  <2>5. CASE d = c
    BY <1>b, <1>m, <1>u, <1>n, <2>1, <2>2, <2>5 DEF TokenInv, Fresh
  <2> QED
    BY <2>4, <2>5
<1> QED
  BY <1>1, <1>2, <1>3, <1>4, <1>5, <1>6, <1>7, <1>8 DEF CallStep

LEMMA TokenLoop ==
    ASSUME DaemonType, LoopStep, NEW d \in Callers \ {Server}, TokenInv(d)
    PROVE  TokenInv(d)'
<1>0. CallType /\ MailType /\ LoopType /\ StateType /\ RestType
  BY DEF DaemonType
<1>n. None \notin {"accepted", "ok", "conflict", "ctx"}
  BY NoneIsNew
<1>c. call' = call /\ Once(d)
  BY DEF LoopStep, Start, TakeCommand, ExecuteLoad, ExecuteSave, QueueStory, StopLoop, LockForDrain, Drain, TokenInv
<1>k. ASSUME mail' = mail, UNCHANGED <<applied, done>>, Busy(d)' => Busy(d) PROVE TokenInv(d)'
  BY <1>c, <1>k, SameMail, TokenKept
<1>1. CASE Start
  <2>1. ~Busy(d)'
    BY <1>1 DEF Start, Selecting, Busy
  <2> QED
    BY <1>1, <1>k, <2>1 DEF Start
<1>2. CASE TakeCommand
  <2>1. mail # << >> /\ mail' = Tail(mail) /\ UNCHANGED <<applied, done>>
    BY <1>2 DEF TakeCommand
  <2>2. ~Busy(d) /\ (Busy(d)' <=> d = Head(mail))
    BY <1>0, <1>2 DEF TakeCommand, Busy, LoopType, LoopRec
  <2>3. /\ InMail(Head(mail)) /\ Once(d)'
        /\ d # Head(mail) => (InMail(d)' <=> InMail(d))
        /\ d = Head(mail) => ~InMail(d)'
    BY <1>0, <1>c, <2>1, TailEffect
  <2>4. CASE d # Head(mail)
    BY <1>c, <2>1, <2>2, <2>3, <2>4, TokenKept
  <2>5. CASE d = Head(mail)
    <3>1. InMail(d) /\ ~InMail(d)'
      BY <2>3, <2>5
    <3> QED
      BY <1>c, <2>1, <2>3, <3>1 DEF TokenInv
  <2> QED
    BY <2>4, <2>5
<1>3. CASE ExecuteLoad
  <2>1. Busy(d)' => Busy(d)
    BY <1>0, <1>3 DEF ExecuteLoad, Busy, LoopType, LoopRec
  <2> QED
    BY <1>3, <1>k, <2>1 DEF ExecuteLoad
<1>4. CASE ExecuteSave
  <2>0. loop.cmd \in Callers /\ loop.pc = "save" /\ mail' = mail
    BY <1>0, <1>4 DEF ExecuteSave, LoopType
  <2>1. ~Busy(d)'
    BY <1>0, <1>4 DEF ExecuteSave, Selecting, Busy, LoopType, LoopRec
  <2>2. (InMail(d)' <=> InMail(d)) /\ Once(d)'
    BY <1>c, <2>0, SameMail
  <2>3. CASE d # loop.cmd
    <3>1. applied'[d] = applied[d]
      BY <1>0, <1>4, <2>0, <2>3, CommitEffect DEF ExecuteSave
    <3>2. d \in Sync => done'[d] = done[d]
      BY <1>0, <1>4, <2>3 DEF ExecuteSave, RestType
    <3> QED
      BY <1>c, <2>1, <2>2, <3>1, <3>2, TokenKept
  <2>4. CASE d = loop.cmd
    <3>1. Busy(d)
      BY <2>0, <2>4 DEF Busy
    <3>2. applied[d] = 0 /\ ~InMail(d) /\ call[d].pc \notin Fresh /\ call[d].res \notin {"ok", "conflict"}
      BY <3>1 DEF TokenInv
    <3>3. CASE loop.seen = version
      <4>1. applied'[d] = 1
        BY <1>0, <1>4, <2>0, <2>4, <3>2, <3>3, CommitEffect DEF ExecuteSave
      <4>2. d \in Sync => done'[d] = "ok"
        BY <1>0, <1>4, <2>4, <3>3 DEF ExecuteSave, RestType
      <4> QED
        BY <1>c, <1>n, <2>1, <2>2, <3>2, <4>1, <4>2 DEF TokenInv
    <3>4. CASE loop.seen # version
      <4>1. applied'[d] = 0
        BY <1>4, <3>2, <3>4 DEF ExecuteSave
      <4>2. d \in Sync => done'[d] = "conflict"
        BY <1>0, <1>4, <2>4, <3>4 DEF ExecuteSave, RestType
      <4> QED
        BY <1>c, <1>n, <2>1, <2>2, <3>2, <4>1, <4>2 DEF TokenInv
    <3> QED
      BY <3>3, <3>4
  <2> QED
    BY <2>3, <2>4
<1>5. CASE QueueStory
  <2>1. ~Busy(d)'
    BY <1>0, <1>5 DEF QueueStory, Selecting, Busy, LoopType, LoopRec
  <2> QED
    BY <1>5, <1>k, <2>1 DEF QueueStory
<1>6. CASE StopLoop \/ LockForDrain
  <2>1. ~Busy(d)'
    BY <1>0, <1>6 DEF StopLoop, LockForDrain, Busy, LoopType, LoopRec
  <2> QED
    BY <1>6, <1>k, <2>1 DEF StopLoop, LockForDrain
<1>8. CASE Drain
  <2>0. ~Busy(d) /\ ~Busy(d)'
    BY <1>0, <1>8 DEF Drain, Busy, LoopType, LoopRec
  <2>1. CASE mail = << >>
    BY <1>8, <1>k, <2>0, <2>1 DEF Drain
  <2>2. CASE mail # << >>
    <3>1. mail' = Tail(mail) /\ applied' = applied
      BY <1>8, <2>2 DEF Drain
    <3>2. /\ InMail(Head(mail)) /\ Once(d)'
          /\ d # Head(mail) => (InMail(d)' <=> InMail(d))
          /\ d = Head(mail) => ~InMail(d)'
      BY <1>0, <1>c, <2>2, <3>1, TailEffect
    <3>3. CASE d # Head(mail)
      <4>1. d \in Sync => done'[d] = done[d]
        BY <1>0, <1>8, <2>2, <3>3 DEF Drain, RestType
      <4> QED
        BY <1>c, <2>0, <3>1, <3>2, <3>3, <4>1, TokenKept
    <3>4. CASE d = Head(mail)
      <4>1. InMail(d) /\ ~InMail(d)'
        BY <3>2, <3>4
      <4>2. d \in Sync => done'[d] = "ctx"
        BY <1>0, <1>8, <2>2, <3>4 DEF Drain, RestType
      <4> QED
        BY <1>c, <1>n, <2>0, <3>1, <3>2, <4>1, <4>2 DEF TokenInv
    <3> QED
      BY <3>3, <3>4
  <2> QED
    BY <2>1, <2>2
<1> QED
  BY <1>1, <1>2, <1>3, <1>4, <1>5, <1>6, <1>8 DEF LoopStep

LEMMA TokenServer ==
    ASSUME DaemonType, ServerStep \/ Signal \/ UNCHANGED vars, NEW d \in Callers \ {Server}, TokenInv(d)
    PROVE  TokenInv(d)'
<1>0. CallType /\ RestType /\ Server \in Callers /\ Server \in Sync /\ Once(d)
  BY DEF DaemonType, Callers, Sync, TokenInv
<1>1. mail' = mail /\ loop' = loop /\ applied' = applied
  BY DEF ServerStep, TakeBatch, ProcessStory, StoryEnds, StopServer, Signal, mailbox, vars
<1>2. call'[d] = call[d] /\ (d \in Sync => done'[d] = done[d])
  <2>1. CASE ProcessStory
    <3>1. "start" \in CallPC
      BY DEF CallPC
    <3> QED
      BY <1>0, <2>1, <3>1, GotoEffect DEF ProcessStory
  <2>2. CASE StoryEnds
    BY <1>0, <2>2 DEF StoryEnds, CallType, RestType
  <2>3. CASE TakeBatch \/ StopServer \/ Signal \/ UNCHANGED vars
    BY <2>3 DEF TakeBatch, StopServer, Signal, vars
  <2> QED
    BY <2>1, <2>2, <2>3 DEF ServerStep
<1> QED
  BY <1>0, <1>1, <1>2, SameMail, SameLoop, TokenKept

LEMMA TokensNext == DaemonType /\ TokensInv /\ [Next]_vars => TokensInv'
<1> SUFFICES ASSUME DaemonType, TokensInv, [Next]_vars, NEW d \in Callers \ {Server} PROVE TokenInv(d)'
  BY DEF TokensInv
<1>1. TokenInv(d)
  BY DEF TokensInv
<1> QED
  BY <1>1, TokenCall, TokenLoop, TokenServer DEF Next
-----------------------------------------------------------------------------
(* The theorems. *)

LEMMA DaemonInit == Init => DaemonInv
<1> SUFFICES ASSUME Init PROVE DaemonInv
  OBVIOUS
<1>1. \A c \in Callers : /\ call[c] \in CallRec /\ call[c].pc \in {"none", "load", "start"}
                         /\ call[c].res = None /\ applied[c] = 0
                         /\ c # Server => call[c].pc \in Fresh
  BY DEF Init, CallRec, CallPC, Results, Fresh
<1>2. \A c \in Sync : done[c] = None
  BY DEF Init
<1>3. DaemonType
  <2>1. CallType
    BY <1>1 DEF Init, CallType
  <2>2. MailType /\ LoopType
    BY DEF Init, MailType, LoopType, LoopRec, LoopPC
  <2>3. StateType /\ RestType
    BY DEF Init, StateType, RestType, LockRec, Results
  <2> QED
    BY <2>1, <2>2, <2>3 DEF DaemonType
<1>4. LockInv
  BY <1>1 DEF Init, LockInv
<1>5. NoSyncStranded
  BY DEF Init, NoSyncStranded
<1>6. ASSUME NEW c \in Callers \ {Server} PROVE TokenInv(c)
  <2>1. Len(mail) = 0 /\ loop.pc = "new"
    BY DEF Init
  <2>2. ~InMail(c) /\ ~Busy(c) /\ Once(c)
    BY <2>1 DEF InMail, Busy, Once
  <2> QED
    BY <1>1, <1>2, <2>2, NoneIsNew DEF TokenInv
<1> QED
  BY <1>3, <1>4, <1>5, <1>6 DEF DaemonInv, TokensInv

LEMMA DaemonInvariant == Spec => []DaemonInv
<1>1. DaemonInv /\ [Next]_vars => DaemonInv'
  BY TypeNext, LockNext, StrandedNext, TokensNext DEF DaemonInv
<1> QED
  BY <1>1, DaemonInit, PTL DEF Spec

\* What CommandMailbox.SendSync, updateStateWithRetry and the REST handlers that write
\* past the mailbox tell their callers is what happened to the state, in every
\* interleaving of senders, loop, direct writers and shutdown: the same command is never
\* in two places, so it is executed at most once, and a result is published only after
\* the command left its place.
THEOREM ResultsAreTruthful == Spec => []ResultTruthful
<1>1. DaemonInv => ResultTruthful
  BY DEF DaemonInv, TokensInv, TokenInv, ResultTruthful
<1> QED
  BY <1>1, DaemonInvariant, PTL

\* The read lock SendSync holds while it sends and the write lock under which Start's
\* deferred function drains the buffer close the shutdown race: whatever senders there
\* are, the loop never stops with a synchronous command in the buffer, and none is
\* added afterwards.
THEOREM NobodyIsStranded == Spec => []NoSyncStranded
<1>1. DaemonInv => NoSyncStranded
  BY DEF DaemonInv
<1> QED
  BY <1>1, DaemonInvariant, PTL
=============================================================================
