-------------------------- MODULE StateStoreProofs --------------------------
(* Proofs about StateStore: no update is lost, for every backend, any       *)
(* number of processes and clients and every prune; and one SQLite          *)
(* repository implements the register its callers rely on.                  *)
EXTENDS StateStore, TLAPS

Session ==
    [pc : {"idle", "load", "relations", "save", "committed", "sleep"},
     mut : Muts \cup {None}, version : Nat, rel : [Fields -> Content], next : Nat,
     attempts : Nat, updates : Nat, err : BOOLEAN]

\* A session in an update knows its mutation, and one that reads has a group to read.
SessionInv(s) ==
    /\ s.pc # "idle" => s.mut \in Muts
    /\ s.pc = "relations" => s.version > 0 /\ s.next \in 1..Len(GroupSeq)

TypeInv ==
    /\ version \in Nat /\ db \in [Fields -> Content] /\ gone \in BOOLEAN
    /\ cache \in [Repos -> [Fields -> Content] \cup {None}]
    /\ holder \in [Repos -> Clients \cup {None}]
    /\ sess \in [Clients -> Session]
    /\ \A c \in Clients : SessionInv(sess[c])

\* What a session has read so far: the row and the groups before the next one.
ReadSoFar(s, f) == f = "state" \/ \E n \in 1..(s.next - 1) : GroupSeq[n] = f

\* A version names one content: versions only grow until the state is pruned, and then
\* nobody holds the version 0 that is left.
VersionInv ==
    /\ version = 0 => db = Empty
    /\ gone => version = 0
    /\ \A f \in Transient : db[f] = NoRows
    /\ \A c \in Clients : sess[c].pc \in {"relations", "save"} =>
         /\ gone \/ sess[c].version <= version
         /\ sess[c].version = 0 => c = Creator /\ version = 0 /\ ~gone

\* While its version is current, a session has read what is committed.
ReadInv ==
    \A c \in Clients : sess[c].version = version =>
        /\ sess[c].pc = "relations" =>
             \A f \in Fields : sess[c].rel[f] = IF ReadSoFar(sess[c], f) THEN db[f] ELSE NoRows
        /\ sess[c].pc = "save" => sess[c].rel = db

StoreInv == TypeInv /\ VersionInv /\ ReadInv

-----------------------------------------------------------------------------
(* Types. *)

LEMMA EmptyType == Empty \in [Fields -> Content] /\ NoRows \in Content
  BY DEF Empty, NoRows, Content

LEMMA RewriteType ==
    ASSUME NEW g, NEW old \in Content, NEW new \in Content
    PROVE  Rewrite(g, old, new) \in Content
  BY DEF Rewrite, SqliteRewrite, PostgresRewrite, UpsertAndPrune, saveTasks, saveActions, saveQAReviews, Content

LEMMA MutatedType ==
    ASSUME NEW s \in Session, s.mut \in Muts
    PROVE  Mutated(s) \in [Fields -> Content]
  BY StoreAssumption DEF Mutated, Session, Content

LEMMA SavedType ==
    ASSUME TypeInv, NEW r \in Repos, NEW new \in [Fields -> Content]
    PROVE  SavedContent(r, new) \in [Fields -> Content]
  <1> SUFFICES ASSUME NEW f \in Fields PROVE SavedContent(r, new)[f] \in Content
    BY DEF SavedContent
  <1>1. db[f] \in Content /\ new[f] \in Content
    BY DEF TypeInv
  <1> QED BY <1>1, RewriteType, EmptyType DEF SavedContent

LEMMA IdleType == Idle \in Session
  BY EmptyType DEF Idle, Session

\* There is a first group, and every group is a field.
LEMMA GroupFacts ==
    /\ Len(GroupSeq) \in Nat \ {0}
    /\ \A n \in 1..Len(GroupSeq) : GroupSeq[n] \in Groups /\ GroupSeq[n] \in Fields
  <1>1. GroupSeq \in Seq(STRING) /\ GroupSeq # << >>
    BY StoreAssumption
  <1>2. Len(GroupSeq) \in Nat \ {0} /\ DOMAIN GroupSeq = 1..Len(GroupSeq)
    BY <1>1
  <1> QED BY <1>2 DEF Groups, Fields

LEMMA TypeInit == Init => TypeInv
  <1> SUFFICES ASSUME Init PROVE TypeInv
    OBVIOUS
  <1>1. Idle.pc = "idle"
    BY DEF Idle
  <1> QED BY <1>1, EmptyType, IdleType DEF Init, TypeInv, SessionInv

\* A step of one client that puts a well formed session in the place of its own.
LEMMA SessionUpdate ==
    ASSUME TypeInv, NEW c \in Clients, NEW s \in Session, SessionInv(s),
           sess' = [sess EXCEPT ![c] = s]
    PROVE  sess' \in [Clients -> Session] /\ \A d \in Clients : SessionInv(sess'[d])
  BY DEF TypeInv

\* Every operation of Load, Save and prune keeps sessions, caches and tables well formed.
LEMMA TypeStep == TypeInv /\ [Next]_vars => TypeInv'
  <1> SUFFICES ASSUME TypeInv, [Next]_vars PROVE TypeInv'
    OBVIOUS
  <1> USE StoreAssumption DEF TypeInv
  <1>1. CASE UNCHANGED vars
    BY <1>1 DEF vars
  <1>2. ASSUME NEW c \in Clients, NEW m \in Muts, BeginUpdate(c, m) PROVE TypeInv'
    <2> DEFINE s(l) == [Idle EXCEPT !.pc = l, !.mut = m, !.updates = sess[c].updates + 1]
    <2>1. ASSUME NEW l \in {"save", "load"} PROVE s(l) \in Session /\ SessionInv(s(l))
      <3>1. sess[c].updates + 1 \in Nat
        BY DEF Session
      <3>2. s(l) \in Session
        BY <3>1, IdleType DEF Session
      <3>3. s(l).pc = l /\ s(l).mut = m
        BY DEF Idle
      <3> QED BY <3>2, <3>3 DEF SessionInv
    <2>2. \E l \in {"save", "load"} : sess' = [sess EXCEPT ![c] = s(l)]
      BY <1>2 DEF BeginUpdate
    <2> QED BY <1>2, <2>1, <2>2, SessionUpdate DEF BeginUpdate
  <1>3. ASSUME NEW c \in Clients, LoadRow(c) PROVE TypeInv'
    <2> DEFINE gave == [sess[c] EXCEPT !.pc = "idle", !.err = TRUE]
               rel == [Empty EXCEPT !["state"] = db["state"]]
               read == [sess[c] EXCEPT !.pc = "relations", !.version = version, !.next = 1, !.rel = rel]
    <2>1. rel \in [Fields -> Content]
      BY EmptyType DEF Fields
    <2>2. gave \in Session /\ SessionInv(gave)
      BY DEF Session, SessionInv
    <2>3. version # 0 => read \in Session /\ SessionInv(read)
      <3>1. sess[c].mut \in Muts
        BY <1>3 DEF LoadRow, SessionInv
      <3> HIDE DEF rel
      <3>2. read \in Session
        BY <2>1 DEF Session
      <3>3. read.pc = "relations" /\ read.mut = sess[c].mut /\ read.version = version /\ read.next = 1
        BY DEF Session
      <3> HIDE DEF read
      <3> QED BY <3>1, <3>2, <3>3, GroupFacts DEF SessionInv
    <2>4. sess' = [sess EXCEPT ![c] = gave] \/ (version # 0 /\ sess' = [sess EXCEPT ![c] = read])
      BY <1>3 DEF LoadRow
    <2> QED BY <1>3, <2>2, <2>3, <2>4, SessionUpdate DEF LoadRow
  <1>4. ASSUME NEW c \in Clients, loadStateRelations(c) PROVE TypeInv'
    <2> DEFINE n == sess[c].next
               g == GroupSeq[n]
               rel == [sess[c].rel EXCEPT ![g] = db[g]]
               s == [sess[c] EXCEPT !.rel = rel, !.next = n + 1,
                                    !.pc = IF n = Len(GroupSeq) THEN "save" ELSE "relations"]
    <2>1. n \in 1..Len(GroupSeq) /\ g \in Fields
      BY <1>4, GroupFacts DEF loadStateRelations, SessionInv
    <2>2. rel \in [Fields -> Content]
      BY <2>1 DEF Session
    <2>3. s \in Session /\ SessionInv(s)
      <3> HIDE DEF rel
      <3> QED BY <1>4, <2>1, <2>2 DEF Session, SessionInv, loadStateRelations
    <2>4. sess' = [sess EXCEPT ![c] = s]
      BY <1>4 DEF loadStateRelations
    <2> QED BY <1>4, <2>3, <2>4, SessionUpdate DEF loadStateRelations
  <1>5. ASSUME NEW c \in Clients, SaveConflict(c) PROVE TypeInv'
    <2> DEFINE s == [sess[c] EXCEPT !.attempts = @ + 1, !.err = TRUE,
                            !.pc = IF sess[c].attempts + 1 < MaxAttempts THEN "sleep" ELSE "idle"]
    <2>1. s \in Session /\ SessionInv(s)
      BY <1>5 DEF Session, SessionInv, SaveConflict, MaySave
    <2>2. sess' = [sess EXCEPT ![c] = s]
      BY <1>5 DEF SaveConflict
    <2> QED BY <1>5, <2>1, <2>2, SessionUpdate DEF SaveConflict, invalidate
  <1>6. ASSUME NEW c \in Clients, SaveFails(c) PROVE TypeInv'
    <2> DEFINE s == [sess[c] EXCEPT !.pc = "idle", !.err = TRUE]
    <2>1. s \in Session /\ SessionInv(s)
      BY DEF Session, SessionInv
    <2>2. sess' = [sess EXCEPT ![c] = s]
      BY <1>6 DEF SaveFails
    <2> QED BY <1>6, <2>1, <2>2, SessionUpdate DEF SaveFails, invalidate
  <1>7. ASSUME NEW c \in Clients, saveTx(c) PROVE TypeInv'
    <2> DEFINE new == Mutated(sess[c])
               s == [sess[c] EXCEPT !.pc = "committed", !.rel = new]
    <2>1. new \in [Fields -> Content]
      BY <1>7, MutatedType DEF saveTx, MaySave, SessionInv
    <2>2. db' \in [Fields -> Content]
      BY <1>7, <2>1, SavedType DEF saveTx
    <2>3. sess' = [sess EXCEPT ![c] = s]
      BY <1>7 DEF saveTx
    <2>4. s \in Session /\ SessionInv(s)
      <3>1. sess[c].mut \in Muts
        BY <1>7 DEF saveTx, MaySave, SessionInv
      <3> HIDE DEF new
      <3>2. s \in Session
        BY <2>1 DEF Session
      <3>3. s.pc = "committed" /\ s.mut = sess[c].mut
        BY DEF Session
      <3> HIDE DEF s
      <3> QED BY <3>1, <3>2, <3>3 DEF SessionInv
    <2> QED BY <1>7, <2>2, <2>3, <2>4, SessionUpdate DEF saveTx
  <1>8. ASSUME NEW c \in Clients, RememberFingerprints(c) PROVE TypeInv'
    <2> DEFINE s == [sess[c] EXCEPT !.pc = "idle", !.err = FALSE]
    <2>1. s \in Session /\ SessionInv(s)
      BY DEF Session, SessionInv
    <2>2. sess' = [sess EXCEPT ![c] = s] /\ sess[c].rel \in [Fields -> Content]
      BY <1>8 DEF RememberFingerprints, Session
    <2> QED BY <1>8, <2>1, <2>2, SessionUpdate DEF RememberFingerprints
  <1>9. ASSUME NEW c \in Clients, BackOff(c) PROVE TypeInv'
    <2>1. PICK next \in {"load", "idle"} : sess' = [sess EXCEPT ![c].pc = next]
      BY <1>9 DEF BackOff
    <2> DEFINE s == [sess[c] EXCEPT !.pc = next]
    <2>2. s \in Session /\ s.pc = next /\ s.mut = sess[c].mut
      BY DEF Session
    <2>3. SessionInv(s)
      <3> HIDE DEF s
      <3> QED BY <1>9, <2>2 DEF SessionInv, BackOff
    <2> QED BY <1>9, <2>1, <2>2, <2>3, SessionUpdate DEF BackOff
  <1>10. ASSUME NEW r \in Repos, PruneFinishedStates(r) PROVE TypeInv'
    BY <1>10, EmptyType DEF PruneFinishedStates, invalidate
  <1> QED BY <1>1, <1>2, <1>3, <1>4, <1>5, <1>6, <1>7, <1>8, <1>9, <1>10 DEF Next, Step

-----------------------------------------------------------------------------
(* No lost update. *)

\* VersionInv and ReadInv of one session.
Bound(d) == sess[d].pc \in {"relations", "save"} =>
              /\ gone \/ sess[d].version <= version
              /\ sess[d].version = 0 => d = Creator /\ version = 0 /\ ~gone

Read(d) == sess[d].version = version =>
             /\ sess[d].pc = "relations" =>
                  \A f \in Fields : sess[d].rel[f] = IF ReadSoFar(sess[d], f) THEN db[f] ELSE NoRows
             /\ sess[d].pc = "save" => sess[d].rel = db

TablesInv ==
    /\ version = 0 => db = Empty
    /\ gone => version = 0
    /\ \A f \in Transient : db[f] = NoRows

LEMMA StoreInvParts == StoreInv => TypeInv /\ TablesInv /\ \A d \in Clients : Bound(d) /\ Read(d)
  BY DEF StoreInv, VersionInv, ReadInv, TablesInv, Bound, Read

LEMMA StoreInvFromParts ==
    ASSUME TypeInv', TablesInv', \A d \in Clients : Bound(d)' /\ Read(d)'
    PROVE  StoreInv'
  BY DEF StoreInv, VersionInv, ReadInv, TablesInv, Bound, Read

\* A step that leaves the tables alone and takes one session out of its update, or only
\* starts it over.
LEMMA QuietStep ==
    ASSUME StoreInv, NEW c \in Clients, TypeInv', UNCHANGED <<version, db, gone>>,
           sess'[c].pc \notin {"relations", "save"}, \A d \in Clients \ {c} : sess'[d] = sess[d]
    PROVE  StoreInv'
  <1>1. TablesInv'
    BY StoreInvParts DEF TablesInv
  <1>2. ASSUME NEW d \in Clients \ {c} PROVE Bound(d)' /\ Read(d)'
    BY StoreInvParts DEF Bound, Read, ReadSoFar
  <1>3. Bound(c)' /\ Read(c)'
    BY DEF Bound, Read
  <1> QED BY <1>1, <1>2, <1>3, StoreInvFromParts

\* The first save of a state starts from the empty state that is in the tables.
LEMMA BeginStep ==
    ASSUME StoreInv, TypeInv', NEW c \in Clients, NEW m \in Muts, BeginUpdate(c, m)
    PROVE  StoreInv'
  <1> DEFINE s(l) == [Idle EXCEPT !.pc = l, !.mut = m, !.updates = sess[c].updates + 1]
  <1>0. \A l : s(l).pc = l /\ s(l).version = 0 /\ s(l).rel = Empty
    BY DEF Idle
  <1>1. /\ UNCHANGED <<version, db, gone>> /\ sess \in [Clients -> Session]
        /\ \/ sess' = [sess EXCEPT ![c] = s("load")]
           \/ version = 0 /\ ~gone /\ c = Creator /\ sess' = [sess EXCEPT ![c] = s("save")]
    BY DEF BeginUpdate, StoreInv, TypeInv
  <1> HIDE DEF s
  <1>2. CASE sess' = [sess EXCEPT ![c] = s("load")]
    BY <1>0, <1>1, <1>2, QuietStep
  <1>3. CASE version = 0 /\ ~gone /\ c = Creator /\ sess' = [sess EXCEPT ![c] = s("save")]
    <2>1. TablesInv' /\ \A d \in Clients \ {c} : sess'[d] = sess[d]
      BY <1>1, <1>3, StoreInvParts DEF TablesInv
    <2>2. ASSUME NEW d \in Clients \ {c} PROVE Bound(d)' /\ Read(d)'
      BY <1>1, <2>1, StoreInvParts DEF Bound, Read, ReadSoFar
    <2>3. Bound(c)' /\ Read(c)'
      BY <1>0, <1>1, <1>3, StoreInvParts DEF Bound, Read, TablesInv
    <2> QED BY <2>1, <2>2, <2>3, StoreInvFromParts
  <1> QED BY <1>1, <1>2, <1>3

LEMMA LoadRowStep ==
    ASSUME StoreInv, TypeInv', NEW c \in Clients, LoadRow(c)
    PROVE  StoreInv'
  <1> DEFINE rel == [Empty EXCEPT !["state"] = db["state"]]
  <1>1. UNCHANGED <<version, db, gone>> /\ \A d \in Clients \ {c} : sess'[d] = sess[d]
    BY DEF LoadRow, StoreInv, TypeInv
  <1>2. CASE version = 0
    BY <1>1, <1>2, QuietStep DEF LoadRow, StoreInv, TypeInv, Session
  <1>3. CASE version # 0
    <2>1. /\ sess'[c].pc = "relations" /\ sess'[c].version = version /\ sess'[c].next = 1
          /\ sess'[c].rel = rel
      BY <1>3 DEF LoadRow, StoreInv, TypeInv, Session
    <2>2. \A f \in Fields : rel[f] = IF f = "state" THEN db[f] ELSE NoRows
      BY DEF Empty
    <2>3. \A f \in Fields : ReadSoFar(sess'[c], f) <=> f = "state"
      BY <2>1 DEF ReadSoFar
    <2>4. Bound(c)' /\ Read(c)'
      <3> HIDE DEF rel
      <3> QED BY <1>1, <1>3, <2>1, <2>2, <2>3, StoreInvParts DEF Bound, Read, TypeInv
    <2>5. ASSUME NEW d \in Clients \ {c} PROVE Bound(d)' /\ Read(d)'
      BY <1>1, StoreInvParts DEF Bound, Read, ReadSoFar
    <2>6. TablesInv'
      BY <1>1, StoreInvParts DEF TablesInv
    <2> QED BY <2>4, <2>5, <2>6, StoreInvFromParts
  <1> QED BY <1>2, <1>3

\* The next group is read; a group from another commit comes with another version.
LEMMA LoadGroupStep ==
    ASSUME StoreInv, TypeInv', NEW c \in Clients, loadStateRelations(c)
    PROVE  StoreInv'
  <1> DEFINE n == sess[c].next
             g == GroupSeq[n]
             rel == [sess[c].rel EXCEPT ![g] = db[g]]
  <1>1. UNCHANGED <<version, db, gone>> /\ \A d \in Clients \ {c} : sess'[d] = sess[d]
    BY DEF loadStateRelations, StoreInv, TypeInv
  <1>2. /\ sess[c].pc = "relations" /\ sess[c] \in Session /\ sess[c].version > 0
        /\ n \in 1..Len(GroupSeq) /\ g \in Fields
    BY GroupFacts DEF loadStateRelations, StoreInv, TypeInv, SessionInv
  <1>3. /\ sess'[c].pc = IF n = Len(GroupSeq) THEN "save" ELSE "relations"
        /\ sess'[c].version = sess[c].version /\ sess'[c].next = n + 1 /\ sess'[c].rel = rel
    BY DEF loadStateRelations, StoreInv, TypeInv, Session
  <1>4. \A f \in Fields : rel[f] = IF f = g THEN db[f] ELSE sess[c].rel[f]
    BY <1>2 DEF Session
  <1>5. \A f \in Fields : ReadSoFar(sess'[c], f) <=> f = g \/ ReadSoFar(sess[c], f)
    BY <1>2, <1>3, GroupFacts DEF ReadSoFar
  <1> HIDE DEF rel
  <1>6. Bound(c)'
    BY <1>1, <1>2, <1>3, StoreInvParts DEF Bound
  <1>7. Read(c)'
    <2> SUFFICES ASSUME sess[c].version = version PROVE Read(c)'
      BY <1>1, <1>3 DEF Read
    <2>1. \A f \in Fields : rel[f] = IF ReadSoFar(sess'[c], f) THEN db[f] ELSE NoRows
      BY <1>2, <1>4, <1>5, StoreInvParts DEF Read
    <2>2. CASE n # Len(GroupSeq)
      BY <1>1, <1>3, <2>1, <2>2 DEF Read
    <2>3. CASE n = Len(GroupSeq)
      <3>1. ASSUME NEW f \in Fields PROVE rel[f] = db[f]
        <4>1. CASE f = "state" \/ f \in Groups
          <5>1. f \in Groups => \E i \in 1..Len(GroupSeq) : GroupSeq[i] = f
            BY StoreAssumption DEF Groups
          <5>2. ReadSoFar(sess'[c], f)
            BY <1>2, <1>3, <2>3, <4>1, <5>1, GroupFacts DEF ReadSoFar
          <5> QED BY <2>1, <5>2
        <4>2. CASE f # "state" /\ f \notin Groups
          <5>1. f \in Transient /\ db[f] = NoRows
            BY <4>2, StoreInvParts DEF TablesInv, Fields
          <5> QED BY <2>1, <5>1
        <4> QED BY <4>1, <4>2
      <3>2. rel = db
        BY <1>2, <3>1 DEF rel, StoreInv, TypeInv, Session
      <3> QED BY <1>1, <1>3, <2>3, <3>2 DEF Read
    <2> QED BY <2>2, <2>3
  <1>8. ASSUME NEW d \in Clients \ {c} PROVE Bound(d)' /\ Read(d)'
    BY <1>1, StoreInvParts DEF Bound, Read, ReadSoFar
  <1>9. TablesInv'
    BY <1>1, StoreInvParts DEF TablesInv
  <1> QED BY <1>6, <1>7, <1>8, <1>9, StoreInvFromParts

\* A commit takes a version nobody has read.
LEMMA CommitStep ==
    ASSUME StoreInv, TypeInv', NEW c \in Clients, saveTx(c)
    PROVE  StoreInv'
  <1>1. /\ sess[c].pc = "save" /\ sess[c].version = version /\ version' = version + 1 /\ gone' = gone
        /\ db' = SavedContent(RepoOf[c], Mutated(sess[c]))
        /\ sess'[c].pc = "committed" /\ \A d \in Clients \ {c} : sess'[d] = sess[d]
    BY DEF saveTx, MaySave, StoreInv, TypeInv, Session
  <1>2. ~gone /\ version \in Nat
    BY <1>1, StoreInvParts DEF Bound, TablesInv, TypeInv
  <1>3. TablesInv'
    <2>1. \A f \in Transient : SavedContent(RepoOf[c], Mutated(sess[c]))[f] = NoRows
      BY StoreAssumption DEF SavedContent, Fields
    <2> QED BY <1>1, <1>2, <2>1 DEF TablesInv
  <1>4. ASSUME NEW d \in Clients \ {c} PROVE Bound(d)' /\ Read(d)'
    <2>1. sess[d].version \in Nat
      BY DEF StoreInv, TypeInv, Session
    <2>2. CASE sess[d].pc \notin {"relations", "save"}
      BY <1>1, <2>2 DEF Bound, Read
    <2>3. CASE sess[d].pc \in {"relations", "save"}
      <3>1. sess[d].version <= version
        BY <1>2, <2>3, StoreInvParts DEF Bound
      <3>2. sess[d].version # 0
        <4> SUFFICES ASSUME sess[d].version = 0 PROVE FALSE
          OBVIOUS
        <4>1. d = Creator /\ version = 0
          BY <2>3, StoreInvParts DEF Bound
        <4>2. c = Creator
          BY <1>1, <4>1, StoreInvParts DEF Bound
        <4> QED BY <4>1, <4>2
      <3> QED BY <1>1, <1>2, <2>1, <3>1, <3>2 DEF Bound, Read
    <2> QED BY <2>2, <2>3
  <1>5. Bound(c)' /\ Read(c)'
    BY <1>1 DEF Bound, Read
  <1> QED BY <1>3, <1>4, <1>5, StoreInvFromParts

\* A prune leaves version 0, which no session in an update holds.
LEMMA PruneStep ==
    ASSUME StoreInv, TypeInv', NEW r \in Repos, PruneFinishedStates(r)
    PROVE  StoreInv'
  <1>1. version > 0 /\ version' = 0 /\ db' = Empty /\ gone' = TRUE /\ sess' = sess
    BY DEF PruneFinishedStates
  <1>2. TablesInv'
    BY <1>1 DEF TablesInv, Empty, Fields
  <1>3. ASSUME NEW d \in Clients PROVE Bound(d)' /\ Read(d)'
    <2>1. sess[d].pc \in {"relations", "save"} => sess[d].version # 0
      BY <1>1, StoreInvParts DEF Bound, TypeInv
    <2> QED BY <1>1, <2>1 DEF Bound, Read
  <1> QED BY <1>2, <1>3, StoreInvFromParts

LEMMA StoreStep == StoreInv /\ [Next]_vars => StoreInv'
  <1> SUFFICES ASSUME StoreInv, [Next]_vars PROVE StoreInv'
    OBVIOUS
  <1>0. TypeInv'
    BY TypeStep DEF StoreInv
  <1>1. CASE UNCHANGED vars
    BY <1>0, <1>1 DEF vars, StoreInv, VersionInv, ReadInv, ReadSoFar
  <1>2. ASSUME NEW c \in Clients, SaveConflict(c) \/ SaveFails(c) \/ RememberFingerprints(c) \/ BackOff(c)
        PROVE  StoreInv'
    <2>1. /\ UNCHANGED <<version, db, gone>> /\ sess'[c].pc \notin {"relations", "save"}
          /\ \A d \in Clients \ {c} : sess'[d] = sess[d]
      BY <1>2 DEF SaveConflict, SaveFails, RememberFingerprints, BackOff, StoreInv, TypeInv, Session
    <2> QED BY <1>0, <2>1, QuietStep
  <1> QED BY <1>0, <1>1, <1>2, BeginStep, LoadRowStep, LoadGroupStep, CommitStep, PruneStep DEF Next, Step

LEMMA StoreInit == Init => StoreInv
  <1> SUFFICES ASSUME Init PROVE StoreInv
    OBVIOUS
  <1>1. Idle.pc = "idle"
    BY DEF Idle
  <1> QED BY <1>1, TypeInit DEF StoreInv, VersionInv, ReadInv, Init, Empty, Fields

\* Load reads the row and the groups outside any transaction, and yet a client whose
\* version is still the committed one mutates the committed content: for every backend,
\* any number of repositories and clients, through conflicts, failed saves and prunes.
THEOREM NoLostUpdate == Spec => []BaseIsCurrent
  <1>1. StoreInv => BaseIsCurrent
    BY DEF StoreInv, ReadInv, BaseIsCurrent
  <1> QED BY <1>1, StoreInit, StoreStep, PTL DEF Spec

-----------------------------------------------------------------------------
(* One SQLite repository. *)

\* One process with a SQLite database: writeMutex covers every save.
OneProcess == Backend = "sqlite" /\ \A q, r \in Repos : q = r

\* What callers do to the tables: no task is removed, an action is appended under an
\* identifier of its own, and what has no table is not relied upon.
Recordable ==
    \A m \in Muts :
        /\ m.field \notin Transient
        /\ m.field \in {"tasks", "actions"} => m.val # None
        /\ m.field = "actions" => \A o \in Muts : o.field = "actions" /\ o.key = m.key => o.val = m.val

\* A stored action is what its one append made it.
ActionsInv ==
    "actions" \in Groups => \A k \in Keys : db["actions"][k] # None =>
        \E m \in Muts : m.field = "actions" /\ m.key = k /\ m.val = db["actions"][k]

\* Between its commit and the memory of its fingerprints a save holds the write mutex.
CommittedInv ==
    \A c \in Clients : sess[c].pc = "committed" =>
        holder[RepoOf[c]] = c /\ \A g \in Groups : sess[c].rel[g] = db[g]

CacheInv == StoreInv /\ ActionsInv /\ CommittedInv /\ CacheMatchesTables

\* What rewriteRelationGroup leaves in the table of a group is the group of the saved
\* state, when the saved state differs from the table in what Recordable allows.
LEMMA RewriteFaithful ==
    ASSUME NEW g, NEW old \in Content, NEW new \in Content, Backend = "sqlite",
           g = "tasks" => \A k \in Keys : new[k] = None => old[k] = None,
           g = "actions" => \A k \in Keys : old[k] # None => new[k] = old[k]
    PROVE  Rewrite(g, old, new) = new
  BY DEF Rewrite, SqliteRewrite, UpsertAndPrune, saveTasks, saveActions, saveQAReviews, Content

\* A save that passes the version check stores exactly the mutated state: clean groups
\* are in the tables already, dirty ones are rewritten.
LEMMA SaveFaithful ==
    ASSUME OneProcess, Recordable, CacheInv, NEW c \in Clients, saveTx(c)
    PROVE  /\ SavedContent(RepoOf[c], Mutated(sess[c])) = Mutated(sess[c])
           /\ Mutated(sess[c]) = [db EXCEPT ![sess[c].mut.field][sess[c].mut.key] = sess[c].mut.val]
           /\ ActionsInv'
  <1> DEFINE m == sess[c].mut
             new == Mutated(sess[c])
             r == RepoOf[c]
  <1>1. /\ m \in Muts /\ m.field \in Fields /\ m.key \in Keys /\ m.val \in Vals \cup {None}
        /\ holder[r] = None /\ r \in Repos
    BY StoreAssumption DEF saveTx, MaySave, CacheInv, StoreInv, TypeInv, SessionInv
  <1>2. sess[c].rel = db
    BY DEF saveTx, MaySave, CacheInv, StoreInv, ReadInv
  <1>3. new = [db EXCEPT ![m.field][m.key] = m.val] /\ new \in [Fields -> Content]
    BY <1>1, <1>2, MutatedType DEF Mutated, CacheInv, StoreInv, TypeInv
  <1>4. db \in [Fields -> Content]
    BY DEF CacheInv, StoreInv, TypeInv
  <1>5. \A f \in Fields, k \in Keys : new[f][k] = IF f = m.field /\ k = m.key THEN m.val ELSE db[f][k]
    BY <1>1, <1>3, <1>4 DEF Content
  <1>6. \A f \in Fields : f # m.field => new[f] = db[f]
    BY <1>1, <1>3, <1>4
  <1> HIDE DEF new
  <1>7. "actions" \in Groups => \A k \in Keys : db["actions"][k] # None => new["actions"][k] = db["actions"][k]
    <2> SUFFICES ASSUME "actions" \in Groups, NEW k \in Keys, db["actions"][k] # None
                 PROVE  new["actions"][k] = db["actions"][k]
      OBVIOUS
    <2>1. PICK o \in Muts : o.field = "actions" /\ o.key = k /\ o.val = db["actions"][k]
      BY DEF CacheInv, ActionsInv
    <2> QED BY <1>1, <1>5, <2>1 DEF Recordable, Fields
  <1>8. ASSUME NEW f \in Fields PROVE SavedContent(r, new)[f] = new[f]
    <2>1. CASE f = "state"
      BY <2>1, StoreAssumption DEF SavedContent
    <2>2. CASE f \in Transient
      <3>1. db[f] = NoRows /\ f # m.field
        BY <1>1, <2>2 DEF CacheInv, StoreInv, VersionInv, Recordable
      <3> QED BY <1>6, <2>2, <3>1 DEF SavedContent
    <2>3. CASE f # "state" /\ f \notin Transient
      <3>1. f \in Groups
        BY <2>3 DEF Fields
      <3>2. CASE isGroupClean(r, f, new[f])
        <4>1. cache[r][f] = new[f] /\ cache[r][f] = db[f]
          BY <1>1, <3>1, <3>2 DEF isGroupClean, CacheInv, CacheMatchesTables
        <4> QED BY <2>3, <3>2, <4>1 DEF SavedContent
      <3>3. CASE ~isGroupClean(r, f, new[f])
        <4>1. db[f] \in Content /\ new[f] \in Content
          BY <1>3, <1>4
        <4>2. f = "tasks" => \A k \in Keys : new[f][k] = None => db[f][k] = None
          BY <1>1, <1>5 DEF Recordable
        <4>3. Rewrite(f, db[f], new[f]) = new[f]
          BY <1>7, <3>1, <4>1, <4>2, RewriteFaithful DEF OneProcess
        <4> QED BY <2>3, <3>3, <4>3 DEF SavedContent
      <3> QED BY <3>2, <3>3
    <2> QED BY <2>1, <2>2, <2>3
  <1>9. SavedContent(r, new) = new
    <2>1. SavedContent(r, new) = [f \in Fields |-> SavedContent(r, new)[f]]
      BY DEF SavedContent
    <2> QED BY <1>3, <1>8, <2>1
  <1>10. ActionsInv'
    <2>1. db' = new
      BY <1>9 DEF saveTx, new
    <2> SUFFICES ASSUME "actions" \in Groups, NEW k \in Keys, new["actions"][k] # None
                 PROVE  \E o \in Muts : o.field = "actions" /\ o.key = k /\ o.val = new["actions"][k]
      BY <2>1 DEF ActionsInv
    <2>2. CASE m.field = "actions" /\ m.key = k
      BY <1>1, <1>5, <2>2
    <2>3. CASE ~(m.field = "actions" /\ m.key = k)
      <3>1. new["actions"][k] = db["actions"][k]
        BY <1>5, <2>3 DEF Fields
      <3> QED BY <3>1 DEF CacheInv, ActionsInv
    <2> QED BY <2>2, <2>3
  <1> QED BY <1>3, <1>9, <1>10 DEF new

LEMMA CacheStep == OneProcess /\ Recordable /\ CacheInv /\ [Next]_vars => CacheInv'
  <1> SUFFICES ASSUME OneProcess, Recordable, CacheInv, [Next]_vars PROVE CacheInv'
    OBVIOUS
  <1>0. StoreInv' /\ TypeInv /\ RepoOf \in [Clients -> Repos] /\ None \notin Clients
    BY StoreStep, StoreAssumption DEF CacheInv, StoreInv
  <1> USE DEF CacheInv
  <1>1. CASE UNCHANGED vars
    BY <1>0, <1>1 DEF vars, ActionsInv, CommittedInv, CacheMatchesTables
  <1>2. ASSUME NEW c \in Clients,
               (\E m \in Muts : BeginUpdate(c, m)) \/ LoadRow(c) \/ loadStateRelations(c) \/ BackOff(c)
        PROVE  CacheInv'
    <2>1. UNCHANGED <<db, cache, holder>>
      BY <1>2 DEF BeginUpdate, LoadRow, loadStateRelations, BackOff
    <2>2. sess'[c].pc # "committed" /\ \A d \in Clients \ {c} : sess'[d] = sess[d]
      <3>1. ASSUME NEW m \in Muts, BeginUpdate(c, m) PROVE sess'[c].pc # "committed"
        <4> DEFINE s(l) == [Idle EXCEPT !.pc = l, !.mut = m, !.updates = sess[c].updates + 1]
        <4>1. \A l : s(l).pc = l
          BY DEF Idle
        <4>2. sess' = [sess EXCEPT ![c] = s("save")] \/ sess' = [sess EXCEPT ![c] = s("load")]
          BY <3>1 DEF BeginUpdate
        <4> HIDE DEF s
        <4> QED BY <1>0, <4>1, <4>2 DEF TypeInv
      <3>2. CASE LoadRow(c)
        BY <1>0, <3>2 DEF LoadRow, TypeInv, Session
      <3>4. CASE loadStateRelations(c)
        BY <1>0, <3>4 DEF loadStateRelations, TypeInv, Session
      <3>5. CASE BackOff(c)
        BY <1>0, <3>5 DEF BackOff, TypeInv, Session
      <3>3. \A d \in Clients \ {c} : sess'[d] = sess[d]
        BY <1>0, <1>2 DEF BeginUpdate, LoadRow, loadStateRelations, BackOff, TypeInv
      <3> QED BY <1>2, <3>1, <3>2, <3>3, <3>4, <3>5
    <2> QED BY <1>0, <2>1, <2>2 DEF ActionsInv, CommittedInv, CacheMatchesTables
  <1>3. ASSUME NEW c \in Clients, SaveConflict(c) \/ SaveFails(c) PROVE CacheInv'
    <2>1. UNCHANGED <<db, holder>> /\ cache' = [cache EXCEPT ![RepoOf[c]] = None]
      BY <1>3 DEF SaveConflict, SaveFails, invalidate
    <2>2. sess'[c].pc # "committed" /\ \A d \in Clients \ {c} : sess'[d] = sess[d]
      BY <1>0, <1>3 DEF SaveConflict, SaveFails, TypeInv, Session
    <2>3. CacheMatchesTables'
      BY <1>0, <2>1 DEF CacheMatchesTables, TypeInv, OneProcess
    <2> QED BY <1>0, <2>1, <2>2, <2>3 DEF ActionsInv, CommittedInv
  <1>4. ASSUME NEW c \in Clients, saveTx(c) PROVE CacheInv'
    <2> DEFINE new == Mutated(sess[c])
    <2>1. /\ db' = new /\ ActionsInv'
          /\ holder[RepoOf[c]] = None /\ holder'[RepoOf[c]] = c
          /\ sess'[c].rel = new /\ \A d \in Clients \ {c} : sess'[d] = sess[d]
      BY <1>0, <1>4, SaveFaithful DEF saveTx, MaySave, TypeInv, Session, OneProcess
    <2>2. CommittedInv'
      <3> SUFFICES ASSUME NEW d \in Clients, sess'[d].pc = "committed"
                   PROVE  holder'[RepoOf[d]] = d /\ \A g \in Groups : sess'[d].rel[g] = db'[g]
        BY DEF CommittedInv
      <3>1. CASE d = c
        BY <2>1, <3>1
      <3>2. CASE d # c
        <4>1. holder[RepoOf[d]] = d /\ RepoOf[d] = RepoOf[c]
          BY <1>0, <2>1, <3>2 DEF CommittedInv, OneProcess
        <4> QED BY <1>0, <2>1, <4>1
      <3> QED BY <3>1, <3>2
    <2>3. CacheMatchesTables'
      BY <1>0, <2>1 DEF CacheMatchesTables, OneProcess
    <2> QED BY <1>0, <2>1, <2>2, <2>3
  <1>5. ASSUME NEW c \in Clients, RememberFingerprints(c) PROVE CacheInv'
    <2>1. /\ holder[RepoOf[c]] = c /\ \A g \in Groups : sess[c].rel[g] = db[g]
          /\ db' = db /\ cache'[RepoOf[c]] = sess[c].rel
          /\ sess'[c].pc = "idle" /\ \A d \in Clients \ {c} : sess'[d] = sess[d]
      BY <1>0, <1>5 DEF RememberFingerprints, CommittedInv, TypeInv, Session
    <2>2. ASSUME NEW d \in Clients PROVE sess'[d].pc # "committed"
      <3>1. CASE d = c
        BY <2>1, <3>1
      <3>2. CASE d # c
        BY <1>0, <2>1, <3>2 DEF CommittedInv, OneProcess
      <3> QED BY <3>1, <3>2
    <2>3. CacheMatchesTables'
      BY <1>0, <2>1 DEF CacheMatchesTables, OneProcess
    <2> QED BY <1>0, <2>1, <2>2, <2>3 DEF ActionsInv, CommittedInv
  <1>6. ASSUME NEW r \in Repos, PruneFinishedStates(r) PROVE CacheInv'
    <2>1. db' = Empty /\ holder[r] = None /\ cache'[r] = None /\ UNCHANGED <<holder, sess>>
      BY <1>0, <1>6 DEF PruneFinishedStates, invalidate, TypeInv
    <2>2. \A q \in Repos : q = r
      BY DEF OneProcess
    <2>3. \A d \in Clients : sess[d].pc # "committed"
      BY <1>0, <2>1, <2>2 DEF CommittedInv
    <2>4. ActionsInv' /\ CommittedInv' /\ CacheMatchesTables'
      BY <2>1, <2>2, <2>3 DEF ActionsInv, CommittedInv, CacheMatchesTables, Empty, NoRows, Fields
    <2> QED BY <1>0, <2>4
  <1> QED BY <1>1, <1>2, <1>3, <1>4, <1>5, <1>6 DEF Next, Step

LEMMA CacheInit == Init => CacheInv
  <1> SUFFICES ASSUME Init PROVE CacheInv
    OBVIOUS
  <1>1. Idle.pc = "idle"
    BY DEF Idle
  <1>2. ActionsInv
    BY DEF Init, ActionsInv, Empty, NoRows, Fields
  <1> QED BY <1>1, <1>2, StoreInit DEF CacheInv, CommittedInv, CacheMatchesTables, Init

\* The fingerprints by which a SQLite repository skips the rewrite of a group describe
\* the tables whenever the write mutex is free, for any number of clients.
THEOREM CacheIsTrue == ASSUME OneProcess, Recordable PROVE Spec => []CacheMatchesTables
  <1>1. CacheInv /\ [Next]_vars => CacheInv'
    BY CacheStep
  <1>2. CacheInv => CacheMatchesTables
    BY DEF CacheInv
  <1> QED BY <1>1, <1>2, CacheInit, PTL DEF Spec

\* Every step of the store is a write of the register, its removal, or no step of it.
LEMMA RegisterStep ==
    ASSUME OneProcess, Recordable, CacheInv, [Next]_vars
    PROVE  [Register!Next]_<<db, version, last>>
  <1>1. ASSUME NEW c \in Clients, saveTx(c) PROVE Register!Next
    <2> DEFINE m == sess[c].mut
    <2>1. m \in Muts /\ m.field \in Fields /\ m.key \in Keys /\ m.val \in Vals \cup {None}
      BY <1>1, StoreAssumption DEF saveTx, MaySave, CacheInv, StoreInv, TypeInv, SessionInv
    <2>2. /\ db' = [db EXCEPT ![m.field][m.key] = m.val]
          /\ version' = version + 1
          /\ last' = [by |-> c, n |-> version', field |-> m.field, key |-> m.key, val |-> m.val]
      BY <1>1, SaveFaithful DEF saveTx
    <2>3. Register!Put(c, m.field, m.key, m.val)
      BY <2>2 DEF Register!Put
    <2> QED BY <2>1, <2>3 DEF Register!Next
  <1>2. ASSUME NEW r \in Repos, PruneFinishedStates(r) PROVE Register!Next
    BY <1>2 DEF PruneFinishedStates, Register!Next, Register!Drop, Register!Empty, Empty, NoRows
  <1>3. CASE UNCHANGED vars
    BY <1>3 DEF vars
  <1>4. ASSUME NEW c \in Clients,
               \/ (\E m \in Muts : BeginUpdate(c, m)) \/ LoadRow(c) \/ loadStateRelations(c)
               \/ SaveConflict(c) \/ SaveFails(c) \/ RememberFingerprints(c) \/ BackOff(c)
        PROVE  UNCHANGED <<db, version, last>>
    BY <1>4 DEF BeginUpdate, LoadRow, loadStateRelations, SaveConflict, SaveFails, RememberFingerprints, BackOff
  <1> QED BY <1>1, <1>2, <1>3, <1>4 DEF Next, Step

\* Save as its callers see it: an acknowledged update is applied once, whole and on top
\* of all the ones before it; a failed or refused one leaves no trace.
THEOREM StoreRefinesRegister == ASSUME OneProcess, Recordable PROVE Spec => ImplementsRegister
  <1>1. CacheInv /\ [Next]_vars => CacheInv'
    BY CacheStep
  <1>2. CacheInv /\ [Next]_vars => [Register!Next]_<<db, version, last>>
    BY RegisterStep
  <1>3. Init => Register!Init
    BY DEF Init, Register!Init, Register!Empty, Empty, NoRows
  <1> QED BY <1>1, <1>2, <1>3, CacheInit, PTL DEF Spec, ImplementsRegister, Register!Spec
=============================================================================
