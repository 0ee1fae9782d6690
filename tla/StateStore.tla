----------------------------- MODULE StateStore -----------------------------
(* The state repositories (pkg/infrastructure/storage) under the            *)
(* Load - mutate - Save cycles of their callers.  One state is stored as a  *)
(* row, which carries the version, and as relation groups in tables of      *)
(* their own.  Load reads the row and then group after group, outside any   *)
(* transaction; Save runs one transaction guarded by the version and        *)
(* rewrites only the groups whose fingerprint is not the one its repository *)
(* remembers to have committed last.                                        *)
EXTENDS Naturals, Sequences, FiniteSets

CONSTANTS
    Backend,      \* "sqlite" or "postgres"
    Repos,        \* repository instances: one per process
    Clients,      \* goroutines that update the state
    RepoOf,       \* the repository a client uses
    Creator,      \* the client that makes the state
    GroupSeq,     \* the relation groups, in the order Load reads them
    Keys, Vals,   \* rows of a group and what they hold
    StoryOf,      \* the story of the task in a row
    None,         \* no row, no cache, no holder
    Finished,     \* row values under which the story is SUCCESS or FAILED
    Transient,    \* fields of domain.State that have no table
    Muts,         \* the mutations callers make: [field, key, val]
    MaxUpdates,   \* bound: updates a client starts
    MaxAttempts   \* OCC attempts of one update (occRetryMaxAttempts, OCCMaxRetries + 1)

VARIABLES
    version,   \* version column of the state row, 0 when there is no row
    db,        \* committed content: db["state"] is the row, db[g] group g
    gone,      \* the state has been pruned
    cache,     \* fingerprintCache: what each repository last committed
    holder,    \* writeMutex of each repository
    sess,      \* the update each client is in
    last       \* history: the last committed write

vars == <<version, db, gone, cache, holder, sess, last>>

Groups == {GroupSeq[n] : n \in DOMAIN GroupSeq}
Fields == {"state"} \cup Groups \cup Transient
Content == [Keys -> Vals \cup {None}]
NoRows == [k \in Keys |-> None]
Empty == [f \in Fields |-> NoRows]

ASSUME StoreAssumption ==
    /\ Backend \in {"sqlite", "postgres"}
    /\ RepoOf \in [Clients -> Repos]
    /\ Creator \in Clients
    /\ GroupSeq \in Seq(STRING) \ {<< >>} /\ "state" \notin Groups \cup Transient /\ Transient \cap Groups = {}
    /\ \A m \in Muts : m.field \in Fields /\ m.key \in Keys /\ m.val \in Vals \cup {None}
    /\ DOMAIN StoryOf = Keys
    /\ MaxUpdates \in Nat /\ MaxAttempts \in Nat \ {0}
    /\ None \notin Vals \cup Clients

Idle == [pc |-> "idle", mut |-> None, version |-> 0, rel |-> Empty, next |-> 0,
         attempts |-> 0, updates |-> 0, err |-> FALSE]

-----------------------------------------------------------------------------
(* What rewriteRelationGroup leaves in the table of one group, given the rows *)
(* it held and the rows of the state that is saved.                          *)

\* Files, criteria and agents: upsert every row of the state, delete all others.
UpsertAndPrune(old, new) == [k \in Keys |-> IF new[k] # None THEN new[k] ELSE None]

\* Tasks (SQLite): the delete is limited to the stories the saved tasks belong to,
\* so without a task in the state no row is deleted at all.
saveTasks(old, new) ==
    [k \in Keys |->
        IF new[k] = None /\ ~\E j \in Keys : new[j] # None /\ StoryOf[j] = StoryOf[k]
        THEN old[k] ELSE new[k]]

\* Actions (SQLite): appended; ON CONFLICT DO NOTHING keeps a stored action as it is.
saveActions(old, new) == [k \in Keys |-> IF old[k] # None THEN old[k] ELSE new[k]]

\* Contracts, review phases, scenarios and findings: delete all, insert the state's.
saveQAReviews(old, new) == new

SqliteRewrite(g, old, new) ==
    CASE g = "tasks"   -> saveTasks(old, new)
      [] g = "actions" -> saveActions(old, new)
      [] g = "reviews" -> saveQAReviews(old, new)
      [] OTHER         -> UpsertAndPrune(old, new)

\* Postgres deletes every row of the group and inserts the ones of the state.
PostgresRewrite(g, old, new) == new

Rewrite(g, old, new) ==
    IF Backend = "sqlite" THEN SqliteRewrite(g, old, new) ELSE PostgresRewrite(g, old, new)

\* A group is clean when its content hashes to what this repository committed last.
isGroupClean(r, g, new) == cache[r] # None /\ cache[r][g] = new

\* The tables after the transaction: the row always, dirty groups, no table for the rest.
SavedContent(r, new) ==
    [f \in Fields |-> CASE f = "state"      -> new[f]
                        [] f \in Transient  -> NoRows
                        [] OTHER            -> IF isGroupClean(r, f, new[f]) THEN db[f]
                                               ELSE Rewrite(f, db[f], new[f])]

invalidate(r) == cache' = [cache EXCEPT ![r] = None]

-----------------------------------------------------------------------------
Mutated(s) == [s.rel EXCEPT ![s.mut.field][s.mut.key] = s.mut.val]

\* An update starts: with Load, or with a state made in memory by its creator.
BeginUpdate(c, m) ==
    /\ sess[c].pc = "idle" /\ sess[c].updates < MaxUpdates
    /\ IF version = 0 /\ ~gone
       THEN /\ c = Creator
            /\ sess' = [sess EXCEPT ![c] = [Idle EXCEPT !.pc = "save", !.mut = m,
                                            !.updates = sess[c].updates + 1]]
       ELSE sess' = [sess EXCEPT ![c] = [Idle EXCEPT !.pc = "load", !.mut = m,
                                         !.updates = sess[c].updates + 1]]
    /\ UNCHANGED <<version, db, gone, cache, holder, last>>

\* Load, first query: the state row with its version; sql.ErrNoRows ends the update.
LoadRow(c) ==
    /\ sess[c].pc = "load"
    /\ sess' = [sess EXCEPT ![c] =
                   IF version = 0 THEN [@ EXCEPT !.pc = "idle", !.err = TRUE]
                   ELSE [@ EXCEPT !.pc = "relations", !.version = version, !.next = 1,
                                  !.rel = [Empty EXCEPT !["state"] = db["state"]]]]
    /\ UNCHANGED <<version, db, gone, cache, holder, last>>

\* Mutant of loadStateRelations: the version is read with the last group.
loadStateRelationsFirst(c) ==
    /\ sess[c].pc = "relations"
    /\ LET n == sess[c].next
           g == GroupSeq[n]
       IN  sess' = [sess EXCEPT ![c].rel[g] = db[g],
                                ![c].next = n + 1,
                                ![c].version = version,
                                ![c].pc = IF n = Len(GroupSeq) THEN "save" ELSE "relations"]
    /\ UNCHANGED <<version, db, gone, cache, holder, last>>

\* Load, the queries that follow: one relation group each; then the mutator runs.
loadStateRelations(c) ==
    /\ sess[c].pc = "relations"
    /\ LET n == sess[c].next
           g == GroupSeq[n]
       IN  sess' = [sess EXCEPT ![c].rel[g] = db[g],
                                ![c].next = n + 1,
                                ![c].pc = IF n = Len(GroupSeq) THEN "save" ELSE "relations"]
    /\ UNCHANGED <<version, db, gone, cache, holder, last>>

\* SQLite serialises the saves of a repository with writeMutex.
MaySave(c) == sess[c].pc = "save" /\ holder[RepoOf[c]] = None

\* saveTx finds another version in the row: ErrVersionConflict, sleep, try again.
SaveConflict(c) ==
    /\ MaySave(c)
    /\ sess[c].version # version
    /\ invalidate(RepoOf[c])
    /\ sess' = [sess EXCEPT ![c].attempts = @ + 1,
                            ![c].pc = IF sess[c].attempts + 1 < MaxAttempts THEN "sleep" ELSE "idle",
                            ![c].err = TRUE]
    /\ UNCHANGED <<version, db, gone, holder, last>>

\* Mutant of SaveFails: the fingerprints are remembered before the commit.
SaveFailsRemembering(c) ==
    /\ MaySave(c)
    /\ cache' = [cache EXCEPT ![RepoOf[c]] = Mutated(sess[c])]
    /\ sess' = [sess EXCEPT ![c].pc = "idle", ![c].err = TRUE]
    /\ UNCHANGED <<version, db, gone, holder, last>>

\* saveTx fails for another reason (busy database, serialization failure): no retry.
SaveFails(c) ==
    /\ MaySave(c)
    /\ invalidate(RepoOf[c])
    /\ sess' = [sess EXCEPT ![c].pc = "idle", ![c].err = TRUE]
    /\ UNCHANGED <<version, db, gone, holder, last>>

\* Mutant of saveTx: the row is written whatever version it has.
saveTxUnguarded(c) ==
    /\ MaySave(c)
    /\ LET new == Mutated(sess[c])
           r   == RepoOf[c]
       IN  /\ db' = SavedContent(r, new)
           /\ version' = version + 1
           /\ last' = [by |-> c, n |-> version', field |-> sess[c].mut.field,
                       key |-> sess[c].mut.key, val |-> sess[c].mut.val]
           /\ holder' = [holder EXCEPT ![r] = IF Backend = "sqlite" THEN c ELSE None]
           /\ sess' = [sess EXCEPT ![c].pc = "committed", ![c].rel = new]
    /\ UNCHANGED <<gone, cache>>

\* saveTx commits: the row at the next version and the dirty groups, atomically.
saveTx(c) ==
    /\ MaySave(c)
    /\ sess[c].version = version
    /\ LET new == Mutated(sess[c])
           r   == RepoOf[c]
       IN  /\ db' = SavedContent(r, new)
           /\ version' = version + 1
           /\ last' = [by |-> c, n |-> version', field |-> sess[c].mut.field,
                       key |-> sess[c].mut.key, val |-> sess[c].mut.val]
           /\ holder' = [holder EXCEPT ![r] = IF Backend = "sqlite" THEN c ELSE None]
           /\ sess' = [sess EXCEPT ![c].pc = "committed", ![c].rel = new]
    /\ UNCHANGED <<gone, cache>>

\* Mutant of RememberFingerprints: the write mutex is not unlocked.
RememberFingerprintsLocked(c) ==
    /\ sess[c].pc = "committed"
    /\ cache' = [cache EXCEPT ![RepoOf[c]] = sess[c].rel]
    /\ sess' = [sess EXCEPT ![c].pc = "idle", ![c].err = FALSE]
    /\ UNCHANGED <<version, db, gone, holder, last>>

\* After the commit the repository remembers the fingerprints and Save returns nil.
RememberFingerprints(c) ==
    /\ sess[c].pc = "committed"
    /\ cache' = [cache EXCEPT ![RepoOf[c]] = sess[c].rel]
    /\ holder' = [holder EXCEPT ![RepoOf[c]] = IF @ = c THEN None ELSE @]
    /\ sess' = [sess EXCEPT ![c].pc = "idle", ![c].err = FALSE]
    /\ UNCHANGED <<version, db, gone, last>>

\* The back-off between attempts: the timer fires, or the context or an incoming
\* command (SleepWithInterrupt) ends the update.
BackOff(c) ==
    /\ sess[c].pc = "sleep"
    /\ \E next \in {"load", "idle"} : sess' = [sess EXCEPT ![c].pc = next]
    /\ UNCHANGED <<version, db, gone, cache, holder, last>>

\* PruneFinishedStates(0) of one repository deletes the state and all its rows.
PruneFinishedStates(r) ==
    /\ holder[r] = None
    /\ version > 0 /\ \E k \in Keys : db["state"][k] \in Finished
    /\ version' = 0 /\ db' = Empty /\ gone' = TRUE
    /\ invalidate(r)
    /\ UNCHANGED <<holder, sess, last>>

-----------------------------------------------------------------------------
Init ==
    /\ version = 0 /\ db = Empty /\ gone = FALSE
    /\ cache = [r \in Repos |-> None]
    /\ holder = [r \in Repos |-> None]
    /\ sess = [c \in Clients |-> Idle]
    /\ last = None

Step(c) ==
    \/ LoadRow(c) \/ loadStateRelations(c)
    \/ SaveConflict(c) \/ SaveFails(c) \/ saveTx(c)
    \/ RememberFingerprints(c) \/ BackOff(c)

Next ==
    \/ \E c \in Clients, m \in Muts : BeginUpdate(c, m)
    \/ \E c \in Clients : Step(c)
    \/ \E r \in Repos : PruneFinishedStates(r)

\* A goroutine that is inside an update keeps running.
Spec == Init /\ [][Next]_vars /\ \A c \in Clients : WF_vars(Step(c))

-----------------------------------------------------------------------------
TypeOK ==
    /\ version \in Nat
    /\ db \in [Fields -> Content]
    /\ gone \in BOOLEAN
    /\ cache \in [Repos -> [Fields -> Content] \cup {None}]
    /\ holder \in [Repos -> Clients \cup {None}]
    /\ \A c \in Clients :
         /\ sess[c].pc \in {"idle", "load", "relations", "save", "committed", "sleep"}
         /\ sess[c].version \in Nat /\ sess[c].next \in 0..(Len(GroupSeq) + 1)
         /\ sess[c].attempts \in 0..MaxAttempts /\ sess[c].updates \in 0..MaxUpdates
         /\ sess[c].rel \in [Fields -> Content]

\* No lost update through a torn read: Load mixes row and groups of different commits,
\* yet a client whose version still matches holds exactly the committed content.
BaseIsCurrent ==
    \A c \in Clients : sess[c].pc = "save" /\ sess[c].version = version =>
        \A f \in Fields : sess[c].rel[f] = db[f]

\* The fingerprints a repository trusts to skip a rewrite describe what is in the tables.
CacheMatchesTables ==
    \A r \in Repos : holder[r] = None /\ cache[r] # None =>
        \A g \in Groups : cache[r][g] = db[g]

\* Every save a caller is told succeeded is applied once, whole, on top of all earlier ones.
Register == INSTANCE StateRegister WITH
                Writers <- Clients, reg <- db, version <- version, last <- last
ImplementsRegister == Register!Spec

\* Every update ends: acknowledged, or with an error after a bounded number of attempts.
UpdatesReturn == \A c \in Clients : sess[c].pc # "idle" ~> sess[c].pc = "idle"
=============================================================================
