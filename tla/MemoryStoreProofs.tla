------------------------- MODULE MemoryStoreProofs -------------------------
(***************************************************************************)
(* Theorems about MemoryStore, for every set of connections, paths,        *)
(* writers and envelopes and every bound: types, one event per key, then   *)
(* the documents, the chunk index, the merge jobs and the answers, which   *)
(* say the same as the log, and the abstract store all of it implements.   *)
(***************************************************************************)
EXTENDS MemoryStore, TLAPS

\* The envelope an unused connection holds is an envelope.
LEMMA AnyEnvelopeType == AnyEnvelope \in EnvelopeType
BY EnvelopeAssumption DEF AnyEnvelope

\* The row a document has before its first event is a row.
LEMMA NoRowType == NoRow \in RowType
BY DEF NoRow, RowType, Content, NoEvent

\* The variables of a transaction keep their types when it is over.
LEMMA ReleaseType ==
  ASSUME TypeOK, NEW t \in Txn, Release(t)
  PROVE  /\ pc' \in [Txn -> {"idle", "existing", "dup", "insert", "source", "target",
                             "fromRow", "commit"}]
         /\ env' \in [Txn -> EnvelopeType]
         /\ begun' \in [Txn -> Nat]
         /\ cur' \in [Txn -> RowType]
         /\ moved' \in [Txn -> Content]
         /\ ev' \in [Txn -> Nat]
BY AnyEnvelopeType, NoRowType DEF TypeOK, Release, Content, NoEvent

\* The jobs a transaction queues are jobs.
LEMMA JobsType ==
  ASSUME TypeOK, NEW t \in Txn
  PROVE  PlaceholderJobs(t) \subseteq JobType /\ EventJobs(t) \subseteq JobType
<1>1. env[t].path \in Path /\ cur[t].event \in Nat /\ begun[t] \in Nat /\ ev[t] \in Nat
  BY DEF TypeOK, EnvelopeType, RowType
<1>2. ASSUME NEW i \in Nat PROVE MergeJob(t, i) \in JobType
  BY <1>1 DEF MergeJob, JobType, NoEvent
<1> QED
  BY <1>1, <1>2 DEF PlaceholderJobs, EventJobs, Placeholder

\* What a transaction commits is well typed.
LEMMA CommitType ==
  ASSUME TypeOK, NEW t \in Txn
  PROVE  /\ Event(t) \in EventType
         /\ DocsAfter(t) \in [Path -> RowType]
         /\ ChunksAfter(t) \in [Path -> Content]
<1>1. /\ env[t] \in EnvelopeType /\ moved[t] \in Content /\ ev[t] \in Nat
      /\ begun[t] \in Nat /\ cur[t] \in RowType
      /\ docs \in [Path -> RowType] /\ chunks \in [Path -> Content]
  BY DEF TypeOK
<1>2. Body(t) \in Content /\ env[t].path \in Path /\ env[t].from \in Path
  BY <1>1 DEF Body, EnvelopeType
<1>3. Event(t) \in EventType
  BY <1>1 DEF Event, EventType, EnvelopeType, RowType
<1>4. WrittenRow(t) \in RowType
  BY <1>1, <1>2 DEF WrittenRow, RowType, EnvelopeType
<1>5. WrittenDocs(t) \in [Path -> RowType]
  BY <1>1, <1>4 DEF WrittenDocs
<1>6. ASSUME NEW r \in RowType
      PROVE  [r EXCEPT !.event = ev[t], !.at = begun[t], !.live = FALSE] \in RowType
  BY <1>1 DEF RowType
<1>7. DocsAfter(t) \in [Path -> RowType]
  BY <1>2, <1>5, <1>6 DEF DocsAfter
<1>8. ChunksAfter(t) \in [Path -> Content]
  <2>1. {} \in Content
    BY DEF Content
  <2> QED
    BY <1>1, <1>2, <2>1 DEF ChunksAfter
<1> QED
  BY <1>3, <1>7, <1>8

\* An answer is an answer.
LEMMA AnswerType ==
  ASSUME TypeOK, NEW k \in Key, NEW i \in Nat, Answer(k, i)
  PROVE  acks' \subseteq AckType
BY DEF TypeOK, Answer, AckType

\* Every step keeps the types.
LEMMA TypeStep == TypeOK /\ [Next]_vars => TypeOK'
<1> SUFFICES ASSUME TypeOK, [Next]_vars PROVE TypeOK'
  OBVIOUS
<1>1. ASSUME NEW w \in Writer, NEW k \in KeyRef, UpsertSigner(w, k) PROVE TypeOK'
  BY <1>1 DEF UpsertSigner, TypeOK, tables, session
<1>2. ASSUME NEW t \in Txn, NEW e \in Envelope, Request(t, e) PROVE TypeOK'
  BY <1>2, EnvelopeAssumption DEF Request, Begin, TypeOK, tables
<1>3. ASSUME NEW t \in Txn, ReadExisting(t) PROVE TypeOK'
  <2>1. docs[env[t].path] \in RowType
    BY DEF TypeOK, EnvelopeType
  <2> QED
    BY <1>3, <2>1 DEF ReadExisting, TypeOK, tables
<1>4. ASSUME NEW t \in Txn, AckDuplicate(t) PROVE TypeOK'
  <2>1. acks' \subseteq AckType
    <3>1. PICK f \in log : f.key = env[t].key /\ Answer(f.key, f.id)
      BY <1>4 DEF AckDuplicate
    <3>2. f.key \in Key /\ f.id \in Nat
      BY DEF TypeOK, EventType
    <3> QED
      BY <3>1, <3>2, AnswerType
  <2>2. jobs' \subseteq JobType
    BY <1>4, JobsType DEF AckDuplicate, TypeOK
  <2>3. Release(t)
    BY <1>4 DEF AckDuplicate
  <2>4. UNCHANGED <<docs, log, chunks, signers, cursor, clock>>
    BY <1>4 DEF AckDuplicate
  <2> QED
    BY <2>1, <2>2, <2>3, <2>4, ReleaseType DEF TypeOK
<1>5. ASSUME NEW t \in Txn, NotDuplicate(t) PROVE TypeOK'
  BY <1>5 DEF NotDuplicate, TypeOK, tables, session
<1>6. ASSUME NEW t \in Txn, InsertEvent(t) PROVE TypeOK'
  BY <1>6 DEF InsertEvent, TypeOK, tables
<1>7. ASSUME NEW t \in Txn, ReadSource(t) PROVE TypeOK'
  <2>1. env[t].content \in Content /\ docs[env[t].from].content \in Content
    BY DEF TypeOK, EnvelopeType, RowType
  <2> QED
    BY <1>7, <2>1 DEF ReadSource, TypeOK, tables
<1>8. ASSUME NEW t \in Txn, LockTarget(t) PROVE TypeOK'
  BY <1>8 DEF LockTarget, TypeOK, tables, session
<1>9. ASSUME NEW t \in Txn, LockSource(t) PROVE TypeOK'
  BY <1>9 DEF LockSource, TypeOK, tables, session
<1>10. ASSUME NEW t \in Txn, Commit(t) PROVE TypeOK'
  <2>1. env[t].key \in Key /\ ev[t] \in Nat
    BY DEF TypeOK, EnvelopeType
  <2>2. acks' \subseteq AckType
    BY <1>10, <2>1, AnswerType DEF Commit
  <2>3. /\ log' = log \cup {Event(t)}
        /\ docs' = DocsAfter(t) /\ chunks' = ChunksAfter(t)
        /\ jobs' = jobs \cup PlaceholderJobs(t) \cup EventJobs(t)
        /\ UNCHANGED <<signers, cursor, clock>>
        /\ Release(t)
    BY <1>10 DEF Commit
  <2> QED
    BY <2>2, <2>3, CommitType, JobsType, ReleaseType DEF TypeOK
<1>11. ASSUME NEW t \in Txn, Rollback(t) PROVE TypeOK'
  <2>1. Release(t) /\ UNCHANGED <<tables, signers, cursor, clock, acks>>
    BY <1>11 DEF Rollback
  <2> QED
    BY <2>1, ReleaseType DEF TypeOK, tables
<1>12. CASE UNCHANGED vars
  BY <1>12 DEF vars, TypeOK
<1> QED
  BY <1>1, <1>2, <1>3, <1>4, <1>5, <1>6, <1>7, <1>8, <1>9, <1>10, <1>11, <1>12
  DEF Next, Step, Fail

\* Type correctness of a core's tables and transactions, whatever requests arrive and however
\* their transactions interleave, fail and are rolled back.
THEOREM TypeCorrect == Spec => []TypeOK
<1>1. Init => TypeOK
  BY AnyEnvelopeType, NoRowType, RegistryAssumption
  DEF Init, TypeOK, Content, NoEvent
<1> QED
  BY <1>1, TypeStep, PTL DEF Spec

-----------------------------------------------------------------------------
(* One event per key.  LogUnique is not inductive: it holds because a        *)
(* transaction that has inserted its event keeps others from inserting one   *)
(* like it until it commits, and inserted it only when there was none in the *)
(* log.                                                                      *)

\* Event ids come from the sequence; an inserted event is unlike every committed one and unlike
\* every other inserted one.
IdsBounded ==
  /\ \A f \in log : f.id \in 1..cursor
  /\ \A t \in Txn : Inserted(t) => ev[t] \in 1..cursor
InsertedIsNew ==
  \A t \in Txn : Inserted(t) =>
    \A f \in log : f.id # ev[t] /\ ~SameEvent(f, env[t])
InsertedApart ==
  \A t, u \in Txn : (t # u /\ Inserted(t) /\ Inserted(u)) =>
    ev[t] # ev[u] /\ ~SameEvent(env[t], env[u])

UniqueInv == TypeOK /\ LogUnique /\ IdsBounded /\ InsertedIsNew /\ InsertedApart

\* A step that commits nothing, inserts nothing and leaves inserted events alone.
Quiet ==
  /\ log' = log /\ cursor' = cursor
  /\ \A t \in Txn : Inserted(t)' => Inserted(t) /\ ev'[t] = ev[t] /\ env'[t] = env[t]

LEMMA QuietStep == UniqueInv /\ TypeOK' /\ Quiet => UniqueInv'
BY DEF UniqueInv, Quiet, LogUnique, IdsBounded, InsertedIsNew, InsertedApart, SameEvent

\* Releasing a connection is quiet.
LEMMA ReleaseQuiet ==
  ASSUME TypeOK, NEW t \in Txn, Release(t), log' = log, cursor' = cursor
  PROVE  Quiet
BY DEF Quiet, Release, Inserted, TypeOK

\* Inserting an event makes it new: the guards rule out its key and sequence, the sequence of
\* cursors its id.
LEMMA InsertUnique ==
  ASSUME UniqueInv, TypeOK', NEW t \in Txn, InsertEvent(t)
  PROVE  UniqueInv'
<1>1. /\ pc[t] = "insert" /\ log' = log /\ env' = env
      /\ cursor' = cursor + 1 /\ ev' = [ev EXCEPT ![t] = cursor + 1]
      /\ \A u \in Txn : ~EventBlocks(t, u)
      /\ \A f \in log : ~SameEvent(f, env[t])
  BY DEF InsertEvent, tables
<1>2. /\ cursor \in Nat /\ cursor' = cursor + 1
      /\ ev'[t] = cursor + 1
      /\ \A u \in Txn \ {t} : ev'[u] = ev[u]
  BY <1>1 DEF UniqueInv, TypeOK
<1>3. \A u \in Txn \ {t} : Inserted(u)' <=> Inserted(u)
  BY DEF InsertEvent, Inserted, UniqueInv, TypeOK
<1>4. LogUnique'
  BY <1>1 DEF LogUnique, UniqueInv
<1>5. IdsBounded'
  BY <1>1, <1>2, <1>3 DEF IdsBounded, UniqueInv
<1>6. InsertedIsNew'
  <2> SUFFICES ASSUME NEW u \in Txn, Inserted(u)', NEW f \in log
               PROVE  f.id # ev'[u] /\ ~SameEvent(f, env[u])
    BY <1>1 DEF InsertedIsNew, SameEvent
  <2>1. CASE u = t
    BY <2>1, <1>1, <1>2 DEF UniqueInv, IdsBounded
  <2>2. CASE u # t
    BY <2>2, <1>2, <1>3 DEF UniqueInv, InsertedIsNew
  <2> QED
    BY <2>1, <2>2
<1>7. InsertedApart'
  <2> SUFFICES ASSUME NEW u \in Txn, NEW v \in Txn, u # v, Inserted(u)', Inserted(v)'
               PROVE  ev'[u] # ev'[v] /\ ~SameEvent(env[u], env[v])
    BY <1>1 DEF InsertedApart, SameEvent
  <2>1. CASE u = t
    BY <2>1, <1>1, <1>2, <1>3 DEF EventBlocks, UniqueInv, IdsBounded
  <2>2. CASE v = t
    <3>1. ~SameEvent(env[t], env[u]) /\ ev[u] \in 1..cursor
      BY <2>2, <1>1, <1>3 DEF EventBlocks, UniqueInv, IdsBounded
    <3> QED
      BY <3>1, <2>2, <1>2 DEF SameEvent
  <2>3. CASE u # t /\ v # t
    BY <2>3, <1>2, <1>3 DEF UniqueInv, InsertedApart
  <2> QED
    BY <2>1, <2>2, <2>3
<1> QED
  BY <1>4, <1>5, <1>6, <1>7 DEF UniqueInv

\* A committed event was new to the log and unlike the inserted ones.
LEMMA CommitUnique ==
  ASSUME UniqueInv, TypeOK', NEW t \in Txn, Commit(t)
  PROVE  UniqueInv'
<1>1. /\ pc[t] = "commit" /\ log' = log \cup {Event(t)} /\ cursor' = cursor
      /\ Release(t)
  BY DEF Commit
<1>2. Inserted(t) /\ ~Inserted(t)'
  BY <1>1 DEF Inserted, Release, UniqueInv, TypeOK
<1>3. \A u \in Txn : Inserted(u)' =>
        u # t /\ Inserted(u) /\ ev'[u] = ev[u] /\ env'[u] = env[u]
  BY <1>1, <1>2 DEF Inserted, Release, UniqueInv, TypeOK
<1>4. Event(t).id = ev[t] /\ Event(t).key = env[t].key /\ Event(t).seq = env[t].seq
  BY DEF Event
<1>5. LogUnique'
  BY <1>1, <1>2, <1>4 DEF LogUnique, UniqueInv, InsertedIsNew, SameEvent
<1>6. IdsBounded'
  BY <1>1, <1>2, <1>3, <1>4 DEF IdsBounded, UniqueInv
<1>7. InsertedIsNew'
  <2> SUFFICES ASSUME NEW u \in Txn, Inserted(u)', NEW f \in log'
               PROVE  f.id # ev'[u] /\ ~SameEvent(f, env'[u])
    BY DEF InsertedIsNew, SameEvent
  <2>1. CASE f \in log
    BY <2>1, <1>3 DEF UniqueInv, InsertedIsNew
  <2>2. CASE f = Event(t)
    BY <2>2, <1>2, <1>3, <1>4 DEF UniqueInv, InsertedApart, SameEvent
  <2> QED
    BY <2>1, <2>2, <1>1
<1>8. InsertedApart'
  <2> SUFFICES ASSUME NEW u \in Txn, NEW v \in Txn, u # v, Inserted(u)', Inserted(v)'
               PROVE  ev'[u] # ev'[v] /\ ~SameEvent(env'[u], env'[v])
    BY DEF InsertedApart, SameEvent
  <2> QED
    BY <1>3 DEF UniqueInv, InsertedApart
<1> QED
  BY <1>5, <1>6, <1>7, <1>8 DEF UniqueInv

\* Every step keeps the invariant.
LEMMA UniqueStep == UniqueInv /\ [Next]_vars => UniqueInv'
<1> SUFFICES ASSUME UniqueInv, [Next]_vars PROVE UniqueInv'
  OBVIOUS
<1> TypeOK /\ TypeOK'
  BY TypeStep DEF UniqueInv
<1>1. ASSUME NEW w \in Writer, NEW k \in KeyRef, UpsertSigner(w, k) PROVE Quiet
  BY <1>1 DEF UpsertSigner, Quiet, Inserted, tables, session
<1>2. ASSUME NEW t \in Txn, NEW e \in Envelope, Request(t, e) PROVE Quiet
  BY <1>2 DEF Request, Begin, Quiet, Inserted, TypeOK, tables
<1>3. ASSUME NEW t \in Txn, ReadExisting(t) PROVE Quiet
  BY <1>3 DEF ReadExisting, Quiet, Inserted, TypeOK, tables
<1>4. ASSUME NEW t \in Txn, AckDuplicate(t) PROVE Quiet
  BY <1>4, ReleaseQuiet DEF AckDuplicate
<1>5. ASSUME NEW t \in Txn, NotDuplicate(t) PROVE Quiet
  BY <1>5 DEF NotDuplicate, Quiet, Inserted, TypeOK, tables, session
<1>6. ASSUME NEW t \in Txn, InsertEvent(t) PROVE UniqueInv'
  BY <1>6, InsertUnique
<1>7. ASSUME NEW t \in Txn, ReadSource(t) PROVE Quiet
  BY <1>7 DEF ReadSource, Quiet, Inserted, TypeOK, tables
<1>8. ASSUME NEW t \in Txn, LockTarget(t) PROVE Quiet
  BY <1>8 DEF LockTarget, Quiet, Inserted, TypeOK, tables, session
<1>9. ASSUME NEW t \in Txn, LockSource(t) PROVE Quiet
  BY <1>9 DEF LockSource, Quiet, Inserted, TypeOK, tables, session
<1>10. ASSUME NEW t \in Txn, Commit(t) PROVE UniqueInv'
  BY <1>10, CommitUnique
<1>11. ASSUME NEW t \in Txn, Rollback(t) PROVE Quiet
  BY <1>11, ReleaseQuiet DEF Rollback, tables
<1>12. CASE UNCHANGED vars
  <2>1. Quiet
    BY <1>12 DEF vars, Quiet, Inserted
  <2> QED
    BY <2>1, QuietStep
<1> QED
  BY <1>1, <1>2, <1>3, <1>4, <1>5, <1>6, <1>7, <1>8, <1>9, <1>10, <1>11, <1>12,
     QuietStep
  DEF Next, Step, Fail

\* The log never holds two events of one idempotency key or one source sequence, nor two with
\* the same cursor, whatever requests race.
THEOREM WriteOnce == Spec => []LogUnique
<1>1. Init => UniqueInv
  <2>1. Init => TypeOK
    BY AnyEnvelopeType, NoRowType, RegistryAssumption
    DEF Init, TypeOK, Content, NoEvent
  <2>2. Init => LogUnique /\ IdsBounded /\ InsertedIsNew /\ InsertedApart
    BY DEF Init, LogUnique, IdsBounded, InsertedIsNew, InsertedApart, Inserted
  <2> QED
    BY <2>1, <2>2 DEF UniqueInv
<1>2. UniqueInv => LogUnique
  BY DEF UniqueInv
<1> QED
  BY <1>1, <1>2, UniqueStep, PTL DEF Spec

-----------------------------------------------------------------------------
(* What steps do.                                                            *)

\* Only the end of a transaction changes the tables.
LEMMA TableSteps ==
  ASSUME [Next]_vars
  PROVE  \/ \E t \in Txn : Commit(t)
         \/ \E t \in Txn : AckDuplicate(t)
         \/ UNCHANGED <<docs, log, chunks, jobs, acks>>
<1>1. CASE Next
  BY <1>1 DEF Next, Step, UpsertSigner, Request, ReadExisting, NotDuplicate, InsertEvent,
              ReadSource, LockTarget, LockSource, Fail, Rollback, tables
<1>2. CASE UNCHANGED vars
  BY <1>2 DEF vars
<1> QED
  BY <1>1, <1>2

\* Nothing is taken from the log or from the merge jobs.
LEMMA LogGrows ==
  ASSUME [Next]_vars
  PROVE  log \subseteq log' /\ jobs \subseteq jobs'
BY TableSteps DEF Commit, AckDuplicate

\* A transaction past ReadExisting keeps its envelope and the row it read; it gets the id of
\* its event once, from the sequence.
LEMMA CurSteps ==
  ASSUME TypeOK, [Next]_vars, NEW t \in Txn, pc'[t] \notin {"idle", "existing"}
  PROVE  /\ env'[t] = env[t]
         /\ \/ cur'[t] = docs[env[t].path] /\ pc'[t] = "dup"
            \/ /\ pc[t] \notin {"idle", "existing"} /\ cur'[t] = cur[t]
               /\ Inserted(t)' => \/ Inserted(t) /\ ev'[t] = ev[t]
                                  \/ ev'[t] = cursor + 1
<1> DEFINE Goal ==
      /\ env'[t] = env[t]
      /\ \/ cur'[t] = docs[env[t].path] /\ pc'[t] = "dup"
         \/ /\ pc[t] \notin {"idle", "existing"} /\ cur'[t] = cur[t]
            /\ Inserted(t)' => \/ Inserted(t) /\ ev'[t] = ev[t]
                               \/ ev'[t] = cursor + 1
<1>1. ASSUME NEW w \in Writer, NEW k \in KeyRef, UpsertSigner(w, k) PROVE Goal
  BY <1>1 DEF UpsertSigner, Inserted, session
<1>2. ASSUME NEW u \in Txn, NEW e \in Envelope, Request(u, e) PROVE Goal
  BY <1>2 DEF Request, Begin, Inserted, TypeOK
<1>3. ASSUME NEW u \in Txn, ReadExisting(u) PROVE Goal
  BY <1>3 DEF ReadExisting, Inserted, TypeOK
<1>4. ASSUME NEW u \in Txn, Release(u) PROVE Goal
  BY <1>4 DEF Release, Inserted, TypeOK
<1>5. ASSUME NEW u \in Txn, NotDuplicate(u) PROVE Goal
  BY <1>5 DEF NotDuplicate, Inserted, TypeOK, session
<1>6. ASSUME NEW u \in Txn, InsertEvent(u) PROVE Goal
  BY <1>6 DEF InsertEvent, Inserted, TypeOK
<1>7. ASSUME NEW u \in Txn, ReadSource(u) PROVE Goal
  BY <1>7 DEF ReadSource, Inserted, TypeOK
<1>8. ASSUME NEW u \in Txn, LockTarget(u) PROVE Goal
  BY <1>8 DEF LockTarget, Inserted, TypeOK, session
<1>9. ASSUME NEW u \in Txn, LockSource(u) PROVE Goal
  BY <1>9 DEF LockSource, Inserted, TypeOK, session
<1>10. CASE UNCHANGED vars
  BY <1>10 DEF vars, Inserted
<1> QED
  BY <1>1, <1>2, <1>3, <1>4, <1>5, <1>6, <1>7, <1>8, <1>9, <1>10
  DEF Next, Step, AckDuplicate, Commit, Fail, Rollback

-----------------------------------------------------------------------------
(* Rows and the events they name.  A row, once committed, is the work of one *)
(* event of the log; a transaction that has read a row keeps it, and the log *)
(* keeps the event.                                                          *)

\* The row r of path p is the work of event f.
RowOf(r, p, f) ==
  /\ r.event = f.id /\ r.at = f.ingested
  /\ IF r.live
     THEN /\ f.path = p /\ f.op # "delete" /\ f.writer = r.writer
          /\ ~(f.op = "move" /\ f.from = f.path)
          /\ (f.content = r.content \/ (f.op = "move" /\ f.content = {}))
     ELSE (f.op = "delete" /\ f.path = p) \/ (f.op = "move" /\ f.from = p)

DocsShown == \A p \in Path : docs[p] = NoRow \/ \E f \in log : RowOf(docs[p], p, f)

\* The row a transaction has read is the work of an event older than its own.
CurShown ==
  \A t \in Txn : pc[t] \notin {"idle", "existing"} =>
    \/ cur[t] = NoRow
    \/ \E f \in log : RowOf(cur[t], env[t].path, f) /\ (Inserted(t) => f.id < ev[t])

\* The body a move writes is its own, if it has one.
MovedBody ==
  \A t \in Txn : (pc[t] \in {"target", "fromRow", "commit"} /\ env[t].op = "move") =>
    env[t].content = {} \/ moved[t] = env[t].content

ShownInv == UniqueInv /\ DocsShown /\ CurShown /\ MovedBody

\* The row Commit leaves is the work of the event it logs.
LEMMA CommittedRow ==
  ASSUME TypeOK, MovedBody, NEW t \in Txn, pc[t] = "commit", NEW p \in Path
  PROVE  DocsAfter(t)[p] = docs[p] \/ RowOf(DocsAfter(t)[p], p, Event(t))
<1>1. /\ env[t] \in EnvelopeType /\ docs \in [Path -> RowType]
      /\ env[t].path \in Path /\ env[t].from \in Path
  BY DEF TypeOK, EnvelopeType
<1>2. CASE env[t].op = "move" /\ p = env[t].from
  BY <1>1, <1>2 DEF DocsAfter, WrittenDocs, WrittenRow, RowOf, Event
<1>3. CASE p = env[t].path /\ ~(env[t].op = "move" /\ p = env[t].from)
  <2>1. DocsAfter(t)[p] = WrittenRow(t)
    BY <1>1, <1>3 DEF DocsAfter, WrittenDocs
  <2>2. env[t].op = "move" => env[t].content = {} \/ moved[t] = env[t].content
    BY DEF MovedBody
  <2> DEFINE r == WrittenRow(t)
             f == Event(t)
  <2>3. /\ r.event = f.id /\ r.at = f.ingested /\ r.writer = f.writer
        /\ f.path = p /\ f.op = env[t].op /\ f.from = env[t].from
        /\ f.content = env[t].content
    BY <1>3 DEF WrittenRow, Event
  <2>4. CASE env[t].op = "delete"
    <3>1. r.live = FALSE
      BY <2>4 DEF WrittenRow
    <3> QED
      BY <2>1, <2>3, <2>4, <3>1 DEF RowOf
  <2>5. CASE env[t].op # "delete"
    <3>1. r.live = TRUE /\ r.content = Body(t)
      BY <2>5 DEF WrittenRow
    <3>2. f.content = r.content \/ (f.op = "move" /\ f.content = {})
      BY <2>2, <2>3, <3>1 DEF Body
    <3> QED
      BY <1>3, <2>1, <2>3, <2>5, <3>1, <3>2 DEF RowOf
  <2> QED
    BY <2>4, <2>5
<1>4. CASE p # env[t].path /\ ~(env[t].op = "move" /\ p = env[t].from)
  BY <1>1, <1>4 DEF DocsAfter, WrittenDocs
<1> QED
  BY <1>2, <1>3, <1>4

LEMMA DocsShownStep == ShownInv /\ [Next]_vars => DocsShown'
<1> SUFFICES ASSUME ShownInv, [Next]_vars, NEW p \in Path
             PROVE  docs'[p] = NoRow \/ \E f \in log' : RowOf(docs'[p], p, f)
  BY DEF DocsShown, RowOf
<1>1. docs[p] = NoRow \/ \E f \in log' : RowOf(docs[p], p, f)
  BY LogGrows DEF ShownInv, DocsShown
<1>2. ASSUME NEW t \in Txn, Commit(t)
      PROVE  docs'[p] = NoRow \/ \E f \in log' : RowOf(docs'[p], p, f)
  <2>1. docs' = DocsAfter(t) /\ Event(t) \in log' /\ pc[t] = "commit"
    BY <1>2 DEF Commit
  <2>2. docs'[p] = docs[p] \/ RowOf(docs'[p], p, Event(t))
    BY <2>1, CommittedRow DEF ShownInv, UniqueInv
  <2> QED
    BY <1>1, <2>1, <2>2
<1>3. CASE docs' = docs
  BY <1>1, <1>3
<1> QED
  BY <1>2, <1>3, TableSteps DEF AckDuplicate

LEMMA CurShownStep == ShownInv /\ [Next]_vars => CurShown'
<1> SUFFICES ASSUME ShownInv, [Next]_vars,
                    NEW t \in Txn, pc'[t] \notin {"idle", "existing"}
             PROVE  \/ cur'[t] = NoRow
                    \/ \E f \in log' : /\ RowOf(cur'[t], env'[t].path, f)
                                       /\ (Inserted(t)' => f.id < ev'[t])
  BY DEF CurShown, RowOf
<1>1. TypeOK /\ env'[t] = env[t]
  BY CurSteps DEF ShownInv, UniqueInv
<1>2. CASE cur'[t] = docs[env[t].path] /\ pc'[t] = "dup"
  <2>1. env[t].path \in Path
    BY <1>1 DEF TypeOK, EnvelopeType
  <2>2. ~Inserted(t)'
    BY <1>2 DEF Inserted
  <2> QED
    BY <1>1, <1>2, <2>1, <2>2, LogGrows DEF ShownInv, DocsShown
<1>3. CASE /\ pc[t] \notin {"idle", "existing"} /\ cur'[t] = cur[t]
           /\ Inserted(t)' => (Inserted(t) /\ ev'[t] = ev[t]) \/ ev'[t] = cursor + 1
  <2> SUFFICES ASSUME cur[t] # NoRow
               PROVE  \E f \in log' : /\ RowOf(cur[t], env[t].path, f)
                                     /\ (Inserted(t)' => f.id < ev'[t])
    BY <1>1, <1>3
  <2>1. PICK f \in log : RowOf(cur[t], env[t].path, f) /\ (Inserted(t) => f.id < ev[t])
    BY <1>3 DEF ShownInv, CurShown
  <2>2. f.id \in 1..cursor /\ cursor \in Nat
    BY DEF ShownInv, UniqueInv, IdsBounded, TypeOK
  <2>3. Inserted(t)' => f.id < ev'[t]
    BY <1>3, <2>1, <2>2
  <2> QED
    BY <2>1, <2>3, LogGrows
<1> QED
  BY <1>1, <1>2, <1>3, CurSteps

LEMMA MovedBodyStep == ShownInv /\ [Next]_vars => MovedBody'
<1> SUFFICES ASSUME ShownInv, [Next]_vars PROVE MovedBody'
  OBVIOUS
<1>1. TypeOK /\ MovedBody
  BY DEF ShownInv, UniqueInv
<1>2. ASSUME NEW w \in Writer, NEW k \in KeyRef, UpsertSigner(w, k) PROVE MovedBody'
  BY <1>1, <1>2 DEF UpsertSigner, MovedBody, session
<1>3. ASSUME NEW u \in Txn, NEW e \in Envelope, Request(u, e) PROVE MovedBody'
  BY <1>1, <1>3 DEF Request, Begin, MovedBody, TypeOK
<1>4. ASSUME NEW u \in Txn, ReadExisting(u) PROVE MovedBody'
  BY <1>1, <1>4 DEF ReadExisting, MovedBody, TypeOK
<1>5. ASSUME NEW u \in Txn, Release(u) PROVE MovedBody'
  BY <1>1, <1>5 DEF Release, MovedBody, TypeOK
<1>6. ASSUME NEW u \in Txn, NotDuplicate(u) PROVE MovedBody'
  BY <1>1, <1>6 DEF NotDuplicate, MovedBody, TypeOK, session
<1>7. ASSUME NEW u \in Txn, InsertEvent(u) PROVE MovedBody'
  BY <1>1, <1>7 DEF InsertEvent, MovedBody, TypeOK
<1>8. ASSUME NEW u \in Txn, ReadSource(u) PROVE MovedBody'
  BY <1>1, <1>8 DEF ReadSource, MovedBody, TypeOK
<1>9. ASSUME NEW u \in Txn, LockTarget(u) PROVE MovedBody'
  BY <1>1, <1>9 DEF LockTarget, MovedBody, TypeOK, session
<1>10. ASSUME NEW u \in Txn, LockSource(u) PROVE MovedBody'
  BY <1>1, <1>10 DEF LockSource, MovedBody, TypeOK, session
<1>11. CASE UNCHANGED vars
  BY <1>1, <1>11 DEF vars, MovedBody
<1> QED
  BY <1>2, <1>3, <1>4, <1>5, <1>6, <1>7, <1>8, <1>9, <1>10, <1>11
  DEF Next, Step, AckDuplicate, Commit, Fail, Rollback

LEMMA ShownStep == ShownInv /\ [Next]_vars => ShownInv'
BY UniqueStep, DocsShownStep, CurShownStep, MovedBodyStep DEF ShownInv

LEMMA ShownInit == Init => ShownInv
<1>1. Init => UniqueInv
  <2>1. Init => TypeOK
    BY AnyEnvelopeType, NoRowType, RegistryAssumption
    DEF Init, TypeOK, Content, NoEvent
  <2> QED
    BY <2>1 DEF Init, UniqueInv, LogUnique, IdsBounded, InsertedIsNew, InsertedApart,
                Inserted
<1> QED
  BY <1>1 DEF Init, ShownInv, DocsShown, CurShown, MovedBody

LEMMA ShownAlways == Spec => []ShownInv
BY ShownInit, ShownStep, PTL DEF Spec

\* The document table is a view of the log: a live row holds what the event it names wrote
\* to this path, a dead one names what deleted it or moved it away.
THEOREM ViewOfLog == Spec => []ViewMatchesLog
<1>1. ShownInv => ViewMatchesLog
  BY DEF ShownInv, DocsShown, ViewMatchesLog, RowOf, RowShows
<1> QED
  BY <1>1, ShownAlways, PTL

-----------------------------------------------------------------------------
(* Answers.                                                                  *)

Acked == \A a \in acks : \E f \in log : f.id = a.event /\ f.key = a.key

LEMMA AckedStep == Acked /\ [Next]_vars => Acked'
<1> SUFFICES ASSUME Acked, [Next]_vars, NEW a \in acks'
             PROVE  \E f \in log' : f.id = a.event /\ f.key = a.key
  BY DEF Acked
<1>1. CASE a \in acks
  BY <1>1, LogGrows DEF Acked
<1>2. CASE a \notin acks
  <2>1. ASSUME NEW t \in Txn, Commit(t)
        PROVE  \E f \in log' : f.id = a.event /\ f.key = a.key
    <3>1. Event(t) \in log' /\ a = [key |-> env[t].key, event |-> ev[t]]
      BY <1>2, <2>1 DEF Commit, Answer
    <3> QED
      BY <3>1 DEF Event
  <2>2. ASSUME NEW t \in Txn, AckDuplicate(t)
        PROVE  \E f \in log' : f.id = a.event /\ f.key = a.key
    <3>1. PICK f \in log : a = [key |-> f.key, event |-> f.id]
      BY <1>2, <2>2 DEF AckDuplicate, Answer
    <3> QED
      BY <3>1, LogGrows
  <2> QED
    BY <1>2, <2>1, <2>2, TableSteps
<1> QED
  BY <1>1, <1>2

\* A write answered with 200 is in the log for good, and every answer to its key names it: the
\* second half follows from the first because the log has one event per key.
THEOREM AnswersTrue == Spec => []AcksDurable
<1>1. Init => Acked
  BY DEF Init, Acked
<1>2. Acked /\ LogUnique => AcksDurable
  BY DEF Acked, LogUnique, SameEvent, AcksDurable
<1> QED
  BY <1>1, <1>2, AckedStep, WriteOnce, PTL DEF Spec

-----------------------------------------------------------------------------
(* Row locks.                                                                *)

LEMMA LocksStep == TypeOK /\ RowsExclusive /\ [Next]_vars => RowsExclusive'
<1> SUFFICES ASSUME TypeOK, RowsExclusive, [Next]_vars PROVE RowsExclusive'
  OBVIOUS
<1> DEFINE Fewer == \A t \in Txn : RowLocks(t)' \subseteq RowLocks(t)
<1>1. Fewer => RowsExclusive'
  BY DEF RowsExclusive
<1>2. ASSUME NEW w \in Writer, NEW k \in KeyRef, UpsertSigner(w, k) PROVE Fewer
  BY <1>2 DEF UpsertSigner, RowLocks, session
<1>3. ASSUME NEW u \in Txn, NEW e \in Envelope, Request(u, e) PROVE Fewer
  BY <1>3 DEF Request, Begin, RowLocks, TypeOK
<1>4. ASSUME NEW u \in Txn, ReadExisting(u) PROVE Fewer
  BY <1>4 DEF ReadExisting, RowLocks, TypeOK
<1>5. ASSUME NEW u \in Txn, Release(u) PROVE Fewer
  BY <1>5 DEF Release, RowLocks, TypeOK
<1>6. ASSUME NEW u \in Txn, NotDuplicate(u) PROVE Fewer
  BY <1>6 DEF NotDuplicate, RowLocks, TypeOK, session
<1>7. ASSUME NEW u \in Txn, InsertEvent(u) PROVE Fewer
  BY <1>7 DEF InsertEvent, RowLocks, TypeOK
<1>8. ASSUME NEW u \in Txn, ReadSource(u) PROVE Fewer
  BY <1>8 DEF ReadSource, RowLocks, TypeOK
<1>9. ASSUME NEW u \in Txn, LockTarget(u) \/ LockSource(u) PROVE RowsExclusive'
  <2>1. /\ RowFree(u) /\ env' = env
        /\ \A t \in Txn \ {u} : pc'[t] = pc[t]
    BY <1>9 DEF LockTarget, LockSource, TypeOK, session
  <2>2. RowLocks(u)' \subseteq RowLocks(u) \cup WantedRows(u)
    BY <1>9, <2>1 DEF LockTarget, LockSource, RowLocks, WantedRows, TypeOK
  <2>3. \A t \in Txn \ {u} : RowLocks(t)' = RowLocks(t)
    BY <2>1 DEF RowLocks
  <2>4. \A t \in Txn \ {u} : WantedRows(u) \cap RowLocks(t) = {}
    BY <2>1 DEF RowFree, RowBlocks
  <2> SUFFICES ASSUME NEW t \in Txn, NEW v \in Txn, t # v
               PROVE  RowLocks(t)' \cap RowLocks(v)' = {}
    BY DEF RowsExclusive
  <2>5. RowLocks(t) \cap RowLocks(v) = {}
    BY DEF RowsExclusive
  <2>6. CASE t = u
    BY <2>2, <2>3, <2>4, <2>5, <2>6
  <2>7. CASE v = u
    BY <2>2, <2>3, <2>4, <2>5, <2>7
  <2>8. CASE t # u /\ v # u
    BY <2>3, <2>5, <2>8
  <2> QED
    BY <2>6, <2>7, <2>8
<1>10. CASE UNCHANGED vars
  <2>1. Fewer
    BY <1>10 DEF vars, RowLocks
  <2> QED
    BY <1>1, <2>1
<1> HIDE DEF Fewer
<1> QED
  BY <1>1, <1>2, <1>3, <1>4, <1>5, <1>6, <1>7, <1>8, <1>9, <1>10
  DEF Next, Step, AckDuplicate, Commit, Fail, Rollback

\* No two open transactions have written one document row.
THEOREM LocksExclusive == Spec => []RowsExclusive
<1>1. Init => RowsExclusive
  BY DEF Init, RowsExclusive, RowLocks
<1> QED
  BY <1>1, LocksStep, TypeCorrect, PTL DEF Spec

-----------------------------------------------------------------------------
(* The chunk index.                                                          *)

LEMMA IndexStep == TypeOK /\ IndexMatchesView /\ [Next]_vars => IndexMatchesView'
<1> SUFFICES ASSUME TypeOK, IndexMatchesView, [Next]_vars, NEW p \in Path
             PROVE  IF docs'[p].live THEN chunks'[p] = docs'[p].content
                    ELSE chunks'[p] = {} \/ MovedOntoItself(p)'
  BY DEF IndexMatchesView, MovedOntoItself
<1>1. IF docs[p].live THEN chunks[p] = docs[p].content
      ELSE chunks[p] = {} \/ MovedOntoItself(p)
  BY DEF IndexMatchesView
<1>2. CASE docs'[p] = docs[p] /\ chunks'[p] = chunks[p]
  <2>1. MovedOntoItself(p) => MovedOntoItself(p)'
    BY <1>2, LogGrows DEF MovedOntoItself
  <2> QED
    BY <1>1, <1>2, <2>1
<1>3. ASSUME NEW t \in Txn, Commit(t), p \in {env[t].path, env[t].from},
             ~(docs'[p] = docs[p] /\ chunks'[p] = chunks[p])
      PROVE  IF docs'[p].live THEN chunks'[p] = docs'[p].content
             ELSE chunks'[p] = {} \/ MovedOntoItself(p)'
  <2>1. /\ docs' = DocsAfter(t) /\ chunks' = ChunksAfter(t) /\ Event(t) \in log'
        /\ docs \in [Path -> RowType] /\ chunks \in [Path -> Content]
        /\ env[t].path \in Path /\ env[t].from \in Path
        /\ env[t].op \in {"upsert", "merge", "delete", "move"}
    BY <1>3 DEF Commit, TypeOK, EnvelopeType, Op
  <2>2. CASE env[t].op = "move" /\ p = env[t].from /\ p = env[t].path
    <3>1. docs'[p].event = ev[t] /\ docs'[p].live = FALSE
      BY <2>1, <2>2 DEF DocsAfter, WrittenDocs, WrittenRow
    <3>2. MovedOntoItself(p)'
      BY <2>1, <2>2, <3>1 DEF MovedOntoItself, Event
    <3> QED
      BY <3>1, <3>2
  <2>3. CASE env[t].op = "move" /\ p = env[t].from /\ p # env[t].path
    <3>1. docs'[p].live = FALSE /\ chunks'[p] = {}
      BY <2>1, <2>3 DEF DocsAfter, WrittenDocs, ChunksAfter
    <3> QED
      BY <3>1
  <2>4. CASE p = env[t].path /\ env[t].op = "delete"
    <3>1. docs'[p].live = FALSE /\ chunks'[p] = {}
      BY <2>1, <2>4 DEF DocsAfter, WrittenDocs, WrittenRow, ChunksAfter
    <3> QED
      BY <3>1
  <2>5. CASE /\ p = env[t].path /\ env[t].op # "delete"
             /\ ~(env[t].op = "move" /\ p = env[t].from)
    <3>1. docs'[p] = WrittenRow(t) /\ chunks'[p] = Body(t)
      BY <2>1, <2>5 DEF DocsAfter, WrittenDocs, ChunksAfter
    <3>2. WrittenRow(t).live = TRUE /\ WrittenRow(t).content = Body(t)
      BY <2>5 DEF WrittenRow
    <3> QED
      BY <3>1, <3>2
  <2>6. CASE p # env[t].path /\ env[t].op # "move"
    <3>1. docs'[p] = docs[p] /\ chunks'[p] = chunks[p]
      BY <2>1, <2>6 DEF DocsAfter, WrittenDocs, ChunksAfter
    <3> QED
      BY <1>3, <3>1
  <2> QED
    BY <1>3, <2>2, <2>3, <2>4, <2>5, <2>6
<1>4. ASSUME NEW t \in Txn, Commit(t), p \notin {env[t].path, env[t].from}
      PROVE  docs'[p] = docs[p] /\ chunks'[p] = chunks[p]
  <2>1. /\ docs' = DocsAfter(t) /\ chunks' = ChunksAfter(t)
        /\ docs \in [Path -> RowType] /\ chunks \in [Path -> Content]
    BY <1>4 DEF Commit, TypeOK
  <2> QED
    BY <1>4, <2>1 DEF DocsAfter, WrittenDocs, ChunksAfter
<1> QED
  BY <1>2, <1>3, <1>4, TableSteps DEF AckDuplicate

\* A live document is indexed with exactly its body, a deleted one is not indexed, but for the
\* note that was moved onto itself.
THEOREM IndexOfView == Spec => []IndexMatchesView
<1>1. Init => IndexMatchesView
  BY DEF Init, IndexMatchesView, NoRow
<1> QED
  BY <1>1, IndexStep, TypeCorrect, PTL DEF Spec

-----------------------------------------------------------------------------
(* Conflicts.  What the conflict test of a transaction saw is the row an     *)
(* event of the log left, and it is this very event the new one supersedes.  *)

ConflictInv == SupersedesEarlier /\ ConflictsQueued /\ JobsNameConflicts

\* The facts about a transaction that commits.
LEMMA Committing ==
  ASSUME ShownInv, NEW t \in Txn, Commit(t)
  PROVE  /\ ev[t] \in 1..cursor /\ cur[t].event \in Nat
         /\ \A f \in log : f.id # ev[t] /\ f.id \in 1..cursor
         /\ cur[t] = NoRow \/ \E f \in log : RowOf(cur[t], env[t].path, f) /\ f.id < ev[t]
         /\ log' = log \cup {Event(t)}
         /\ jobs' = jobs \cup PlaceholderJobs(t) \cup EventJobs(t)
<1>1. pc[t] = "commit" /\ Inserted(t)
  BY DEF Commit, Inserted
<1>2. cur[t].event \in Nat
  BY DEF ShownInv, UniqueInv, TypeOK, RowType
<1> QED
  BY <1>1, <1>2 DEF Commit, ShownInv, UniqueInv, IdsBounded, InsertedIsNew, CurShown

LEMMA SupersedesStep == ShownInv /\ SupersedesEarlier /\ [Next]_vars => SupersedesEarlier'
<1> SUFFICES ASSUME ShownInv, SupersedesEarlier, [Next]_vars,
                    NEW e \in log', e.supersedes # NoEvent
             PROVE  \E f \in log' :
                      /\ f.id = e.supersedes /\ f.id < e.id
                      /\ (f.path = e.path \/ (f.op = "move" /\ f.from = e.path))
  BY DEF SupersedesEarlier
<1>1. CASE e \in log
  BY <1>1, LogGrows DEF SupersedesEarlier
<1>2. ASSUME NEW t \in Txn, Commit(t), e = Event(t)
      PROVE  \E f \in log' :
               /\ f.id = e.supersedes /\ f.id < e.id
               /\ (f.path = e.path \/ (f.op = "move" /\ f.from = e.path))
  <2>1. e.supersedes = cur[t].event /\ e.id = ev[t] /\ e.path = env[t].path
    BY <1>2 DEF Event
  <2>2. cur[t] # NoRow
    BY <2>1 DEF NoRow
  <2>3. PICK f \in log : RowOf(cur[t], env[t].path, f) /\ f.id < ev[t]
    BY <1>2, <2>2, Committing
  <2>4. f.path = e.path \/ (f.op = "move" /\ f.from = e.path)
    BY <2>1, <2>3 DEF RowOf
  <2> QED
    BY <2>1, <2>3, <2>4, LogGrows DEF RowOf
<1> QED
  BY <1>1, <1>2, TableSteps DEF Commit, AckDuplicate

\* The event a transaction's row comes from is the one its own event overwrites, and a job is
\* queued for both exactly when they are in conflict.
LEMMA QueuedIffOverwrites ==
  ASSUME ShownInv, NEW t \in Txn, Commit(t), NEW b \in log, RowOf(cur[t], env[t].path, b)
  PROVE  Overwrites(Event(t), b) <=> MergeQueued(t)
<1> DEFINE e == Event(t)
<1>1. /\ e.supersedes = cur[t].event /\ e.path = env[t].path /\ e.at = env[t].at
      /\ e.writer = env[t].writer
  BY DEF Event
<1>2. b.id = cur[t].event /\ b.ingested = cur[t].at
  BY DEF RowOf
<1>3. CASE cur[t].live
  <2>1. /\ b.path = env[t].path /\ b.op # "delete" /\ ~(b.op = "move" /\ b.from = b.path)
        /\ b.writer = cur[t].writer
    BY <1>3 DEF RowOf
  <2> HIDE DEF e
  <2> QED
    BY <1>1, <1>2, <1>3, <2>1 DEF Overwrites, MergeQueued, Conflict, e
<1>4. CASE ~cur[t].live
  <2>1. ~Overwrites(e, b)
    <3>1. (b.op = "delete" /\ b.path = e.path) \/ (b.op = "move" /\ b.from = e.path)
      BY <1>1, <1>4 DEF RowOf
    <3> QED
      BY <3>1 DEF Overwrites
  <2> QED
    BY <1>4, <2>1 DEF MergeQueued, Conflict
<1> QED
  BY <1>3, <1>4

LEMMA QueuedStep ==
  ShownInv /\ ConflictInv /\ [Next]_vars => ConflictsQueued'
<1> SUFFICES ASSUME ShownInv, ConflictInv, [Next]_vars,
                    NEW e \in log', NEW b \in log', Overwrites(e, b)
             PROVE  \E j \in jobs' : j.incoming = e.id /\ j.base = b.id /\ j.path = e.path
  BY DEF ConflictsQueued, Overwrites
<1>1. CASE e \in log /\ b \in log
  BY <1>1, LogGrows DEF ConflictInv, ConflictsQueued
<1>2. ASSUME NEW t \in Txn, Commit(t), ~(e \in log /\ b \in log)
      PROVE  \E j \in jobs' : j.incoming = e.id /\ j.base = b.id /\ j.path = e.path
  <2>1. /\ ev[t] \in 1..cursor /\ cur[t].event \in Nat
        /\ \A f \in log : f.id # ev[t] /\ f.id \in 1..cursor
        /\ cur[t] = NoRow \/ \E f \in log : RowOf(cur[t], env[t].path, f) /\ f.id < ev[t]
        /\ log' = log \cup {Event(t)}
        /\ jobs' = jobs \cup PlaceholderJobs(t) \cup EventJobs(t)
    BY <1>2, Committing
  <2>2. /\ Event(t).id = ev[t] /\ Event(t).supersedes = cur[t].event
        /\ Event(t).path = env[t].path
    BY DEF Event
  <2>3. b.id = e.supersedes
    BY DEF Overwrites
  <2>4. cursor \in Nat
    BY DEF ShownInv, UniqueInv, TypeOK
  <2>5. ASSUME e \in log PROVE FALSE
    <3>1. b = Event(t) /\ e.supersedes = ev[t]
      BY <1>2, <2>1, <2>2, <2>3, <2>5
    <3>2. e.supersedes # NoEvent
      BY <2>1, <2>4, <3>1 DEF NoEvent
    <3>3. PICK f \in log : f.id = e.supersedes
      BY <2>5, <3>2 DEF ConflictInv, SupersedesEarlier
    <3> QED
      BY <2>1, <3>1, <3>3
  <2>6. e = Event(t)
    BY <2>1, <2>5
  <2>7. cur[t].event = NoEvent \/ cur[t].event < ev[t]
    BY <2>1 DEF RowOf, NoRow
  <2>8. b \in log
    BY <2>1, <2>2, <2>3, <2>4, <2>6, <2>7 DEF NoEvent
  <2>9. cur[t] # NoRow
    BY <2>1, <2>2, <2>3, <2>4, <2>6, <2>8 DEF NoRow, NoEvent
  <2>10. PICK f \in log : RowOf(cur[t], env[t].path, f)
    BY <2>1, <2>9
  <2>11. f = b
    BY <2>2, <2>3, <2>6, <2>8, <2>10 DEF RowOf, ShownInv, UniqueInv, LogUnique
  <2>12. MergeQueued(t)
    BY <1>2, <2>6, <2>8, <2>10, <2>11, QueuedIffOverwrites
  <2>13. MergeJob(t, ev[t]) \in jobs'
    BY <2>1, <2>12 DEF EventJobs
  <2> QED
    BY <2>2, <2>3, <2>6, <2>13 DEF MergeJob
<1> QED
  BY <1>1, <1>2, TableSteps DEF AckDuplicate

LEMMA NamedStep ==
  ShownInv /\ ConflictInv /\ [Next]_vars => JobsNameConflicts'
<1> SUFFICES ASSUME ShownInv, ConflictInv, [Next]_vars,
                    NEW j \in jobs', j.incoming # Placeholder
             PROVE  \E e, b \in log' :
                      e.id = j.incoming /\ b.id = j.base /\ Overwrites(e, b)
  BY DEF JobsNameConflicts, Overwrites, Placeholder
<1>1. CASE j \in jobs
  BY <1>1, LogGrows DEF ConflictInv, JobsNameConflicts
<1>2. ASSUME NEW t \in Txn PROVE j \notin PlaceholderJobs(t)
  BY DEF PlaceholderJobs, MergeJob
<1>3. ASSUME NEW t \in Txn, Commit(t), j \notin jobs
      PROVE  \E e, b \in log' :
               e.id = j.incoming /\ b.id = j.base /\ Overwrites(e, b)
  <2>1. MergeQueued(t) /\ j = MergeJob(t, ev[t])
    BY <1>2, <1>3 DEF Commit, EventJobs
  <2>2. cur[t] # NoRow
    BY <2>1 DEF MergeQueued, Conflict, NoRow
  <2>3. PICK b \in log : RowOf(cur[t], env[t].path, b)
    BY <1>3, <2>2, Committing
  <2>4. Overwrites(Event(t), b)
    BY <1>3, <2>1, <2>3, QueuedIffOverwrites
  <2>5. Event(t).id = j.incoming /\ b.id = j.base
    BY <2>1, <2>3 DEF Event, MergeJob, RowOf
  <2> QED
    BY <1>3, <2>4, <2>5 DEF Commit
<1> QED
  BY <1>1, <1>2, <1>3, TableSteps DEF AckDuplicate

\* The chain of superseded events is closed and goes back in time; a merge job is queued for
\* every event that overwrites another writer's newer one, and, but for placeholders, for
\* nothing else.
LEMMA ConflictAlways == Spec => []ConflictInv
<1>1. Init => ConflictInv
  BY DEF Init, ConflictInv, SupersedesEarlier, ConflictsQueued, JobsNameConflicts
<1>2. ShownInv /\ ConflictInv /\ [Next]_vars => ConflictInv'
  BY SupersedesStep, QueuedStep, NamedStep DEF ConflictInv
<1> QED
  BY <1>1, <1>2, ShownAlways, PTL DEF Spec

\* Every event that overwrites another writer's newer one has its merge job.
THEOREM ConflictsAreQueued == Spec => []ConflictsQueued
<1>1. ConflictInv => ConflictsQueued
  BY DEF ConflictInv
<1> QED
  BY <1>1, ConflictAlways, PTL

\* A merge job that names an event names one that overwrote the event named as its base.
THEOREM JobsAreConflicts == Spec => []JobsNameConflicts
<1>1. ConflictInv => JobsNameConflicts
  BY DEF ConflictInv
<1> QED
  BY <1>1, ConflictAlways, PTL

\* An event supersedes an older one of the log that touched its path.
THEOREM SupersedesBackwards == Spec => []SupersedesEarlier
<1>1. ConflictInv => SupersedesEarlier
  BY DEF ConflictInv
<1> QED
  BY <1>1, ConflictAlways, PTL

-----------------------------------------------------------------------------
(* The refinement.  A commit is one step of MemoryView: the event it appends *)
(* is new to the log (WriteOnce), and a move that brings no body of its own  *)
(* moves one that is in the log.                                             *)

Sent == {f.content : f \in log}
SentInv ==
  /\ \A p \in Path : docs[p].live => docs[p].content \in Sent
  /\ \A t \in Txn :
       (/\ pc[t] \in {"target", "fromRow", "commit"} /\ env[t].op = "move"
        /\ env[t].content = {}) => moved[t] \in Sent

\* Where a committed transaction's rows and chunks are not written, they stay.
LEMMA CommitOthers ==
  ASSUME TypeOK, NEW t \in Txn, Commit(t), NEW p \in Path, p # env[t].path,
         env[t].op = "move" => p # env[t].from
  PROVE  docs'[p] = docs[p] /\ chunks'[p] = chunks[p]
<1>1. /\ docs' = DocsAfter(t) /\ chunks' = ChunksAfter(t)
      /\ docs \in [Path -> RowType] /\ chunks \in [Path -> Content]
  BY DEF Commit, TypeOK
<1> QED
  BY <1>1 DEF DocsAfter, WrittenDocs, ChunksAfter

\* The row and the chunks of the target, unless they are those of the source as well.
LEMMA CommitTarget ==
  ASSUME TypeOK, NEW t \in Txn, Commit(t), ~(env[t].op = "move" /\ env[t].from = env[t].path)
  PROVE  /\ docs'[env[t].path] = WrittenRow(t)
         /\ chunks'[env[t].path] = IF env[t].op = "delete" THEN {} ELSE Body(t)
<1>1. /\ docs' = DocsAfter(t) /\ chunks' = ChunksAfter(t)
      /\ docs \in [Path -> RowType] /\ chunks \in [Path -> Content]
      /\ env[t].path \in Path
  BY DEF Commit, TypeOK, EnvelopeType
<1> QED
  BY <1>1 DEF DocsAfter, WrittenDocs, ChunksAfter

\* The row and the chunks of a move's source.
LEMMA CommitSource ==
  ASSUME TypeOK, NEW t \in Txn, Commit(t), env[t].op = "move", env[t].from # env[t].path
  PROVE  /\ docs'[env[t].from] = [docs[env[t].from] EXCEPT !.event = ev[t],
                                         !.at = begun[t], !.live = FALSE]
         /\ chunks'[env[t].from] = {}
<1>1. /\ docs' = DocsAfter(t) /\ chunks' = ChunksAfter(t)
      /\ docs \in [Path -> RowType] /\ chunks \in [Path -> Content]
      /\ env[t].path \in Path /\ env[t].from \in Path
  BY DEF Commit, TypeOK, EnvelopeType
<1> QED
  BY <1>1 DEF DocsAfter, WrittenDocs, ChunksAfter

LEMMA SentStep == ShownInv /\ SentInv /\ [Next]_vars => SentInv'
<1> SUFFICES ASSUME ShownInv, SentInv, [Next]_vars PROVE SentInv'
  OBVIOUS
<1>1. TypeOK /\ MovedBody
  BY DEF ShownInv, UniqueInv
<1>2. Sent \subseteq Sent'
  BY LogGrows DEF Sent
<1>3. ASSUME NEW p \in Path, docs'[p].live PROVE docs'[p].content \in Sent'
  <2>1. CASE docs'[p] = docs[p]
    BY <1>2, <1>3, <2>1 DEF SentInv
  <2>2. ASSUME NEW t \in Txn, Commit(t), docs'[p] # docs[p]
        PROVE  docs'[p].content \in Sent'
    <3>1. /\ pc[t] = "commit" /\ Event(t) \in log'
          /\ docs \in [Path -> RowType] /\ env[t].from \in Path
          /\ docs' = DocsAfter(t)
      BY <1>1, <2>2 DEF Commit, TypeOK, EnvelopeType
    <3>2. ~(env[t].op = "move" /\ p = env[t].from)
      BY <1>1, <1>3, <3>1 DEF DocsAfter, WrittenDocs, WrittenRow, TypeOK, EnvelopeType
    <3>3. p = env[t].path
      BY <1>1, <2>2, <3>2, CommitOthers
    <3>4. docs'[p] = WrittenRow(t)
      BY <1>1, <2>2, <3>2, <3>3, CommitTarget
    <3>5. env[t].op # "delete"
      <4> SUFFICES ASSUME env[t].op = "delete" PROVE FALSE
        OBVIOUS
      <4>1. WrittenRow(t).live = FALSE
        BY DEF WrittenRow
      <4> QED
        BY <1>3, <3>4, <4>1
    <3>6. docs'[p].content = Body(t)
      BY <3>4, <3>5 DEF WrittenRow
    <3>7. env[t].content \in Sent'
      BY <3>1 DEF Sent, Event
    <3>8. Body(t) \in Sent' \cup Sent
      BY <1>1, <3>1, <3>7 DEF Body, SentInv, MovedBody
    <3> QED
      BY <1>2, <3>6, <3>8
  <2> QED
    BY <2>1, <2>2, TableSteps DEF AckDuplicate
<1>4. ASSUME NEW t \in Txn, pc'[t] \in {"target", "fromRow", "commit"},
             env'[t].op = "move", env'[t].content = {}
      PROVE  moved'[t] \in Sent'
  <2> DEFINE Kept == /\ pc[t] \in {"target", "fromRow", "commit"}
                     /\ env'[t] = env[t] /\ moved'[t] = moved[t]
  <2>1. Kept => moved'[t] \in Sent'
    BY <1>2, <1>4 DEF SentInv
  <2>2. ASSUME NEW u \in Txn, ReadSource(u) PROVE moved'[t] \in Sent'
    <3>1. CASE u = t
      <4>1. /\ docs[env[t].from].live /\ env' = env /\ env[t].from \in Path
            /\ moved'[t] = docs[env[t].from].content
        BY <1>1, <1>4, <2>2, <3>1 DEF ReadSource, TypeOK, EnvelopeType
      <4> QED
        BY <1>2, <4>1 DEF SentInv
    <3>2. CASE u # t
      <4>1. Kept
        BY <1>1, <1>4, <2>2, <3>2 DEF ReadSource, TypeOK
      <4> QED
        BY <2>1, <4>1
    <3> QED
      BY <3>1, <3>2
  <2>3. ASSUME NEW w \in Writer, NEW k \in KeyRef, UpsertSigner(w, k) PROVE Kept
    BY <1>4, <2>3 DEF UpsertSigner, session
  <2>4. ASSUME NEW u \in Txn, NEW e \in Envelope, Request(u, e) PROVE Kept
    BY <1>1, <1>4, <2>4 DEF Request, Begin, TypeOK
  <2>5. ASSUME NEW u \in Txn, ReadExisting(u) PROVE Kept
    BY <1>1, <1>4, <2>5 DEF ReadExisting, TypeOK
  <2>6. ASSUME NEW u \in Txn, Release(u) PROVE Kept
    BY <1>1, <1>4, <2>6 DEF Release, TypeOK
  <2>7. ASSUME NEW u \in Txn, NotDuplicate(u) PROVE Kept
    BY <1>1, <1>4, <2>7 DEF NotDuplicate, TypeOK, session
  <2>8. ASSUME NEW u \in Txn, InsertEvent(u) PROVE Kept
    BY <1>1, <1>4, <2>8 DEF InsertEvent, TypeOK
  <2>9. ASSUME NEW u \in Txn, LockTarget(u) \/ LockSource(u) PROVE Kept
    BY <1>1, <1>4, <2>9 DEF LockTarget, LockSource, TypeOK, session
  <2>10. CASE UNCHANGED vars
    <3>1. Kept
      BY <1>4, <2>10 DEF vars
    <3> QED
      BY <2>1, <3>1
  <2> HIDE DEF Kept
  <2> QED
    BY <2>1, <2>2, <2>3, <2>4, <2>5, <2>6, <2>7, <2>8, <2>9, <2>10
    DEF Next, Step, AckDuplicate, Commit, Fail, Rollback
<1> QED
  BY <1>3, <1>4 DEF SentInv

\* A commit appends its event and changes what the event's operation says.
LEMMA CommitAppends ==
  ASSUME ShownInv, SentInv, NEW t \in Txn, Commit(t)
  PROVE  View!Append
<1> DEFINE f == Event(t)
<1>1. /\ pc[t] = "commit" /\ Inserted(t) /\ log' = log \cup {f} /\ jobs \subseteq jobs'
      /\ \A j \in jobs' \ jobs : j.incoming \in {0, ev[t]}
      /\ TypeOK /\ MovedBody
  BY DEF Commit, Inserted, PlaceholderJobs, EventJobs, MergeJob, Placeholder, ShownInv,
         UniqueInv
<1>2. /\ f.id = ev[t] /\ f.key = env[t].key /\ f.seq = env[t].seq /\ f.op = env[t].op
      /\ f.path = env[t].path /\ f.from = env[t].from /\ f.content = env[t].content
      /\ f.writer = env[t].writer /\ f.ingested = begun[t]
  BY DEF Event
<1>3. /\ env[t].path \in Path /\ env[t].from \in Path
      /\ env[t].op \in {"upsert", "merge", "delete", "move"}
      /\ docs[env[t].from] \in RowType
  BY <1>1 DEF TypeOK, EnvelopeType, Op
<1> HIDE DEF f
<1>4. View!Fresh(f)
  BY <1>1, <1>2 DEF View!Fresh, ShownInv, UniqueInv, InsertedIsNew, SameEvent
<1>5. View!Queued(f)
  BY <1>1, <1>2 DEF View!Queued
<1>6. CASE env[t].op \in {"upsert", "merge"}
  <2>1. docs'[f.path] = WrittenRow(t) /\ chunks'[f.path] = env[t].content
    BY <1>1, <1>2, <1>6, CommitTarget DEF Body
  <2>2. WrittenRow(t) = [content |-> f.content, writer |-> f.writer, event |-> f.id,
                         at |-> f.ingested, live |-> TRUE]
    BY <1>2, <1>6 DEF WrittenRow, Body
  <2>3. View!OthersKeep({f.path})
    BY <1>1, <1>2, <1>6, CommitOthers DEF View!OthersKeep
  <2> QED
    BY <1>1, <1>2, <1>4, <1>5, <1>6, <2>1, <2>2, <2>3
    DEF View!Append, View!Write, View!Shows
<1>7. CASE env[t].op = "delete"
  <2>1. docs'[f.path] = WrittenRow(t) /\ chunks'[f.path] = {}
    BY <1>1, <1>2, <1>7, CommitTarget
  <2>2. WrittenRow(t) = [content |-> docs[f.path].content, writer |-> f.writer,
                         event |-> f.id, at |-> f.ingested, live |-> FALSE]
    BY <1>2, <1>7 DEF WrittenRow
  <2>3. View!OthersKeep({f.path})
    BY <1>1, <1>2, <1>7, CommitOthers DEF View!OthersKeep
  <2>4. View!Hides(f.path, f)
    BY <2>1, <2>2 DEF View!Hides
  <2> QED
    BY <1>1, <1>2, <1>4, <1>5, <1>7, <2>3, <2>4 DEF View!Append, View!Delete
<1>8. CASE env[t].op = "move" /\ env[t].from # env[t].path
  <2>1. docs'[f.path] = WrittenRow(t) /\ chunks'[f.path] = moved[t]
    BY <1>1, <1>2, <1>8, CommitTarget DEF Body
  <2>2. WrittenRow(t) = [content |-> moved[t], writer |-> f.writer, event |-> f.id,
                         at |-> f.ingested, live |-> TRUE]
    BY <1>2, <1>8 DEF WrittenRow, Body
  <2>3. moved[t] \in IF f.content = {} THEN View!Bodies ELSE {f.content}
    BY <1>1, <1>2, <1>8 DEF View!Bodies, SentInv, Sent, MovedBody
  <2>4. View!Shows(f.path, f, moved[t])
    BY <2>1, <2>2 DEF View!Shows
  <2>5. View!Hides(f.from, f)
    <3>1. /\ docs'[f.from] = [docs[f.from] EXCEPT !.event = f.id, !.at = f.ingested,
                                                 !.live = FALSE]
          /\ chunks'[f.from] = {}
      BY <1>1, <1>2, <1>8, CommitSource
    <3>2. docs[f.from] \in RowType
      BY <1>2, <1>3
    <3>3. /\ docs'[f.from].content = docs[f.from].content
          /\ docs'[f.from].event = f.id /\ docs'[f.from].at = f.ingested
          /\ docs'[f.from].live = FALSE
      BY <3>1, <3>2 DEF RowType
    <3> QED
      BY <3>1, <3>3 DEF View!Hides
  <2>6. View!OthersKeep({f.path, f.from})
    BY <1>1, <1>2, <1>8, CommitOthers DEF View!OthersKeep
  <2>7. View!Move(f)
    BY <1>2, <1>8, <2>3, <2>4, <2>5, <2>6 DEF View!Move
  <2> QED
    BY <1>1, <1>4, <1>5, <2>7 DEF View!Append
<1>9. CASE env[t].op = "move" /\ env[t].from = env[t].path
  <2>1. /\ docs' = DocsAfter(t) /\ chunks' = ChunksAfter(t)
        /\ docs \in [Path -> RowType] /\ chunks \in [Path -> Content]
    BY <1>1 DEF Commit, TypeOK
  <2>2. /\ docs'[f.path] = [WrittenRow(t) EXCEPT !.event = ev[t], !.at = begun[t],
                                                !.live = FALSE]
        /\ chunks'[f.path] = Body(t)
    BY <1>2, <1>3, <1>9, <2>1 DEF DocsAfter, WrittenDocs, ChunksAfter
  <2>3. WrittenRow(t).content = Body(t)
    BY <1>9 DEF WrittenRow
  <2>4. /\ docs'[f.path].live = FALSE /\ docs'[f.path].event = f.id
        /\ docs'[f.path].content = Body(t)
    BY <1>2, <2>2, <2>3 DEF WrittenRow
  <2>5. View!OthersKeep({f.path})
    BY <1>1, <1>2, <1>9, CommitOthers DEF View!OthersKeep
  <2>6. View!MoveOntoItself(f)
    BY <1>2, <1>9, <2>2, <2>4, <2>5 DEF View!MoveOntoItself
  <2> QED
    BY <1>1, <1>4, <1>5, <2>6 DEF View!Append
<1> QED
  BY <1>3, <1>6, <1>7, <1>8, <1>9

\* A step of a transaction is one step of the abstract store or none.
LEMMA ViewStep ==
  ASSUME ShownInv, SentInv, [Next]_vars
  PROVE  [View!Next]_(View!vars)
<1>1. ASSUME NEW t \in Txn, Commit(t) PROVE View!Next
  BY <1>1, CommitAppends DEF View!Next
<1>2. ASSUME NEW t \in Txn, AckDuplicate(t) PROVE View!Next
  <2>1. /\ jobs' = jobs \cup PlaceholderJobs(t) /\ UNCHANGED <<docs, log, chunks>>
        /\ \A j \in PlaceholderJobs(t) : j.incoming = 0
    BY <1>2 DEF AckDuplicate, PlaceholderJobs, MergeJob, Placeholder
  <2> QED
    BY <2>1 DEF View!Next, View!QueuePlaceholder
<1>3. CASE UNCHANGED <<docs, log, chunks, jobs, acks>>
  BY <1>3 DEF View!vars
<1> QED
  BY <1>1, <1>2, <1>3, TableSteps

\* The tables of a core behave as MemoryView says: every step of a transaction is one step of
\* the abstract store or none.
THEOREM StoreImplementsView == Spec => ImplementsView
<1>1. Init => View!Init /\ SentInv
  BY DEF Init, View!Init, NoRow, NoEvent, SentInv
<1>2. ShownInv /\ SentInv /\ [Next]_vars => [View!Next]_(View!vars)
  BY ViewStep
<1> QED
  BY <1>1, <1>2, SentStep, ShownAlways, PTL DEF Spec, ImplementsView, View!Spec

=============================================================================
