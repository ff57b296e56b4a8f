---------------------------- MODULE MemoryStore ----------------------------
(***************************************************************************)
(* One data-core instance: the tables of its Postgres database and the     *)
(* transactions that MemoryStore.applyWriteEnvelope runs on them           *)
(* (services/data-core/src/memory-store.ts).                               *)
(*                                                                         *)
(* Each request is one READ COMMITTED transaction; the awaits between its  *)
(* statements let the transactions of a core interleave, so a transaction  *)
(* is a small state machine:                                               *)
(*                                                                         *)
(*   idle --Request--> existing --> dup --> insert --> [source] -->        *)
(*        target --> [fromRow] --> commit --> idle                         *)
(*                                                                         *)
(* What a transaction reads is kept in env, cur and moved until it commits *)
(* or rolls back; what it has written is visible to the others at Commit   *)
(* only.  The locks a transaction holds follow from its program counter.   *)
(*                                                                         *)
(* Abstracted: a Markdown body is a set of lines, a domain and a canonical *)
(* path are one Path, the titles, tags, embeddings and link graph are left *)
(* out, the signature proper is external (wallet-enclave) and shows as the *)
(* keyRef an envelope is signed with.                                      *)
(***************************************************************************)
EXTENDS Naturals, FiniteSets

CONSTANTS
  Txn,          \* the connections of the pool (db.ts): concurrent transactions
  Path,         \* documents: (domain, canonical path) pairs
  Writer,       \* metadata.writerId
  KeyRef,       \* signing keys
  Line,         \* the lines a body is made of
  Key,          \* idempotency keys
  Seq,          \* (sourceCoreId, sourceSeq) pairs
  Envelope,     \* the requests clients send
  None,         \* no signer registered, no writer
  Registry,     \* the signer registry the core starts with
  MaxRequests   \* bound: transactions begun in a behaviour

Content == SUBSET Line
Op == {"upsert", "merge", "delete", "move"}

\* schema.ts: memoryWriteEnvelopeSchema.  `from` is metadata.fromCanonicalPath and
\* `at` is event.occurredAt; `from` is read for a move only.
EnvelopeType ==
  [op: Op, path: Path, from: Path, content: Content, writer: Writer,
   keyRef: KeyRef, key: Key, seq: Seq, at: Nat]

ASSUME NoneAssumption == None \notin Writer /\ None \notin KeyRef
ASSUME EnvelopeAssumption == Envelope # {} /\ Envelope \subseteq EnvelopeType
ASSUME RegistryAssumption == Registry \in [Writer -> KeyRef \cup {None}]
ASSUME BoundAssumption == MaxRequests \in Nat

VARIABLES
  \* tables
  docs,      \* memory_document_current
  log,       \* memory_event_log
  chunks,    \* memory_chunk_index: the lines indexed for a path
  jobs,      \* memory_merge_job
  signers,   \* signer_registry
  cursor,    \* the BIGSERIAL behind memory_event_log.cursor
  \* transactions
  pc,        \* the statement a transaction executes next
  env,       \* the envelope it applies
  begun,     \* its now(): the time of its BEGIN
  cur,       \* the document row it read, unlocked
  moved,     \* the body a move writes to its target
  ev,        \* the id of the event it inserted
  \* outside
  clock,     \* transactions begun so far: the clock of now()
  acks       \* the 200 responses of committed transactions, received or lost

tables == <<docs, log, chunks, jobs>>
session == <<env, begun, cur, moved, ev>>
vars == <<docs, log, chunks, jobs, signers, cursor, pc, env, begun, cur, moved,
          ev, clock, acks>>

\* Event ids are cursors, from 1.  0 stands for the absent id (NULL columns) and, in
\* memory_merge_job.incoming_event_id, for the literal 'pending'.
NoEvent == 0
Placeholder == 0

NoRow == [content |-> {}, writer |-> None, event |-> NoEvent, at |-> 0,
          live |-> FALSE]

RowType == [content: Content, writer: Writer \cup {None}, event: Nat, at: Nat,
            live: BOOLEAN]
EventType ==
  [id: Nat, key: Key, seq: Seq, op: Op, path: Path, from: Path, content: Content,
   writer: Writer, at: Nat, ingested: Nat, supersedes: Nat]
JobType ==
  [req: Nat, path: Path, base: Nat, incoming: Nat,
   status: {"pending", "completed", "failed"}, result: Nat]
AckType == [key: Key, event: Nat]

\* What the variables of a connection nobody uses hold.
AnyEnvelope == CHOOSE e \in Envelope : TRUE

Init ==
  /\ docs = [p \in Path |-> NoRow]
  /\ log = {}
  /\ chunks = [p \in Path |-> {}]
  /\ jobs = {}
  /\ signers = Registry
  /\ cursor = 0
  /\ pc = [t \in Txn |-> "idle"]
  /\ env = [t \in Txn |-> AnyEnvelope]
  /\ begun = [t \in Txn |-> 0]
  /\ cur = [t \in Txn |-> NoRow]
  /\ moved = [t \in Txn |-> {}]
  /\ ev = [t \in Txn |-> NoEvent]
  /\ clock = 0
  /\ acks = {}

-----------------------------------------------------------------------------
(* Locks.  An inserted event blocks other inserts of its idempotency key or  *)
(* its source sequence until commit; the upsert of a document row locks the  *)
(* row until commit.                                                         *)

Inserted(t) == pc[t] \in {"source", "target", "fromRow", "commit"}

\* The rows t has written: the target first, then the source of a move.
RowLocks(t) ==
  CASE pc[t] = "fromRow" -> {env[t].path}
    [] pc[t] = "commit" -> IF env[t].op = "move"
                           THEN {env[t].path, env[t].from} ELSE {env[t].path}
    [] OTHER -> {}

\* The row t asks for next.
WantedRows(t) ==
  CASE pc[t] = "target" -> {env[t].path}
    [] pc[t] = "fromRow" -> {env[t].from}
    [] OTHER -> {}

RowBlocks(t, u) == t # u /\ WantedRows(t) \cap RowLocks(u) # {}
RowFree(t) == \A u \in Txn : ~RowBlocks(t, u)

SameEvent(e, f) == e.key = f.key \/ e.seq = f.seq
\* Mutant: no unique constraint holds back an insert.
NoEventBlocks(t, u) == FALSE

EventBlocks(t, u) == t # u /\ Inserted(u) /\ SameEvent(env[t], env[u])

\* Transactions that wait for each other in a cycle: every one of S waits for a member
\* of S and has a member of S wait for it.
Deadlocked(t) ==
  \E S \in SUBSET Txn :
    /\ t \in S
    /\ \A u \in S : (\E v \in S : RowBlocks(u, v)) /\ (\E v \in S : RowBlocks(v, u))

-----------------------------------------------------------------------------
(* POST /v1/signer/upsert: MemoryStore.upsertSigner, one statement.          *)

UpsertSigner(w, k) ==
  /\ signers[w] # k
  /\ signers' = [signers EXCEPT ![w] = k]
  /\ UNCHANGED <<tables, cursor, pc, session, clock, acks>>

\* verifyWriteSignature on the registry row the transaction reads.
Verified(e) == signers[e.writer] = e.keyRef

\* BEGIN, with now() fixed to this instant.  A request whose signature fails verification
\* rolls back at once with nothing written, and is left out.
Begin(t, e) ==
  /\ pc[t] = "idle"
  /\ clock < MaxRequests
  /\ clock' = clock + 1
  /\ begun' = [begun EXCEPT ![t] = clock + 1]
  /\ env' = [env EXCEPT ![t] = e]
  /\ pc' = [pc EXCEPT ![t] = "existing"]

Request(t, e) ==
  /\ Verified(e)
  /\ Begin(t, e)
  /\ UNCHANGED <<tables, signers, cursor, cur, moved, ev, acks>>

\* SELECT ... FROM memory_document_current: what is committed now, unlocked.
ReadExisting(t) ==
  /\ pc[t] = "existing"
  /\ cur' = [cur EXCEPT ![t] = docs[env[t].path]]
  /\ pc' = [pc EXCEPT ![t] = "dup"]
  /\ UNCHANGED <<tables, signers, cursor, env, begun, moved, ev, clock, acks>>

\* Mutant: a writer is in conflict with itself.
AnyConflict(row, e) == row.live /\ row.at > e.at

\* The write is older than the live document it lands on, and another writer's.
Conflict(row, e) == row.live /\ row.at > e.at /\ row.writer # e.writer

MergeQueued(t) == Conflict(cur[t], env[t])

MergeJob(t, incoming) ==
  [req |-> begun[t], path |-> env[t].path, base |-> cur[t].event,
   incoming |-> incoming, status |-> "pending", result |-> NoEvent]

\* The job inserted before the event exists, with incoming_event_id 'pending', and, unless
\* the event turns out to be a duplicate, the one that names the event.
PlaceholderJobs(t) == IF MergeQueued(t) THEN {MergeJob(t, Placeholder)} ELSE {}

\* Mutant: the second job is queued for upserts alone.
UpsertJobs(t) ==
  IF MergeQueued(t) /\ env[t].op = "upsert" THEN {MergeJob(t, ev[t])} ELSE {}

EventJobs(t) == IF MergeQueued(t) THEN {MergeJob(t, ev[t])} ELSE {}

\* client.release(): the transaction is over.
Release(t) ==
  /\ pc' = [pc EXCEPT ![t] = "idle"]
  /\ env' = [env EXCEPT ![t] = AnyEnvelope]
  /\ begun' = [begun EXCEPT ![t] = 0]
  /\ cur' = [cur EXCEPT ![t] = NoRow]
  /\ moved' = [moved EXCEPT ![t] = {}]
  /\ ev' = [ev EXCEPT ![t] = NoEvent]

\* Mutant: the answer carries the last cursor given out.
LastAnswer(key, id) == acks' = acks \cup {[key |-> key, event |-> cursor]}

\* The 200 of a committed transaction.  A client that does not get it, because a connection
\* breaks after COMMIT, sends the request again like any other client may.
Answer(key, id) == acks' = acks \cup {[key |-> key, event |-> id]}

\* insertEvent finds the key: the transaction commits the placeholder job alone.
AckDuplicate(t) ==
  /\ pc[t] = "dup"
  /\ \E f \in log :
       /\ f.key = env[t].key
       /\ Answer(f.key, f.id)
  /\ jobs' = jobs \cup PlaceholderJobs(t)
  /\ Release(t)
  /\ UNCHANGED <<docs, log, chunks, signers, cursor, clock>>

NotDuplicate(t) ==
  /\ pc[t] = "dup"
  /\ \A f \in log : f.key # env[t].key
  /\ pc' = [pc EXCEPT ![t] = "insert"]
  /\ UNCHANGED <<tables, signers, cursor, session, clock, acks>>

\* INSERT INTO memory_event_log: waits for a transaction that inserted the same key or
\* sequence, then either takes its place or fails on the unique constraint (Fail).
InsertEvent(t) ==
  /\ pc[t] = "insert"
  /\ \A u \in Txn : ~EventBlocks(t, u)
  /\ \A f \in log : ~SameEvent(f, env[t])
  /\ cursor' = cursor + 1
  /\ ev' = [ev EXCEPT ![t] = cursor + 1]
  /\ pc' = [pc EXCEPT ![t] = IF env[t].op = "move" THEN "source" ELSE "target"]
  /\ UNCHANGED <<tables, signers, env, begun, cur, moved, clock, acks>>

\* The move reads its source without a lock; its own body wins over the source's.
ReadSource(t) ==
  /\ pc[t] = "source"
  /\ docs[env[t].from].live
  /\ moved' = [moved EXCEPT ![t] = IF env[t].content = {}
                                   THEN docs[env[t].from].content
                                   ELSE env[t].content]
  /\ pc' = [pc EXCEPT ![t] = "target"]
  /\ UNCHANGED <<tables, signers, cursor, env, begun, cur, ev, clock, acks>>

\* INSERT ... ON CONFLICT DO UPDATE on the target row.
LockTarget(t) ==
  /\ pc[t] = "target"
  /\ RowFree(t)
  /\ pc' = [pc EXCEPT ![t] = IF env[t].op = "move" THEN "fromRow" ELSE "commit"]
  /\ UNCHANGED <<tables, signers, cursor, session, clock, acks>>

\* UPDATE of the source row of a move.
LockSource(t) ==
  /\ pc[t] = "fromRow"
  /\ RowFree(t)
  /\ pc' = [pc EXCEPT ![t] = "commit"]
  /\ UNCHANGED <<tables, signers, cursor, session, clock, acks>>

-----------------------------------------------------------------------------
(* COMMIT.                                                                   *)

\* Mutant: a move without a body empties the document.
OwnBody(t) == env[t].content

Body(t) == IF env[t].op = "move" THEN moved[t] ELSE env[t].content

\* Mutants: two parameters of the INSERT swapped; the superseded event read at commit.
SwappedEvent(t) ==
  [id |-> ev[t], key |-> env[t].seq, seq |-> env[t].key, op |-> env[t].op,
   path |-> env[t].path, from |-> env[t].from, content |-> env[t].content,
   writer |-> env[t].writer, at |-> env[t].at, ingested |-> begun[t],
   supersedes |-> cur[t].event]
LateEvent(t) ==
  [id |-> ev[t], key |-> env[t].key, seq |-> env[t].seq, op |-> env[t].op,
   path |-> env[t].path, from |-> env[t].from, content |-> env[t].content,
   writer |-> env[t].writer, at |-> env[t].at, ingested |-> begun[t],
   supersedes |-> docs[env[t].path].event]

Event(t) ==
  [id |-> ev[t], key |-> env[t].key, seq |-> env[t].seq, op |-> env[t].op,
   path |-> env[t].path, from |-> env[t].from, content |-> env[t].content,
   writer |-> env[t].writer, at |-> env[t].at, ingested |-> begun[t],
   supersedes |-> cur[t].event]

\* Mutant: the upsert clears deleted_at whatever the operation.
RevivedRow(t) ==
  [content |-> IF env[t].op = "delete" THEN docs[env[t].path].content ELSE Body(t),
   writer |-> env[t].writer, event |-> ev[t], at |-> begun[t], live |-> TRUE]

\* The upserted target: a delete keeps the body the row has, if there is a row.
WrittenRow(t) ==
  [content |-> IF env[t].op = "delete" THEN docs[env[t].path].content ELSE Body(t),
   writer |-> env[t].writer, event |-> ev[t], at |-> begun[t],
   live |-> env[t].op # "delete"]

WrittenDocs(t) == [docs EXCEPT ![env[t].path] = WrittenRow(t)]

\* A move then marks its source row deleted; the rest of that row stays.
DocsAfter(t) ==
  IF env[t].op = "move"
  THEN [WrittenDocs(t) EXCEPT ![env[t].from] =
          [@ EXCEPT !.event = ev[t], !.at = begun[t], !.live = FALSE]]
  ELSE WrittenDocs(t)

\* Mutant: what is deleted or moved away stays in the index.
ChunksAfterCopy(t) ==
  IF env[t].op = "delete" THEN chunks
  ELSE [chunks EXCEPT ![env[t].path] = Body(t)]

\* A move drops the chunks of its source before replaceChunks writes the target's.
ChunksAfter(t) ==
  CASE env[t].op = "delete" -> [chunks EXCEPT ![env[t].path] = {}]
    [] env[t].op = "move" -> [chunks EXCEPT ![env[t].from] = {},
                                            ![env[t].path] = Body(t)]
    [] OTHER -> [chunks EXCEPT ![env[t].path] = Body(t)]

Commit(t) ==
  /\ pc[t] = "commit"
  /\ log' = log \cup {Event(t)}
  /\ docs' = DocsAfter(t)
  /\ chunks' = ChunksAfter(t)
  /\ jobs' = jobs \cup PlaceholderJobs(t) \cup EventJobs(t)
  /\ Answer(env[t].key, ev[t])
  /\ Release(t)
  /\ UNCHANGED <<signers, cursor, clock>>

\* ROLLBACK, after an error or because the process or its connection died.  The cursor a
\* rolled back event took is lost.
Rollback(t) ==
  /\ pc[t] # "idle"
  /\ Release(t)
  /\ UNCHANGED <<tables, signers, cursor, clock, acks>>

\* Mutant: nobody breaks deadlocks.
MustFailAlone(t) ==
  \/ /\ pc[t] = "insert"
     /\ \A u \in Txn : ~EventBlocks(t, u)
     /\ \E f \in log : SameEvent(f, env[t])
  \/ pc[t] = "source" /\ ~docs[env[t].from].live

\* The errors a transaction cannot avoid: the unique constraints of the event log, the
\* source of a move not there, and Postgres breaking a deadlock.
MustFail(t) ==
  \/ /\ pc[t] = "insert"
     /\ \A u \in Txn : ~EventBlocks(t, u)
     /\ \E f \in log : SameEvent(f, env[t])
  \/ pc[t] = "source" /\ ~docs[env[t].from].live
  \/ Deadlocked(t)

Fail(t) == MustFail(t) /\ Rollback(t)

Step(t) ==
  \/ ReadExisting(t) \/ AckDuplicate(t) \/ NotDuplicate(t) \/ InsertEvent(t)
  \/ ReadSource(t) \/ LockTarget(t) \/ LockSource(t) \/ Commit(t) \/ Fail(t)

Next ==
  \/ \E w \in Writer, k \in KeyRef : UpsertSigner(w, k)
  \/ \E t \in Txn :
       \/ \E e \in Envelope : Request(t, e)
       \/ Step(t)
       \/ Rollback(t)

Spec == Init /\ [][Next]_vars

\* Postgres queues those who wait for a row or for a unique key, so a transaction whose
\* next statement can run again and again in the end runs it.
FairSpec == Spec /\ \A t \in Txn : SF_vars(Step(t))

-----------------------------------------------------------------------------
(* Properties.                                                               *)

\* Type correctness: rows, events, jobs and transactions keep the shape of their tables.
TypeOK ==
  /\ docs \in [Path -> RowType]
  /\ log \subseteq EventType
  /\ chunks \in [Path -> Content]
  /\ jobs \subseteq JobType
  /\ signers \in [Writer -> KeyRef \cup {None}]
  /\ cursor \in Nat
  /\ pc \in [Txn -> {"idle", "existing", "dup", "insert", "source", "target",
                      "fromRow", "commit"}]
  /\ env \in [Txn -> EnvelopeType]
  /\ begun \in [Txn -> Nat]
  /\ cur \in [Txn -> RowType]
  /\ moved \in [Txn -> Content]
  /\ ev \in [Txn -> Nat]
  /\ clock \in Nat
  /\ acks \subseteq AckType

\* However requests with the same key or sequence race, at most one of them is in the log,
\* and no two events share a cursor: the unlocked duplicate check of insertEvent and the
\* unique constraints together make a write happen once.
LogUnique == \A e, f \in log : (SameEvent(e, f) \/ e.id = f.id) => e = f

\* No two open transactions have written the same document row, so the chunk rewrites of
\* replaceChunks never interleave on a path.
RowsExclusive ==
  \A t, u \in Txn : t # u => RowLocks(t) \cap RowLocks(u) = {}

\* memory_document_current is a view of the log: a live row holds the body, writer and time
\* of the event it names, which wrote this very path; a dead one names the delete of
\* this path or a move away from it.
RowShows(p, f) ==
  /\ docs[p].event = f.id /\ docs[p].at = f.ingested
  /\ IF docs[p].live
     THEN /\ f.path = p /\ f.op # "delete" /\ f.writer = docs[p].writer
          /\ (f.content = docs[p].content \/ (f.op = "move" /\ f.content = {}))
     ELSE (f.op = "delete" /\ f.path = p) \/ (f.op = "move" /\ f.from = p)
ViewMatchesLog ==
  \A p \in Path : docs[p] = NoRow \/ \E f \in log : RowShows(p, f)

\* The chunk index follows the documents: a live document is indexed with exactly its body,
\* a deleted one is not indexed, whatever moves and deletes raced (a note moved onto
\* itself is the exception the code makes).
MovedOntoItself(p) ==
  \E f \in log : f.id = docs[p].event /\ f.op = "move" /\ f.from = f.path
IndexMatchesView ==
  \A p \in Path :
    IF docs[p].live THEN chunks[p] = docs[p].content
    ELSE chunks[p] = {} \/ MovedOntoItself(p)

\* The supersedes chain of the log is acyclic and closed: an event supersedes an event that
\* was committed before it was given its cursor and that touched the same path.
SupersedesEarlier ==
  \A e \in log : e.supersedes # NoEvent =>
    \E f \in log : /\ f.id = e.supersedes /\ f.id < e.id
                    /\ (f.path = e.path \/ (f.op = "move" /\ f.from = e.path))

\* No write that overwrites another writer's newer document goes without a merge job: if
\* the event it supersedes wrote the document later than the write occurred, a job
\* names both events.
Overwrites(e, b) ==
  /\ b.id = e.supersedes /\ b.path = e.path
  /\ b.op # "delete" /\ ~(b.op = "move" /\ b.from = b.path)
  /\ b.ingested > e.at /\ b.writer # e.writer
ConflictsQueued ==
  \A e, b \in log : Overwrites(e, b) =>
    \E j \in jobs : j.incoming = e.id /\ j.base = b.id /\ j.path = e.path

\* No merge job is queued for nothing: one that names an event names a committed one that
\* overwrote the committed event named as its base.
JobsNameConflicts ==
  \A j \in jobs : j.incoming # Placeholder =>
    \E e, b \in log : e.id = j.incoming /\ b.id = j.base /\ Overwrites(e, b)

\* A write that was answered with 200 is in the log under its key, and every answer to the
\* same key names the same event, retries and lost answers included.
AcksDurable ==
  /\ \A a \in acks : \E f \in log : f.id = a.event /\ f.key = a.key
  /\ \A a, b \in acks : a.key = b.key => a.event = b.event

\* The tables behave as MemoryView says: interleaved transactions, rollbacks and resent
\* requests come down to one event at a time, with the documents and the index to match.
View == INSTANCE MemoryView
ImplementsView == View!Spec

\* A transaction that began ends, by commit or rollback: waits for keys and rows never hold
\* each other up for ever.
RequestsEnd == \A t \in Txn : pc[t] # "idle" ~> pc[t] = "idle"

\* What the vault's move promises (node/src/lib/vault/index.ts:868 returns the note as it is
\* when source and target are the same path): the moved document is there
\* under its new path until something else is written to it.
MoveKeepsDocument ==
  \A f \in log : (f.op = "move" /\ docs[f.path].event = f.id) => docs[f.path].live

=============================================================================
