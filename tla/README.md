# TLA+ models of OrchWiz

OrchWiz runs fleets of agents ("ships").  This directory holds TLA+ modules that
model the core of the system, configurations that check them with TLC, and
theorems about them proved with TLAPS.  They cover the parts that carry the most
state and the most concurrency: the **data-core**, the memory service that every
ship and the fleet hub run, and of the Next.js node what handles money (wallet,
launches), messages (job queues, bridge calls) and access (tools).

Paths are relative to the repository (`services/...` is `src/services/...` in
PROJECT.json).

## 1. Inventory of the system

### 1.1 data-core (`services/data-core/src`)

| part | state | operations | interacts with |
|---|---|---|---|
| store (`memory-store.ts`, `db.ts`) | `memory_event_log`, `memory_document_current`, `memory_chunk_index`, `memory_edge_current`, `memory_merge_job`, `signer_registry` in Postgres | `applyWriteEnvelope` (upsert, merge, delete, move), `upsertSigner` | called by the HTTP handlers, the merge worker and sync; queues merge jobs and plugin jobs |
| merge worker (`memory-store.ts` `processPendingMergeJobs`) | the job list of a pass | read jobs, merge, write, mark | reads the store outside transactions, writes through `applyWriteEnvelope`; run by `POST /v1/sync/reconcile` |
| fleet sync (`server.ts`) | `memory_sync_cursor`, `ingest_idempotency` (nonces), promises in memory | push signer, push event, pull, reconcile | one ship's core calls the hub's HTTP interface |
| EdgeQuake plugin (`plugins/edgequake.ts`) | `memory_plugin_edgequake_{workspace,document,sync_job}` | enqueue, drain, query | fed by a promise after each commit; calls a remote service |
| retrieval | none of its own | query, graph, tree, file | reads the tables |

Hard behaviours: every request is a READ COMMITTED transaction of many awaited
statements, several of them unlocked reads whose answer is used later; the merge
pass works outside transactions; pushes, enqueues and drains are promises without
an owner; processes stop at any await.

What makes it correct: a write is logged once however often it is sent; the
document table and the chunk index are a view of the log; a write that overwrites
another writer's newer one is queued for a merge; a merge is made once and holds
what lost; the hub has what ships accepted; hybrid search serves the last write
and nothing deleted.

### 1.2 The Next.js node (`node/src`)

| part | state | hard behaviours | properties that make it correct |
|---|---|---|---|
| Ship Yard billing (`lib/shipyard/billing/wallet.ts`, top-up and webhook routes) | wallets, ledger, top-ups | overlapping debits, Stripe's retried and late webhooks, placeholder session ids | the balance is the sum of the ledger and never negative; what was paid is credited, once; a debit is refunded at most once |
| Ship Yard launch (`app/api/ship-yard/launch/route.ts`) | deployment rows, the debit | failure and crash after the debit | an active ship is paid for; one marked failed has its money back |
| bridge dispatch, agent-chat replies, chat mirror (`lib/bridge/connections/dispatch.ts`, `lib/bridge-agent-chat/replies.ts`, `lib/bridge-chat/sync.ts`) | three job tables of one pattern | drains that overlap, attempts from a stale snapshot, crash while processing, pruning | what is marked done was done; it is done again only after an error; a job ends |
| bridge call rounds (`lib/bridge-call/rounds.ts`) | in-memory queue per scope, round rows | errors at any statement, requests that arrive while a round ends, crashes | rounds of a scope run one by one in order; every caller is answered |
| tools (`lib/tools/{requests,activation,agent-bindings}.ts`, `lib/governance/events.ts`) | catalog, requests, grants, bindings, grant events | handlers that check long before they write; two reviewers at once; bindings replaced as a whole | the audit log tells which grants there are; requests are linked to their grants; what is enabled was granted |
| forwarding (`app/api/forwarding/events/route.ts`) | nonces, events, in-memory rate limit | retries after a failure half way | an event is stored once; a retry succeeds |
| the rest: governance, AgentSync, runtime providers, permissions, hooks, upgrade, secrets, bootstrap, vault, ingest, skills, notifications, audits, observability, quartermaster, UI | | mostly single-row updates, pure functions or calls to tools | PROJECT.json gives the reason for each that is left out |

### 1.3 Other services

`wallet-enclave` signs with idempotency keys kept in a file (lookup, sign and
store are separate steps); `provider-proxy` and `kugelaudio-tts` keep no shared
state; `agent-lightning-store` is a container of third-party code.

## 2. The modules

```
MemoryView  <=implements=  MemoryStore  <-extends-  MergeWorker  <-extends-  MergeProofs
                               ^                                                |
                               +--extends--  MemoryStoreProofs  <---extends-----+
DataCoreSync  <-extends-  SyncProofs
EdgeQuake     <-extends-  EdgeQuakeProofs
              (both take a write of the store as one step)

WalletLedger  <=implements=  BillingWallet  <-extends-  BillingProofs
RoundQueue    <=implements=  BridgeCall     <-extends-  BridgeCallProofs
DeliveryQueue    <-extends-  DeliveryProofs
ToolGovernance   <-extends-  ToolProofs
```

Each `MC...` module gives one of them small sets for TLC.

**MemoryStore** — one core's database and its transactions.  A connection `t` is a
state machine whose `pc[t]` is the statement it runs next; what it read (`cur`,
`moved`) and what it will write stay private until `Commit`.

| model | code (`memory-store.ts`) |
|---|---|
| `Request`, `Begin` | `db.transaction` up to the signature check, 379-407 |
| `ReadExisting` | the unlocked SELECT of the document, 409-419 |
| `Conflict`, `PlaceholderJobs` | the conflict test and its first merge job, 423-441 |
| `AckDuplicate`, `NotDuplicate` | the duplicate SELECT of `insertEvent`, 295-310 |
| `InsertEvent` | the INSERT, with what Postgres does about its unique constraints, 312-376 |
| `ReadSource`, `LockTarget`, `LockSource` | the statements of a move, 511-566; `LockTarget` also the upsert or delete of the row |
| `Commit` (`WrittenRow`, `DocsAfter`, `ChunksAfter`, `EventJobs`) | everything the transaction wrote, visible at once |
| `Rollback`, `Fail`, `Deadlocked` | `ROLLBACK` after any error, unavoidable errors, Postgres' deadlock detection |

Row locks and the waits for unique keys are not variables: they follow from
`pc` (`RowLocks`, `EventBlocks`).  Time is `clock`, one tick per `BEGIN`, because
`now()` is fixed at `BEGIN`.  A body is a set of lines; `(domain, path)` is one
`Path`.  Responses are `acks`, the 200s of
committed transactions (`Answer`): one that gets lost makes a client send its
request again, which clients of the model may do at any time.

**MemoryView** — the abstract store: an append-only log of fresh events, and
documents and chunks that change only together with the log.  `MemoryStore`
implements it (`ImplementsView`; its tables are the abstract variables, so the
refinement mapping is the identity and hides the transactions).  With passes at work
it still does (`PassesImplementView` of MergeWorker), if of a job only what it names
counts (`JobNames`) and not its status.

**MergeWorker** — `MemoryStore` with passes of `processPendingMergeJobs` on
connections of their own: `Fetch` (one SELECT, no claim), `TakeJob`,
`ReadContext`/`MissingContext` (reads outside a transaction), `BeginMerge` and
`ApplyMerge` (the ordinary transaction with `skipSignatureCheck`), `Complete`,
`CompleteFails`, `MarkFailed`, `Crash`.  `deterministicMerge` keeps the first of
lines that are equal when trimmed and without regard to case
(`memory-store.ts:138-142`); with bodies as sets of lines, a line stands for all that
it takes for equal, and the merge is a union (`DeterministicMerge`).

**DataCoreSync** — ships and the hub (`server.ts`).  A write of a core is a
transaction of two steps: `Begin` reads the document, unlocked
(`memory-store.ts:409-419`), and `Commit` (`Apply`) decides the conflict on what it
read, whatever the document has become, and shows what it wrote.  In between others
of the core read and commit too; `met` keeps the documents two open transactions of a
core were about.  `tasks` are the promises under way: first `PushSigner`, whose failure
is swallowed, then `PushEvent`, which begins a transaction at the hub.  `Merge` begins
the transaction of a merge pass.  `Fetch` and `ApplyRow` are `pullFromFleet`: rows come
as the hub's SELECT gives them (`Row`), and `Parses` is
`memoryWriteEnvelopeSchema.safeParse`.  Three things are coarser than `MemoryStore`:
BEGIN and the read are one step; a second transaction of a key begins when the first
has ended (in the code it waits in its INSERT and finds the key); and a log is in the
order of commits.  A merge that is rolled back or fails is left to MergeWorker.

**EdgeQuake** — the sync queue of the plugin.  `Write` commits and leaves a
promise in `enqueues`; `Enqueue` inserts the job; a drain of a process goes
`Due`, `Take`, `Check`/`Skip`, then `Lookup`, `Remove`, `Unmap` (`syncDelete`) and
`Post`, `Unshare`, `Map` (`syncUpsert`), `Complete`; `Error` and `Retry` are the
catch block, `Stop` a crash or a drain that throws.  EdgeQuake itself is external:
it answers a POST with the document of the same content (`duplicate_of`) or a new
one, as `syncUpsert` expects.

**WalletLedger** — the abstract wallet: entries are posted one at a time, a
reference once, never below zero; a credit needs a payment, a refund a debit.

**BillingWallet** — one wallet with its transactions, the top-ups that fill it and
the launches that spend it.  `txn[w]` is the transaction of a launch or of the
delivery of a webhook; nothing of it is visible before `Publish`.

| model | code |
|---|---|
| `Start` and the lookups of `DebitForLaunch`, `RefundLaunchDebit`, `BeginCompletion` | the unlocked `findUnique` at the start of each function of `wallet.ts` |
| `Insert`, `InsertFails` | the ledger entry and its unique index; the catch block looks the entry up in a transaction Postgres has aborted, so the error goes on |
| `UpdateBalance`, `Insufficient` | `updateMany ... balanceCents >= amount`, which locks the wallet's row |
| `Commit`, `Error`, `LateError` | COMMIT; an error before it; a COMMIT whose answer is lost |
| `CreateTopup` ... `MarkTopupFailed`, `TopupCrash` | `POST .../topups`: placeholder row, Stripe session, rename, answer |
| `Pay`, `Expire`, `Deliver` | Stripe (external): the session, its events, sent until a 200 |
| `BeginCompletion`, `MarkTopupExpired`, `Respond`, `WebhookError` | the webhook route |
| `BeginLaunch`, `Quote`, `Refuse`, `DebitForLaunch`, `Bootstrap`, ... `MarkFailed` | the launch route and its `failLaunch` |
| `Stop` | a handler that throws past `failLaunch`, or a process that dies |

**DeliveryQueue** — the job pattern of dispatches, replies and the mirror.  The
variable `queue`, chosen in `Init`, says which of the three a behaviour is about:
they differ in `Run` (a reply is completed in the transaction that posts it), in
`Sent` (the mirror keeps a link and posts once), in pruning, and in `Prompt`: a reply
first prompts the agent's session (`replies.ts:364-398`), before and outside that
transaction.  A drain goes `Begin` (one SELECT; the attempts are kept from here),
`Claim` (the conditional update), `Prompt`, `Run`, `Complete`, `Prune`, `Delete`, or
`Fail`.  `RunTimesOut`, `CompleteErrs` and `PruneErrs` are calls that report an error,
whether or not they did what was asked; `Stop` is a drain that is cut off.  `tally` is a
history no step reads.  Per job it counts the prompts of the session since the catch
block last recorded a failed attempt (`prompts`); the effects, which are a POST to the
connector, the agent's message in the room or the mirrored message (`sent`); and the
errors that came after an effect, of its call, of the UPDATE that completes the job or
of the prune (`late`).  The column `attempts` stays within the limit, but a drain
with an older snapshot sets it back, so it does not count how often a job is run.

**ToolGovernance** — access requests, grants, activation and bindings.  Every
handler is a `Begin...` (all unlocked reads and checks), some time in which it
writes its report to a file, and a `Commit...` (the transaction).  Replacing
bindings takes two steps of its own, `DeleteBindings` and `CommitReplace`, because
under READ COMMITTED the DELETE does not see what another replacement commits
before the INSERT.  `log` keeps the `GovernanceGrantEvent` rows of each subject.

**RoundQueue** — what callers of a bridge call may expect: rounds run one at a
time in the order of acceptance, and every caller is answered.

**BridgeCall** — the queue of a scope in one process: `Ask` is
`enqueueScopedRound`, `Round` the steps of a round (`CreateRow`, `EnsureThreads`,
`Officer`, `Persist`, `Prune`), `Settle` the turn of the loop in
`processScopeQueue` that answers a caller and starts the next round, `Error` a
statement that fails, `Crash` the process.

Definitions marked `Mutant` in a module are not part of the model: each is a
plausible bug in the definition that follows it, under which the property
PROJECT.json pairs it with fails.  The one of `RequestsEnd` takes away Postgres' deadlock
detection, on which the store relies for head-on moves.

## 3. The runs

All runs are exhaustive.  Sizes are distinct states.

| run | instance | checks | outcome |
|---|---|---|---|
| `store_writes` | 3 connections, 3 requests, one path, two writers, a delete, a shared key, a shared sequence | `TypeOK LogUnique SupersedesEarlier ConflictsQueued JobsNameConflicts AcksDurable ViewMatchesLog IndexMatchesView` | holds (130k) |
| `store_moves` | 2 connections, 4 requests, two documents and moves in both directions, fair | `ImplementsView RequestsEnd` | holds (120k) |
| `store_self_move` | a note moved onto itself | `MoveKeepsDocument` | **violated** |
| `merge_passes` | 2 passes, 1 client connection, one conflict, a delete that loses, a write that meets the merge half way | `WorkerTypeOK CompletedIsMerged MergedOnce OnlyLateWritesDropped PassesImplementView` | holds (655k) |
| `sync_fleet` | a ship with two writers, the second writing after the first, who changes keys, one loss, rollback or crash, one reconcile, fair | `TypeOK HubOnlyAccepted ReorderingIsQueued WritesReachHub` | holds (179k) |
| `sync_pull` | a ship and a client of the hub, fair | `HubReachesShips` | **violated** |
| `edgequake_processes` | 2 processes, a move and an edit with the moved body | `TypeOK MappingTrue` | holds (1.3M) |
| `edgequake_edits` | 1 process, two edits and a delete, retries and a crash, fair | `DeletedUnmapped LiveMapped JobsEnd` | holds (250k) |
| `billing_wallet` | a top-up of 3, two launches of 2, two webhook requests at a time, two faults, fair | `TypeOK BalanceIsLedger ActiveIsPaid FailedIsRefunded ImplementsLedger PaidIsCredited` | holds (21k) |
| `delivery_queue` | each of the three queues, 2 jobs, 2 drains, 2 attempts, one late error, one cut, fair | `TypeOK CompletedIsSent RepeatsNeedErrors JobsEnd` | holds (165k) |
| `tool_governance` | one entry, one crew member, 2 requests, 2 handlers at a time, 5 calls | `TypeOK LogMatchesTables RequestsMatchGrants EnabledWasGranted` | holds (809k) |
| `bridge_call` | 4 requests, 2 stations, 2 may wait, one fault, fair | `TypeOK ImplementsRounds` | holds (925k) |

### What the violations say

1. *A move onto itself deletes the note* (`store_self_move`).  The file vault
   returns the note as it is; the data-core behind the same routes does not
   compare the paths.
2. *A reconcile applies nothing* (`sync_pull`): rows of the log are not envelopes,
   so every row is skipped, and the cursor arrives as a string, so it does not
   advance.

### What the models show besides

No document says otherwise, so these are not runs; each can be followed in the
actions named.

* Every conflict queues a job that can only fail: `incoming_event_id` is the
  literal `pending`, for which no event exists (`PlaceholderJobs`,
  `MissingContext`).
* Two concurrent writes of different writers that read the same current version
  overwrite each other without a merge job (`ReadExisting`, `Conflict`).
* So do two pushes of a document that the hub handles at once: hub and ship may then
  differ for good without a word.  `ReorderingIsQueued` exempts the documents on which
  two transactions of the hub were open together (`met`), and only those.
* A merge can drop lines of a write it has not seen, and no job tells, in three cases:
  the write commits after the merge's transaction has read the row
  (`memory-store.ts:411`); it began before the merge was computed, since the conflict
  check compares its `BEGIN` with the merge's `occurredAt`; or it is a merge of another
  pass, since all merges are one writer's.  `OnlyLateWritesDropped` says that there is
  no fourth and that what a merge was made of is never dropped.  In `merge_passes` the
  first two happen (TLC finds them when their disjunct is taken out); the third needs
  more requests than the run has, but the theorem needs its disjunct.
* A merge stays where it was made: only the HTTP handlers push
  (`DataCoreSync!Merge`).  A push registers its signer at the hub even when a newer
  key is there (the exception in `WritesReachHub`).
* A stale move leaves its source in hybrid search, and a move synced after a newer
  edit of its old path unmaps that edit: the stale guard of the plugin looks at the
  target only, while the job works on both paths.  `DeletedUnmapped` and
  `LiveMapped` are therefore checked on an instance without moves.
* They are for one process as well: the stale check and the remote calls are apart, so
  with two a post of an old body can be mapped after the delete, or the newer edit,
  that another process has synced in between (`Check`, `Post`, `Map`; TLC finds both in
  22 steps when `edgequake_edits` gets a second process).
* Of two live documents with the same body only the one synced last stays in hybrid
  search: EdgeQuake answers with one document for both, and `syncUpsert` takes the
  mapping from the other path (`Posted`, `Unshare`).
* A launch that throws after its debit, or whose process dies, stays `deploying`
  with its money spent (`BillingWallet!Stop`): `FailedIsRefunded` speaks of rows
  that say failed.
* A job whose drain is cut off stays `processing`: no claim takes it again
  (`JobsEnd` is about behaviours without a cut).
* A prune that fails is taken for the failure of the delivery that was completed
  before it, so the message is sent again (`PruneErrs`).
* Every retry of a reply prompts the agent again, though nothing was wrong with the
  earlier prompt: its interactions, mirror jobs and relays are there twice (`Prompt`).
* A drain with an older snapshot gives a job attempts back and revives one that has
  failed for good (`Claimable`, `Attempts`), as a process of the plugin does with a
  sync job (`EdgeQuake!Retry`): both columns stay within the limit, the number of
  tries has none.  `JobsEnd` says that such jobs end all the same.
* `ActiveIsPaid` is about the launch route.  `PUT /api/ships/:id` lets its body set the
  status, too (`node/src/app/api/ships/[id]/route.ts:59-72`), which is not in the model.
* An approval and a denial that overlap both succeed; the request may then say
  denied and still be linked to its grant (`CommitApproval`, `CommitDenial`).
* Two replacements of bindings that overlap can leave a mix of both, and the last
  event of a tool may say revoked while its binding is enabled (`Replaced`);
  `EnabledWasGranted` is what remains true.
* A bridge call that fails after its row was made leaves the row `running`, and one
  whose prune fails answers with an error although its results are stored
  (`BridgeCall!Error`).

### Bounds, and why they are enough

`MaxRequests`, `MaxPasses`, `MaxLosses`, `MaxPulls`, `MaxWrites`, `MaxFaults` and
the finite sets of client writes bound the behaviours.  The races of the store need
two transactions on one path (a third is there for a waiter behind two), a conflict
needs two writers and two writes, a deadlock two documents and two moves; a job that
is merged twice needs two passes, a merge that overwrites unseen lines one pass and a
third write that begins after it was computed or commits after it has read; a
diverging hub needs two pushes under way, one after the other or at once (both happen
in `sync_fleet`, with a conflict queued only at the hub and with `met` alone), and one
loss at any point shows what each loss does (its deletes and clients of the hub are
left to the theorems: with them the run has two million states); the plugin's races
need a move, what was there before and what came after, and one retry.  In the wallet two launches
compete for money that is enough for one, a webhook is delivered twice at once, and two faults
(`MaxFaults`) let a request and its repetition fail.  Two drains and two jobs
(`MaxJobs`) give every order of claims and prunes, two attempts (`MaxAttempts`) a
retry and a terminal failure; `Keep = 1` prunes at the second job.  `MaxStops` bounds
cuts.  Five calls (`MaxCalls`) suffice for two requests, their approvals and a
revocation.  With four bridge calls two wait in order while one runs and one is
turned away (`MaxPending`).  The instances contain those exactly, and every
action fires in some passing run.  `CHECK_DEADLOCK FALSE` is set because the bounded
system stops when its requests are used up.

Symmetry is used in safety runs only: for connections, for passes and their
connections, and for requests and handlers in `tool_governance`.

### Fairness

* `MemoryStore.FairSpec`: strong fairness of each transaction's steps.  Postgres
  queues waiters for a row or a unique key, so a statement that is enabled again
  and again runs; it also breaks deadlocks (`Fail`).  No fairness of `Rollback`,
  `Request` or `UpsertSigner`: nothing makes an error or a client happen.
* `DataCoreSync.FairSpec`: weak fairness of promises the event loop holds, of
  transactions begun, of merges and of pulls.  Reconciles are triggered from outside; the
  fairness of pulls only makes the violation of `HubReachesShips` meaningful: even with
  them the event does not arrive.  Nothing is assumed of clients, and nothing says that
  losses do not happen: `WritesReachHub` is about the behaviours without one.
* `EdgeQuake.FairSpec`: weak fairness of a process' drain, which `setInterval`
  starts over and over and whose requests time out, and of enqueues.
* `BillingWallet.FairSpec`: strong fairness of each transaction, whose waits for the
  wallet's row or a key end when the holder commits or fails; weak fairness of
  handlers that have begun; strong fairness of Stripe's deliveries of an event that
  no 200 has answered, which is Stripe's promise and all that `PaidIsCredited`
  needs from outside.  No fairness of payments, of new requests or of faults.
* `DeliveryQueue.FairSpec`: weak fairness of drains under way, of time (`Elapse`)
  and of `Begin`.  No timer drains these queues, requests do; `JobsEnd` says that
  jobs end as long as such requests keep coming.
* `BridgeCall.FairSpec`: weak fairness of a round's steps; prompts have time limits in
  the runtime providers, `openai-fallback.ts:79` only the default one of `fetch`.  That a
  scope refuses what is beyond `MaxPending` is in `Ask`; `RoundQueue` promises no limit.

## 4. The proofs

Every theorem holds for every value of the constants, from the named assumptions
of its component, which TLC evaluates on every run of that component.  Each is
proved from an inductive invariant, one step per action.  `tlapm X.tla` checks a
module.

The store, from `NoneAssumption`, `EnvelopeAssumption`, `RegistryAssumption`,
`BoundAssumption`.

`MemoryStoreProofs`:

* `TypeCorrect`: `Spec => []TypeOK`.  `TypeOK` is inductive (`TypeStep`, one case
  per action, the operators that build rows, events and jobs in lemmas).
* `WriteOnce`: `Spec => []LogUnique`: no two events of the log share a key, a
  source sequence or a cursor.  `LogUnique` is not inductive: a transaction that
  has inserted its event and not committed must not clash with the log or with
  another such transaction.  `UniqueInv` adds that: cursors in the log and in
  transactions are at most `cursor` (`IdsBounded`); an inserted, uncommitted
  event is new to the log (`InsertedIsNew`); two inserted events differ in key,
  sequence and cursor (`InsertedApart`).  `InsertUnique` uses the guards of
  `InsertEvent` (the wait and the constraint), `CommitUnique` moves an event from
  the transaction to the log, and every other action leaves the four parts
  alone or drops a transaction (`QuietStep`, `ReleaseQuiet`).

And on top of that:

* `AnswersTrue` (`AcksDurable`): every answer is backed by an event of its key
  (`Acked`, inductive); that two answers to a key agree then follows from
  `LogUnique`.
* `LocksExclusive` (`RowsExclusive`): inductive; only the two locking statements
  add locks, and both wait until nobody holds what they want.
* `IndexOfView` (`IndexMatchesView`): inductive; only `Commit` changes documents
  and chunks, by cases over the operation.
* `ViewOfLog` (`ViewMatchesLog`), from `ShownInv`: every row is the work of one
  event of the log (`DocsShown`); the row a transaction read, unlocked, is the
  work of an event older than its own even when the table has moved on
  (`CurShown`); a move that has a body writes that body (`MovedBody`).
* `SupersedesBackwards`, `ConflictsAreQueued`, `JobsAreConflicts`: with `CurShown`
  the row a transaction decided its conflict on and the event it supersedes are
  one and the same (`QueuedIffOverwrites`), so a stale read makes the code miss
  newer writes but never record an overwrite without its job.
* `StoreImplementsView`: `Spec => ImplementsView`.  A commit is one `Append` of
  MemoryView: its event is fresh (`InsertedIsNew`), rows and chunks change by its
  operation (`CommitTarget`, `CommitSource`, `CommitOthers`), and the body a move
  takes from its source is in the log (`SentInv`).  `AckDuplicate` queues at most
  a placeholder; every other step stutters (`TableSteps`).

`MergeProofs` is about `WorkerSpec`, the store with passes at work; the lemmas of
`MemoryStoreProofs` about single steps carry over to it.  Besides the store's
assumptions it takes `WorkerAssumption` and `MergeKeyAssumption`: a client's key and
sequence are never of the form a merge makes, and no client writes as the
Quartermaster.  `PassesTypeCorrect`, `CompletedTrue` (`CompletedIsMerged`) and
`MergedOnceTrue` (`MergedOnce`) follow from `WorkerInv`:

* Keys of merges stay keys: a cursor is taken by a request that has begun and is still
  open or over, so `cursor` plus those that have not inserted yet is at most `clock`
  (`Counted`); `KnownKey` uses it.
* A job names no event or a committed one on its own path (`JobsSound`), and what a
  pass read long ago still is in the table, perhaps with another status (`Knows`):
  jobs keep their request, event and path (`Keeps`, `StillKnown`).
* What a pass has prepared merges the job it works on, and holds every line of the
  event that lost (`HasMade`); in the log, merges, and only they, have keys of merges
  and the Quartermaster's name (`LogMerges`).
* A pass about to complete its job has a merge of it in the log (`HasMerged`).  That is
  `AppliedIsMerged`: it committed one, or the transaction found the key, and then
  `LogMerges` says that what it found is a merge of this very job.  With `LogUnique`
  the UPDATE names that event, whatever other passes did in between (`UpdateStep`).

`TablesTrue` and `PassesKeepView` (`PassesImplementView`) say that what the store
promises its clients survives the passes.  `TableInv` is the invariant of
`MemoryStoreProofs`.  A step with passes is a step of the store, an UPDATE of a job, or
the BEGIN of a merge (`PassSteps`): the first is proved there, the UPDATE keeps what each
job names (`UpdateNames`), the BEGIN has read nothing yet (`BeginTables`).

`DroppedTrue` (`OnlyLateWritesDropped`) needs `ReadInv` besides: a merge has the lines of
the row its pass read, and as long as the document shows that event, it shows these lines
(`HasRead`; `DocsChange`: what changes a document names an event the log did not have).
So a dropped line is of an event the pass did not read.  If the merge's transaction has
read that row, the row's `BEGIN` came after the merge was computed, and the row is a
client's, then the conflict check holds, and the commit queues the job.

`SyncProofs` (`CoreAssumption`, `RequestAssumption`, `KeyAssumption`,
`NoneAssumption`, `BoundAssumption`): `TypeCorrect`, `HubTrue` (`HubOnlyAccepted`) and
`ReorderingTrue` (`ReorderingIsQueued`).  `SyncInv` adds
to the types that what travels to the hub is in the log it came from
(`TasksAccepted`) and, per core, that keys occur once (`KeysOnce`), that an event is
a client's or the merge of one (`EventsKnown`), and that a job's event is there and
not merged (`JobsOpen`).  Without the last two the key of a merge, made from that of
its event, could clash.  A crash only drops promises and transactions, so the first part
survives it.

`TxnOK` says what an open transaction is about to write: an event its core has not got
and no other transaction writes, a client's or the merge of an open job.

`ReorderingTrue` needs `OrderInv` besides.  At every core a document shows the last
event of its path (`Shown`), so the question is whether the hub's last one of a ship is
the ship's last.  A write travels with the time its ship gave it, and the hub queues a
conflict if what its transaction read is newer and of another writer.  Hence a write on
its way that would meet no conflict comes, at its ship, after everything the hub has of
that ship's document (`InOrder`, from `Past`: nothing is newer than the clock).  That is
true of a promise (`TasksInOrder`), and of an open transaction of the hub if it is alone
on its document, for then what it read is what is there (`Serial`); here the exemption of
`met` is needed, and nowhere else.  As long as the hub has neither queued, merged nor
deleted anything on the path (`Plain`), what it has of another writer than the one it
shows is not the last write of its ship (`ShowsLater`).  Once the hub has everything, a
ship and the hub that show different writers therefore mean that the conflict was queued
at the hub.

`EdgeQuakeProofs` (`RequestAssumption`, `BoundAssumption`) has three parts.

* For any number of processes, with moves, errors and crashes: `TypeCorrect` and
  `MappingsTrue` (`MappingTrue`).  `EdgeInv` says that events and document ids are given
  out once (`WritesOK`, `RemoteOK`), an event has one job (`QueueOK`), which has an
  attempt left while it may be taken (`Open`), and that the document a drain has posted
  and not yet mapped has, as long as it is there, the body of the drain's event
  (`DrainOK`).  Other drains may take it away or map it, but no id gets another body
  (`Grows`, `BodyStays`), so what `Map` writes is true whatever happened since `Post`.
* For one process and no moves: `DeletesArrive` (`DeletedUnmapped`), and `EditsArrive`
  (`LiveMapped`) if no two paths are given one body.  The three hypotheses (`OneDrain`,
  `NoMoves`, `BodiesApart`) are stated in the theorems; they are those of the run
  `edgequake_edits`, and section 3 says what happens without each.  `OneInv`: while the
  drain works on an event that a newer write has overtaken since the check, the newer
  write's job is still to be done (`OlderFirst`), so whatever the drain does to the
  mapping is made good later; the job of a path's last event is never skipped
  (`LastNotSkipped`); and a drain about to complete a job has left behind what the event
  asks for (`Served`).
* `AttemptsCounted`, an action property, also for one process, moves included: a job
  changes only while it is to be done, and by one attempt.  A drain counts from the
  snapshot it took at its beginning; with one process that is still what the table has
  (`Snapshot`).  With two, TLC shows a completed job that is revived.

`BillingProofs` (`DisjointAssumption`, `CentsAssumption`, `BoundAssumption`):
`TypeCorrect`, `BalanceTrue`, `ActiveShipsPaid`, `FailedShipsRefunded`, and
`WalletImplementsLedger`.  `WalletInv` has four parts.  `Sound`: types, and what each
transaction is about (a launch's own debit or refund, or the event its webhook
brought, which Stripe sends only for a session that is complete and stays so).
`KeyInv`: an inserted, uncommitted entry is new to the ledger and to the other
transactions.  `MoneyInv`: at most one transaction has updated the balance, and it
did so from the committed one; this is what the row lock gives, and it makes the
balance the sum of the ledger.  `ShipSound`: how far a launch has got against what
the ledger has of it.  With them `Publish` is one `Post` of WalletLedger, `Pay` is
`Pay`, and every other action stutters.  `EntriesJustified` is proved of WalletLedger's
steps alone (`JustifiedStep`: no reference twice, no credit without payment, no refund
without an earlier debit) and holds of BillingWallet because it implements them.

`DeliveryProofs` (`QueueAssumption`, `LimitAssumption`, `BoundAssumption`):
`TypeCorrect`, `CompletedJobsSent`, `RepeatsAreRetries` (`RepeatsNeedErrors`).
`QueueInv` says that what a SELECT may find has an attempt left (`AttemptLeft`),
that a job has one owner (`OneOwner`) and is processing, completed or deleted while
it has one (`OwnedTaken`), that what is about to be completed was sent
(`SentFirst`), and that a job which may be sent again has been sent no more often
than errors came after an effect of it (`Resends`).  The last one is the inductive form
of the first part of `RepeatsNeedErrors`; `Reprompts`, that an agent who may be prompted
again has not been prompted since the last attempt failed, is that of the second, proved on
top of `QueueInv` (`PromptStep`).

`ToolProofs` (`InstallsAssumption`, `CrewAssumption`, `GrantAssumption`):
`TypeCorrect`, `LogTrue`, `RequestsLinked`, `EnabledGranted`.  The invariant adds
`WorkSound`: what a handler read long ago is still good enough for what it will
write (the row of the request is there, its own number is nobody's grant, what it
will enable is granted in the log or by its own event).  That no handler's read
need be *current* is the point: only `Present`, the unique indexes and the order of
commits are.

`BridgeCallProofs` (`NoneAssumption`, `LimitAssumption`, `BoundAssumption`):
`TypeCorrect`, and `RoundsInOrder`, that `Spec` implements `RoundQueue!OrderSpec`:
`Ask` is `Refuse` or `Accept`, `Settle` is `End`, a crash `CutOff`, the steps inside a
round stutter.  `CallInv` is the type invariant with the shape of rows and the fact
that a round about to prune has stored its results (`Persisted`).

## 5. What is only model-checked

Liveness (`RequestsEnd`, `WritesReachHub`, `JobsEnd`, `PaidIsCredited`, and the
fairness part of `ImplementsRounds`): fairness and ENABLED are beyond the prover
here.  Every invariant and every refinement the runs check is also proved, but for that
fairness, `DeletedUnmapped` and `LiveMapped` under the hypotheses the theorems name.

## 6. What is not modelled

* Link edges, titles, tags, embeddings and ranking: derived data that no other
  step reads.
* Signatures and HMACs: `Verified` compares the key the registry has with the key
  an envelope was signed with.
* A request that fails verification or parsing: it changes nothing.
* The `.catch` after the INSERTs of merge jobs: Postgres aborts the transaction
  after such an error, and the model has that as `Rollback`.
* The limits of 20 merge jobs a pass, 25 plugin jobs a drain and of a sync batch.
* Wallets of other users, which share nothing with the one modelled; the creation
  of its row at zero; a webhook whose amount differs from the top-up's (an error
  that changes nothing); quotes of zero, for which nothing is debited; launches that
  are not of a managed cloud, which never touch the wallet; what a bootstrap does at
  the provider.  `payment_status` of a session is not looked at by the code: `Pay`
  stands for a completed session.
* The limit of a drain's SELECT (20 jobs), `lastDeliveryStatus` of a connection, and
  how the mirror finds or makes threads and sessions.
* What a prompt leaves (`session-prompt.ts:519-775`): interactions of the agent's
  session, mirror jobs for them and, at the station `cou`, dispatches.  `DeliveryQueue`
  counts prompts as one effect; the jobs they leave are jobs like any other (`Enqueue`).
* Who may use, request or review a tool: a refusal changes nothing.  One ship and
  one subagent are modelled; others share only the catalog with them.
* Bridge calls of other scopes.  The queue is per process: two processes that serve
  one scope run its rounds side by side, and `BridgeCall` is about one process.
* `forwarding` and `wallet-enclave`: small and sequential but for the hazards
  PROJECT.json lists for them; next in the plan.
* The components PROJECT.json lists as not modelled, each with its reason.

## 7. Plan

What is left, in order:

1. `Forwarding` and `WalletEnclave`: idempotency keys and nonces across failures.
2. `BridgeCall` with two processes that share the rows of a scope.

The project stays at a dozen runs, so that all can be repeated at every change: a
new module gets one run for all of its properties and takes the place of another.
