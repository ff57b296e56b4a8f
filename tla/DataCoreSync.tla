---------------------------- MODULE DataCoreSync ----------------------------
(***************************************************************************)
(* The cores of a fleet: each ship's data-core pushes what it accepts to   *)
(* the fleet hub and pulls from it (services/data-core/src/server.ts).     *)
(*                                                                         *)
(* A write is pushed by a promise nobody awaits: first the signer, whose   *)
(* failure is logged and forgotten, then the event, tried once.  Promises  *)
(* of one ship run side by side and die with its process.  A pull is part  *)
(* of a reconcile, which the operator triggers.                            *)
(*                                                                         *)
(* An applyWriteEnvelope is a transaction of two steps here: it reads the  *)
(* document it is for, unlocked, and later writes it.  In between others   *)
(* of its core read and write too; MemoryStore has the statements one by   *)
(* one, MergeWorker those of a merge and what becomes of one that fails.   *)
(* A document is the event that wrote it last.  Moves, the sync nonce      *)
(* (fresh in every push, so it rejects replays only) and the placeholder   *)
(* jobs of a conflict (which never merge) are left out.                    *)
(***************************************************************************)
EXTENDS Naturals, Sequences

CONSTANTS
  Ship, Hub,     \* the cores
  Path, Writer, KeyRef,
  Quartermaster, \* the writer of merges
  Envelope,      \* the writes clients send
  Registration,  \* the POST /v1/signer/upsert requests clients send
  None,          \* no document, no signer
  MaxLosses,     \* bound: pushes lost, rollbacks and crashes in a behaviour
  MaxPulls       \* bound: reconciles a ship begins in a behaviour

Core == Ship \cup {Hub}
EnvelopeType ==
  [key: {e.key : e \in Envelope}, core: Core, op: {"upsert", "delete"}, path: Path,
   writer: Writer, keyRef: KeyRef, at: Nat]
RegistrationType == [core: Core, writer: Writer, keyRef: KeyRef]

\* An event of a log: a client's, or the merge of one.
EventType ==
  [key: {e.key : e \in Envelope} \cup Core \X {e.key : e \in Envelope}, core: Core,
   op: {"upsert", "delete", "merge"}, path: Path, writer: Writer \cup {Quartermaster},
   keyRef: KeyRef \cup {None}, at: Nat]

ASSUME CoreAssumption == Hub \notin Ship
ASSUME RequestAssumption ==
  Envelope \subseteq EnvelopeType /\ Registration \subseteq RegistrationType
\* The key of a merge, made from the id of its job, is no client's.
ASSUME KeyAssumption == \A e, f \in Envelope, c \in Core : e.key # <<c, f.key>>
ASSUME NoneAssumption == None \notin [event: EventType, at: Nat]
ASSUME BoundAssumption == MaxLosses \in Nat /\ MaxPulls \in Nat

VARIABLES
  log,      \* per core: memory_event_log in the order of commits
  docs,     \* per core and path: the write it shows and when it was made, or None
  jobs,     \* per core: the events queued for a merge and not merged
  signers,  \* per core and writer: signer_registry
  txns,     \* the open transactions of all cores, with the document each has read
  tasks,    \* the pushes under way
  pull,     \* per ship: the rows of the reconcile under way
  cursor,   \* per ship: memory_sync_cursor.last_cursor
  now,      \* the clock: transactions begun anywhere
  losses,   \* pushes lost, rollbacks and crashes so far
  pulls,    \* per ship: reconciles begun
  met       \* per core: documents two open transactions were about (history, read by no step)

vars == <<log, docs, jobs, signers, txns, tasks, pull, cursor, now, losses, pulls, met>>

Init ==
  /\ log = [c \in Core |-> <<>>]
  /\ docs = [c \in Core |-> [p \in Path |-> None]]
  /\ jobs = [c \in Core |-> {}]
  /\ signers = [c \in Core |-> [w \in Writer |-> None]]
  /\ txns = {}
  /\ tasks = {}
  /\ pull = [s \in Ship |-> <<>>]
  /\ cursor = [s \in Ship |-> 0]
  /\ now = 0
  /\ losses = 0
  /\ pulls = [s \in Ship |-> 0]
  /\ met = [c \in Core |-> {}]

-----------------------------------------------------------------------------
(* applyWriteEnvelope at a core.                                             *)

Events(c) == {log[c][i] : i \in DOMAIN log[c]}
\* Mutant: the key of an event is not looked up when the document is another one's.
DuplicateHere(c, e) == docs[c][e.path] # None /\ docs[c][e.path].event.key = e.key

Duplicate(c, e) == \E f \in Events(c) : f.key = e.key
Verified(c, e) == signers[c][e.writer] = e.keyRef

\* Two transactions of one key wait for each other in the INSERT of the event and come down to
\* one (MemoryStore); here the second begins when the first has ended.
Underway(c, key) == \E t \in txns : t.core = c /\ t.event.key = key

\* BEGIN and the read of the document, which locks nothing: what is committed now.
Begin(c, e) ==
  /\ ~Underway(c, e.key)
  /\ txns' = txns \cup {[core |-> c, event |-> e, seen |-> docs[c][e.path], begun |-> now + 1]}
  /\ now' = now + 1
  /\ met' = IF \E t \in txns : t.core = c /\ t.event.path = e.path
            THEN [met EXCEPT ![c] = @ \cup {e.path}] ELSE met

\* Mutant: the conflict check looks at clients' times on both sides.
OccurredConflict(t) ==
  /\ t.seen # None
  /\ t.seen.event.op # "delete"
  /\ t.seen.event.at > t.event.at
  /\ t.seen.event.writer # t.event.writer

\* Decided on what the transaction read, whatever the document has become.
Conflict(t) ==
  /\ t.seen # None
  /\ t.seen.event.op # "delete"
  /\ t.seen.at > t.event.at
  /\ t.seen.event.writer # t.event.writer

\* The key of the merge of a job.
MergeKey(c, e) == <<c, e.key>>

\* COMMIT: the event is logged, the document shows it with the time of the BEGIN, a conflict
\* is queued, and the job whose merge this is is done.
Apply(t) ==
  /\ log' = [log EXCEPT ![t.core] = Append(@, t.event)]
  /\ docs' = [docs EXCEPT ![t.core][t.event.path] = [event |-> t.event, at |-> t.begun]]
  /\ jobs' = [jobs EXCEPT ![t.core] =
       {e \in @ : MergeKey(t.core, e) # t.event.key}
       \cup IF Conflict(t) THEN {t.event} ELSE {}]
  /\ txns' = txns \ {t}

store == <<log, docs, jobs>>
database == <<store, txns, now, met>>

\* pushEnvelopeToFleet and pushSignerToFleet return at once unless the role is "ship".
Push(kind, r) == IF r.core = Hub THEN {} ELSE {[kind |-> kind, request |-> r]}

\* A core pushes what its clients wrote, once it is committed: neither merges nor what came
\* from another core.
Pushed(t) ==
  IF t.event.op = "merge" \/ t.event.core # t.core THEN {} ELSE Push("envelope", t.event)

Commit(t) ==
  /\ Apply(t)
  /\ tasks' = tasks \cup Pushed(t)
  /\ UNCHANGED <<signers, pull, cursor, now, losses, pulls, met>>

-----------------------------------------------------------------------------
(* Pushes.                                                                   *)

\* POST /v1/signer/upsert.
RegisterSigner(r) ==
  /\ signers[r.core][r.writer] # r.keyRef
  /\ signers' = [signers EXCEPT ![r.core][r.writer] = r.keyRef]
  /\ tasks' = tasks \cup Push("signer", r)
  /\ UNCHANGED <<database, pull, cursor, losses, pulls>>

\* POST /v1/memory/upsert or delete, from a client whose clock is not ahead.  A resent write
\* is a duplicate and not pushed again; it changes nothing and is left out.
Write(e) ==
  /\ Verified(e.core, e)
  /\ ~Duplicate(e.core, e)
  /\ e.at <= now
  /\ Begin(e.core, e)
  /\ UNCHANGED <<store, signers, tasks, pull, cursor, losses, pulls>>

\* Something goes wrong: a request to the hub, a transaction, or a process.
Lose == losses < MaxLosses /\ losses' = losses + 1

\* The transaction of a write fails; nobody sends an event again that the hub rolled back.
Rollback(t) ==
  /\ t.event.op # "merge"
  /\ Lose
  /\ txns' = txns \ {t}
  /\ UNCHANGED <<store, signers, tasks, pull, cursor, now, pulls, met>>

\* Mutants: the event does not follow its signer; the signer is what follows.
NothingFollows(task) == {}
SignerFollows(task) == {[kind |-> "signer", request |-> task.request]}

\* pushSignerToFleet: of a registration, or of the signature a write carries.  Whether it
\* reaches the hub or not, the envelope goes next.
Following(task) ==
  IF task.kind = "envelope" THEN {[kind |-> "event", request |-> task.request]} ELSE {}

PushSigner(task) ==
  /\ task.kind \in {"signer", "envelope"}
  /\ \/ /\ signers' = [signers EXCEPT ![Hub][task.request.writer] = task.request.keyRef]
        /\ UNCHANGED losses
     \/ Lose /\ UNCHANGED signers
  /\ tasks' = (tasks \ {task}) \cup Following(task)
  /\ UNCHANGED <<database, pull, cursor, pulls>>

\* POST /v1/sync/events at the hub; an event it refuses is not sent again.
Accepted(e) == Verified(Hub, e) /\ ~Duplicate(Hub, e)

PushEvent(task) ==
  /\ task.kind = "event"
  /\ \/ Accepted(task.request) /\ Begin(Hub, task.request) /\ UNCHANGED losses
     \/ ~Accepted(task.request) /\ UNCHANGED <<txns, now, met, losses>>
     \/ Lose /\ UNCHANGED <<txns, now, met>>
  /\ tasks' = tasks \ {task}
  /\ UNCHANGED <<store, signers, pull, cursor, pulls>>

\* The process of a ship stops: its promises and transactions are gone, its tables stay.
Crash(s) ==
  /\ Lose
  /\ (\E task \in tasks : task.request.core = s) \/ (\E t \in txns : t.core = s)
  /\ tasks' = {task \in tasks : task.request.core # s}
  /\ txns' = {t \in txns : t.core # s}
  /\ pull' = [pull EXCEPT ![s] = <<>>]
  /\ UNCHANGED <<store, signers, cursor, now, pulls, met>>

-----------------------------------------------------------------------------
(* Reconcile.                                                                *)

\* The merge worker of a core computes a merge, as of now, and applies it; it is pushed nowhere.
Merge(c) ==
  /\ \E e \in jobs[c] :
       Begin(c, [key |-> MergeKey(c, e), core |-> c, op |-> "merge", path |-> e.path,
                 writer |-> Quartermaster, keyRef |-> None, at |-> now])
  /\ UNCHANGED <<store, signers, tasks, pull, cursor, losses, pulls>>

\* listSyncEvents returns rows of memory_event_log: columns in snake_case, without the nested
\* metadata, event and signature of an envelope, and a BIGINT cursor, which pg hands
\* over as a string.
Row(e, i) == [shape |-> "row", event |-> e, cursor |-> [type |-> "string", value |-> i]]
Parses(row) == row.shape = "envelope"
NextCursor(s, row) ==
  IF row.cursor.type = "number" THEN row.cursor.value ELSE cursor[s]

\* The rows after the ship's cursor.
Fetch(s) ==
  /\ pull[s] = <<>>
  /\ pulls[s] < MaxPulls
  /\ cursor[s] < Len(log[Hub])
  /\ pull' = [pull EXCEPT ![s] =
       [i \in 1..(Len(log[Hub]) - cursor[s]) |->
          Row(log[Hub][cursor[s] + i], cursor[s] + i)]]
  /\ pulls' = [pulls EXCEPT ![s] = @ + 1]
  /\ UNCHANGED <<database, signers, tasks, cursor, losses>>

\* One row: what memoryWriteEnvelopeSchema does not parse is skipped, nothing is verified.
\* After the last one the cursor is saved.
ApplyRow(s) ==
  /\ pull[s] # <<>>
  /\ LET row == Head(pull[s])
     IN /\ IF Parses(row) /\ ~Duplicate(s, row.event)
           THEN Begin(s, row.event)
           ELSE UNCHANGED <<txns, now, met>>
        /\ cursor' = IF Len(pull[s]) = 1 THEN [cursor EXCEPT ![s] = NextCursor(s, row)]
                     ELSE cursor
  /\ pull' = [pull EXCEPT ![s] = Tail(@)]
  /\ UNCHANGED <<store, signers, tasks, losses, pulls>>

Next ==
  \/ \E r \in Registration : RegisterSigner(r)
  \/ \E e \in Envelope : Write(e)
  \/ \E t \in txns : Commit(t) \/ Rollback(t)
  \/ \E task \in tasks : PushSigner(task) \/ PushEvent(task)
  \/ \E s \in Ship : Crash(s) \/ Fetch(s) \/ ApplyRow(s)
  \/ \E c \in Core : Merge(c)

Spec == Init /\ [][Next]_vars

\* A promise the event loop holds is run, a transaction goes on to its end.  Reconciles are
\* begun as long as MaxPulls allows, as an operator or a cron job does who keeps the fleet
\* in step.
FairSpec ==
  /\ Spec
  /\ \A e \in Envelope :
       /\ WF_vars(PushSigner([kind |-> "envelope", request |-> e])
                  /\ [kind |-> "envelope", request |-> e] \in tasks)
       /\ WF_vars(PushEvent([kind |-> "event", request |-> e])
                  /\ [kind |-> "event", request |-> e] \in tasks)
  /\ \A s \in Ship : WF_vars(Fetch(s)) /\ WF_vars(ApplyRow(s))
  /\ \A c \in Core : WF_vars(Merge(c)) /\ WF_vars(\E t \in txns : t.core = c /\ Commit(t))

-----------------------------------------------------------------------------
(* Properties.                                                               *)

\* Type correctness of the cores and of the pushes and pulls under way.
TypeOK ==
  /\ \A c \in Core :
       /\ Events(c) \subseteq EventType
       /\ jobs[c] \subseteq EventType
       /\ \A p \in Path : docs[c][p] \in {None} \cup [event: EventType, at: Nat]
  /\ signers \in [Core -> [Writer -> KeyRef \cup {None}]]
  /\ txns \subseteq [core: Core, event: EventType, begun: Nat,
                    seen: {None} \cup [event: EventType, at: Nat]]
  /\ tasks \subseteq [kind: {"signer"}, request: RegistrationType]
                     \cup [kind: {"envelope", "event"}, request: EnvelopeType]
  /\ \A s \in Ship : \A i \in DOMAIN pull[s] : pull[s][i].event \in EventType
  /\ cursor \in [Ship -> Nat]
  /\ now \in Nat
  /\ losses \in 0..MaxLosses
  /\ pulls \in [Ship -> 0..MaxPulls]
  /\ met \in [Core -> SUBSET Path]

\* The hub holds nothing a core did not accept: whatever crashes and lost pushes do, an event
\* of the hub is in the log of the core that took it from its client, and no key is
\* applied twice at any core.
HubOnlyAccepted ==
  /\ \A e \in Events(Hub) : e \in Events(e.core)
  /\ \A c \in Core : \A i, j \in DOMAIN log[c] : log[c][i].key = log[c][j].key => i = j

\* Pushes overtake each other, so the hub may apply a ship's writes in another order than the
\* ship did.  When both have the same events of a document and show different ones, of
\* different writers, a conflict is queued at one of the two, or the hub was at work on
\* two writes of it at once: what one of these wrote the other's check did not see
\* (memory-store.ts:411-426), and then the two may differ for good without a word.
\* Deletes, which no conflict check sees, are excepted.
Complete(s, p) ==
  /\ \A task \in tasks : task.request.core # s
  /\ \A t \in txns : t.event.core # s
  /\ {e \in Events(s) : e.path = p} = {e \in Events(Hub) : e.path = p}
Queued(c, p) == \E e \in jobs[c] : e.path = p
Deleted(c, p) == \E e \in Events(c) : e.path = p /\ e.op = "delete"
ReorderingIsQueued ==
  \A s \in Ship, p \in Path :
    (/\ Complete(s, p) /\ docs[s][p] # None /\ ~Deleted(s, p)
     /\ docs[s][p].event.writer # docs[Hub][p].event.writer)
    => Queued(s, p) \/ Queued(Hub, p) \/ p \in met[Hub]

\* As long as nothing gets lost, a write a ship accepted gets to the hub, unless the hub at
\* some time knew its writer by another key: a signer pushed late is registered over a
\* newer one, and the event it refuses in between is not sent again.
WritesReachHub ==
  \A e \in Envelope :
    <>(e \in Events(e.core)) /\ [](losses = 0)
      => <>(Duplicate(Hub, e) \/ signers[Hub][e.writer] \notin {None, e.keyRef})

\* docs/DATA_CORE.md:22, "Ship cores pull deltas from fleet hub via cursor": what the hub has
\* from elsewhere gets to every ship that reconciles.
HubReachesShips ==
  \A s \in Ship, e \in Envelope :
    (e \in Events(Hub) /\ pulls[s] < MaxPulls) ~> Duplicate(s, e)

=============================================================================
