----------------------------- MODULE EdgeQuake -----------------------------
(***************************************************************************)
(* The EdgeQuake plugin of a data-core: after a write commits, a promise   *)
(* nobody awaits queues a job, and drains mirror the jobs to the EdgeQuake *)
(* service (services/data-core/src/plugins/edgequake.ts).                  *)
(*                                                                         *)
(* A drain works off the jobs that were due when it began, one at a time,  *)
(* a request or a statement per step, outside any transaction.  Clients    *)
(* write in between.  A flag keeps a process from draining twice at once;  *)
(* two processes on the same database (a rolling restart) both drain.      *)
(*                                                                         *)
(* A write of applyWriteEnvelope is one step here (MemoryStore has its     *)
(* inside); its event is its number.  Merges are synced as upserts are.    *)
(* All paths are of one domain, whose workspace exists.  The LIMIT of a    *)
(* drain is not reached.                                                   *)
(***************************************************************************)
EXTENDS Naturals, FiniteSets

CONSTANTS
  Process,     \* the data-core processes on the database
  Path, Content,
  Id, Request, \* the writes clients make, each once
  None,        \* no document
  MaxRetries,  \* config.edgequake.maxRetries
  MaxFaults    \* bound: crashes and aborted drains in a behaviour

RequestType ==
  [id: Id, op: {"upsert", "delete", "move"}, path: Path, from: Path, content: Content]

\* Events are numbers from 1, in the order of their commits.
MaxWrites == Cardinality(Request)

ASSUME RequestAssumption ==
  /\ Request \subseteq RequestType /\ IsFiniteSet(Request)
  /\ \A r \in Request : r.op = "move" => r.from # r.path
ASSUME BoundAssumption == MaxRetries \in Nat \ {0} /\ MaxFaults \in Nat

VARIABLES
  docs,      \* memory_document_current
  written,   \* the write behind each event, 1 the first
  enqueues,  \* events whose enqueueWriteSync is under way
  jobs,      \* memory_plugin_edgequake_sync_job
  mapped,    \* memory_plugin_edgequake_document: the remote document of a path
  remote,    \* the documents EdgeQuake has
  created,   \* document ids EdgeQuake gave out
  at,        \* per process: what its drain does next
  batch,     \* the jobs it read and has not worked on
  job,       \* the job it works on
  doc,       \* the remote document it deletes or posted
  faults     \* crashes and aborted drains

drain == <<at, batch, job, doc>>
vars == <<docs, written, enqueues, jobs, mapped, remote, created, drain, faults>>

NoDocument == 0
NoMapping == [doc |-> NoDocument, event |-> 0]
NoJob == [event |-> 0, seq |-> 0, status |-> "completed", attempts |-> 0]

Init ==
  /\ docs = [p \in Path |-> [event |-> 0, content |-> None, live |-> FALSE]]
  /\ written = <<>>
  /\ enqueues = {}
  /\ jobs = {}
  /\ mapped = [p \in Path |-> NoMapping]
  /\ remote = {}
  /\ created = 0
  /\ at = [d \in Process |-> "idle"]
  /\ batch = [d \in Process |-> {}]
  /\ job = [d \in Process |-> NoJob]
  /\ doc = [d \in Process |-> NoDocument]
  /\ faults = 0

Writes == Cardinality(DOMAIN written)

-----------------------------------------------------------------------------
(* Writes and the queue.                                                     *)

\* A committed write, with the content it ends up with: a delete keeps the row's.
Write(r) ==
  /\ \A n \in DOMAIN written : written[n].id # r.id
  /\ r.op = "move" => docs[r.from].live
  /\ LET n == Writes + 1
         content == CASE r.op = "upsert" -> r.content
                      [] r.op = "move" -> docs[r.from].content
                      [] r.op = "delete" -> docs[r.path].content
         target == [event |-> n, content |-> content, live |-> r.op # "delete"]
     IN /\ written' = [i \in 1..n |-> IF i = n THEN [r EXCEPT !.content = content]
                                      ELSE written[i]]
        /\ docs' = IF r.op = "move"
                   THEN [docs EXCEPT ![r.path] = target,
                                     ![r.from].event = n, ![r.from].live = FALSE]
                   ELSE [docs EXCEPT ![r.path] = target]
        /\ enqueues' = enqueues \cup {n}
  /\ UNCHANGED <<jobs, mapped, remote, created, drain, faults>>

\* INSERT ... ON CONFLICT (event_id) DO NOTHING; promises of later writes may overtake.
Enqueue(n) ==
  /\ jobs' = jobs \cup {[event |-> n, seq |-> Cardinality(jobs) + 1, status |-> "pending",
                         attempts |-> 0]}
  /\ enqueues' = enqueues \ {n}
  /\ UNCHANGED <<docs, written, mapped, remote, created, drain, faults>>

-----------------------------------------------------------------------------
(* Drains.                                                                   *)

Go(d, step) == at' = [at EXCEPT ![d] = step]

\* The pending jobs and the retrying ones whose backoff is over.
Due(d) ==
  /\ at[d] = "idle"
  /\ \E retries \in SUBSET {j \in jobs : j.status = "retrying"} :
       LET due == retries \cup {j \in jobs : j.status = "pending"}
       IN /\ due # {}
          /\ batch' = [batch EXCEPT ![d] = due]
  /\ Go(d, "next")
  /\ UNCHANGED <<docs, written, enqueues, jobs, mapped, remote, created, job, doc, faults>>

\* By next_attempt_at: a pending job's is the time it was queued, a retrying one's any later
\* time.
Take(d) ==
  /\ at[d] = "next"
  /\ \E j \in batch[d] :
       /\ j.status = "pending" =>
            \A k \in batch[d] : k.status = "pending" => j.seq <= k.seq
       /\ job' = [job EXCEPT ![d] = j]
       /\ batch' = [batch EXCEPT ![d] = @ \ {j}]
  /\ Go(d, "check")
  /\ UNCHANGED <<docs, written, enqueues, jobs, mapped, remote, created, doc, faults>>

DrainDone(d) ==
  /\ at[d] = "next" /\ batch[d] = {}
  /\ Go(d, "idle")
  /\ job' = [job EXCEPT ![d] = NoJob]
  /\ doc' = [doc EXCEPT ![d] = NoDocument]
  /\ UNCHANGED <<docs, written, enqueues, jobs, mapped, remote, created, batch, faults>>

Event(d) == job[d].event
Op(d) == written[Event(d)].op
Target(d) == written[Event(d)].path

\* The path syncDelete is for: the source of a move.
Removed(d) == IF Op(d) = "move" THEN written[Event(d)].from ELSE Target(d)

\* Mutant: every job is current.
NeverStale(d) == FALSE

\* isStaleSyncJob: another event wrote the path last.
Stale(d) == docs[Target(d)].event # Event(d)

\* UPDATE ... WHERE id = $1, with the attempts of the snapshot.
Update(d, status, attempts) ==
  jobs' = {IF j.event = Event(d)
           THEN [j EXCEPT !.status = status, !.attempts = attempts] ELSE j : j \in jobs}

Skip(d) ==
  /\ at[d] = "check" /\ Stale(d)
  /\ Update(d, "skipped", job[d].attempts + 1)
  /\ Go(d, "next")
  /\ UNCHANGED <<docs, written, enqueues, mapped, remote, created, batch, job, doc, faults>>

Check(d) ==
  /\ at[d] = "check" /\ ~Stale(d)
  /\ Go(d, IF Op(d) = "upsert" THEN "post" ELSE "lookup")
  /\ UNCHANGED <<docs, written, enqueues, jobs, mapped, remote, created, batch, job, doc,
                 faults>>

\* syncDelete: find the mapping, delete the remote document if there is one, which need not
\* exist any more, then the mapping.
Lookup(d) ==
  /\ at[d] = "lookup"
  /\ doc' = [doc EXCEPT ![d] = mapped[Removed(d)].doc]
  /\ Go(d, "remove")
  /\ UNCHANGED <<docs, written, enqueues, jobs, mapped, remote, created, batch, job, faults>>

Remove(d) ==
  /\ at[d] = "remove"
  /\ remote' = {r \in remote : r.id # doc[d]}
  /\ \/ Go(d, "unmap")
     \/ doc[d] # NoDocument /\ Go(d, "failing")
  /\ UNCHANGED <<docs, written, enqueues, jobs, mapped, created, batch, job, doc, faults>>

Unmap(d) ==
  /\ at[d] = "unmap"
  /\ mapped' = [mapped EXCEPT ![Removed(d)] = NoMapping]
  /\ Go(d, IF Op(d) = "move" THEN "post" ELSE "complete")
  /\ UNCHANGED <<docs, written, enqueues, jobs, remote, created, batch, job, doc, faults>>

\* syncUpsert: POST /api/v1/documents.  EdgeQuake answers with the document it has of the
\* same content (duplicate_of), or makes one; the answer may not arrive in time.
Posted(d) == {r.id : r \in {r \in remote : r.content = written[Event(d)].content}}

Post(d) ==
  /\ at[d] = "post"
  /\ IF Posted(d) # {}
     THEN /\ doc' = [doc EXCEPT ![d] = CHOOSE id \in Posted(d) : TRUE]
          /\ UNCHANGED <<remote, created>>
     ELSE /\ doc' = [doc EXCEPT ![d] = created + 1]
          /\ remote' = remote \cup {[id |-> created + 1,
                                     content |-> written[Event(d)].content]}
          /\ created' = created + 1
  /\ Go(d, "unshare") \/ Go(d, "failing")
  /\ UNCHANGED <<docs, written, enqueues, jobs, mapped, batch, job, faults>>

\* DELETE of the mappings other paths have to the document.
Unshare(d) ==
  /\ at[d] = "unshare"
  /\ mapped' = [p \in Path |-> IF p # Target(d) /\ mapped[p].doc = doc[d]
                               THEN NoMapping ELSE mapped[p]]
  /\ Go(d, "map")
  /\ UNCHANGED <<docs, written, enqueues, jobs, remote, created, batch, job, doc, faults>>

\* Mutant: the mapping names the event the path has now.
CurrentMapping(d) == [doc |-> doc[d], event |-> docs[Target(d)].event]

Mapping(d) == [doc |-> doc[d], event |-> Event(d)]

\* INSERT ... ON CONFLICT (domain, canonical_path) DO UPDATE, under the unique constraint on
\* the document.
Map(d) ==
  /\ at[d] = "map"
  /\ \A p \in Path \ {Target(d)} : mapped[p].doc # doc[d]
  /\ mapped' = [mapped EXCEPT ![Target(d)] = Mapping(d)]
  /\ Go(d, "complete")
  /\ UNCHANGED <<docs, written, enqueues, jobs, remote, created, batch, job, doc, faults>>

Complete(d) ==
  /\ at[d] = "complete"
  /\ Update(d, "completed", job[d].attempts + 1)
  /\ Go(d, "next")
  /\ UNCHANGED <<docs, written, enqueues, mapped, remote, created, batch, job, doc, faults>>

\* A request that did not get through, or a statement that failed.
Error(d) ==
  /\ at[d] \in {"lookup", "remove", "unmap", "post", "unshare", "map", "complete"}
  /\ Go(d, "failing")
  /\ UNCHANGED <<docs, written, enqueues, jobs, mapped, remote, created, batch, job, doc,
                 faults>>

\* Mutant: attempts are not counted.
SameAttempts(d) == job[d].attempts

Attempts(d) == job[d].attempts + 1

\* Mutant: one attempt too many.
LateGiveUp(d) == Attempts(d) > MaxRetries

GiveUp(d) == Attempts(d) >= MaxRetries

\* failOrRetryJob
Retry(d) ==
  /\ at[d] = "failing"
  /\ Update(d, IF GiveUp(d) THEN "failed" ELSE "retrying", Attempts(d))
  /\ Go(d, "next")
  /\ UNCHANGED <<docs, written, enqueues, mapped, remote, created, batch, job, doc, faults>>

\* The process stops, with the promises it holds; or an UPDATE of the queue throws out of
\* drainPending and the drain alone ends.
Stop(d) ==
  /\ faults < MaxFaults
  /\ faults' = faults + 1
  /\ enqueues' \in SUBSET enqueues
  /\ at[d] # "idle" \/ enqueues' # enqueues
  /\ Go(d, "idle")
  /\ batch' = [batch EXCEPT ![d] = {}]
  /\ job' = [job EXCEPT ![d] = NoJob]
  /\ doc' = [doc EXCEPT ![d] = NoDocument]
  /\ UNCHANGED <<docs, written, jobs, mapped, remote, created>>

DrainStep(d) ==
  \/ Due(d) \/ Take(d) \/ DrainDone(d) \/ Check(d) \/ Skip(d) \/ Lookup(d) \/ Remove(d)
  \/ Unmap(d) \/ Post(d) \/ Unshare(d) \/ Map(d) \/ Complete(d) \/ Error(d) \/ Retry(d)

Next ==
  \/ \E r \in Request : Write(r)
  \/ \E n \in enqueues : Enqueue(n)
  \/ \E d \in Process : DrainStep(d) \/ Stop(d)

Spec == Init /\ [][Next]_vars

\* setInterval begins drains again and again, promises run, and a request that is not answered
\* is aborted after timeoutMs.
FairSpec ==
  /\ Spec
  /\ \A n \in 1..MaxWrites : WF_vars(n \in enqueues /\ Enqueue(n))
  /\ \A d \in Process : WF_vars(DrainStep(d))

-----------------------------------------------------------------------------
(* Properties.                                                               *)

\* The type invariant.  The column attempts stays within MaxRetries (edgequake.ts:641-660); it
\* does not bound how often a job is run when processes share the queue, since one with an
\* older snapshot gives attempts back.
Steps == {"idle", "next", "check", "lookup", "remove", "unmap", "post", "unshare", "map",
          "complete", "failing"}
JobType ==
  [event: 1..MaxWrites, seq: 1..MaxWrites, attempts: 0..MaxRetries,
   status: {"pending", "retrying", "completed", "skipped", "failed"}]
TypeOK ==
  /\ docs \in [Path -> [event: 0..MaxWrites, content: Content \cup {None}, live: BOOLEAN]]
  /\ \A n \in DOMAIN written : written[n].path \in Path /\ written[n].from \in Path
  /\ enqueues \subseteq 1..MaxWrites
  /\ jobs \subseteq JobType
  /\ mapped \in [Path -> [doc: 0..created, event: 0..MaxWrites]]
  /\ remote \subseteq [id: 1..created, content: Content \cup {None}]
  /\ at \in [Process -> Steps]
  /\ batch \in [Process -> SUBSET JobType]
  /\ job \in [Process -> JobType \cup {NoJob}]
  /\ doc \in [Process -> 0..created]
  /\ faults \in 0..MaxFaults

\* A citation of hybrid search never quotes one write under the name of another: the remote
\* document a path is mapped to, if it is still there, has the content of the event the
\* mapping names, and no two paths share it, whatever processes drain side by side.
MappingTrue ==
  \A p \in Path : mapped[p] # NoMapping =>
    /\ \A r \in remote : r.id = mapped[p].doc => r.content = written[mapped[p].event].content
    /\ written[mapped[p].event].path = p
    /\ \A q \in Path : mapped[q].doc = mapped[p].doc => q = p

\* Every write got its job, and no job is left to do or was given up.
Settled ==
  /\ \A n \in DOMAIN written :
       \E j \in jobs : j.event = n /\ j.status \in {"completed", "skipped"}
  /\ \A d \in Process : at[d] = "idle"

\* Once the queue is worked off, hybrid search serves what the core has: a deleted document is
\* not mapped...
DeletedUnmapped ==
  Settled => \A p \in Path : ~docs[p].live => mapped[p] = NoMapping

\* ... and a live one is mapped to a remote document of its last write.  With one process both
\* hold for edits and deletes, however their jobs overtake, fail or crash; moves break both.
\* The second is for paths whose bodies differ: of two that get the same body only the one
\* synced last stays mapped, as Unshare takes the mapping from the other.
LiveMapped ==
  Settled => \A p \in Path : docs[p].live =>
    /\ mapped[p].event = docs[p].event
    /\ [id |-> mapped[p].doc, content |-> docs[p].content] \in remote

\* A queued job is completed, skipped or given up in the end, and stays so.
JobsEnd ==
  \A n \in 1..MaxWrites :
    (\E j \in jobs : j.event = n)
      ~> [](\E j \in jobs : j.event = n /\ j.status \in {"completed", "skipped", "failed"})

=============================================================================
