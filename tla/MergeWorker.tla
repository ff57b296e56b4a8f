---------------------------- MODULE MergeWorker ----------------------------
(***************************************************************************)
(* MemoryStore.processPendingMergeJobs, run by POST /v1/sync/reconcile     *)
(* (services/data-core/src/server.ts), next to the writes of MemoryStore.  *)
(*                                                                         *)
(* A pass reads the pending jobs once, claims none of them, and works the  *)
(* list off: it reads the document and the incoming event outside any      *)
(* transaction, computes the merged body, applies it as an ordinary write  *)
(* and updates the job.  Passes overlap: nothing keeps two reconciles of a *)
(* core apart.                                                             *)
(***************************************************************************)
EXTENDS MemoryStore

CONSTANTS
  Worker,         \* the connections passes use, one pass each at a time
  Quartermaster,  \* the writer "QTM-LGR:fleet"
  Heading,        \* the lines deterministicMerge puts before a merged body
  MaxPasses       \* bound: passes begun in a behaviour

ASSUME WorkerAssumption == Worker \subseteq Txn /\ Quartermaster \in Writer
                           /\ Heading \subseteq Line /\ MaxPasses \in Nat

VARIABLES
  step,    \* what a pass does next
  batch,   \* the jobs it read and has not worked on
  job,     \* the job it works on
  current, \* the document row it read for it
  merge,   \* the envelope it made of it
  passes   \* passes begun

worker == <<step, batch, job, current, merge, passes>>
allVars == <<vars, worker>>

\* Mutant: the key of a merge is made for the document, not for the job.
PathKey(j) == <<j.path, j.incoming>>

\* idempotencyKey: `merge:${job.id}`.  The incoming event tells the two jobs of a request apart.
MergeKey(j) == <<j.req, j.incoming>>

\* sourceSeq is a timestamp with a random part: new in every attempt.
MergeSeq(w) == <<w, clock>>

\* The keys and sequences of merges are those of some envelope's type, and no client's.
\* Clients write as users and agents (node/src/lib/data-core/client.ts), none as the worker.
ASSUME MergeKeyAssumption ==
  /\ \A r, e \in 0..MaxRequests : <<r, e>> \in Key
  /\ \A w \in Worker, c \in 0..MaxRequests : <<w, c>> \in Seq
  /\ \A e \in Envelope :
       /\ e.key \notin (0..MaxRequests) \X (0..MaxRequests)
       /\ e.seq \notin Worker \X (0..MaxRequests)
       /\ e.writer # Quartermaster

NoJob == [req |-> 0, path |-> CHOOSE p \in Path : TRUE, base |-> 0, incoming |-> 0,
          status |-> "failed", result |-> 0]

WorkerInit ==
  /\ Init
  /\ step = [w \in Worker |-> "idle"]
  /\ batch = [w \in Worker |-> {}]
  /\ job = [w \in Worker |-> NoJob]
  /\ current = [w \in Worker |-> NoRow]
  /\ merge = [w \in Worker |-> AnyEnvelope]
  /\ passes = 0

\* Mutant: the document wins.
KeepCurrent(theirs, incoming) == IF theirs = {} THEN incoming ELSE theirs

\* deterministicMerge: an empty side yields the other one unchanged; otherwise the heading and
\* every line of both, once each.
DeterministicMerge(theirs, incoming) ==
  IF theirs = {} THEN incoming
  ELSE IF incoming = {} THEN theirs
  ELSE Heading \cup theirs \cup incoming

-----------------------------------------------------------------------------

\* SELECT ... WHERE status = 'pending' ORDER BY created_at: the whole list at once.
Fetch(w) ==
  /\ step[w] = "idle" /\ passes < MaxPasses
  /\ passes' = passes + 1
  /\ batch' = [batch EXCEPT ![w] = {j \in jobs : j.status = "pending"}]
  /\ step' = [step EXCEPT ![w] = "next"]
  /\ UNCHANGED <<vars, job, current, merge>>

\* created_at is the time of the transaction that inserted the job; ties in either order.
TakeJob(w) ==
  /\ step[w] = "next"
  /\ \E j \in batch[w] :
       /\ \A k \in batch[w] : j.req <= k.req
       /\ job' = [job EXCEPT ![w] = j]
       /\ batch' = [batch EXCEPT ![w] = @ \ {j}]
  /\ step' = [step EXCEPT ![w] = "read"]
  /\ UNCHANGED <<vars, current, merge, passes>>

EndPass(w) ==
  /\ step[w] = "next" /\ batch[w] = {}
  /\ step' = [step EXCEPT ![w] = "idle"]
  /\ job' = [job EXCEPT ![w] = NoJob]
  /\ current' = [current EXCEPT ![w] = NoRow]
  /\ merge' = [merge EXCEPT ![w] = AnyEnvelope]
  /\ UNCHANGED <<vars, batch, passes>>

\* The document and the incoming event, read outside a transaction; both are there unless the
\* job is a placeholder.  occurredAt is now; the write that follows has a later now().
ReadContext(w) ==
  /\ step[w] = "read"
  /\ \E f \in log :
       /\ f.id = job[w].incoming
       /\ docs[job[w].path].event # NoEvent
       /\ current' = [current EXCEPT ![w] = docs[job[w].path]]
       /\ merge' = [merge EXCEPT ![w] =
            [op |-> "merge", path |-> job[w].path, from |-> job[w].path,
             content |-> DeterministicMerge(docs[job[w].path].content, f.content),
             writer |-> Quartermaster, keyRef |-> AnyEnvelope.keyRef,
             key |-> MergeKey(job[w]), seq |-> MergeSeq(w), at |-> clock]]
  /\ step' = [step EXCEPT ![w] = "begin"]
  /\ UNCHANGED <<vars, batch, job, passes>>

\* throw new Error("Missing merge context")
MissingContext(w) ==
  /\ step[w] = "read"
  /\ docs[job[w].path].event = NoEvent \/ ~\E f \in log : f.id = job[w].incoming
  /\ step' = [step EXCEPT ![w] = "failed"]
  /\ UNCHANGED <<vars, batch, job, current, merge, passes>>

\* applyWriteEnvelope with skipSignatureCheck.
BeginMerge(w) ==
  /\ step[w] = "begin"
  /\ Begin(w, merge[w])
  /\ step' = [step EXCEPT ![w] = "apply"]
  /\ UNCHANGED <<tables, signers, cursor, cur, moved, ev, acks>>
  /\ UNCHANGED <<batch, job, current, merge, passes>>

\* The statements between BEGIN and the end of the transaction.
ApplyMerge(w) ==
  /\ step[w] = "apply"
  /\ \/ ReadExisting(w) \/ NotDuplicate(w) \/ InsertEvent(w) \/ LockTarget(w)
  /\ UNCHANGED worker

\* The transaction commits the merge, or finds that it was committed before.  When the
\* connection breaks after COMMIT, the worker sees an error.
MergeApplied(w) ==
  /\ step[w] = "apply"
  /\ Commit(w) \/ AckDuplicate(w)
  /\ \E next \in {"completed", "failed"} : step' = [step EXCEPT ![w] = next]
  /\ UNCHANGED <<batch, job, current, merge, passes>>

MergeRolledBack(w) ==
  /\ step[w] = "apply"
  /\ Rollback(w)
  /\ step' = [step EXCEPT ![w] = "failed"]
  /\ UNCHANGED <<batch, job, current, merge, passes>>

MergedEvent(key) == CHOOSE f \in log : f.key = key

\* UPDATE memory_merge_job ... WHERE id = $1, whatever the job's status has become.  A failure
\* leaves the event a job names as it is.
SameJob(k, j) == k.req = j.req /\ k.incoming = j.incoming
CompleteJob(j, result) ==
  jobs' = {IF SameJob(k, j) THEN [k EXCEPT !.status = "completed", !.result = result]
           ELSE k : k \in jobs}
FailJob(j) ==
  jobs' = {IF SameJob(k, j) THEN [k EXCEPT !.status = "failed"] ELSE k : k \in jobs}

Complete(w) ==
  /\ step[w] = "completed"
  /\ CompleteJob(job[w], MergedEvent(MergeKey(job[w])).id)
  /\ step' = [step EXCEPT ![w] = "next"]
  /\ UNCHANGED <<docs, log, chunks, signers, cursor, pc, session, clock, acks>>
  /\ UNCHANGED <<batch, job, current, merge, passes>>

\* The catch block, after any error: of the read, of the write, of the UPDATE in Complete.
CompleteFails(w) ==
  /\ step[w] = "completed"
  /\ step' = [step EXCEPT ![w] = "failed"]
  /\ UNCHANGED <<vars, batch, job, current, merge, passes>>

MarkFailed(w) ==
  /\ step[w] = "failed"
  /\ FailJob(job[w]) \/ UNCHANGED jobs
  /\ step' = [step EXCEPT ![w] = "next"]
  /\ UNCHANGED <<docs, log, chunks, signers, cursor, pc, session, clock, acks>>
  /\ UNCHANGED <<batch, job, current, merge, passes>>

\* The process dies in the middle of a pass; an open transaction is rolled back.
Crash(w) ==
  /\ step[w] # "idle"
  /\ \/ Rollback(w)
     \/ pc[w] = "idle" /\ UNCHANGED vars
  /\ step' = [step EXCEPT ![w] = "idle"]
  /\ batch' = [batch EXCEPT ![w] = {}]
  /\ job' = [job EXCEPT ![w] = NoJob]
  /\ current' = [current EXCEPT ![w] = NoRow]
  /\ merge' = [merge EXCEPT ![w] = AnyEnvelope]
  /\ UNCHANGED passes

Pass(w) ==
  \/ Fetch(w) \/ TakeJob(w) \/ EndPass(w) \/ ReadContext(w) \/ MissingContext(w)
  \/ BeginMerge(w) \/ ApplyMerge(w) \/ MergeApplied(w) \/ MergeRolledBack(w)
  \/ Complete(w) \/ CompleteFails(w) \/ MarkFailed(w)

Clients ==
  /\ \/ \E w \in Writer, k \in KeyRef : UpsertSigner(w, k)
     \/ \E t \in Txn \ Worker :
          \/ \E e \in Envelope : Request(t, e)
          \/ Step(t)
          \/ Rollback(t)
  /\ UNCHANGED worker

WorkerNext == Clients \/ \E w \in Worker : Pass(w) \/ Crash(w)

WorkerSpec == WorkerInit /\ [][WorkerNext]_allVars

-----------------------------------------------------------------------------

\* Type correctness of the passes.
WorkerTypeOK ==
  /\ TypeOK
  /\ step \in [Worker -> {"idle", "next", "read", "begin", "apply", "completed",
                          "failed"}]
  /\ batch \in [Worker -> SUBSET JobType]
  /\ job \in [Worker -> JobType]
  /\ current \in [Worker -> RowType]
  /\ merge \in [Worker -> EnvelopeType]
  /\ passes \in Nat

\* A job is completed only by a merge that is in the log: the event it names has the job's own
\* key, is on the job's path and holds every line of the write that lost the race,
\* however many passes worked on the job and wherever one of them died.
CompletedIsMerged ==
  \A j \in jobs : j.status = "completed" =>
    \E f, g \in log :
      /\ f.id = j.result /\ f.key = MergeKey(j)
      /\ f.op = "merge" /\ f.path = j.path
      /\ g.id = j.incoming /\ g.content \subseteq f.content

\* A job is merged at most once, and only a job is merged: passes that overlap, repeat or retry
\* after a crash do not write a second merge of the same job.
MergedOnce ==
  /\ \A f, g \in log : (f.op = "merge" /\ g.op = "merge" /\ f.key = g.key) => f = g
  /\ \A f \in log : f.writer = Quartermaster =>
       \E j \in jobs : f.key = MergeKey(j) /\ f.path = j.path

\* A merge never drops a line of the document it was made of: where its commit does drop
\* lines of the live document, that one was written after the pass had read it.  And such a
\* write has the merge queued for a merge of its own, but for three gaps.  It goes unnoticed
\* when it commits after the merge's transaction has read the row, unlocked
\* (memory-store.ts:411); when it began before the merge was computed, because the conflict
\* check compares its BEGIN with the merge's occurredAt; and when it is a merge itself,
\* of another pass, as all merges are one writer's.
Drops(row, w) == row.live /\ ~(row.content \subseteq merge[w].content)
DroppedWasLate ==
  \A w \in Worker :
    LET row == docs[merge[w].path] IN
    step[w] = "apply" /\ Commit(w) /\ Drops(row, w) =>
      /\ row.event # current[w].event
      /\ \/ \E j \in jobs' : j.incoming = ev[w] /\ j.base = row.event
         \/ row # cur[w]
         \/ row.at <= merge[w].at
         \/ row.writer = Quartermaster
OnlyLateWritesDropped == [][DroppedWasLate]_allVars

\* What the status of a job hides: the request that queued it and the events it names.
JobNames ==
  {[req |-> j.req, path |-> j.path, base |-> j.base, incoming |-> j.incoming] : j \in jobs}

\* The tables still behave as MemoryView says when passes write to them next to the clients:
\* a merge is one event like any other, and what a pass does to a job is not seen.
TableView == INSTANCE MemoryView WITH jobs <- JobNames
PassesImplementView == TableView!Spec

=============================================================================
