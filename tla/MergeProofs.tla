---------------------------- MODULE MergeProofs ----------------------------
(***************************************************************************)
(* Theorems about MergeWorker, for any number of passes, clients and       *)
(* writes: passes that overlap, retry and die merge a job at most once,    *)
(* and a job is completed only by a merge that holds what lost.            *)
(***************************************************************************)
EXTENDS MergeWorker, MemoryStoreProofs, FiniteSetTheorems

-----------------------------------------------------------------------------
(* The inductive invariant.                                                  *)

Working(w) == step[w] \notin {"idle", "next"}
PairKey == (0..MaxRequests) \X (0..MaxRequests)

\* Every cursor was taken by a request that has begun, and those that have not inserted
\* their event yet have begun as well: cursors stay within the bound on requests.
Waiting == {t \in Txn : pc[t] \in {"existing", "dup", "insert"}}
Counted ==
  /\ IsFiniteSet(Waiting) /\ clock <= MaxRequests
  /\ cursor + Cardinality(Waiting) <= clock

BegunBefore == \A t \in Txn : begun[t] <= clock

\* Whose transaction it is shows in its envelope.
ClientsOwn == \A t \in Txn \ Worker : pc[t] # "idle" => env[t] \in Envelope
Owns(w) == IF step[w] = "apply" THEN env[w] = merge[w] ELSE pc[w] = "idle"

\* A job is that of a request, and names no event or one on its path.
Names(j, g) == g.id = j.incoming /\ g.path = j.path
JobsSound ==
  \A j \in jobs : j.req <= clock /\ (j.incoming = Placeholder \/ \E g \in log : Names(j, g))

\* What a pass has read is in the table, perhaps with another status.
Known(j) == \E k \in jobs : k.req = j.req /\ k.incoming = j.incoming /\ k.path = j.path
Knows(w) == (\A j \in batch[w] : Known(j)) /\ (Working(w) => Known(job[w]))

\* An envelope or an event that merges job j.
Merges(e, j) ==
  /\ e.op = "merge" /\ e.path = j.path /\ e.key = MergeKey(j)
  /\ \E g \in log : g.id = j.incoming /\ g.content \subseteq e.content
HasMade(w) ==
  step[w] \in {"begin", "apply"} => Merges(merge[w], job[w]) /\ merge[w].writer = Quartermaster

\* Merges, and only they, have keys of merges and the Quartermaster's name.
LogMerges ==
  \A f \in log : f.key \in PairKey \/ f.writer = Quartermaster =>
    \E j \in jobs : Merges(f, j)

Merged(j) == \E f \in log : Merges(f, j)
HasMerged(w) == step[w] = "completed" => Merged(job[w])

StoreInv == UniqueInv /\ Counted /\ BegunBefore /\ JobsSound /\ LogMerges /\ CompletedIsMerged
PassOK(w) == Owns(w) /\ Knows(w) /\ HasMade(w) /\ HasMerged(w)
PassInv == WorkerTypeOK /\ ClientsOwn /\ \A w \in Worker : PassOK(w)
WorkerInv == StoreInv /\ PassInv

-----------------------------------------------------------------------------
(* Bounds and keys.                                                          *)

LEMMA Bounds ==
  ASSUME TypeOK, Counted
  PROVE  cursor <= clock /\ clock \in 0..MaxRequests /\ MaxRequests \in Nat
<1>1. Cardinality(Waiting) \in Nat
  BY FS_CardinalityType DEF Counted
<1>2. cursor \in Nat /\ clock \in Nat /\ MaxRequests \in Nat
  BY BoundAssumption DEF TypeOK
<1> QED
  BY <1>1, <1>2 DEF Counted

\* The key of a merge of a job that is known is one.
LEMMA KnownKey ==
  ASSUME StoreInv, NEW j \in JobType, Known(j)
  PROVE  MergeKey(j) \in PairKey /\ MergeKey(j) \in Key
<1>1. PICK k \in jobs : k.req = j.req /\ k.incoming = j.incoming
  BY DEF Known
<1>2. /\ TypeOK /\ cursor <= clock /\ clock \in 0..MaxRequests /\ MaxRequests \in Nat
      /\ cursor \in Nat
  BY Bounds DEF StoreInv, UniqueInv, TypeOK
<1>3. j.req \in Nat /\ j.incoming \in Nat /\ j.req <= clock
  BY <1>1 DEF JobType, StoreInv, JobsSound
<1>4. k.incoming <= cursor
  <2>1. CASE k.incoming = Placeholder
    BY <1>2, <2>1 DEF Placeholder
  <2>2. CASE \E g \in log : Names(k, g)
    BY <1>2, <2>2 DEF StoreInv, UniqueInv, IdsBounded, Names
  <2> QED
    BY <2>1, <2>2 DEF StoreInv, JobsSound
<1>5. j.req \in 0..MaxRequests /\ j.incoming \in 0..MaxRequests
  BY <1>1, <1>2, <1>3, <1>4
<1> QED
  BY <1>5, MergeKeyAssumption DEF MergeKey, PairKey

-----------------------------------------------------------------------------
(* What a step of the store leaves as it is.                                 *)

\* Jobs keep their names, and events stay.
Keeps ==
  /\ log \subseteq log'
  /\ \A k \in jobs : \E j \in jobs' :
       j.req = k.req /\ j.incoming = k.incoming /\ j.path = k.path

LEMMA Stable ==
  ASSUME Keeps, NEW j
  PROVE  /\ Known(j) => Known(j)'
         /\ \A e : Merges(e, j) => Merges(e, j)'
         /\ Merged(j) => Merged(j)'
<1>1. Known(j) => Known(j)'
  BY DEF Known, Keeps
<1>2. ASSUME NEW e, Merges(e, j) PROVE Merges(e, j)'
  BY <1>2 DEF Merges, Keeps, MergeKey
<1>3. Merged(j) => Merged(j)'
  BY <1>2 DEF Merged, Keeps
<1> QED
  BY <1>1, <1>2, <1>3

\* The statements that change nothing but the transaction they are part of.
Statement(t) ==
  ReadExisting(t) \/ NotDuplicate(t) \/ ReadSource(t) \/ LockTarget(t) \/ LockSource(t)

LEMMA TxnFrame ==
  ASSUME TypeOK, NEW t \in Txn, Step(t) \/ Rollback(t)
  PROVE  /\ \A u \in Txn \ {t} : pc'[u] = pc[u] /\ env'[u] = env[u] /\ begun'[u] = begun[u]
         /\ pc'[t] = "idle" \/ (pc[t] # "idle" /\ env'[t] = env[t])
         /\ begun'[t] \in {begun[t], 0}
         /\ clock' = clock
<1>1. CASE Statement(t)
  BY <1>1 DEF Statement, ReadExisting, NotDuplicate, ReadSource, LockTarget, LockSource, TypeOK,
              session
<1>2. CASE InsertEvent(t)
  BY <1>2 DEF InsertEvent, TypeOK
<1>3. CASE Release(t) /\ clock' = clock
  BY <1>3 DEF Release, TypeOK
<1>4. CASE AckDuplicate(t) \/ Commit(t) \/ Rollback(t)
  BY <1>3, <1>4 DEF AckDuplicate, Commit, Rollback
<1> QED
  BY <1>1, <1>2, <1>4 DEF Step, Statement, Fail

\* An event is inserted by a transaction that was waiting.
LEMMA TxnCounts ==
  ASSUME TypeOK, Counted, NEW t \in Txn, Step(t) \/ Rollback(t)
  PROVE  Counted'
<1>1. clock' = clock
  BY TxnFrame
<1>2. IsFiniteSet(Waiting) /\ Cardinality(Waiting) \in Nat /\ cursor \in Nat /\ clock \in Nat
  BY FS_CardinalityType DEF Counted, TypeOK
<1>3. ASSUME Waiting' \subseteq Waiting, cursor' = cursor PROVE Counted'
  <2>1. IsFiniteSet(Waiting') /\ Cardinality(Waiting') <= Cardinality(Waiting)
    BY <1>2, <1>3, FS_Subset
  <2>2. Cardinality(Waiting') \in Nat
    BY <2>1, FS_CardinalityType
  <2> QED
    BY <1>1, <1>2, <1>3, <2>1, <2>2 DEF Counted
<1>4. CASE Statement(t)
  <2>1. Waiting' \subseteq Waiting
    BY <1>4 DEF Waiting, Statement, ReadExisting, NotDuplicate, ReadSource, LockTarget,
                LockSource, TypeOK
  <2>2. cursor' = cursor
    BY <1>4 DEF Statement, ReadExisting, NotDuplicate, ReadSource, LockTarget, LockSource
  <2> QED
    BY <1>3, <2>1, <2>2
<1>5. CASE InsertEvent(t)
  <2>1. t \in Waiting /\ Waiting' = Waiting \ {t} /\ cursor' = cursor + 1
    BY <1>5 DEF InsertEvent, Waiting, TypeOK
  <2>2. IsFiniteSet(Waiting') /\ Cardinality(Waiting') = Cardinality(Waiting) - 1
    BY <1>2, <2>1, FS_RemoveElement
  <2> QED
    BY <1>1, <1>2, <2>1, <2>2 DEF Counted
<1>6. ASSUME Release(t), cursor' = cursor PROVE Counted'
  <2>1. Waiting' \subseteq Waiting
    BY <1>6 DEF Release, Waiting, TypeOK
  <2> QED
    BY <1>3, <1>6, <2>1
<1>7. CASE AckDuplicate(t) \/ Commit(t) \/ Rollback(t)
  BY <1>6, <1>7 DEF AckDuplicate, Commit, Rollback
<1> QED
  BY <1>4, <1>5, <1>7 DEF Step, Statement, Fail

\* What a transaction adds to the tables.
LEMMA TxnTables ==
  ASSUME TypeOK, NEW t \in Txn, Step(t) \/ Rollback(t)
  PROVE  /\ jobs \subseteq jobs' /\ log \subseteq log'
         /\ log' = log \/ (Commit(t) /\ log' = log \cup {Event(t)})
         /\ \A j \in jobs' \ jobs :
              /\ j.status = "pending" /\ j.req = begun[t]
              /\ \/ j.incoming = Placeholder
                 \/ Event(t) \in log' /\ Names(j, Event(t))
<1>1. CASE Statement(t) \/ InsertEvent(t) \/ Rollback(t)
  BY <1>1 DEF Statement, ReadExisting, NotDuplicate, ReadSource, LockTarget, LockSource,
              InsertEvent, Rollback, tables
<1>2. \A j \in PlaceholderJobs(t) :
        j.status = "pending" /\ j.req = begun[t] /\ j.incoming = Placeholder
  BY DEF PlaceholderJobs, MergeJob
<1>3. \A j \in EventJobs(t) :
        j.status = "pending" /\ j.req = begun[t] /\ Names(j, Event(t))
  BY DEF EventJobs, MergeJob, Names, Event
<1>4. CASE AckDuplicate(t)
  BY <1>2, <1>4 DEF AckDuplicate
<1>5. CASE Commit(t)
  BY <1>2, <1>3, <1>5 DEF Commit
<1> QED
  BY <1>1, <1>4, <1>5 DEF Step, Statement, Fail

\* Every transaction keeps what is known of the tables, if what it commits is a client's write
\* or the merge of a job.
LEMMA StoreStep ==
  ASSUME StoreInv, NEW t \in Txn, Step(t) \/ Rollback(t),
         Commit(t) => \/ env[t].key \notin PairKey /\ env[t].writer # Quartermaster
                      \/ \E j \in jobs : Merges(env[t], j)
  PROVE  StoreInv' /\ Keeps
<1> TypeOK /\ LogUnique /\ clock \in Nat /\ cursor \in Nat
  BY DEF StoreInv, UniqueInv, TypeOK
<1>1. UniqueInv'
  BY UniqueStep DEF StoreInv, Next
<1>2. TypeOK' /\ LogUnique'
  BY <1>1 DEF UniqueInv
<1>3. Counted'
  BY TxnCounts DEF StoreInv
<1>4. Keeps
  BY TxnTables DEF Keeps
<1>5. BegunBefore'
  <2>1. ASSUME NEW u \in Txn PROVE begun'[u] <= clock'
    BY TxnFrame DEF StoreInv, BegunBefore
  <2> QED
    BY <2>1 DEF BegunBefore
<1>6. JobsSound'
  <2> SUFFICES ASSUME NEW j \in jobs'
               PROVE  j.req <= clock' /\ (j.incoming = Placeholder \/ \E g \in log' : Names(j, g))
    BY DEF JobsSound, Names
  <2>1. CASE j \in jobs
    BY <2>1, TxnFrame, TxnTables DEF StoreInv, JobsSound
  <2>2. CASE j \notin jobs
    BY <2>2, TxnFrame, TxnTables DEF StoreInv, BegunBefore
  <2> QED
    BY <2>1, <2>2
<1>7. LogMerges'
  <2> SUFFICES ASSUME NEW f \in log', f.key \in PairKey \/ f.writer = Quartermaster
               PROVE  \E j \in jobs' : Merges(f, j)'
    BY DEF LogMerges
  <2>1. CASE f \in log
    <3>1. PICK j \in jobs : Merges(f, j)
      BY <2>1 DEF StoreInv, LogMerges
    <3> QED
      BY <1>4, <3>1, Stable, TxnTables
  <2>2. CASE f \notin log
    <3>1. Commit(t) /\ f = Event(t)
      BY <2>2, TxnTables
    <3>2. /\ f.key = env[t].key /\ f.writer = env[t].writer /\ f.op = env[t].op
          /\ f.path = env[t].path /\ f.content = env[t].content
      BY <3>1 DEF Event
    <3>3. PICK j \in jobs : Merges(env[t], j)
      BY <3>1, <3>2
    <3>4. Merges(f, j)
      BY <3>2, <3>3 DEF Merges
    <3> QED
      BY <1>4, <3>4, Stable, TxnTables
  <2> QED
    BY <2>1, <2>2
<1>8. CompletedIsMerged'
  <2> SUFFICES ASSUME NEW j \in jobs', j.status = "completed"
               PROVE  \E f, g \in log' :
                        /\ f.id = j.result /\ f.key = MergeKey(j)
                        /\ f.op = "merge" /\ f.path = j.path
                        /\ g.id = j.incoming /\ g.content \subseteq f.content
    BY DEF CompletedIsMerged, MergeKey
  <2>1. j \in jobs
    BY TxnTables
  <2> QED
    BY <2>1, TxnTables DEF StoreInv, CompletedIsMerged
<1> QED
  BY <1>1, <1>3, <1>4, <1>5, <1>6, <1>7, <1>8 DEF StoreInv

\* A step that leaves the store alone, or only its signers.
LEMMA StoreSame ==
  ASSUME StoreInv, UNCHANGED <<docs, log, chunks, jobs, cursor, pc, env, begun, ev, clock>>,
         UniqueInv'
  PROVE  StoreInv' /\ Keeps
<1>1. Waiting' = Waiting
  BY DEF Waiting
<1>2. Counted' /\ BegunBefore'
  BY <1>1 DEF StoreInv, Counted, BegunBefore
<1>3. JobsSound' /\ LogMerges' /\ CompletedIsMerged'
  <2>1. JobsSound'
    BY DEF StoreInv, JobsSound, Names
  <2>2. LogMerges'
    BY DEF StoreInv, LogMerges, Merges, MergeKey
  <2>3. CompletedIsMerged'
    BY DEF StoreInv, CompletedIsMerged, MergeKey
  <2> QED
    BY <2>1, <2>2, <2>3
<1>4. Keeps
  BY DEF Keeps
<1> QED
  BY <1>2, <1>3, <1>4 DEF StoreInv

\* BEGIN, for a client or for a pass.
LEMMA BeginStep ==
  ASSUME StoreInv, NEW t \in Txn, NEW e \in EnvelopeType, Begin(t, e),
         UNCHANGED <<tables, signers, cursor, cur, moved, ev, acks>>
  PROVE  StoreInv' /\ Keeps
<1> TypeOK
  BY DEF StoreInv, UniqueInv
<1>1. TypeOK'
  BY DEF Begin, TypeOK, tables
<1>2. Quiet
  BY DEF Begin, Quiet, Inserted, TypeOK, tables
<1>3. UniqueInv'
  BY <1>1, <1>2, QuietStep DEF StoreInv
<1>4. clock' = clock + 1 /\ clock' <= MaxRequests /\ clock \in Nat /\ cursor \in Nat
  BY BoundAssumption DEF Begin, TypeOK
<1>5. Counted'
  <2>1. t \notin Waiting /\ Waiting' = Waiting \cup {t}
    BY DEF Begin, Waiting, TypeOK
  <2>2. IsFiniteSet(Waiting') /\ Cardinality(Waiting') = Cardinality(Waiting) + 1
    BY <2>1, FS_AddElement DEF StoreInv, Counted
  <2>3. Cardinality(Waiting) \in Nat
    BY FS_CardinalityType DEF StoreInv, Counted
  <2> QED
    BY <1>4, <2>2, <2>3 DEF StoreInv, Counted, tables
<1>6. BegunBefore'
  BY <1>4 DEF Begin, StoreInv, BegunBefore, TypeOK
<1>7. JobsSound'
  <2>1. jobs \subseteq JobType
    BY DEF TypeOK
  <2> QED
    BY <1>4, <2>1 DEF StoreInv, JobsSound, Names, tables, JobType
<1>8. LogMerges' /\ CompletedIsMerged' /\ Keeps
  <2>1. UNCHANGED <<log, jobs>>
    BY DEF tables
  <2>2. LogMerges'
    BY <2>1 DEF StoreInv, LogMerges, Merges, MergeKey
  <2>3. CompletedIsMerged'
    BY <2>1 DEF StoreInv, CompletedIsMerged, MergeKey
  <2>4. Keeps
    BY <2>1 DEF Keeps
  <2> QED
    BY <2>2, <2>3, <2>4
<1> QED
  BY <1>3, <1>5, <1>6, <1>7, <1>8 DEF StoreInv

\* The UPDATE of a job keeps what the tables promise if a completed job gets its merge.
\* The UPDATE of a job: every job keeps its name, and what has changed has failed or is the
\* job completed with the event given.
SameName(k, i) ==
  k.req = i.req /\ k.path = i.path /\ k.base = i.base /\ k.incoming = i.incoming
Updated(j, result) ==
  /\ \A i \in jobs : \E k \in jobs' : SameName(k, i)
  /\ \A k \in jobs' :
       /\ result \in Nat => k \in JobType
       /\ \E i \in jobs :
            /\ SameName(k, i)
            /\ \/ k = i \/ k.status = "failed"
               \/ SameJob(i, j) /\ k.status = "completed" /\ k.result = result

LEMMA Completes ==
  ASSUME TypeOK, NEW j, NEW result, CompleteJob(j, result)
  PROVE  Updated(j, result)
<1> DEFINE New(k) == IF SameJob(k, j) THEN [k EXCEPT !.status = "completed", !.result = result]
                     ELSE k
<1>1. jobs' = {New(k) : k \in jobs}
  BY DEF CompleteJob
<1>2. ASSUME NEW k \in jobs
      PROVE  /\ result \in Nat => New(k) \in JobType
             /\ SameName(New(k), k)
             /\ \/ New(k) = k
                \/ SameJob(k, j) /\ New(k).status = "completed" /\ New(k).result = result
  <2>1. k \in JobType
    BY DEF TypeOK
  <2> QED
    BY <2>1 DEF JobType, SameName
<1> HIDE DEF New
<1> QED
  BY <1>1, <1>2 DEF Updated

LEMMA Fails ==
  ASSUME TypeOK, NEW j, FailJob(j), NEW result
  PROVE  Updated(j, result)
<1> DEFINE New(k) == IF SameJob(k, j) THEN [k EXCEPT !.status = "failed"] ELSE k
<1>1. jobs' = {New(k) : k \in jobs}
  BY DEF FailJob
<1>2. ASSUME NEW k \in jobs
      PROVE  New(k) \in JobType /\ SameName(New(k), k) /\ (New(k) = k \/ New(k).status = "failed")
  <2>1. k \in JobType
    BY DEF TypeOK
  <2> QED
    BY <2>1 DEF JobType, SameName
<1> HIDE DEF New
<1> QED
  BY <1>1, <1>2 DEF Updated

LEMMA UpdateStep ==
  ASSUME StoreInv, NEW j \in JobType, NEW result \in Nat, Updated(j, result),
         UNCHANGED <<docs, log, chunks, signers, cursor, pc, session, clock, acks>>,
         FailJob(j) \/ (Known(j) /\ \E f \in log : f.id = result /\ Merges(f, j))
  PROVE  StoreInv' /\ Keeps
<1> TypeOK /\ LogUnique /\ jobs \subseteq JobType /\ log' = log /\ clock' = clock
  BY DEF StoreInv, UniqueInv, TypeOK
<1>1. TypeOK'
  BY DEF Updated, TypeOK, session
<1>2. UniqueInv'
  BY <1>1, QuietStep DEF StoreInv, Quiet, Inserted, session
<1>3. Keeps
  BY DEF Updated, SameName, Keeps
<1>4. Waiting' = Waiting
  BY DEF Waiting
<1>5. Counted' /\ BegunBefore'
  BY <1>4 DEF StoreInv, Counted, BegunBefore, session
<1>6. JobsSound'
  BY DEF Updated, SameName, StoreInv, JobsSound, Names
<1>7. LogMerges'
  <2> SUFFICES ASSUME NEW f \in log, f.key \in PairKey \/ f.writer = Quartermaster
               PROVE  \E k \in jobs' : Merges(f, k)'
    BY DEF LogMerges
  <2>1. PICK i \in jobs : Merges(f, i)
    BY DEF StoreInv, LogMerges
  <2>2. PICK k \in jobs' : SameName(k, i)
    BY DEF Updated
  <2> QED
    BY <2>1, <2>2 DEF Merges, MergeKey, SameName
<1>8. CompletedIsMerged'
  <2> SUFFICES ASSUME NEW k \in jobs', k.status = "completed"
               PROVE  \E f, g \in log :
                        /\ f.id = k.result /\ f.key = MergeKey(k)
                        /\ f.op = "merge" /\ f.path = k.path
                        /\ g.id = k.incoming /\ g.content \subseteq f.content
    BY DEF CompletedIsMerged, MergeKey
  <2>1. PICK i \in jobs :
          /\ SameName(k, i)
          /\ \/ k = i \/ k.status = "failed"
             \/ SameJob(i, j) /\ k.status = "completed" /\ k.result = result
    BY DEF Updated
  <2>2. CASE k = i
    BY <2>2 DEF StoreInv, CompletedIsMerged
  <2>3. CASE SameJob(i, j) /\ k.result = result /\ Known(j)
             /\ \E f \in log : f.id = result /\ Merges(f, j)
    <3>1. PICK f \in log : f.id = result /\ Merges(f, j)
      BY <2>3
    <3>2. PICK g \in log : g.id = j.incoming /\ g.content \subseteq f.content
      BY <3>1 DEF Merges
    <3>3. j.incoming # Placeholder
      BY <3>2 DEF StoreInv, UniqueInv, IdsBounded, Placeholder
    <3>4. PICK l \in jobs : l.incoming = j.incoming /\ l.path = j.path
      BY <2>3 DEF Known
    <3>5. g.path = j.path /\ g.path = i.path
      BY <2>3, <3>2, <3>3, <3>4 DEF StoreInv, JobsSound, Names, LogUnique, SameJob
    <3> QED
      BY <2>1, <2>3, <3>1, <3>2, <3>5 DEF Merges, MergeKey, SameName, SameJob
  <2>4. FailJob(j) => k = i \/ k \in jobs
    <3> SUFFICES ASSUME FailJob(j) PROVE k \in jobs
      OBVIOUS
    <3>1. PICK h \in jobs : k = IF SameJob(h, j) THEN [h EXCEPT !.status = "failed"] ELSE h
      BY DEF FailJob
    <3>2. ~SameJob(h, j)
      BY <3>1 DEF JobType
    <3> QED
      BY <3>1, <3>2
  <2>5. CASE k \in jobs
    BY <2>5 DEF StoreInv, CompletedIsMerged
  <2> QED
    BY <2>1, <2>2, <2>3, <2>4, <2>5
<1> QED
  BY <1>2, <1>3, <1>5, <1>6, <1>7, <1>8 DEF StoreInv

-----------------------------------------------------------------------------
(* Passes.                                                                   *)

\* A pass that a step is not of.
LEMMA SamePass ==
  ASSUME Keeps, NEW v \in Worker, PassOK(v),
         step'[v] = step[v], batch'[v] = batch[v], job'[v] = job[v], merge'[v] = merge[v],
         pc'[v] = pc[v], env'[v] = env[v]
  PROVE  PassOK(v)'
<1>1. Owns(v)'
  BY DEF PassOK, Owns
<1>2. PICK j, m : j = job[v] /\ m = merge[v]
  OBVIOUS
<1>3. Knows(v)'
  BY Stable DEF PassOK, Knows, Working, Known
<1>4. HasMade(v)'
  <2>1. step[v] \in {"begin", "apply"} => Merges(m, j)' /\ m.writer = Quartermaster
    BY <1>2, Stable DEF PassOK, HasMade
  <2> QED
    BY <1>2, <2>1 DEF HasMade, Merges
<1>5. HasMerged(v)'
  <2>1. step[v] = "completed" => Merged(j)'
    BY <1>2, Stable DEF PassOK, HasMerged
  <2> QED
    BY <1>2, <2>1 DEF HasMerged, Merged, Merges
<1> QED
  BY <1>1, <1>3, <1>4, <1>5 DEF PassOK

LEMMA PassFrame ==
  ASSUME PassInv, WorkerTypeOK', Keeps, NEW w \in Worker, PassOK(w)',
         \A v \in Worker \ {w} : /\ step'[v] = step[v] /\ batch'[v] = batch[v]
                                 /\ job'[v] = job[v] /\ merge'[v] = merge[v],
         \A t \in Txn \ {w} : pc'[t] = pc[t] /\ env'[t] = env[t]
  PROVE  PassInv'
<1> Worker \subseteq Txn
  BY WorkerAssumption
<1>1. ClientsOwn'
  BY DEF PassInv, ClientsOwn
<1>2. ASSUME NEW v \in Worker PROVE PassOK(v)'
  <2>1. CASE v = w
    BY <2>1
  <2>2. CASE v # w
    BY <2>2, SamePass DEF PassInv
  <2> QED
    BY <2>1, <2>2
<1> QED
  BY <1>1, <1>2 DEF PassInv

\* The constants a pass starts from.
LEMMA Unused == NoJob \in JobType /\ AnyEnvelope \in EnvelopeType /\ NoRow \in RowType
<1>1. (CHOOSE p \in Path : TRUE) \in Path
  BY EnvelopeAssumption DEF EnvelopeType
<1> QED
  BY <1>1, AnyEnvelopeType, NoRowType DEF NoJob, JobType

LEMMA SamePath ==
  ASSUME StoreInv, NEW j \in jobs, NEW k \in jobs, j.incoming = k.incoming,
         j.incoming # Placeholder
  PROVE  j.path = k.path
BY DEF StoreInv, UniqueInv, LogUnique, JobsSound, Names

\* A pass that is not working has nothing but its list to account for.
LEMMA RestingOK ==
  ASSUME NEW w \in Worker, ~Working(w)', \A j \in batch'[w] : Known(j)', pc'[w] = "idle"
  PROVE  PassOK(w)'
BY DEF PassOK, Owns, Knows, Working, HasMade, HasMerged, Known

\* Steps of a pass that leave the store alone.
LEMMA OutsideStep ==
  ASSUME WorkerInv, NEW w \in Worker,
         \/ Fetch(w) \/ TakeJob(w) \/ EndPass(w) \/ ReadContext(w) \/ MissingContext(w)
         \/ CompleteFails(w)
  PROVE  WorkerInv'
<1>1. UNCHANGED vars
  BY DEF Fetch, TakeJob, EndPass, ReadContext, MissingContext, CompleteFails
<1>2. StoreInv' /\ Keeps
  <2>1. UniqueInv'
    BY <1>1, UniqueStep DEF WorkerInv, StoreInv
  <2>2. UNCHANGED <<docs, log, chunks, jobs, cursor, pc, env, begun, ev, clock>>
    BY <1>1 DEF vars
  <2> QED
    BY <2>1, <2>2, StoreSame DEF WorkerInv
<1> TypeOK' /\ UNCHANGED <<docs, log, jobs, pc, env, clock>>
  BY <1>1, <1>2 DEF StoreInv, UniqueInv, vars
<1> StoreInv /\ WorkerTypeOK /\ PassOK(w) /\ jobs \subseteq JobType /\ w \in Txn
  BY WorkerAssumption DEF WorkerInv, PassInv, StoreInv, UniqueInv, TypeOK
<1>3. \A v \in Worker \ {w} : /\ step'[v] = step[v] /\ batch'[v] = batch[v]
                              /\ job'[v] = job[v] /\ merge'[v] = merge[v]
  BY DEF Fetch, TakeJob, EndPass, ReadContext, MissingContext, CompleteFails, WorkerTypeOK
<1> SUFFICES WorkerTypeOK' /\ PassOK(w)'
  BY <1>2, <1>3, PassFrame DEF WorkerInv
<1>4. CASE Fetch(w)
  <2>1. WorkerTypeOK'
    BY <1>4 DEF Fetch, WorkerTypeOK
  <2>2. ~Working(w)' /\ pc'[w] = "idle" /\ batch'[w] \subseteq jobs
    BY <1>4 DEF Fetch, WorkerTypeOK, Working, PassOK, Owns
  <2> QED
    BY <2>1, <2>2, RestingOK DEF Known
<1>5. CASE TakeJob(w)
  <2>1. PICK j \in batch[w] : job' = [job EXCEPT ![w] = j]
                              /\ batch' = [batch EXCEPT ![w] = @ \ {j}]
    BY <1>5 DEF TakeJob
  <2>2. /\ step' = [step EXCEPT ![w] = "read"] /\ step[w] = "next"
        /\ UNCHANGED <<current, merge, passes>>
    BY <1>5 DEF TakeJob
  <2>3. j \in JobType /\ Known(j)
    BY DEF WorkerTypeOK, PassOK, Knows
  <2>4. WorkerTypeOK'
    BY <2>1, <2>2, <2>3 DEF WorkerTypeOK
  <2>5. step'[w] = "read" /\ job'[w] = j /\ batch'[w] \subseteq batch[w]
    BY <2>1, <2>2 DEF WorkerTypeOK
  <2> QED
    BY <2>2, <2>3, <2>4, <2>5 DEF PassOK, Owns, Knows, Working, HasMade, HasMerged, Known
<1>6. CASE EndPass(w)
  <2>1. WorkerTypeOK'
    BY <1>6, Unused DEF EndPass, WorkerTypeOK
  <2>2. ~Working(w)' /\ pc'[w] = "idle" /\ batch'[w] = {}
    BY <1>6 DEF EndPass, WorkerTypeOK, Working, PassOK, Owns
  <2> QED
    BY <2>1, <2>2, RestingOK
<1>7. CASE ReadContext(w)
  <2>1. PICK f \in log :
          /\ f.id = job[w].incoming
          /\ current' = [current EXCEPT ![w] = docs[job[w].path]]
          /\ merge' = [merge EXCEPT ![w] =
               [op |-> "merge", path |-> job[w].path, from |-> job[w].path,
                content |-> DeterministicMerge(docs[job[w].path].content, f.content),
                writer |-> Quartermaster, keyRef |-> AnyEnvelope.keyRef,
                key |-> MergeKey(job[w]), seq |-> MergeSeq(w), at |-> clock]]
    BY <1>7 DEF ReadContext
  <2>2. PICK m, j : m = merge'[w] /\ j = job[w]
    OBVIOUS
  <2>3. j \in JobType /\ Known(j) /\ step[w] = "read" /\ j.path \in Path
    BY <1>7, <2>2 DEF ReadContext, WorkerTypeOK, PassOK, Knows, Working, JobType
  <2>4. /\ m.op = "merge" /\ m.path = j.path /\ m.writer = Quartermaster
        /\ m.key = MergeKey(j)
        /\ m.content = DeterministicMerge(docs[j.path].content, f.content)
    BY <2>1, <2>2 DEF WorkerTypeOK
  <2>5. f.content \subseteq m.content /\ m.content \in Content
    <3>1. docs[j.path].content \in Content /\ f.content \in Content
      BY <2>3 DEF StoreInv, UniqueInv, TypeOK, RowType, EventType
    <3> QED
      BY <2>4, <3>1, WorkerAssumption DEF DeterministicMerge, Content
  <2>6. MergeKey(j) \in Key /\ MergeSeq(w) \in Seq /\ clock \in Nat
    <3>1. clock \in 0..MaxRequests
      BY Bounds DEF StoreInv, UniqueInv
    <3> QED
      BY <2>3, <3>1, KnownKey, MergeKeyAssumption DEF MergeSeq
  <2>7. m \in EnvelopeType
    BY <2>1, <2>2, <2>3, <2>4, <2>5, <2>6, WorkerAssumption, Unused
    DEF EnvelopeType, Op, WorkerTypeOK
  <2>8. WorkerTypeOK'
    <3>1. merge' \in [Worker -> EnvelopeType]
      BY <2>1, <2>2, <2>7 DEF WorkerTypeOK
    <3>2. current' \in [Worker -> RowType]
      BY <2>1, <2>2, <2>3 DEF WorkerTypeOK, StoreInv, UniqueInv, TypeOK
    <3> QED
      BY <1>7, <3>1, <3>2 DEF ReadContext, WorkerTypeOK
  <2>9. step'[w] = "begin" /\ job'[w] = j /\ batch'[w] = batch[w]
    BY <1>7, <2>2 DEF ReadContext, WorkerTypeOK
  <2>10. Merges(m, j)
    BY <2>1, <2>2, <2>4, <2>5 DEF Merges
  <2>11. Owns(w)' /\ Knows(w)'
    BY <2>3, <2>9 DEF PassOK, Owns, Knows, Working, Known
  <2>12. HasMade(w)' /\ HasMerged(w)'
    BY <2>2, <2>4, <2>9, <2>10 DEF HasMade, HasMerged, Merges
  <2> QED
    BY <2>8, <2>11, <2>12 DEF PassOK
<1>8. CASE MissingContext(w) \/ CompleteFails(w)
  <2>1. Working(w) /\ step[w] # "apply" /\ step' = [step EXCEPT ![w] = "failed"]
        /\ UNCHANGED <<batch, job, current, merge, passes>>
    BY <1>8 DEF MissingContext, CompleteFails, Working
  <2>2. WorkerTypeOK' /\ step'[w] = "failed"
    BY <2>1 DEF WorkerTypeOK
  <2> QED
    BY <2>1, <2>2 DEF PassOK, Owns, Knows, Working, HasMade, HasMerged, Known
<1> QED
  BY <1>4, <1>5, <1>6, <1>7, <1>8

\* What a pass knows, it knows after every step that keeps what is there.
LEMMA StillKnown ==
  ASSUME Keeps, NEW w \in Worker, Knows(w), batch'[w] = batch[w], job'[w] = job[w],
         Working(w)' => Working(w)
  PROVE  Knows(w)'
<1>1. \A j : Known(j) => Known(j)'
  BY Stable
<1> QED
  BY <1>1 DEF Knows, Known

\* The transaction of a pass commits the merge of a job.
LEMMA PassTxn ==
  ASSUME WorkerInv, NEW w \in Worker, step[w] = "apply", Step(w) \/ Rollback(w)
  PROVE  StoreInv' /\ Keeps
<1> w \in Txn /\ StoreInv
  BY WorkerAssumption DEF WorkerInv
<1>1. env[w] = merge[w] /\ Merges(merge[w], job[w]) /\ Known(job[w])
  BY DEF WorkerInv, PassInv, PassOK, Owns, HasMade, Knows, Working
<1>2. PICK k \in jobs : k.req = job[w].req /\ k.incoming = job[w].incoming
                        /\ k.path = job[w].path
  BY <1>1 DEF Known
<1>3. Merges(env[w], k)
  BY <1>1, <1>2 DEF Merges, MergeKey
<1> QED
  BY <1>3, StoreStep

LEMMA ApplyStep ==
  ASSUME WorkerInv, NEW w \in Worker, ApplyMerge(w)
  PROVE  WorkerInv'
<1> w \in Txn /\ PassOK(w) /\ WorkerTypeOK /\ TypeOK
  BY WorkerAssumption DEF WorkerInv, PassInv, WorkerTypeOK
<1>1. /\ step[w] = "apply" /\ UNCHANGED <<step, batch, job, current, merge, passes>>
      /\ env' = env /\ Step(w)
  BY DEF ApplyMerge, worker, ReadExisting, NotDuplicate, InsertEvent, LockTarget, session, Step
<1>2. StoreInv' /\ Keeps
  BY <1>1, PassTxn
<1>3. WorkerTypeOK'
  BY <1>1, <1>2 DEF WorkerTypeOK, StoreInv, UniqueInv
<1>4. Owns(w)'
  BY <1>1 DEF PassOK, Owns
<1>5. Knows(w)'
  BY <1>1, <1>2, StillKnown DEF PassOK, Working
<1>6. HasMade(w)' /\ HasMerged(w)'
  <2>1. PICK m, j : m = merge[w] /\ j = job[w]
    OBVIOUS
  <2>2. Merges(m, j)' /\ m.writer = Quartermaster
    BY <1>1, <1>2, <2>1, Stable DEF PassOK, HasMade
  <2> QED
    BY <1>1, <2>1, <2>2 DEF HasMade, HasMerged, Merges
<1>7. \A t \in Txn \ {w} : pc'[t] = pc[t] /\ env'[t] = env[t]
  BY <1>1, TxnFrame
<1> QED
  BY <1>1, <1>2, <1>3, <1>4, <1>5, <1>6, <1>7, PassFrame DEF WorkerInv, PassOK

LEMMA BeginMergeStep ==
  ASSUME WorkerInv, NEW w \in Worker, BeginMerge(w)
  PROVE  WorkerInv'
<1> w \in Txn /\ PassOK(w) /\ WorkerTypeOK /\ TypeOK
  BY WorkerAssumption DEF WorkerInv, PassInv, WorkerTypeOK
<1>1. /\ step[w] = "begin" /\ step' = [step EXCEPT ![w] = "apply"]
      /\ Begin(w, merge[w]) /\ UNCHANGED <<batch, job, current, merge, passes>>
      /\ UNCHANGED <<tables, signers, cursor, cur, moved, ev, acks>>
  BY DEF BeginMerge
<1>2. merge[w] \in EnvelopeType
  BY DEF WorkerTypeOK
<1>3. StoreInv' /\ Keeps
  BY <1>1, <1>2, BeginStep DEF WorkerInv
<1>4. WorkerTypeOK' /\ step'[w] = "apply"
      /\ \A v \in Worker \ {w} : step'[v] = step[v]
  BY <1>1, <1>3 DEF WorkerTypeOK, StoreInv, UniqueInv
<1>5. /\ env'[w] = merge[w]
      /\ \A t \in Txn \ {w} : pc'[t] = pc[t] /\ env'[t] = env[t]
  BY <1>1 DEF Begin, TypeOK
<1>6. Owns(w)'
  BY <1>1, <1>4, <1>5 DEF Owns
<1>7. Knows(w)'
  BY <1>1, <1>3, StillKnown DEF PassOK, Working
<1>8. HasMade(w)' /\ HasMerged(w)'
  <2>1. PICK m, j : m = merge[w] /\ j = job[w]
    OBVIOUS
  <2>2. Merges(m, j)' /\ m.writer = Quartermaster
    BY <1>1, <1>3, <2>1, Stable DEF PassOK, HasMade
  <2> QED
    BY <1>1, <1>4, <2>1, <2>2 DEF HasMade, HasMerged, Merges
<1> QED
  BY <1>1, <1>3, <1>4, <1>5, <1>6, <1>7, <1>8, PassFrame DEF WorkerInv, PassOK

\* Whether the transaction committed the merge or found one of its key, the job is merged.
LEMMA AppliedIsMerged ==
  ASSUME WorkerInv, NEW w \in Worker, step[w] = "apply", Commit(w) \/ AckDuplicate(w),
         NEW j, j = job[w]
  PROVE  Merged(j)'
<1> w \in Txn /\ StoreInv /\ j \in JobType /\ jobs \subseteq JobType
  BY WorkerAssumption DEF WorkerInv, PassInv, WorkerTypeOK, TypeOK
<1>1. env[w] = merge[w] /\ Merges(env[w], j) /\ Known(j)
  BY DEF WorkerInv, PassInv, PassOK, Owns, HasMade, Knows, Working
<1>2. Keeps
  BY PassTxn DEF Step
<1>3. CASE Commit(w)
  <2>1. /\ Event(w) \in log' /\ Event(w).op = env[w].op /\ Event(w).path = env[w].path
        /\ Event(w).key = env[w].key /\ Event(w).content = env[w].content
    BY <1>3 DEF Commit, Event
  <2>2. PICK f : f = Event(w)
    OBVIOUS
  <2>3. Merges(f, j)
    BY <1>1, <2>1, <2>2 DEF Merges
  <2>4. Merges(f, j)'
    BY <1>2, <2>3, Stable
  <2> QED
    BY <2>1, <2>2, <2>4 DEF Merged
<1>4. CASE AckDuplicate(w)
  <2>1. PICK f \in log : f.key = MergeKey(j)
    BY <1>1, <1>4 DEF AckDuplicate, Merges
  <2>2. PICK k \in jobs : Merges(f, k)
    BY <1>1, <2>1, KnownKey DEF StoreInv, LogMerges
  <2>3. k.req = j.req /\ k.incoming = j.incoming
    BY <2>1, <2>2 DEF Merges, MergeKey
  <2>4. PICK i \in jobs : i.incoming = j.incoming /\ i.path = j.path
    BY <1>1 DEF Known
  <2>5. k.incoming # Placeholder
    BY <2>2 DEF Merges, StoreInv, UniqueInv, IdsBounded, Placeholder
  <2>6. k.path = j.path
    BY <2>3, <2>4, <2>5, SamePath
  <2>7. Merges(f, j)
    BY <2>2, <2>3, <2>6 DEF Merges, MergeKey
  <2> QED
    BY <1>2, <2>7, Stable DEF Merged
<1> QED
  BY <1>3, <1>4

LEMMA ReleasedStep ==
  ASSUME WorkerInv, NEW w \in Worker, MergeApplied(w) \/ MergeRolledBack(w)
  PROVE  WorkerInv'
<1> w \in Txn /\ PassOK(w) /\ WorkerTypeOK /\ TypeOK
  BY WorkerAssumption DEF WorkerInv, PassInv, WorkerTypeOK
<1>1. /\ step[w] = "apply" /\ UNCHANGED <<batch, job, current, merge, passes>>
      /\ Commit(w) \/ AckDuplicate(w) \/ Rollback(w)
      /\ Step(w) \/ Rollback(w)
  BY DEF MergeApplied, MergeRolledBack, Step
<1>2. PICK next \in {"completed", "failed"} :
        /\ step' = [step EXCEPT ![w] = next]
        /\ next = "completed" => Commit(w) \/ AckDuplicate(w)
  BY DEF MergeApplied, MergeRolledBack
<1>3. StoreInv' /\ Keeps
  BY <1>1, PassTxn
<1>4. /\ WorkerTypeOK' /\ step'[w] = next
      /\ \A v \in Worker \ {w} : step'[v] = step[v]
  BY <1>1, <1>2, <1>3 DEF WorkerTypeOK, StoreInv, UniqueInv
<1>5. pc'[w] = "idle"
  <2>1. Release(w)
    BY <1>1 DEF Commit, AckDuplicate, Rollback
  <2> QED
    BY <2>1 DEF Release, TypeOK
<1>6. \A t \in Txn \ {w} : pc'[t] = pc[t] /\ env'[t] = env[t]
  BY <1>1, TxnFrame
<1>7. Owns(w)' /\ HasMade(w)'
  BY <1>4, <1>5 DEF Owns, HasMade
<1>8. Knows(w)'
  BY <1>1, <1>3, StillKnown DEF PassOK, Working
<1>9. HasMerged(w)'
  <2>1. PICK j : j = job[w] /\ j = job'[w]
    BY <1>1
  <2>2. step'[w] = "completed" => Merged(j)'
    BY <1>1, <1>2, <1>4, <2>1, AppliedIsMerged
  <2> QED
    BY <2>1, <2>2 DEF HasMerged, Merged, Merges
<1> QED
  BY <1>1, <1>3, <1>4, <1>6, <1>7, <1>8, <1>9, PassFrame DEF WorkerInv, PassOK

\* UPDATE of the job after the write, and in the catch block.
LEMMA JobStep ==
  ASSUME WorkerInv, NEW w \in Worker, Complete(w) \/ MarkFailed(w)
  PROVE  WorkerInv'
<1> w \in Txn /\ PassOK(w) /\ WorkerTypeOK /\ TypeOK /\ StoreInv
  BY WorkerAssumption DEF WorkerInv, PassInv, WorkerTypeOK
<1>1. /\ step[w] \in {"completed", "failed"} /\ step' = [step EXCEPT ![w] = "next"]
      /\ UNCHANGED <<docs, log, chunks, signers, cursor, pc, session, clock, acks>>
      /\ UNCHANGED <<batch, job, current, merge, passes>>
  BY DEF Complete, MarkFailed
<1>2. PICK j \in JobType : j = job[w]
  BY DEF WorkerTypeOK
<1>3. Known(j)
  BY <1>1, <1>2 DEF PassOK, Knows, Working
<1>4. StoreInv' /\ Keeps
  <2>1. CASE Complete(w)
    <3> DEFINE key == MergeKey(j)
    <3>1. PICK f \in log : Merges(f, j)
      BY <1>2, <2>1 DEF Complete, PassOK, HasMerged, Merged
    <3>2. \A g \in log : g.key = f.key => g = f
      BY DEF StoreInv, UniqueInv, LogUnique, SameEvent
    <3>3. f.key = key
      BY <3>1 DEF Merges
    <3> HIDE DEF key
    <3>4. MergedEvent(key) = f
      BY <3>2, <3>3 DEF MergedEvent
    <3>5. f.id \in Nat
      BY DEF TypeOK, EventType
    <3>6. CompleteJob(j, f.id)
      BY <1>2, <2>1, <3>4 DEF Complete, key
    <3>7. Updated(j, f.id)
      BY <3>5, <3>6, Completes
    <3> QED
      BY <1>1, <1>3, <3>1, <3>5, <3>7, UpdateStep
  <2>2. CASE FailJob(j)
    <3>1. Updated(j, 0)
      BY <2>2, Fails
    <3> QED
      BY <1>1, <2>2, <3>1, UpdateStep
  <2>3. CASE UNCHANGED jobs
    <3>1. TypeOK' /\ Quiet
      BY <1>1, <2>3 DEF TypeOK, session, Quiet, Inserted
    <3>2. UniqueInv'
      BY <3>1, QuietStep DEF StoreInv
    <3>3. UNCHANGED <<docs, log, chunks, jobs, cursor, pc, env, begun, ev, clock>>
      BY <1>1, <2>3 DEF session
    <3> QED
      BY <3>2, <3>3, StoreSame
  <2> QED
    BY <1>2, <2>1, <2>2, <2>3 DEF MarkFailed
<1>5. /\ WorkerTypeOK' /\ step'[w] = "next"
      /\ \A v \in Worker \ {w} : step'[v] = step[v]
  BY <1>1, <1>4 DEF WorkerTypeOK, StoreInv, UniqueInv
<1>6. UNCHANGED <<pc, env>>
  BY <1>1 DEF session
<1>7. pc'[w] = "idle" /\ ~Working(w)'
  BY <1>1, <1>5, <1>6 DEF PassOK, Owns, Working
<1>8. Knows(w)'
  BY <1>1, <1>4, <1>7, StillKnown DEF PassOK
<1>9. PassOK(w)'
  BY <1>7, <1>8, RestingOK DEF Knows
<1> QED
  BY <1>1, <1>4, <1>5, <1>6, <1>9, PassFrame DEF WorkerInv

LEMMA CrashStep ==
  ASSUME WorkerInv, NEW w \in Worker, Crash(w)
  PROVE  WorkerInv'
<1> w \in Txn /\ PassOK(w) /\ WorkerTypeOK /\ TypeOK /\ StoreInv
  BY WorkerAssumption DEF WorkerInv, PassInv, WorkerTypeOK
<1>1. /\ step' = [step EXCEPT ![w] = "idle"] /\ batch' = [batch EXCEPT ![w] = {}]
      /\ job' = [job EXCEPT ![w] = NoJob] /\ merge' = [merge EXCEPT ![w] = AnyEnvelope]
      /\ current' = [current EXCEPT ![w] = NoRow]
      /\ UNCHANGED passes
  BY DEF Crash
<1>2. /\ StoreInv' /\ Keeps /\ pc'[w] = "idle"
      /\ \A t \in Txn \ {w} : pc'[t] = pc[t] /\ env'[t] = env[t]
  <2>1. CASE Rollback(w)
    <3>1. pc[w] # "idle" /\ Release(w)
      BY <2>1 DEF Rollback
    <3>2. step[w] = "apply"
      BY <3>1 DEF PassOK, Owns
    <3>3. pc'[w] = "idle"
      BY <3>1 DEF Release, TypeOK
    <3> QED
      BY <2>1, <3>2, <3>3, PassTxn, TxnFrame
  <2>2. CASE pc[w] = "idle" /\ UNCHANGED vars
    <3>1. UniqueInv'
      BY <2>2, UniqueStep DEF StoreInv
    <3>2. UNCHANGED <<docs, log, chunks, jobs, cursor, pc, env, begun, ev, clock>>
      BY <2>2 DEF vars
    <3> QED
      BY <2>2, <3>1, <3>2, StoreSame
  <2> QED
    BY <2>1, <2>2 DEF Crash
<1>3. /\ step'[w] = "idle" /\ batch'[w] = {}
      /\ \A v \in Worker \ {w} : /\ step'[v] = step[v] /\ batch'[v] = batch[v]
                                 /\ job'[v] = job[v] /\ merge'[v] = merge[v]
  BY <1>1 DEF WorkerTypeOK
<1>4. WorkerTypeOK'
  BY <1>1, <1>2, Unused DEF WorkerTypeOK, StoreInv, UniqueInv
<1>5. PassOK(w)'
  BY <1>2, <1>3, RestingOK DEF Working
<1> QED
  BY <1>2, <1>3, <1>4, <1>5, PassFrame DEF WorkerInv

-----------------------------------------------------------------------------
(* Clients.                                                                  *)

LEMMA ClientStep ==
  ASSUME WorkerInv, Clients
  PROVE  WorkerInv'
<1> WorkerTypeOK /\ TypeOK /\ StoreInv /\ Worker \subseteq Txn
  BY WorkerAssumption DEF WorkerInv, PassInv, WorkerTypeOK
<1>1. UNCHANGED <<step, batch, job, current, merge, passes>>
  BY DEF Clients, worker
<1>2. ASSUME StoreInv', Keeps, ClientsOwn',
             \A w \in Worker : pc'[w] = pc[w] /\ env'[w] = env[w]
      PROVE  WorkerInv'
  <2>1. WorkerTypeOK'
    BY <1>1, <1>2 DEF WorkerTypeOK, StoreInv, UniqueInv
  <2>2. ASSUME NEW w \in Worker PROVE PassOK(w)'
    BY <1>1, <1>2, SamePass DEF WorkerInv, PassInv
  <2> QED
    BY <1>2, <2>1, <2>2 DEF WorkerInv, PassInv
<1>3. ASSUME NEW w \in Writer, NEW k \in KeyRef, UpsertSigner(w, k) PROVE WorkerInv'
  <2>1. UniqueInv'
    BY <1>3, UniqueStep DEF StoreInv, Next
  <2>2. UNCHANGED <<docs, log, chunks, jobs, cursor, pc, env, begun, ev, clock>>
    BY <1>3 DEF UpsertSigner, tables, session
  <2>3. StoreInv' /\ Keeps
    BY <2>1, <2>2, StoreSame
  <2>4. ClientsOwn'
    BY <2>2 DEF WorkerInv, PassInv, ClientsOwn
  <2> QED
    BY <1>2, <2>2, <2>3, <2>4
<1>4. ASSUME NEW t \in Txn \ Worker, NEW e \in Envelope, Request(t, e) PROVE WorkerInv'
  <2>1. /\ Begin(t, e) /\ e \in EnvelopeType
        /\ UNCHANGED <<tables, signers, cursor, cur, moved, ev, acks>>
    BY <1>4, EnvelopeAssumption DEF Request
  <2>2. StoreInv' /\ Keeps
    BY <2>1, BeginStep
  <2>3. env'[t] = e /\ \A u \in Txn \ {t} : pc'[u] = pc[u] /\ env'[u] = env[u]
    BY <2>1 DEF Begin, TypeOK
  <2>4. ClientsOwn'
    BY <2>3 DEF WorkerInv, PassInv, ClientsOwn
  <2> QED
    BY <1>2, <2>2, <2>3, <2>4
<1>5. ASSUME NEW t \in Txn \ Worker, Step(t) \/ Rollback(t) PROVE WorkerInv'
  <2>1. /\ \A u \in Txn \ {t} : pc'[u] = pc[u] /\ env'[u] = env[u]
        /\ pc'[t] = "idle" \/ (pc[t] # "idle" /\ env'[t] = env[t])
    BY <1>5, TxnFrame
  <2>2. Commit(t) => env[t].key \notin PairKey /\ env[t].writer # Quartermaster
    <3>1. ASSUME Commit(t) PROVE env[t] \in Envelope
      BY <3>1 DEF Commit, WorkerInv, PassInv, ClientsOwn
    <3> QED
      BY <3>1, MergeKeyAssumption DEF PairKey
  <2>3. StoreInv' /\ Keeps
    BY <1>5, <2>2, StoreStep
  <2>4. ClientsOwn'
    BY <2>1 DEF WorkerInv, PassInv, ClientsOwn
  <2> QED
    BY <1>2, <2>1, <2>3, <2>4
<1> QED
  BY <1>3, <1>4, <1>5 DEF Clients

-----------------------------------------------------------------------------
(* The theorems.                                                             *)

LEMMA WorkerStep == WorkerInv /\ [WorkerNext]_allVars => WorkerInv'
<1> SUFFICES ASSUME WorkerInv, [WorkerNext]_allVars PROVE WorkerInv'
  OBVIOUS
<1>1. ASSUME NEW w \in Worker, Pass(w) PROVE WorkerInv'
  BY <1>1, OutsideStep, BeginMergeStep, ApplyStep, ReleasedStep, JobStep DEF Pass
<1>2. CASE UNCHANGED allVars
  <2>1. UNCHANGED vars /\ UNCHANGED <<step, batch, job, current, merge, passes>>
    BY <1>2 DEF allVars, worker
  <2>2. UNCHANGED <<docs, log, chunks, jobs, cursor, pc, env, begun, ev, clock>>
    BY <2>1 DEF vars
  <2>3. UniqueInv'
    BY <2>1, UniqueStep DEF WorkerInv, StoreInv
  <2>4. StoreInv' /\ Keeps
    BY <2>2, <2>3, StoreSame DEF WorkerInv
  <2>5. WorkerTypeOK' /\ ClientsOwn'
    BY <2>1, <2>2, <2>4
    DEF WorkerTypeOK, StoreInv, UniqueInv, WorkerInv, PassInv, ClientsOwn
  <2>6. ASSUME NEW w \in Worker PROVE PassOK(w)'
    BY <2>1, <2>2, <2>4, SamePass DEF WorkerInv, PassInv
  <2> QED
    BY <2>4, <2>5, <2>6 DEF WorkerInv, PassInv
<1> QED
  BY <1>1, <1>2, ClientStep, CrashStep DEF WorkerNext

LEMMA WorkerStart == WorkerInit => WorkerInv
<1> SUFFICES ASSUME WorkerInit PROVE WorkerInv
  OBVIOUS
<1>1. TypeOK /\ LogUnique /\ IdsBounded /\ InsertedIsNew /\ InsertedApart
  <2>1. TypeOK
    BY AnyEnvelopeType, NoRowType, RegistryAssumption
    DEF WorkerInit, Init, TypeOK, Content, NoEvent
  <2>2. LogUnique /\ IdsBounded /\ InsertedIsNew /\ InsertedApart
    BY DEF WorkerInit, Init, LogUnique, IdsBounded, InsertedIsNew, InsertedApart, Inserted
  <2> QED
    BY <2>1, <2>2
<1>2. Waiting = {} /\ cursor = 0 /\ clock = 0
  BY DEF WorkerInit, Init, Waiting
<1>3. Counted
  BY <1>2, FS_EmptySet, BoundAssumption DEF Counted
<1>4. BegunBefore /\ JobsSound /\ LogMerges /\ CompletedIsMerged /\ ClientsOwn
  BY DEF WorkerInit, Init, BegunBefore, JobsSound, LogMerges, CompletedIsMerged, ClientsOwn
<1>5. WorkerTypeOK
  BY <1>1, Unused DEF WorkerInit, WorkerTypeOK
<1>6. ASSUME NEW w \in Worker PROVE PassOK(w)
  BY WorkerAssumption
  DEF WorkerInit, Init, PassOK, Owns, Knows, Working, HasMade, HasMerged
<1> QED
  BY <1>1, <1>3, <1>4, <1>5, <1>6 DEF WorkerInv, StoreInv, UniqueInv, PassInv

\* The invariant of the tables and of the passes that work on them.
LEMMA WorkerInvariant == WorkerSpec => []WorkerInv
BY WorkerStart, WorkerStep, PTL DEF WorkerSpec

\* Passes of reconcile and the store they write to stay well typed, however passes overlap, fail
\* and die (processPendingMergeJobs).
THEOREM PassesTypeCorrect == WorkerSpec => []WorkerTypeOK
<1>1. WorkerInv => WorkerTypeOK
  BY DEF WorkerInv, PassInv
<1> QED
  BY <1>1, WorkerInvariant, PTL

\* A job marked completed names the event that merged it, with every line of the write that
\* lost: the retry after a crash, a pass that finds the merge of another one and the late
\* UPDATE of a slow pass included.
THEOREM CompletedTrue == WorkerSpec => []CompletedIsMerged
<1>1. WorkerInv => CompletedIsMerged
  BY DEF WorkerInv, StoreInv
<1> QED
  BY <1>1, WorkerInvariant, PTL

\* No job is merged twice, and the Quartermaster writes nothing but merges of jobs, for any
\* number of overlapping passes.
THEOREM MergedOnceTrue == WorkerSpec => []MergedOnce
<1>1. WorkerInv => MergedOnce
  BY DEF WorkerInv, StoreInv, UniqueInv, LogUnique, SameEvent, LogMerges, Merges, MergedOnce
<1> QED
  BY <1>1, WorkerInvariant, PTL

-----------------------------------------------------------------------------
(* The tables.  What MemoryStore promises of them holds with passes too: a   *)
(* pass adds the beginning of a merge, which no client asked for, and the    *)
(* UPDATE of a job to the steps of the store.                                *)

TableInv ==
  /\ ShownInv /\ Acked /\ RowsExclusive /\ IndexMatchesView /\ ConflictInv /\ SentInv

Begins(t, e) == Begin(t, e) /\ UNCHANGED <<tables, signers, cursor, cur, moved, ev, acks>>
Updates ==
  /\ \E j : FailJob(j) \/ \E result : CompleteJob(j, result)
  /\ UNCHANGED <<docs, log, chunks, signers, cursor, pc, session, clock, acks>>

LEMMA PassSteps ==
  ASSUME WorkerTypeOK, [WorkerNext]_allVars
  PROVE  [Next]_vars \/ Updates \/ \E t \in Txn, e \in EnvelopeType : Begins(t, e)

<1>1. Worker \subseteq Txn
  BY WorkerAssumption
<1>2. CASE UNCHANGED allVars
  BY <1>2 DEF allVars
<1>3. CASE Clients
  BY <1>3 DEF Clients, Next
<1>4. ASSUME NEW w \in Worker, Pass(w) \/ Crash(w), ~BeginMerge(w), ~Complete(w), ~MarkFailed(w)
      PROVE  [Next]_vars
  <2>1. UNCHANGED vars \/ Step(w) \/ Rollback(w)
    BY <1>4 DEF Pass, Crash, Fetch, TakeJob, EndPass, ReadContext, MissingContext, ApplyMerge,
                MergeApplied, MergeRolledBack, CompleteFails, Step
  <2> QED
    BY <1>1, <2>1 DEF Next
<1>5. ASSUME NEW w \in Worker, BeginMerge(w)
      PROVE  \E t \in Txn, e \in EnvelopeType : Begins(t, e)
  BY <1>1, <1>5 DEF BeginMerge, Begins, WorkerTypeOK
<1>6. ASSUME NEW w \in Worker, Complete(w) \/ MarkFailed(w) PROVE Updates \/ UNCHANGED vars
  BY <1>6 DEF Complete, MarkFailed, Updates, vars, session
<1> QED
  BY <1>2, <1>3, <1>4, <1>5, <1>6 DEF WorkerNext

\* A client's or a pass's BEGIN writes to no table and locks nothing.
LEMMA BeginTables ==
  ASSUME TableInv, UniqueInv', NEW t \in Txn, NEW e \in EnvelopeType, Begins(t, e)
  PROVE  TableInv'
<1>1. /\ docs' = docs /\ log' = log /\ chunks' = chunks /\ jobs' = jobs /\ acks' = acks
      /\ cur' = cur /\ moved' = moved /\ ev' = ev
      /\ pc' = [pc EXCEPT ![t] = "existing"] /\ env' = [env EXCEPT ![t] = e]
  BY DEF Begins, Begin, tables
<1>2. TypeOK
  BY DEF TableInv, ShownInv, UniqueInv
<1>3. /\ \A u \in Txn \ {t} : pc'[u] = pc[u] /\ env'[u] = env[u]
      /\ pc'[t] = "existing"
  BY <1>1, <1>2 DEF TypeOK
<1>4. ShownInv'
  <2>1. DocsShown'
    BY <1>1 DEF TableInv, ShownInv, DocsShown, RowOf
  <2>2. CurShown'
    <3>1. \A u \in Txn : pc'[u] \notin {"idle", "existing"} =>
            u # t /\ pc[u] \notin {"idle", "existing"} /\ (Inserted(u)' <=> Inserted(u))
      BY <1>3 DEF Inserted
    <3> QED
      BY <1>1, <1>3, <3>1 DEF TableInv, ShownInv, CurShown, RowOf
  <2>3. MovedBody'
    BY <1>1, <1>3 DEF TableInv, ShownInv, MovedBody
  <2> QED
    BY <2>1, <2>2, <2>3 DEF ShownInv
<1>5. Acked' /\ IndexMatchesView'
  BY <1>1 DEF TableInv, Acked, IndexMatchesView, MovedOntoItself
<1>6. RowsExclusive'
  <2>1. \A u \in Txn \ {t} : RowLocks(u)' = RowLocks(u)
    BY <1>3 DEF RowLocks
  <2>2. RowLocks(t)' = {}
    BY <1>3 DEF RowLocks
  <2> QED
    BY <2>1, <2>2 DEF TableInv, RowsExclusive
<1>7. ConflictInv'
  BY <1>1
  DEF TableInv, ConflictInv, SupersedesEarlier, ConflictsQueued, JobsNameConflicts, Overwrites
<1>8. SentInv'
  BY <1>1, <1>3 DEF TableInv, SentInv, Sent
<1> QED
  BY <1>4, <1>5, <1>6, <1>7, <1>8 DEF TableInv

\* The UPDATE of a job leaves what the job names.
LEMMA UpdateNames ==
  ASSUME TypeOK, Updates
  PROVE  /\ \A k \in jobs : \E j \in jobs' :
              j.req = k.req /\ j.path = k.path /\ j.base = k.base /\ j.incoming = k.incoming
         /\ \A j \in jobs' : \E k \in jobs :
              j.req = k.req /\ j.path = k.path /\ j.base = k.base /\ j.incoming = k.incoming
<1>1. \E j, result : Updated(j, result)
  BY Completes, Fails DEF Updates
<1> QED
  BY <1>1 DEF Updated, SameName

LEMMA UpdateTables ==
  ASSUME TableInv, UniqueInv', Updates
  PROVE  TableInv'
<1>1. /\ docs' = docs /\ log' = log /\ chunks' = chunks /\ acks' = acks
      /\ cur' = cur /\ moved' = moved /\ ev' = ev /\ pc' = pc /\ env' = env
  BY DEF Updates, session
<1>2. TypeOK
  BY DEF TableInv, ShownInv, UniqueInv
<1>3. /\ \A k \in jobs : \E j \in jobs' :
           j.req = k.req /\ j.path = k.path /\ j.base = k.base /\ j.incoming = k.incoming
      /\ \A j \in jobs' : \E k \in jobs :
           j.req = k.req /\ j.path = k.path /\ j.base = k.base /\ j.incoming = k.incoming
  BY <1>2, UpdateNames
<1>4. ShownInv'
  BY <1>1 DEF TableInv, ShownInv, DocsShown, CurShown, MovedBody, RowOf, Inserted
<1>5. Acked' /\ IndexMatchesView' /\ RowsExclusive' /\ SentInv'
  <2>1. Acked' /\ IndexMatchesView'
    BY <1>1 DEF TableInv, Acked, IndexMatchesView, MovedOntoItself
  <2>2. \A t : RowLocks(t)' = RowLocks(t)
    BY <1>1 DEF RowLocks
  <2>3. RowsExclusive'
    BY <2>2 DEF TableInv, RowsExclusive
  <2>4. SentInv'
    BY <1>1 DEF TableInv, SentInv, Sent
  <2> QED
    BY <2>1, <2>3, <2>4
<1>6. SupersedesEarlier'
  BY <1>1 DEF TableInv, ConflictInv, SupersedesEarlier
<1>7. ConflictsQueued'
  <2>1. ASSUME NEW f \in log, NEW g \in log, Overwrites(f, g)
        PROVE  \E j \in jobs' : j.incoming = f.id /\ j.base = g.id /\ j.path = f.path
    <3>1. PICK k \in jobs : k.incoming = f.id /\ k.base = g.id /\ k.path = f.path
      BY <2>1 DEF TableInv, ConflictInv, ConflictsQueued
    <3> QED
      BY <1>3, <3>1
  <2> QED
    BY <1>1, <2>1 DEF ConflictsQueued, Overwrites
<1>8. JobsNameConflicts'
  <2>1. ASSUME NEW j \in jobs', j.incoming # Placeholder
        PROVE  \E f, g \in log : f.id = j.incoming /\ g.id = j.base /\ Overwrites(f, g)
    <3>1. PICK k \in jobs : j.base = k.base /\ j.incoming = k.incoming
      BY <1>3
    <3>2. \E f, g \in log : f.id = k.incoming /\ g.id = k.base /\ Overwrites(f, g)
      BY <2>1, <3>1 DEF TableInv, ConflictInv, JobsNameConflicts
    <3> QED
      BY <3>1, <3>2
  <2> QED
    BY <1>1, <2>1 DEF JobsNameConflicts, Overwrites
<1> QED
  BY <1>4, <1>5, <1>6, <1>7, <1>8 DEF TableInv, ConflictInv

LEMMA StoreTables == ASSUME TableInv, [Next]_vars PROVE TableInv'
<1>1. ShownInv'
  BY ShownStep DEF TableInv
<1>2. Acked'
  BY AckedStep DEF TableInv
<1>3. RowsExclusive' /\ IndexMatchesView'
  BY LocksStep, IndexStep DEF TableInv, ShownInv, UniqueInv
<1>4. SupersedesEarlier' /\ ConflictsQueued' /\ JobsNameConflicts'
  BY SupersedesStep, QueuedStep, NamedStep DEF TableInv, ConflictInv
<1>5. SentInv'
  BY SentStep DEF TableInv
<1> QED
  BY <1>1, <1>2, <1>3, <1>4, <1>5 DEF TableInv, ConflictInv

LEMMA TablesStep ==
  ASSUME WorkerInv, TableInv, [WorkerNext]_allVars PROVE TableInv'
<1>1. UniqueInv' /\ WorkerTypeOK
  BY WorkerStep DEF WorkerInv, StoreInv, PassInv
<1> QED
  BY <1>1, PassSteps, StoreTables, BeginTables, UpdateTables

LEMMA TablesStart == WorkerInit => TableInv
<1> SUFFICES ASSUME WorkerInit PROVE TableInv
  OBVIOUS
<1>1. Init
  BY DEF WorkerInit
<1>2. ShownInv
  BY <1>1, ShownInit
<1>3. Acked /\ RowsExclusive /\ IndexMatchesView /\ ConflictInv
  BY <1>1 DEF Init, Acked, RowsExclusive, RowLocks, IndexMatchesView, NoRow, ConflictInv,
              SupersedesEarlier, ConflictsQueued, JobsNameConflicts
<1>4. SentInv
  BY <1>1 DEF Init, SentInv, NoRow
<1> QED
  BY <1>2, <1>3, <1>4 DEF TableInv

LEMMA TablesInvariant == WorkerSpec => []TableInv
BY TablesStart, TablesStep, WorkerInvariant, PTL DEF WorkerSpec

-----------------------------------------------------------------------------
(* What a merge was made of.                                                 *)

\* A pass that has a merge has read the document it is of, which is not shown again once
\* another one is there, and the merge has its lines.
HasRead(w) ==
  step[w] \in {"begin", "apply"} =>
    /\ \E g \in log : g.id = current[w].event
    /\ current[w].content \subseteq merge[w].content
    /\ docs[merge[w].path].event = current[w].event =>
         docs[merge[w].path].content = current[w].content
ReadInv == \A w \in Worker : HasRead(w)

\* What changes a document names an event the log did not have.
LEMMA DocsChange ==
  ASSUME WorkerInv, [WorkerNext]_allVars
  PROVE  /\ log \subseteq log'
         /\ \A p \in Path : docs'[p] = docs[p] \/ \A g \in log : g.id # docs'[p].event
<1>1. TypeOK /\ InsertedIsNew /\ WorkerTypeOK
  BY DEF WorkerInv, StoreInv, UniqueInv, PassInv
<1>2. ASSUME NEW t \in Txn, Commit(t), NEW p \in Path
      PROVE  docs'[p] = docs[p] \/ docs'[p].event = ev[t]
  <2>1. docs' = DocsAfter(t) /\ env[t].path \in Path /\ docs \in [Path -> RowType]
    BY <1>1, <1>2 DEF Commit, TypeOK, EnvelopeType
  <2>2. WrittenRow(t).event = ev[t]
    BY DEF WrittenRow
  <2>3. /\ WrittenDocs(t)[p] = docs[p] \/ WrittenDocs(t)[p].event = ev[t]
        /\ p \in DOMAIN WrittenDocs(t)
    BY <2>1, <2>2 DEF WrittenDocs
  <2>4. CASE env[t].op # "move"
    BY <2>1, <2>3, <2>4 DEF DocsAfter
  <2>5. CASE env[t].op = "move" /\ p # env[t].from
    BY <2>1, <2>3, <2>5 DEF DocsAfter
  <2>6. CASE env[t].op = "move" /\ p = env[t].from
    <3>1. docs'[p] = [WrittenDocs(t)[p] EXCEPT !.event = ev[t], !.at = begun[t], !.live = FALSE]
      BY <2>1, <2>3, <2>6 DEF DocsAfter
    <3>2. "event" \in DOMAIN WrittenDocs(t)[p]
      BY <2>1, <2>3 DEF WrittenDocs, WrittenRow, RowType
    <3> QED
      BY <3>1, <3>2
  <2> QED
    BY <2>4, <2>5, <2>6
<1>3. ASSUME NEW t \in Txn, Commit(t) PROVE \A g \in log : g.id # ev[t]
  BY <1>1, <1>3 DEF Commit, InsertedIsNew, Inserted
<1>4. CASE [Next]_vars
  <2>1. log \subseteq log'
    BY <1>4, LogGrows
  <2>2. CASE \E t \in Txn : Commit(t)
    BY <1>2, <1>3, <2>1, <2>2
  <2>3. CASE docs' = docs
    BY <2>1, <2>3
  <2> QED
    BY <1>4, <2>2, <2>3, TableSteps DEF AckDuplicate
<1>5. CASE Updates
  BY <1>5 DEF Updates
<1>6. CASE \E t \in Txn, e \in EnvelopeType : Begins(t, e)
  BY <1>6 DEF Begins, tables
<1> QED
  BY <1>1, <1>4, <1>5, <1>6, PassSteps

LEMMA ReadStep ==
  ASSUME WorkerInv, TableInv, ReadInv, [WorkerNext]_allVars PROVE ReadInv'
<1> SUFFICES ASSUME NEW w \in Worker, step'[w] \in {"begin", "apply"}
             PROVE  /\ \E g \in log' : g.id = current'[w].event
                    /\ current'[w].content \subseteq merge'[w].content
                    /\ docs'[merge'[w].path].event = current'[w].event =>
                         docs'[merge'[w].path].content = current'[w].content
  BY DEF ReadInv, HasRead
<1>1. /\ WorkerTypeOK /\ TypeOK /\ DocsShown
  BY DEF WorkerInv, StoreInv, UniqueInv, PassInv, TableInv, ShownInv
<1>2. CASE ReadContext(w)
  <2>1. PICK j \in JobType, r \in RowType :
          /\ j = job[w] /\ r = docs[j.path] /\ j.path \in Path /\ r.event # NoEvent
    BY <1>1, <1>2 DEF ReadContext, WorkerTypeOK, TypeOK, JobType
  <2>2. /\ current'[w] = r /\ merge'[w].path = j.path /\ UNCHANGED vars
        /\ \E f \in log : merge'[w].content = DeterministicMerge(r.content, f.content)
    BY <1>1, <1>2, <2>1 DEF ReadContext, WorkerTypeOK
  <2>3. \E g \in log : g.id = r.event
    BY <1>1, <2>1 DEF DocsShown, RowOf, NoRow
  <2>4. r.content \subseteq merge'[w].content
    BY <2>2 DEF DeterministicMerge
  <2> QED
    BY <2>1, <2>2, <2>3, <2>4 DEF vars
<1>3. CASE /\ step[w] \in {"begin", "apply"} /\ current'[w] = current[w]
           /\ merge'[w] = merge[w]
  <2>1. HasRead(w) /\ merge[w].path \in Path
    BY <1>1 DEF ReadInv, WorkerTypeOK, EnvelopeType
  <2>2. PICK g \in log : g.id = current[w].event
    BY <1>3, <2>1 DEF HasRead
  <2>3. /\ log \subseteq log'
        /\ \/ docs'[merge[w].path] = docs[merge[w].path]
           \/ g.id # docs'[merge[w].path].event
    BY <2>1, DocsChange
  <2> QED
    BY <1>3, <2>1, <2>2, <2>3 DEF HasRead
<1>4. ReadContext(w) \/ (/\ step[w] \in {"begin", "apply"} /\ current'[w] = current[w]
                         /\ merge'[w] = merge[w])
  <2>1. CASE UNCHANGED worker
    BY <2>1 DEF worker
  <2>2. ASSUME NEW v \in Worker, Pass(v) \/ Crash(v), v # w
        PROVE  step'[w] = step[w] /\ current'[w] = current[w] /\ merge'[w] = merge[w]
    BY <1>1, <2>2
    DEF WorkerTypeOK, Pass, Crash, Fetch, TakeJob, EndPass, ReadContext, MissingContext,
        BeginMerge, ApplyMerge, MergeApplied, MergeRolledBack, Complete, CompleteFails,
        MarkFailed, worker
  <2>3. CASE Pass(w) \/ Crash(w)
    BY <1>1, <2>3
    DEF WorkerTypeOK, Pass, Crash, Fetch, TakeJob, EndPass, ReadContext, MissingContext,
        BeginMerge, ApplyMerge, MergeApplied, MergeRolledBack, Complete, CompleteFails,
        MarkFailed, worker
  <2> QED
    BY <2>1, <2>2, <2>3 DEF WorkerNext, Clients, allVars
<1> QED
  BY <1>2, <1>3, <1>4

LEMMA ReadInvariant == WorkerSpec => []ReadInv
<1>1. WorkerInit => ReadInv
  BY DEF WorkerInit, ReadInv, HasRead
<1> QED
  BY <1>1, ReadStep, WorkerInvariant, TablesInvariant, PTL DEF WorkerSpec

\* Lines a merge drops are those of a write it could not know when it was computed, and that
\* write is merged again (memory-store.ts:411-431, 622-630, 1365-1425): its transaction
\* has not read the document before, it did not begin before the merge was computed, and
\* it is no merge itself, or it goes unnoticed.
THEOREM DroppedTrue == WorkerSpec => OnlyLateWritesDropped
<1>1. ASSUME WorkerInv, ReadInv PROVE DroppedWasLate
  <2> SUFFICES ASSUME NEW w \in Worker, NEW row, row = docs[merge[w].path],
                      step[w] = "apply", Commit(w), Drops(row, w)
               PROVE  /\ row.event # current[w].event
                      /\ \/ \E j \in jobs' : j.incoming = ev[w] /\ j.base = row.event
                         \/ row # cur[w]
                         \/ row.at <= merge[w].at
                         \/ row.writer = Quartermaster
    BY DEF DroppedWasLate
  <2>1. /\ w \in Txn /\ env[w] = merge[w] /\ merge[w].writer = Quartermaster
        /\ merge[w] \in EnvelopeType /\ docs \in [Path -> RowType]
    BY <1>1, WorkerAssumption
    DEF WorkerInv, PassInv, PassOK, Owns, HasMade, WorkerTypeOK, TypeOK
  <2>2. row \in RowType /\ row.at \in Nat /\ merge[w].at \in Nat
    BY <2>1 DEF RowType, EnvelopeType
  <2>3. row.event # current[w].event
    BY <1>1 DEF ReadInv, HasRead, Drops
  <2>4. ASSUME row = cur[w], ~(row.at <= merge[w].at), row.writer # Quartermaster
        PROVE  \E j \in jobs' : j.incoming = ev[w] /\ j.base = row.event
    <3>1. Conflict(cur[w], env[w])
      BY <2>1, <2>2, <2>4 DEF Conflict, Drops
    <3>2. MergeJob(w, ev[w]) \in jobs'
      BY <3>1 DEF Commit, EventJobs, MergeQueued
    <3>3. MergeJob(w, ev[w]).incoming = ev[w] /\ MergeJob(w, ev[w]).base = row.event
      BY <2>4 DEF MergeJob
    <3> QED
      BY <3>2, <3>3
  <2> QED
    BY <2>3, <2>4
<1> QED
  BY <1>1, WorkerInvariant, ReadInvariant, PTL DEF OnlyLateWritesDropped

\* With passes at work too, one event per key, answers that stay true, rows locked by one
\* transaction, a document table and a chunk index that say what the log says, and a
\* merge job for every conflict and for nothing else.
THEOREM TablesTrue ==
  WorkerSpec => [](/\ LogUnique /\ AcksDurable /\ RowsExclusive /\ ViewMatchesLog
                   /\ IndexMatchesView /\ SupersedesEarlier /\ ConflictsQueued
                   /\ JobsNameConflicts)
<1>1. TableInv => LogUnique /\ RowsExclusive /\ IndexMatchesView /\ ConflictInv
  BY DEF TableInv, ShownInv, UniqueInv
<1>2. TableInv => AcksDurable
  BY DEF TableInv, ShownInv, UniqueInv, Acked, LogUnique, SameEvent, AcksDurable
<1>3. TableInv => ViewMatchesLog
  BY DEF TableInv, ShownInv, DocsShown, ViewMatchesLog, RowOf, RowShows
<1> QED
  BY <1>1, <1>2, <1>3, TablesInvariant, PTL DEF ConflictInv

\* What the abstract store does with jobs it does with their names.
LEMMA NamedView ==
  ASSUME TypeOK, View!Next
  PROVE  TableView!Next
<1> DEFINE Name(j) == [req |-> j.req, path |-> j.path, base |-> j.base, incoming |-> j.incoming]
<1>1. JobNames = {Name(j) : j \in jobs} /\ JobNames' = {Name(j) : j \in jobs'}
  BY DEF JobNames
<1>2. ASSUME jobs \subseteq jobs', NEW S, \A j \in jobs' \ jobs : j.incoming \in S
      PROVE  JobNames \subseteq JobNames' /\ \A n \in JobNames' \ JobNames : n.incoming \in S
  BY <1>1, <1>2
<1>3. CASE View!QueuePlaceholder
  <2>1. \A j \in jobs' \ jobs : j.incoming \in {0}
    BY <1>3 DEF View!QueuePlaceholder
  <2>2. JobNames \subseteq JobNames' /\ \A n \in JobNames' \ JobNames : n.incoming \in {0}
    BY <1>2, <1>3, <2>1 DEF View!QueuePlaceholder
  <2>3. TableView!QueuePlaceholder
    BY <1>3, <2>2 DEF View!QueuePlaceholder, TableView!QueuePlaceholder
  <2> QED
    BY <2>3 DEF TableView!Next
<1>4. CASE View!Append
  <2>1. PICK f \in log' :
          /\ View!Fresh(f) /\ log' = log \cup {f} /\ jobs \subseteq jobs' /\ View!Queued(f)
          /\ View!Write(f) \/ View!Delete(f) \/ View!Move(f) \/ View!MoveOntoItself(f)
    BY <1>4 DEF View!Append
  <2>2. JobNames \subseteq JobNames' /\ TableView!Queued(f)
    BY <1>2, <2>1 DEF View!Queued, TableView!Queued
  <2>3. TableView!Fresh(f)
    BY <2>1 DEF View!Fresh, TableView!Fresh
  <2>4. \/ TableView!Write(f) \/ TableView!Delete(f)
        \/ TableView!Move(f) \/ TableView!MoveOntoItself(f)
    <3>1. View!Write(f) => TableView!Write(f)
      BY DEF View!Write, View!Shows, View!OthersKeep, TableView!Write, TableView!Shows,
             TableView!OthersKeep
    <3>2. View!Delete(f) => TableView!Delete(f)
      BY DEF View!Delete, View!Hides, View!OthersKeep, TableView!Delete, TableView!Hides,
             TableView!OthersKeep
    <3>3. View!Move(f) => TableView!Move(f)
      BY DEF View!Move, View!Shows, View!Hides, View!OthersKeep, View!Bodies, TableView!Move,
             TableView!Shows, TableView!Hides, TableView!OthersKeep, TableView!Bodies
    <3>4. View!MoveOntoItself(f) => TableView!MoveOntoItself(f)
      BY DEF View!MoveOntoItself, View!OthersKeep, TableView!MoveOntoItself, TableView!OthersKeep
    <3> QED
      BY <2>1, <3>1, <3>2, <3>3, <3>4
  <2>5. TableView!Append
    BY <2>1, <2>2, <2>3, <2>4 DEF TableView!Append
  <2> QED
    BY <2>5 DEF TableView!Next
<1> QED
  BY <1>3, <1>4 DEF View!Next

\* Passes next to clients still implement the abstract store: a merge is one event appended with
\* its document and its chunks, and the states of jobs do not show.
THEOREM PassesKeepView == WorkerSpec => PassesImplementView
<1>1. WorkerInit => TableView!Init
  BY DEF WorkerInit, Init, TableView!Init, NoRow, NoEvent, JobNames
<1>2. ASSUME WorkerInv, TableInv, [WorkerNext]_allVars PROVE [TableView!Next]_(TableView!vars)
  <2>1. TypeOK /\ WorkerTypeOK /\ ShownInv /\ SentInv
    BY <1>2 DEF TableInv, ShownInv, UniqueInv, WorkerInv, PassInv
  <2>2. CASE [Next]_vars
    <3>1. View!Next \/ UNCHANGED <<docs, log, chunks, jobs>>
      BY <2>1, <2>2, ViewStep DEF View!vars
    <3>2. UNCHANGED <<docs, log, chunks, jobs>> => UNCHANGED TableView!vars
      BY DEF TableView!vars, JobNames
    <3> QED
      BY <2>1, <3>1, <3>2, NamedView
  <2>3. CASE \E t \in Txn, e \in EnvelopeType : Begins(t, e)
    BY <2>3 DEF Begins, tables, TableView!vars, JobNames
  <2>4. CASE Updates
    <3>1. UNCHANGED <<docs, log, chunks>>
      BY <2>4 DEF Updates
    <3>2. JobNames' = JobNames
      BY <2>1, <2>4, UpdateNames DEF JobNames
    <3> QED
      BY <3>1, <3>2 DEF TableView!vars
  <2> QED
    BY <1>2, <2>1, <2>2, <2>3, <2>4, PassSteps
<1> QED
  BY <1>1, <1>2, WorkerInvariant, TablesInvariant, PTL
  DEF WorkerSpec, PassesImplementView, TableView!Spec

=============================================================================
