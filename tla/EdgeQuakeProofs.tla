--------------------------- MODULE EdgeQuakeProofs ---------------------------
(***************************************************************************)
(* Theorems about EdgeQuake.  For any number of processes that drain side  *)
(* by side, any writes and any faults: no citation of hybrid search quotes *)
(* one write under the name of another.  For one process, when documents   *)
(* are edited and deleted but not moved: once the queue is worked off,     *)
(* hybrid search has what the core has.                                    *)
(***************************************************************************)
EXTENDS EdgeQuake, TLAPS, FiniteSetTheorems

-----------------------------------------------------------------------------
(* The inductive invariant.                                                  *)

Body == Content \cup {None}
WriteType ==
  [id: Id, op: {"upsert", "delete", "move"}, path: Path, from: Path, content: Body]

\* Events are numbered without gaps, and no request is made twice.
WritesOK ==
  /\ Writes \in Nat /\ DOMAIN written = 1..Writes
  /\ \A n \in DOMAIN written :
       written[n] \in WriteType /\ \E r \in Request : r.id = written[n].id
  /\ \A m, n \in DOMAIN written : written[m].id = written[n].id => m = n
  /\ docs \in [Path -> [event: 0..Writes, content: Body, live: BOOLEAN]]

\* An event has one job at most, and none as long as its enqueueWriteSync is under way.
Pending(j) == j.status \in {"pending", "retrying"}
QueueOK ==
  /\ enqueues \subseteq DOMAIN written
  /\ \A j \in jobs :
       /\ j \in JobType /\ j.event \in DOMAIN written /\ j.event \notin enqueues
       /\ Pending(j) => j.attempts < MaxRetries
  /\ \A j, k \in jobs : j.event = k.event => j = k

\* A document id is given out once.
RemoteOK ==
  /\ created \in Nat
  /\ remote \subseteq [id: 1..created, content: Body]
  /\ \A r, s \in remote : r.id = s.id => r = s

\* A document that was given out and that, as long as it is there, has the body of event n.
BodyOf(id, n) ==
  /\ n \in DOMAIN written /\ id \in 1..created
  /\ \A r \in remote : r.id = id => r.content = written[n].content

MappedOK ==
  /\ mapped \in [Path -> [doc: 0..created, event: Nat]]
  /\ \A p \in Path : mapped[p] # NoMapping =>
       /\ BodyOf(mapped[p].doc, mapped[p].event)
       /\ written[mapped[p].event].path = p
       /\ \A q \in Path : mapped[q].doc = mapped[p].doc => q = p

\* A job as a drain holds it: of a committed write and with an attempt left.
Open(j) == j \in JobType /\ j.event \in DOMAIN written /\ j.attempts < MaxRetries
DrainOK(d) ==
  /\ \A j \in batch[d] : Open(j)
  /\ at[d] \notin {"idle", "next"} => Open(job[d])
  /\ at[d] \in {"unshare", "map"} => BodyOf(doc[d], Event(d))
DrainsOK ==
  /\ at \in [Process -> Steps]
  /\ batch \in [Process -> SUBSET JobType]
  /\ job \in [Process -> JobType \cup {NoJob}]
  /\ doc \in [Process -> 0..created]
  /\ \A d \in Process : DrainOK(d)

EdgeInv ==
  WritesOK /\ QueueOK /\ RemoteOK /\ MappedOK /\ DrainsOK /\ faults \in 0..MaxFaults

-----------------------------------------------------------------------------
(* Counting.                                                                 *)

\* Writes are no more than the requests clients make.
LEMMA WritesBounded ==
  ASSUME WritesOK
  PROVE  MaxWrites \in Nat /\ Writes <= MaxWrites /\ DOMAIN written \subseteq 1..MaxWrites
<1>1. IsFiniteSet(Request) /\ MaxWrites \in Nat
  BY RequestAssumption, FS_CardinalityType DEF MaxWrites
<1> DEFINE made == [n \in DOMAIN written |-> CHOOSE r \in Request : r.id = written[n].id]
<1>2. \A n \in DOMAIN written : made[n] \in Request /\ made[n].id = written[n].id
  BY DEF WritesOK
<1>3. made \in [DOMAIN written -> Request]
  BY <1>2
<1>4. \A m, n \in DOMAIN written : made[m] = made[n] => m = n
  BY <1>2 DEF WritesOK
<1> HIDE DEF made
<1>5. made \in Injection(DOMAIN written, Request)
  BY <1>3, <1>4 DEF Injection, IsInjective
<1>6. Writes <= MaxWrites
  BY <1>1, <1>5, FS_Injection DEF Writes, MaxWrites
<1>7. 1..Writes \subseteq 1..MaxWrites
  BY <1>1, <1>6 DEF WritesOK
<1> QED
  BY <1>1, <1>6, <1>7 DEF WritesOK

\* Jobs are no more than writes, and one fewer as long as a write has none.
LEMMA JobsBounded ==
  ASSUME WritesOK, QueueOK, NEW n \in enqueues
  PROVE  Cardinality(jobs) + 1 \in 1..MaxWrites
<1>1. Writes \in Nat /\ MaxWrites \in Nat /\ Writes <= MaxWrites /\ n \in DOMAIN written
  BY WritesBounded DEF WritesOK, QueueOK
<1>2. IsFiniteSet(DOMAIN written) /\ Cardinality(DOMAIN written) = Writes
  <2>1. IsFiniteSet(1..Writes)
    BY <1>1, FS_Interval
  <2> QED
    BY <2>1 DEF WritesOK, Writes
<1> DEFINE S == DOMAIN written \ {n}
<1>3. IsFiniteSet(S) /\ Cardinality(S) = Writes - 1
  BY <1>1, <1>2, FS_RemoveElement
<1> DEFINE of == [j \in jobs |-> j.event]
<1>4. of \in [jobs -> S] /\ \A j, k \in jobs : of[j] = of[k] => j = k
  BY DEF QueueOK
<1> HIDE DEF of, S
<1>5. of \in Injection(jobs, S)
  BY <1>4 DEF Injection, IsInjective
<1>6. IsFiniteSet(jobs) /\ Cardinality(jobs) <= Writes - 1
  BY <1>3, <1>5, FS_Injection
<1>7. Cardinality(jobs) \in Nat
  BY <1>6, FS_CardinalityType
<1> QED
  BY <1>1, <1>6, <1>7

-----------------------------------------------------------------------------
(* What steps leave alone.                                                   *)

\* Writes stay, and documents keep their bodies: a new one has a new id.
Grows ==
  /\ \A n \in DOMAIN written : n \in DOMAIN written' /\ written'[n] = written[n]
  /\ created \in Nat /\ created' \in Nat /\ created <= created'
  /\ \A r \in remote' : r \in remote \/ r.id \notin 1..created

LEMMA BodyStays ==
  ASSUME Grows, NEW id, NEW n, BodyOf(id, n)
  PROVE  BodyOf(id, n)'
<1>1. n \in DOMAIN written /\ id \in 1..created
  BY DEF BodyOf
<1>2. n \in DOMAIN written' /\ written'[n] = written[n] /\ id \in 1..created'
  BY <1>1 DEF Grows
<1>3. \A r \in remote' : r.id = id => r \in remote
  BY <1>1 DEF Grows
<1> QED
  BY <1>2, <1>3 DEF BodyOf

LEMMA MappedStays ==
  ASSUME MappedOK, Grows, mapped' = mapped
  PROVE  MappedOK'
<1>1. mapped' \in [Path -> [doc: 0..created', event: Nat]]
  <2>1. 0..created \subseteq 0..created'
    BY DEF Grows
  <2> QED
    BY <2>1 DEF MappedOK
<1>2. ASSUME NEW p \in Path, mapped[p] # NoMapping
      PROVE  /\ BodyOf(mapped[p].doc, mapped[p].event)'
             /\ written'[mapped[p].event].path = p
             /\ \A q \in Path : mapped[q].doc = mapped[p].doc => q = p
  <2>1. /\ BodyOf(mapped[p].doc, mapped[p].event)
        /\ written[mapped[p].event].path = p
        /\ \A q \in Path : mapped[q].doc = mapped[p].doc => q = p
    BY <1>2 DEF MappedOK
  <2>2. PICK id, n : id = mapped[p].doc /\ n = mapped[p].event
    OBVIOUS
  <2>3. BodyOf(id, n)'
    BY <2>1, <2>2, BodyStays
  <2>4. written'[n] = written[n]
    BY <2>1, <2>2 DEF Grows, BodyOf
  <2> QED
    BY <2>1, <2>2, <2>3, <2>4 DEF BodyOf
<1> QED
  BY <1>1, <1>2 DEF MappedOK

LEMMA QueueStays ==
  ASSUME QueueOK, jobs' = jobs, enqueues' \subseteq enqueues, written' = written
  PROVE  QueueOK'
BY DEF QueueOK, Pending

\* A drain's next step: the other drains are as good as before.
LEMMA DrainsStay ==
  ASSUME DrainsOK, Grows, NEW d \in Process,
         NEW a \in Steps, NEW b \in SUBSET JobType, NEW j \in JobType \cup {NoJob}, NEW x,
         x \in 0..created',
         at' = [at EXCEPT ![d] = a], batch' = [batch EXCEPT ![d] = b],
         job' = [job EXCEPT ![d] = j], doc' = [doc EXCEPT ![d] = x],
         \A k \in b : Open(k),
         a \notin {"idle", "next"} => Open(j),
         a \in {"unshare", "map"} => BodyOf(x, j.event)'
  PROVE  DrainsOK'
<1>1. /\ at' \in [Process -> Steps] /\ batch' \in [Process -> SUBSET JobType]
      /\ job' \in [Process -> JobType \cup {NoJob}]
  BY DEF DrainsOK
<1>2. doc' \in [Process -> 0..created']
  <2>1. 0..created \subseteq 0..created'
    BY DEF Grows
  <2>2. doc \in [Process -> 0..created']
    BY <2>1 DEF DrainsOK
  <2> QED
    BY <2>2
<1>3. \A k : Open(k) => Open(k)'
  BY DEF Open, Grows
<1>4. at'[d] = a /\ batch'[d] = b /\ job'[d] = j /\ doc'[d] = x
  BY DEF DrainsOK
<1>5. DrainOK(d)'
  BY <1>3, <1>4 DEF DrainOK, Event
<1>6. ASSUME NEW e \in Process, e # d PROVE DrainOK(e)'
  <2>1. at'[e] = at[e] /\ batch'[e] = batch[e] /\ job'[e] = job[e] /\ doc'[e] = doc[e]
    BY <1>6 DEF DrainsOK
  <2>2. DrainOK(e)
    BY DEF DrainsOK
  <2>3. PICK id, n : id = doc[e] /\ n = job[e].event
    OBVIOUS
  <2>4. BodyOf(id, n) => BodyOf(id, n)'
    BY BodyStays
  <2> QED
    BY <1>3, <2>1, <2>2, <2>3, <2>4 DEF DrainOK, Event
<1> QED
  BY <1>1, <1>2, <1>5, <1>6 DEF DrainsOK

\* No drain takes a step.
LEMMA DrainsSame ==
  ASSUME DrainsOK, Grows, UNCHANGED drain
  PROVE  DrainsOK'
<1>1. at' = at /\ batch' = batch /\ job' = job /\ doc' = doc
  BY DEF drain
<1>2. doc' \in [Process -> 0..created']
  <2>1. 0..created \subseteq 0..created'
    BY DEF Grows
  <2> QED
    BY <1>1, <2>1 DEF DrainsOK
<1>3. \A k : Open(k) => Open(k)'
  BY DEF Open, Grows
<1>4. ASSUME NEW e \in Process PROVE DrainOK(e)'
  <2>1. DrainOK(e)
    BY DEF DrainsOK
  <2>2. PICK id, n : id = doc[e] /\ n = job[e].event
    OBVIOUS
  <2>3. BodyOf(id, n) => BodyOf(id, n)'
    BY BodyStays
  <2> QED
    BY <1>1, <1>3, <2>1, <2>2, <2>3 DEF DrainOK, Event
<1> QED
  BY <1>1, <1>2, <1>4 DEF DrainsOK

-----------------------------------------------------------------------------
(* Writes and the queue.                                                     *)

\* What a write records.
LEMMA Recorded ==
  ASSUME EdgeInv, NEW r \in Request, Write(r)
  PROVE  /\ WritesOK'
         /\ Writes' = Writes + 1 /\ DOMAIN written' = DOMAIN written \cup {Writes + 1}
         /\ \A n \in DOMAIN written : written'[n] = written[n]
         /\ written'[Writes + 1].op = r.op /\ written'[Writes + 1].path = r.path
         /\ enqueues' = enqueues \cup {Writes + 1}
         /\ r.op # "move" => docs' = [docs EXCEPT ![r.path] =
                               [event |-> Writes + 1, content |-> written'[Writes + 1].content,
                                live |-> r.op # "delete"]]
         /\ r.op = "upsert" => written'[Writes + 1].content = r.content
<1>1. r \in RequestType /\ (r.op = "move" => r.from # r.path)
  BY RequestAssumption
<1>2. PICK n, content :
        /\ n = Writes + 1
        /\ content = CASE r.op = "upsert" -> r.content
                       [] r.op = "move" -> docs[r.from].content
                       [] r.op = "delete" -> docs[r.path].content
  OBVIOUS
<1>3. /\ \A m \in DOMAIN written : written[m].id # r.id
      /\ written' = [i \in 1..n |-> IF i = n THEN [r EXCEPT !.content = content]
                                    ELSE written[i]]
      /\ docs' = IF r.op = "move"
                 THEN [docs EXCEPT ![r.path] = [event |-> n, content |-> content,
                                                live |-> r.op # "delete"],
                                   ![r.from].event = n, ![r.from].live = FALSE]
                 ELSE [docs EXCEPT ![r.path] = [event |-> n, content |-> content,
                                                live |-> r.op # "delete"]]
      /\ enqueues' = enqueues \cup {n}
  BY <1>2 DEF Write
<1>4. /\ Writes \in Nat /\ n \in Nat /\ DOMAIN written = 1..Writes
      /\ docs \in [Path -> [event: 0..Writes, content: Body, live: BOOLEAN]]
  BY <1>2 DEF EdgeInv, WritesOK
<1>5. content \in Body
  BY <1>1, <1>2, <1>4 DEF RequestType, Body
<1>6. /\ DOMAIN written' = 1..n /\ 1..n = 1..Writes \cup {n} /\ n \notin 1..Writes
      /\ 0..Writes \subseteq 0..n /\ n \in 0..n
  BY <1>2, <1>3, <1>4
<1>7. Writes' = n
  <2>1. Cardinality(1..n) = n
    BY <1>4, FS_Interval
  <2> QED
    BY <1>6, <2>1 DEF Writes
<1>8. PICK e : e = [r EXCEPT !.content = content]
  OBVIOUS
<1>9. /\ e \in WriteType /\ e.id = r.id /\ e.op = r.op /\ e.path = r.path
      /\ e.content = content
  BY <1>1, <1>5, <1>8 DEF RequestType, WriteType
<1>10. written'[n] = e /\ \A m \in DOMAIN written : written'[m] = written[m]
  BY <1>3, <1>4, <1>6, <1>8
<1>11. \A m \in DOMAIN written' :
         written'[m] \in WriteType /\ \E s \in Request : s.id = written'[m].id
  BY <1>4, <1>6, <1>9, <1>10 DEF EdgeInv, WritesOK
<1>12. \A l, m \in DOMAIN written' : written'[l].id = written'[m].id => l = m
  BY <1>3, <1>4, <1>6, <1>9, <1>10 DEF EdgeInv, WritesOK
<1>13. docs' \in [Path -> [event: 0..n, content: Body, live: BOOLEAN]]
  <2>1. docs \in [Path -> [event: 0..n, content: Body, live: BOOLEAN]]
    BY <1>4, <1>6
  <2>2. [event |-> n, content |-> content, live |-> r.op # "delete"]
          \in [event: 0..n, content: Body, live: BOOLEAN]
    BY <1>5, <1>6
  <2>3. r.path \in Path /\ r.from \in Path
    BY <1>1 DEF RequestType
  <2>4. CASE r.op # "move"
    BY <1>3, <2>1, <2>2, <2>4
  <2>5. CASE r.op = "move"
    BY <1>1, <1>3, <1>6, <2>1, <2>2, <2>3, <2>5
  <2> QED
    BY <2>4, <2>5
<1>14. WritesOK'
  BY <1>4, <1>6, <1>7, <1>11, <1>12, <1>13 DEF WritesOK
<1>15. r.op = "upsert" => content = r.content
  BY <1>2
<1> QED
  BY <1>2, <1>3, <1>4, <1>6, <1>7, <1>9, <1>10, <1>14, <1>15

LEMMA WriteStep ==
  ASSUME EdgeInv, NEW r \in Request, Write(r) PROVE EdgeInv'
<1>1. /\ WritesOK' /\ Writes' = Writes + 1 /\ DOMAIN written' = DOMAIN written \cup {Writes + 1}
      /\ \A n \in DOMAIN written : written'[n] = written[n]
      /\ enqueues' = enqueues \cup {Writes + 1}
  BY Recorded
<1>2. UNCHANGED <<jobs, mapped, remote, created, drain, faults>>
  BY DEF Write
<1>3. Grows /\ RemoteOK'
  BY <1>1, <1>2 DEF Grows, EdgeInv, RemoteOK
<1>4. QueueOK'
  <2>1. Writes + 1 \notin DOMAIN written
    BY DEF EdgeInv, WritesOK
  <2> QED
    BY <1>1, <1>2, <2>1 DEF EdgeInv, QueueOK, Pending
<1>5. MappedOK' /\ DrainsOK'
  BY <1>2, <1>3, MappedStays, DrainsSame DEF EdgeInv
<1> QED
  BY <1>1, <1>2, <1>3, <1>4, <1>5 DEF EdgeInv

LEMMA EnqueueStep ==
  ASSUME EdgeInv, NEW n \in enqueues, Enqueue(n) PROVE EdgeInv'
<1>1. /\ enqueues' = enqueues \ {n}
      /\ jobs' = jobs \cup {[event |-> n, seq |-> Cardinality(jobs) + 1, status |-> "pending",
                             attempts |-> 0]}
      /\ UNCHANGED <<docs, written, mapped, remote, created, drain, faults>>
  BY DEF Enqueue
<1>2. Cardinality(jobs) + 1 \in 1..MaxWrites /\ n \in DOMAIN written /\ n \in 1..MaxWrites
  BY JobsBounded, WritesBounded DEF EdgeInv, QueueOK
<1>3. PICK j : j = [event |-> n, seq |-> Cardinality(jobs) + 1, status |-> "pending",
                    attempts |-> 0]
  OBVIOUS
<1>4. /\ j \in JobType /\ j.event = n /\ j.attempts < MaxRetries
      /\ jobs' = jobs \cup {j}
  BY <1>1, <1>2, <1>3, BoundAssumption DEF JobType
<1>5. QueueOK'
  BY <1>1, <1>2, <1>4 DEF EdgeInv, QueueOK, Pending
<1>6. WritesOK' /\ RemoteOK' /\ Grows
  BY <1>1 DEF EdgeInv, WritesOK, Writes, RemoteOK, Grows
<1>7. MappedOK' /\ DrainsOK'
  BY <1>1, <1>6, MappedStays, DrainsSame DEF EdgeInv
<1> QED
  BY <1>1, <1>5, <1>6, <1>7 DEF EdgeInv

-----------------------------------------------------------------------------
(* Steps of a drain.                                                         *)

\* The job a drain works on gets another status, as often as MaxRetries allows.
LEMMA QueueUpdated ==
  ASSUME QueueOK, NEW d \in Process,
         NEW s \in {"retrying", "completed", "skipped", "failed"}, NEW n \in 0..MaxRetries,
         s = "retrying" => n < MaxRetries,
         Update(d, s, n), UNCHANGED <<enqueues, written>>
  PROVE  QueueOK'
<1>1. PICK e : e = Event(d)
  OBVIOUS
<1>2. jobs' = {IF j.event = e THEN [j EXCEPT !.status = s, !.attempts = n] ELSE j : j \in jobs}
  BY <1>1 DEF Update
<1>3. ASSUME NEW k \in jobs'
      PROVE  \E j \in jobs : /\ k = IF j.event = e
                                    THEN [j EXCEPT !.status = s, !.attempts = n] ELSE j
                             /\ k.event = j.event /\ k \in JobType
                             /\ Pending(k) => k.attempts < MaxRetries
  <2>1. PICK j \in jobs : k = IF j.event = e
                              THEN [j EXCEPT !.status = s, !.attempts = n] ELSE j
    BY <1>2, <1>3
  <2>2. j \in JobType /\ (Pending(j) => j.attempts < MaxRetries)
    BY DEF QueueOK
  <2>3. CASE j.event = e
    BY <2>1, <2>2, <2>3 DEF JobType, Pending
  <2>4. CASE j.event # e
    BY <2>1, <2>2, <2>4
  <2> QED
    BY <2>3, <2>4, <2>1
<1>4. ASSUME NEW k \in jobs'
      PROVE  /\ k \in JobType /\ k.event \in DOMAIN written' /\ k.event \notin enqueues'
             /\ Pending(k) => k.attempts < MaxRetries
  BY <1>3 DEF QueueOK
<1>5. ASSUME NEW k \in jobs', NEW l \in jobs', k.event = l.event PROVE k = l
  <2>1. PICK i \in jobs : /\ k = IF i.event = e
                                 THEN [i EXCEPT !.status = s, !.attempts = n] ELSE i
                          /\ k.event = i.event
    BY <1>3
  <2>2. PICK j \in jobs : /\ l = IF j.event = e
                                 THEN [j EXCEPT !.status = s, !.attempts = n] ELSE j
                          /\ l.event = j.event
    BY <1>3
  <2>3. i = j
    BY <1>5, <2>1, <2>2 DEF QueueOK
  <2> QED
    BY <2>1, <2>2, <2>3
<1> QED
  BY <1>4, <1>5 DEF QueueOK

\* Between the statements of a job nothing is written: what a drain holds stays good.
LEMMA Quiet ==
  ASSUME EdgeInv, UNCHANGED <<docs, written, remote, created>>
  PROVE  WritesOK' /\ RemoteOK' /\ Grows
BY DEF EdgeInv, WritesOK, Writes, RemoteOK, Grows

\* A drain begins, takes its next job or comes to its end.
LEMMA BatchStep ==
  ASSUME EdgeInv, NEW d \in Process, Due(d) \/ Take(d) \/ DrainDone(d)
  PROVE  EdgeInv'
<1>1. WritesOK' /\ RemoteOK' /\ Grows
  BY Quiet DEF Due, Take, DrainDone
<1>2. QueueOK' /\ MappedOK' /\ faults' = faults
  BY <1>1, QueueStays, MappedStays DEF EdgeInv, Due, Take, DrainDone
<1>3. /\ at \in [Process -> Steps] /\ batch \in [Process -> SUBSET JobType]
      /\ job \in [Process -> JobType \cup {NoJob}] /\ doc \in [Process -> 0..created]
      /\ DrainOK(d) /\ DrainsOK /\ created' \in Nat
  BY <1>1 DEF EdgeInv, DrainsOK, Grows
<1>4. NoDocument \in 0..created' /\ doc[d] \in 0..created'
  BY <1>1, <1>3 DEF Grows, NoDocument
<1>5. CASE Due(d)
  <2>1. PICK b \in SUBSET jobs : batch' = [batch EXCEPT ![d] = b] /\ \A k \in b : Pending(k)
    BY <1>5 DEF Due, Pending
  <2>2. \A k \in b : Open(k) /\ k \in JobType
    BY <2>1 DEF EdgeInv, QueueOK, Open
  <2>3. /\ at' = [at EXCEPT ![d] = "next"] /\ job' = [job EXCEPT ![d] = job[d]]
        /\ doc' = [doc EXCEPT ![d] = doc[d]]
    BY <1>3, <1>5 DEF Due, Go
  <2>4. DrainsOK'
    BY <1>1, <1>3, <1>4, <2>1, <2>2, <2>3, DrainsStay DEF Steps
  <2> QED
    BY <1>1, <1>2, <2>4 DEF EdgeInv
<1>6. CASE Take(d)
  <2>1. PICK j \in batch[d] : /\ job' = [job EXCEPT ![d] = j]
                              /\ batch' = [batch EXCEPT ![d] = @ \ {j}]
    BY <1>6 DEF Take
  <2>2. PICK b \in SUBSET JobType : b = batch[d] \ {j}
    BY <1>3
  <2>3. batch' = [batch EXCEPT ![d] = b] /\ (\A k \in b : Open(k)) /\ Open(j)
    BY <1>3, <2>1, <2>2 DEF DrainOK
  <2>4. at' = [at EXCEPT ![d] = "check"] /\ doc' = [doc EXCEPT ![d] = doc[d]]
    BY <1>3, <1>6 DEF Take, Go
  <2>5. DrainsOK'
    BY <1>1, <1>3, <1>4, <2>1, <2>3, <2>4, DrainsStay DEF Steps, Open
  <2> QED
    BY <1>1, <1>2, <2>5 DEF EdgeInv
<1>7. CASE DrainDone(d)
  <2>1. /\ at' = [at EXCEPT ![d] = "idle"] /\ job' = [job EXCEPT ![d] = NoJob]
        /\ batch' = [batch EXCEPT ![d] = batch[d]] /\ doc' = [doc EXCEPT ![d] = NoDocument]
    BY <1>3, <1>7 DEF DrainDone, Go
  <2>2. batch[d] \in SUBSET JobType /\ \A k \in batch[d] : Open(k)
    BY <1>3 DEF DrainOK
  <2>3. DrainsOK'
    BY <1>1, <1>3, <1>4, <2>1, <2>2, DrainsStay DEF Steps
  <2> QED
    BY <1>1, <1>2, <2>3 DEF EdgeInv
<1> QED
  BY <1>5, <1>6, <1>7

\* A drain goes on with its job, with the document it holds or another one.
LEMMA DrainGoesOn ==
  ASSUME EdgeInv, Grows, NEW d \in Process, at[d] \notin {"idle", "next"},
         NEW a \in Steps, Go(d, a), UNCHANGED <<batch, job>>,
         NEW x \in 0..created', doc' = [doc EXCEPT ![d] = x],
         a \in {"unshare", "map"} => BodyOf(x, Event(d))'
  PROVE  DrainsOK'
<1>1. /\ batch \in [Process -> SUBSET JobType] /\ job \in [Process -> JobType \cup {NoJob}]
      /\ DrainOK(d) /\ DrainsOK
  BY DEF EdgeInv, DrainsOK
<1>2. /\ at' = [at EXCEPT ![d] = a] /\ batch' = [batch EXCEPT ![d] = batch[d]]
      /\ job' = [job EXCEPT ![d] = job[d]]
  BY <1>1 DEF Go
<1>3. /\ batch[d] \in SUBSET JobType /\ job[d] \in JobType \cup {NoJob}
      /\ \A k \in batch[d] : Open(k)
      /\ Open(job[d]) /\ Event(d)' = job[d].event
  BY <1>1 DEF DrainOK, Event
<1>4. PICK j : j = job[d]
  OBVIOUS
<1>5. a \in {"unshare", "map"} => BodyOf(x, j.event)'
  BY <1>3, <1>4 DEF Event
<1> QED
  BY <1>1, <1>2, <1>3, <1>4, <1>5, DrainsStay

\* Statements that leave EdgeQuake's documents and the mappings alone.
LEMMA JobStep ==
  ASSUME EdgeInv, NEW d \in Process,
         Check(d) \/ Skip(d) \/ Lookup(d) \/ Complete(d) \/ Error(d) \/ Retry(d)
  PROVE  EdgeInv'
<1>1. WritesOK' /\ RemoteOK' /\ Grows
  BY Quiet DEF Check, Skip, Lookup, Complete, Error, Retry
<1>2. MappedOK' /\ faults' = faults /\ UNCHANGED <<written, enqueues, batch, job>>
  BY <1>1, MappedStays DEF EdgeInv, Check, Skip, Lookup, Complete, Error, Retry
<1>3. at[d] \notin {"idle", "next"} /\ DrainOK(d) /\ doc \in [Process -> 0..created]
  BY DEF EdgeInv, DrainsOK, Check, Skip, Lookup, Complete, Error, Retry
<1>4. Open(job[d]) /\ Event(d) \in DOMAIN written
  BY <1>3 DEF DrainOK, Open, Event
<1>5. Removed(d) \in Path
  BY <1>4 DEF EdgeInv, WritesOK, WriteType, Removed, Target
<1>6. PICK x \in 0..created' : doc' = [doc EXCEPT ![d] = x]
  <2>1. mapped[Removed(d)].doc \in 0..created /\ doc[d] \in 0..created
    BY <1>3, <1>5 DEF EdgeInv, MappedOK
  <2>2. 0..created \subseteq 0..created'
    BY <1>1 DEF Grows
  <2>3. CASE Lookup(d)
    BY <2>1, <2>2, <2>3 DEF Lookup
  <2>4. CASE doc' = doc
    BY <1>3, <2>1, <2>2, <2>4
  <2> QED
    BY <2>3, <2>4 DEF Check, Skip, Complete, Error, Retry
<1>7. PICK a \in Steps : Go(d, a) /\ a \notin {"unshare", "map"}
  <2>1. CASE Check(d)
    BY <2>1 DEF Check, Steps
  <2>2. CASE Skip(d) \/ Complete(d) \/ Retry(d)
    BY <2>2 DEF Skip, Complete, Retry, Steps
  <2>3. CASE Lookup(d)
    BY <2>3 DEF Lookup, Steps
  <2>4. CASE Error(d)
    BY <2>4 DEF Error, Steps
  <2> QED
    BY <2>1, <2>2, <2>3, <2>4
<1>8. DrainsOK'
  BY <1>1, <1>2, <1>3, <1>6, <1>7, DrainGoesOn
<1>9. QueueOK'
  <2>1. /\ Attempts(d) \in 0..MaxRetries /\ job[d].attempts + 1 = Attempts(d)
        /\ ~GiveUp(d) => Attempts(d) < MaxRetries
    BY <1>4, BoundAssumption DEF Open, JobType, Attempts, GiveUp
  <2>2. CASE jobs' = jobs
    BY <1>2, <2>2, QueueStays DEF EdgeInv
  <2>3. CASE Skip(d)
    BY <1>2, <2>1, <2>3, QueueUpdated DEF EdgeInv, Skip
  <2>4. CASE Complete(d)
    BY <1>2, <2>1, <2>4, QueueUpdated DEF EdgeInv, Complete
  <2>5. CASE Retry(d) /\ GiveUp(d)
    <3>1. Update(d, "failed", Attempts(d))
      BY <2>5 DEF Retry
    <3> QED
      BY <1>2, <2>1, <3>1, QueueUpdated DEF EdgeInv
  <2>6. CASE Retry(d) /\ ~GiveUp(d)
    <3>1. Update(d, "retrying", Attempts(d))
      BY <2>6 DEF Retry
    <3> QED
      BY <1>2, <2>1, <2>6, <3>1, QueueUpdated DEF EdgeInv
  <2> QED
    BY <2>2, <2>3, <2>4, <2>5, <2>6 DEF Check, Lookup, Error
<1> QED
  BY <1>1, <1>2, <1>8, <1>9 DEF EdgeInv

\* syncDelete takes a document away.
LEMMA RemoveStep ==
  ASSUME EdgeInv, NEW d \in Process, Remove(d) PROVE EdgeInv'
<1>1. /\ remote' \subseteq remote
      /\ UNCHANGED <<docs, written, enqueues, jobs, mapped, created, batch, job, doc, faults>>
      /\ at[d] \notin {"idle", "next"}
      /\ Go(d, "unmap") \/ Go(d, "failing")
  BY DEF Remove
<1>2. WritesOK' /\ RemoteOK' /\ Grows
  BY <1>1 DEF EdgeInv, WritesOK, Writes, RemoteOK, Grows
<1>3. MappedOK' /\ QueueOK'
  BY <1>1, <1>2, MappedStays, QueueStays DEF EdgeInv
<1>4. doc[d] \in 0..created' /\ doc' = [doc EXCEPT ![d] = doc[d]]
  BY <1>1 DEF EdgeInv, DrainsOK
<1>5. PICK a \in Steps : Go(d, a) /\ a \notin {"unshare", "map"}
  BY <1>1 DEF Steps
<1>6. DrainsOK'
  BY <1>1, <1>2, <1>4, <1>5, DrainGoesOn
<1> QED
  BY <1>1, <1>2, <1>3, <1>6 DEF EdgeInv

\* Mappings are deleted.
LEMMA MappingsDeleted ==
  ASSUME MappedOK, UNCHANGED <<written, remote, created>>,
         mapped' \in [Path -> [doc: 0..created, event: Nat]],
         \A p \in Path : mapped'[p] = mapped[p] \/ mapped'[p] = NoMapping
  PROVE  MappedOK'
<1>1. ASSUME NEW p \in Path, mapped'[p] # NoMapping
      PROVE  /\ mapped'[p] = mapped[p] /\ BodyOf(mapped[p].doc, mapped[p].event)
             /\ written[mapped[p].event].path = p
             /\ \A q \in Path : mapped'[q].doc = mapped[p].doc => q = p
  <2>1. /\ mapped'[p] = mapped[p] /\ BodyOf(mapped[p].doc, mapped[p].event)
        /\ written[mapped[p].event].path = p
        /\ \A q \in Path : mapped[q].doc = mapped[p].doc => q = p
    BY <1>1 DEF MappedOK
  <2>2. mapped[p].doc # NoMapping.doc
    BY <2>1 DEF BodyOf, NoMapping, NoDocument
  <2> QED
    BY <2>1, <2>2
<1>2. \A id, n : BodyOf(id, n) => BodyOf(id, n)'
  BY DEF BodyOf
<1>3. ASSUME NEW p \in Path, mapped'[p] # NoMapping
      PROVE  /\ BodyOf(mapped[p].doc, mapped[p].event)'
             /\ written'[mapped'[p].event].path = p
             /\ \A q \in Path : mapped'[q].doc = mapped'[p].doc => q = p
             /\ mapped'[p] = mapped[p]
  <2>1. PICK id, n : id = mapped[p].doc /\ n = mapped[p].event
    OBVIOUS
  <2>2. mapped'[p].doc = id /\ mapped'[p].event = n /\ BodyOf(id, n)
    BY <1>1, <1>3, <2>1
  <2>3. BodyOf(id, n)'
    BY <1>2, <2>2
  <2> QED
    BY <1>1, <1>3, <2>1, <2>2, <2>3
<1> QED
  BY <1>3 DEF MappedOK

LEMMA UnmapStep ==
  ASSUME EdgeInv, NEW d \in Process, Unmap(d) \/ Unshare(d) PROVE EdgeInv'
<1>1. /\ UNCHANGED <<docs, written, enqueues, jobs, remote, created, batch, job, doc, faults>>
      /\ at[d] \notin {"idle", "next"}
  BY DEF Unmap, Unshare
<1>2. WritesOK' /\ RemoteOK' /\ Grows /\ QueueOK'
  BY <1>1, Quiet, QueueStays DEF EdgeInv
<1>3. mapped \in [Path -> [doc: 0..created, event: Nat]]
  BY DEF EdgeInv, MappedOK
<1>4. NoMapping \in [doc: 0..created, event: Nat]
  BY <1>2 DEF NoMapping, NoDocument, Grows
<1>5. /\ mapped' \in [Path -> [doc: 0..created, event: Nat]]
      /\ \A p \in Path : mapped'[p] = mapped[p] \/ mapped'[p] = NoMapping
  <2>1. CASE Unmap(d)
    BY <1>3, <1>4, <2>1 DEF Unmap
  <2>2. CASE Unshare(d)
    BY <1>3, <1>4, <2>2 DEF Unshare
  <2> QED
    BY <2>1, <2>2
<1>6. MappedOK'
  BY <1>1, <1>5, MappingsDeleted DEF EdgeInv
<1>7. /\ doc[d] \in 0..created' /\ doc' = [doc EXCEPT ![d] = doc[d]] /\ DrainOK(d)
  BY <1>1 DEF EdgeInv, DrainsOK
<1>8. PICK a \in Steps : Go(d, a) /\ (a \in {"unshare", "map"} => at[d] = "unshare")
  BY DEF Unmap, Unshare, Steps
<1>9. a \in {"unshare", "map"} => BodyOf(doc[d], Event(d))'
  BY <1>1, <1>7, <1>8 DEF DrainOK, BodyOf, Event
<1>10. PICK x : x = doc[d]
  OBVIOUS
<1>11. a \in {"unshare", "map"} => BodyOf(x, Event(d))'
  BY <1>1, <1>9, <1>10
<1>12. DrainsOK'
  BY <1>1, <1>2, <1>7, <1>8, <1>10, <1>11, DrainGoesOn
<1> QED
  BY <1>1, <1>2, <1>6, <1>12 DEF EdgeInv

\* syncUpsert posts a body, and EdgeQuake has one document of it from now on.
LEMMA PostStep ==
  ASSUME EdgeInv, NEW d \in Process, Post(d)
  PROVE  EdgeInv' /\ remote \subseteq remote'
         /\ [id |-> doc'[d], content |-> written[Event(d)].content] \in remote'
<1>1. /\ UNCHANGED <<docs, written, enqueues, jobs, mapped, batch, job, faults>>
      /\ at[d] \notin {"idle", "next"} /\ doc \in [Process -> 0..created] /\ DrainOK(d)
      /\ created \in Nat /\ RemoteOK
  BY DEF Post, EdgeInv, DrainsOK, RemoteOK
<1>2. PICK n : n = Event(d)
  OBVIOUS
<1>3. n \in DOMAIN written /\ written[n].content \in Body /\ Event(d)' = n
  BY <1>1, <1>2 DEF DrainOK, Open, Event, EdgeInv, WritesOK, WriteType
<1>4. PICK x : /\ x \in 1..created' /\ doc' = [doc EXCEPT ![d] = x]
               /\ [id |-> x, content |-> written[n].content] \in remote'
               /\ remote \subseteq remote' /\ Grows /\ RemoteOK'
  <2>1. CASE Posted(d) # {}
    <3>1. PICK x \in Posted(d) : doc' = [doc EXCEPT ![d] = x]
      BY <2>1 DEF Post
    <3>2. UNCHANGED <<remote, created>>
      BY <2>1 DEF Post
    <3>3. PICK r \in remote : r.id = x /\ r.content = written[n].content
      BY <1>2, <3>1 DEF Posted
    <3>4. r = [id |-> x, content |-> written[n].content] /\ x \in 1..created
      BY <1>1, <3>3 DEF RemoteOK
    <3>5. Grows /\ RemoteOK'
      BY <1>1, <3>2 DEF Grows, RemoteOK
    <3> QED
      BY <3>1, <3>2, <3>4, <3>5
  <2>2. CASE Posted(d) = {}
    <3>1. PICK r : r = [id |-> created + 1, content |-> written[n].content]
      OBVIOUS
    <3>2. /\ doc' = [doc EXCEPT ![d] = created + 1] /\ created' = created + 1
          /\ remote' = remote \cup {r}
      BY <1>2, <2>2, <3>1 DEF Post
    <3>3. r.id = created + 1 /\ r \in [id: 1..created', content: Body]
      BY <1>1, <1>3, <3>1, <3>2
    <3>4. /\ 1..created \subseteq 1..created' /\ created + 1 \notin 1..created
          /\ created' \in Nat /\ created <= created'
      BY <1>1, <3>2
    <3>5. RemoteOK'
      <4>1. remote' \subseteq [id: 1..created', content: Body]
        BY <1>1, <3>2, <3>3, <3>4 DEF RemoteOK
      <4>2. \A s \in remote : s.id # r.id
        BY <1>1, <3>3, <3>4 DEF RemoteOK
      <4> QED
        BY <1>1, <3>2, <3>4, <4>1, <4>2 DEF RemoteOK
    <3>6. Grows
      BY <1>1, <3>2, <3>3, <3>4 DEF Grows
    <3>7. created + 1 \in 1..created'
      BY <1>1, <3>2
    <3> QED
      BY <3>1, <3>2, <3>5, <3>6, <3>7
  <2> QED
    BY <2>1, <2>2
<1>5. \A r \in remote' : r.id = x => r.content = written[n].content
  BY <1>4 DEF RemoteOK
<1>6. BodyOf(x, Event(d))'
  BY <1>1, <1>3, <1>4, <1>5 DEF BodyOf
<1>7. WritesOK' /\ QueueOK' /\ MappedOK'
  BY <1>1, <1>4, QueueStays, MappedStays DEF EdgeInv, WritesOK, Writes
<1>8. PICK a \in Steps : Go(d, a)
  BY DEF Post, Steps
<1>9. x \in 0..created'
  BY <1>4
<1>10. DrainsOK'
  BY <1>1, <1>4, <1>6, <1>8, <1>9, DrainGoesOn
<1>11. doc'[d] = x
  BY <1>1, <1>4
<1> QED
  BY <1>1, <1>2, <1>4, <1>7, <1>10, <1>11 DEF EdgeInv

\* The unique constraint keeps two paths from one document.
LEMMA MapStep ==
  ASSUME EdgeInv, NEW d \in Process, Map(d) PROVE EdgeInv'
<1>1. /\ UNCHANGED <<docs, written, enqueues, jobs, remote, created, batch, job, doc, faults>>
      /\ at[d] = "map" /\ Go(d, "complete") /\ doc \in [Process -> 0..created] /\ DrainOK(d)
  BY DEF Map, EdgeInv, DrainsOK
<1>2. WritesOK' /\ RemoteOK' /\ Grows /\ QueueOK'
  BY <1>1, Quiet, QueueStays DEF EdgeInv
<1>3. PICK x, n, t : x = doc[d] /\ n = Event(d) /\ t = Target(d)
  OBVIOUS
<1>4. /\ BodyOf(x, n) /\ n \in DOMAIN written /\ n \in Nat /\ x \in 1..created
      /\ written[n].path = t /\ t \in Path
  <2>1. BodyOf(x, n) /\ written[n].path = t
    BY <1>1, <1>3 DEF DrainOK, Target
  <2> QED
    BY <2>1 DEF BodyOf, EdgeInv, WritesOK, WriteType
<1>5. /\ mapped' = [mapped EXCEPT ![t] = [doc |-> x, event |-> n]]
      /\ \A p \in Path \ {t} : mapped[p].doc # x
  BY <1>3 DEF Map, Mapping
<1>6. mapped \in [Path -> [doc: 0..created, event: Nat]]
  BY DEF EdgeInv, MappedOK
<1>7. mapped' \in [Path -> [doc: 0..created', event: Nat]]
  BY <1>1, <1>4, <1>5, <1>6
<1>8. /\ mapped'[t].doc = x /\ mapped'[t].event = n
      /\ \A p \in Path \ {t} : mapped'[p] = mapped[p]
  BY <1>4, <1>5, <1>6
<1>9. \A id, m : BodyOf(id, m) => BodyOf(id, m)'
  BY <1>1 DEF BodyOf
<1>10. BodyOf(x, n)'
  BY <1>4, <1>9
<1>11. ASSUME NEW p \in Path, mapped'[p] # NoMapping
       PROVE  /\ BodyOf(mapped[p].doc, mapped[p].event)'
              /\ written'[mapped'[p].event].path = p
              /\ \A q \in Path : mapped'[q].doc = mapped'[p].doc => q = p
  <2>1. PICK y, m : y = mapped'[p].doc /\ m = mapped'[p].event
    OBVIOUS
  <2>2. CASE p = t
    BY <1>1, <1>4, <1>5, <1>8, <1>10, <2>1, <2>2
  <2>3. CASE p # t
    <3>1. y = mapped[p].doc /\ m = mapped[p].event /\ mapped[p] # NoMapping /\ y # x
      BY <1>5, <1>8, <1>11, <2>1, <2>3
    <3>2. /\ BodyOf(y, m) /\ written[m].path = p
          /\ \A q \in Path : mapped[q].doc = y => q = p
      BY <3>1 DEF EdgeInv, MappedOK
    <3>3. BodyOf(y, m)'
      BY <1>9, <3>2
    <3> QED
      BY <1>1, <1>8, <2>1, <3>1, <3>2, <3>3
  <2> QED
    BY <2>2, <2>3
<1>12. MappedOK'
  BY <1>7, <1>11 DEF MappedOK
<1>13. x \in 0..created' /\ doc' = [doc EXCEPT ![d] = x] /\ at[d] \notin {"idle", "next"}
  BY <1>1, <1>3, <1>4
<1>14. DrainsOK'
  BY <1>1, <1>2, <1>13, DrainGoesOn DEF Steps
<1> QED
  BY <1>1, <1>2, <1>12, <1>14 DEF EdgeInv

\* A crash, or an aborted drain.
LEMMA StopStep ==
  ASSUME EdgeInv, NEW d \in Process, Stop(d) PROVE EdgeInv'
<1>1. /\ UNCHANGED <<docs, written, jobs, mapped, remote, created>>
      /\ enqueues' \subseteq enqueues /\ faults' = faults + 1 /\ faults < MaxFaults
      /\ at' = [at EXCEPT ![d] = "idle"] /\ batch' = [batch EXCEPT ![d] = {}]
      /\ job' = [job EXCEPT ![d] = NoJob] /\ doc' = [doc EXCEPT ![d] = NoDocument]
  BY DEF Stop, Go
<1>2. WritesOK' /\ RemoteOK' /\ Grows
  BY <1>1, Quiet
<1>3. QueueOK' /\ MappedOK'
  BY <1>1, <1>2, QueueStays, MappedStays DEF EdgeInv
<1>4. NoDocument \in 0..created'
  BY <1>2 DEF Grows, NoDocument
<1>5. DrainsOK'
  <2>1. DrainsOK /\ {} \in SUBSET JobType /\ NoJob \in JobType \cup {NoJob}
    BY DEF EdgeInv
  <2>2. "idle" \in Steps
    BY DEF Steps
  <2> QED
    BY <1>1, <1>2, <1>4, <2>1, <2>2, DrainsStay
<1>6. faults' \in 0..MaxFaults
  BY <1>1, BoundAssumption DEF EdgeInv
<1> QED
  BY <1>2, <1>3, <1>5, <1>6 DEF EdgeInv

-----------------------------------------------------------------------------
(* Any number of processes.                                                  *)

LEMMA EdgeInit ==
  ASSUME Init PROVE EdgeInv
<1>1. DOMAIN written = {} /\ Writes = 0
  <2>1. DOMAIN written = {}
    BY DEF Init
  <2> QED
    BY <2>1, FS_EmptySet DEF Writes
<1>2. 1..0 = {} /\ 0 \in 0..0
  OBVIOUS
<1>3. WritesOK
  BY <1>1, <1>2 DEF Init, WritesOK, Body
<1>4. QueueOK /\ RemoteOK
  BY <1>1 DEF Init, QueueOK, RemoteOK
<1>5. MappedOK
  BY <1>2 DEF Init, MappedOK, NoMapping, NoDocument
<1>6. DrainsOK
  BY <1>2 DEF Init, DrainsOK, DrainOK, Steps, NoDocument
<1>7. faults \in 0..MaxFaults
  BY BoundAssumption DEF Init
<1> QED
  BY <1>3, <1>4, <1>5, <1>6, <1>7 DEF EdgeInv

LEMMA EdgeSame ==
  ASSUME EdgeInv, UNCHANGED vars PROVE EdgeInv'
<1>1. /\ UNCHANGED <<docs, written, enqueues, jobs, mapped, remote, created, faults>>
      /\ UNCHANGED drain
  BY DEF vars
<1>2. WritesOK' /\ RemoteOK' /\ Grows
  BY <1>1, Quiet
<1> QED
  BY <1>1, <1>2, QueueStays, MappedStays, DrainsSame DEF EdgeInv

LEMMA EdgeStep ==
  ASSUME EdgeInv, [Next]_vars PROVE EdgeInv'
<1>1. ASSUME NEW r \in Request, Write(r) PROVE EdgeInv'
  BY <1>1, WriteStep
<1>2. ASSUME NEW n \in enqueues, Enqueue(n) PROVE EdgeInv'
  BY <1>2, EnqueueStep
<1>3. ASSUME NEW d \in Process, DrainStep(d) \/ Stop(d) PROVE EdgeInv'
  BY <1>3, BatchStep, JobStep, RemoveStep, UnmapStep, PostStep, MapStep, StopStep
     DEF DrainStep
<1>4. CASE UNCHANGED vars
  BY <1>4, EdgeSame
<1> QED
  BY <1>1, <1>2, <1>3, <1>4 DEF Next

LEMMA EdgeInvariant == Spec => []EdgeInv
<1>1. Init => EdgeInv
  BY EdgeInit
<1>2. EdgeInv /\ [Next]_vars => EdgeInv'
  BY EdgeStep
<1> QED
  BY <1>1, <1>2, PTL DEF Spec

\* Rows, mappings and drains stay well formed, and the column attempts stays within MaxRetries,
\* however many processes drain the queue and however often they crash.  It bounds how often a
\* job is run for one process only (AttemptsCounted).
THEOREM TypeCorrect == Spec => []TypeOK
<1>1. ASSUME EdgeInv PROVE TypeOK
  <2>1. MaxWrites \in Nat /\ Writes \in Nat /\ Writes <= MaxWrites
        /\ DOMAIN written \subseteq 1..MaxWrites
    BY <1>1, WritesBounded DEF EdgeInv, WritesOK
  <2>2. docs \in [Path -> [event: 0..MaxWrites, content: Content \cup {None}, live: BOOLEAN]]
    <3>1. 0..Writes \subseteq 0..MaxWrites
      BY <2>1
    <3> QED
      BY <1>1, <3>1 DEF EdgeInv, WritesOK, Body
  <2>3. \A n \in DOMAIN written : written[n].path \in Path /\ written[n].from \in Path
    BY <1>1 DEF EdgeInv, WritesOK, WriteType
  <2>4. enqueues \subseteq 1..MaxWrites /\ jobs \subseteq JobType
    BY <1>1, <2>1 DEF EdgeInv, QueueOK
  <2>5. mapped \in [Path -> [doc: 0..created, event: 0..MaxWrites]]
    <3>1. \A p \in Path : mapped[p].event \in 0..MaxWrites
      <4>1. ASSUME NEW p \in Path, mapped[p] # NoMapping
            PROVE  mapped[p].event \in DOMAIN written
        BY <1>1, <4>1 DEF EdgeInv, MappedOK, BodyOf
      <4>2. NoMapping.event \in 0..MaxWrites
        BY <2>1 DEF NoMapping
      <4>3. 1..MaxWrites \subseteq 0..MaxWrites
        BY <2>1
      <4> QED
        BY <2>1, <4>1, <4>2, <4>3
    <3> QED
      BY <1>1, <3>1 DEF EdgeInv, MappedOK
  <2>6. remote \subseteq [id: 1..created, content: Content \cup {None}]
    BY <1>1 DEF EdgeInv, RemoteOK, Body
  <2> QED
    BY <1>1, <2>2, <2>3, <2>4, <2>5, <2>6 DEF EdgeInv, DrainsOK, TypeOK
<1> QED
  BY <1>1, EdgeInvariant, PTL

\* A citation of hybrid search never quotes one write under the name of another: the document
\* a path is mapped to has, if it is still there, the body of the write the mapping names, and
\* no two paths share it.
THEOREM MappingsTrue == Spec => []MappingTrue
<1>1. ASSUME EdgeInv PROVE MappingTrue
  BY <1>1 DEF EdgeInv, MappedOK, BodyOf, MappingTrue
<1> QED
  BY <1>1, EdgeInvariant, PTL

-----------------------------------------------------------------------------
(* One process, edits and deletes.                                           *)

\* What the two theorems of this section suppose: one process drains, documents are not
\* moved, and no two paths are given one body.
OneDrain == \A d, e \in Process : d = e
NoMoves == \A r \in Request : r.op # "move"
BodiesApart ==
  \A r, s \in Request :
    r.op = "upsert" /\ s.op = "upsert" /\ r.content = s.content => r.path = s.path

\* Each event is of a request, and a document is as its last event left it.
Requested ==
  \A n \in DOMAIN written : \E r \in Request :
    /\ r.op = written[n].op /\ r.path = written[n].path
    /\ r.op = "upsert" => r.content = written[n].content
DocsLast ==
  /\ \A n \in DOMAIN written : docs[written[n].path].event >= n
  /\ \A p \in Path : docs[p].event # 0 =>
       /\ docs[p].event \in DOMAIN written
       /\ written[docs[p].event].path = p
       /\ docs[p].content = written[docs[p].event].content
       /\ docs[p].live <=> written[docs[p].event].op = "upsert"
  /\ \A p \in Path : docs[p].event = 0 => ~docs[p].live

\* The job of a path's last event is never skipped.
LastNotSkipped ==
  \A p \in Path : \A j \in jobs : j.event = docs[p].event => j.status # "skipped"

Done(n) == \E j \in jobs : j.event = n /\ j.status = "completed"
There(id, n) == [id |-> id, content |-> written[n].content] \in remote

\* What a completed job of a path's last event has left behind.
Deleted ==
  \A p \in Path : ~docs[p].live /\ docs[p].event # 0 /\ Done(docs[p].event) =>
    mapped[p] = NoMapping
Live ==
  \A p \in Path : docs[p].live /\ Done(docs[p].event) =>
    mapped[p].event = docs[p].event /\ There(mapped[p].doc, docs[p].event)

\* While a drain works on an event that another one has overtaken since it was checked, the
\* job of the other is still to be done: nobody else drains.
Past(d) == at[d] \in {"lookup", "remove", "unmap", "post", "unshare", "map", "complete"}
OlderFirst(d) ==
  Past(d) /\ docs[Target(d)].event # Event(d) => ~Done(docs[Target(d)].event)

\* How far the drain has come with its job.
Served(d) ==
  /\ at[d] \in {"lookup", "remove", "unmap"} => Op(d) # "upsert"
  /\ at[d] \in {"post", "unshare", "map"} => Op(d) = "upsert"
  /\ at[d] = "remove" => doc[d] = mapped[Target(d)].doc
  /\ at[d] \in {"unshare", "map"} => There(doc[d], Event(d))
  /\ at[d] = "complete" => IF Op(d) = "upsert"
                           THEN /\ mapped[Target(d)].event = Event(d)
                                /\ There(mapped[Target(d)].doc, Event(d))
                           ELSE mapped[Target(d)] = NoMapping

OneInv ==
  /\ Requested /\ DocsLast /\ LastNotSkipped /\ Deleted
  /\ BodiesApart => Live
  /\ \A d \in Process : OlderFirst(d) /\ Served(d)

\* A drain past its check works on an event of a request, which moves nothing.
LEMMA Working ==
  ASSUME NoMoves, EdgeInv, OneInv, NEW d \in Process, at[d] \notin {"idle", "next"}
  PROVE  /\ Event(d) \in DOMAIN written /\ Target(d) \in Path
         /\ Op(d) # "move" /\ Removed(d) = Target(d)
         /\ \E r \in Request : /\ r.op = Op(d) /\ r.path = Target(d)
                               /\ r.op = "upsert" => r.content = written[Event(d)].content
<1>1. Event(d) \in DOMAIN written
  BY DEF EdgeInv, DrainsOK, DrainOK, Open, Event
<1>2. Target(d) \in Path
  BY <1>1 DEF EdgeInv, WritesOK, WriteType, Target
<1>3. PICK r \in Request : /\ r.op = Op(d) /\ r.path = Target(d)
                           /\ r.op = "upsert" => r.content = written[Event(d)].content
  BY <1>1 DEF OneInv, Requested, Op, Target
<1> QED
  BY <1>1, <1>2, <1>3 DEF NoMoves, Removed

LEMMA OneWrite ==
  ASSUME NoMoves, EdgeInv, OneInv, NEW r \in Request, Write(r) PROVE OneInv'
<1>1. r.op # "move" /\ r \in RequestType /\ r.path \in Path /\ r.op \in {"upsert", "delete"}
  BY RequestAssumption DEF NoMoves, RequestType
<1>2. PICK n : n = Writes + 1
  OBVIOUS
<1>3. /\ DOMAIN written' = DOMAIN written \cup {n}
      /\ \A m \in DOMAIN written : written'[m] = written[m]
      /\ written'[n].op = r.op /\ written'[n].path = r.path
      /\ docs' = [docs EXCEPT ![r.path] = [event |-> n, content |-> written'[n].content,
                                           live |-> r.op # "delete"]]
      /\ r.op = "upsert" => written'[n].content = r.content
  BY <1>1, <1>2, Recorded
<1>4. UNCHANGED <<jobs, mapped, remote, at, batch, job, doc>>
  BY DEF Write, drain
<1>5. /\ n \in Nat /\ n # 0 /\ n \notin DOMAIN written /\ ~Done(n)
      /\ \A m \in DOMAIN written : m \in Nat /\ m <= n
      /\ \A m : Done(m)' <=> Done(m)
  BY <1>2, <1>4 DEF EdgeInv, WritesOK, QueueOK, Done
<1>6. docs \in [Path -> [event: 0..Writes, content: Body, live: BOOLEAN]]
  BY DEF EdgeInv, WritesOK
<1>7. /\ docs'[r.path].event = n /\ docs'[r.path].content = written'[n].content
      /\ docs'[r.path].live <=> r.op = "upsert"
      /\ \A p \in Path : p # r.path => docs'[p] = docs[p]
  BY <1>1, <1>3, <1>6
<1>8. Requested'
  BY <1>3 DEF OneInv, Requested
<1>9. DocsLast'
  <2>1. ASSUME NEW m \in DOMAIN written' PROVE docs'[written'[m].path].event >= m
    <3>1. CASE m = n
      BY <1>3, <1>5, <1>7, <3>1
    <3>2. CASE m # n
      <4>1. m \in DOMAIN written /\ written'[m] = written[m] /\ written[m].path \in Path
        BY <1>3, <3>2 DEF EdgeInv, WritesOK, WriteType
      <4>2. docs[written[m].path].event >= m
        BY <4>1 DEF OneInv, DocsLast
      <4> QED
        BY <1>5, <1>7, <4>1, <4>2
    <3> QED
      BY <3>1, <3>2
  <2>2. ASSUME NEW p \in Path
        PROVE  /\ docs'[p].event # 0 =>
                    /\ docs'[p].event \in DOMAIN written'
                    /\ written'[docs'[p].event].path = p
                    /\ docs'[p].content = written'[docs'[p].event].content
                    /\ docs'[p].live <=> written'[docs'[p].event].op = "upsert"
               /\ docs'[p].event = 0 => ~docs'[p].live
    <3>1. CASE p = r.path
      BY <1>3, <1>5, <1>7, <3>1
    <3>2. CASE p # r.path
      BY <1>3, <1>7, <3>2 DEF OneInv, DocsLast
    <3> QED
      BY <3>1, <3>2
  <2> QED
    BY <2>1, <2>2 DEF DocsLast
<1>10. LastNotSkipped'
  <2>1. \A j \in jobs : j.event # n
    BY <1>5 DEF EdgeInv, QueueOK
  <2> QED
    BY <1>4, <1>7, <2>1 DEF OneInv, LastNotSkipped
<1>11. Deleted'
  BY <1>4, <1>5, <1>7 DEF OneInv, Deleted
<1>12. ASSUME BodiesApart PROVE Live'
  <2>1. ASSUME NEW p \in Path, docs'[p].live, Done(docs'[p].event)
        PROVE  mapped[p].event = docs'[p].event /\ There(mapped[p].doc, docs[p].event)'
    <3>1. p # r.path /\ docs'[p] = docs[p]
      BY <1>5, <1>7, <2>1
    <3>2. mapped[p].event = docs[p].event /\ There(mapped[p].doc, docs[p].event)
      BY <1>12, <2>1, <3>1 DEF OneInv, Live
    <3>3. docs[p].event \in DOMAIN written
      BY <2>1, <3>1 DEF OneInv, DocsLast
    <3> QED
      BY <1>3, <1>4, <3>1, <3>2, <3>3 DEF There
  <2> QED
    BY <1>4, <1>5, <2>1 DEF Live
<1>13. ASSUME NEW d \in Process PROVE OlderFirst(d)' /\ Served(d)'
  <2>1. CASE at[d] \in {"idle", "next"}
    BY <1>4, <2>1 DEF OlderFirst, Served, Past
  <2>2. CASE at[d] \notin {"idle", "next"}
    <3>1. Event(d) \in DOMAIN written /\ Target(d) \in Path
      BY <2>2, Working
    <3>2. Event(d)' = Event(d) /\ Target(d)' = Target(d) /\ Op(d)' = Op(d)
      BY <1>3, <1>4, <3>1 DEF Event, Target, Op
    <3>3. \A id : There(id, Event(d))' <=> There(id, Event(d))
      BY <1>3, <1>4, <3>1, <3>2 DEF There
    <3>4. Served(d)'
      BY <1>4, <3>2, <3>3 DEF OneInv, Served
    <3>5. OlderFirst(d)'
      <4>1. CASE Target(d) = r.path
        BY <1>4, <1>5, <1>7, <3>2, <4>1 DEF OlderFirst
      <4>2. CASE Target(d) # r.path
        BY <1>4, <1>5, <1>7, <3>1, <3>2, <4>2 DEF OneInv, OlderFirst, Past
      <4> QED
        BY <4>1, <4>2
    <3> QED
      BY <3>4, <3>5
  <2> QED
    BY <2>1, <2>2
<1> QED
  BY <1>8, <1>9, <1>10, <1>11, <1>12, <1>13 DEF OneInv

LEMMA OneEnqueue ==
  ASSUME EdgeInv, OneInv, NEW n \in enqueues, Enqueue(n) PROVE OneInv'
<1>1. /\ jobs' = jobs \cup {[event |-> n, seq |-> Cardinality(jobs) + 1, status |-> "pending",
                             attempts |-> 0]}
      /\ UNCHANGED <<docs, written, mapped, remote, at, batch, job, doc>>
  BY DEF Enqueue, drain
<1>2. PICK k : k = [event |-> n, seq |-> Cardinality(jobs) + 1, status |-> "pending",
                    attempts |-> 0]
  OBVIOUS
<1>3. jobs' = jobs \cup {k} /\ k.event = n /\ k.status = "pending"
  BY <1>1, <1>2
<1>4. \A m : Done(m)' <=> Done(m)
  BY <1>3 DEF Done
<1>5. Requested' /\ DocsLast' /\ LastNotSkipped'
  BY <1>1, <1>3 DEF OneInv, Requested, DocsLast, LastNotSkipped
<1>6. Deleted' /\ (BodiesApart => Live')
  BY <1>1, <1>4 DEF OneInv, Deleted, Live, There
<1>7. ASSUME NEW d \in Process PROVE OlderFirst(d)' /\ Served(d)'
  BY <1>1, <1>4 DEF OneInv, OlderFirst, Past, Served, There, Event, Op, Target
<1> QED
  BY <1>5, <1>6, <1>7 DEF OneInv

\* With one process, what is true of the drain that takes a step is true of every one.
LEMMA OneStep ==
  ASSUME OneDrain, OneInv, NEW d \in Process, UNCHANGED <<docs, written>>,
         LastNotSkipped', Deleted', BodiesApart => Live', OlderFirst(d)', Served(d)'
  PROVE  OneInv'
<1>1. Requested' /\ DocsLast'
  BY DEF OneInv, Requested, DocsLast
<1>2. \A e \in Process : OlderFirst(e)' /\ Served(e)'
  <2>1. ASSUME NEW e \in Process PROVE e = d
    BY DEF OneDrain
  <2> QED
    BY <2>1
<1> QED
  BY <1>1, <1>2 DEF OneInv

\* What becomes of the queue: only Complete makes a job done.
LEMMA QueueMoves ==
  ASSUME EdgeInv, OneInv, NEW d \in Process,
         NEW s \in {"retrying", "completed", "skipped", "failed"}, NEW n,
         Update(d, s, n), UNCHANGED docs, s = "skipped" => Stale(d) /\ Event(d) \in DOMAIN written
  PROVE  /\ LastNotSkipped'
         /\ \A m : Done(m)' => Done(m) \/ (s = "completed" /\ m = Event(d))
<1>1. PICK e : e = Event(d)
  OBVIOUS
<1>2. jobs' = {IF j.event = e THEN [j EXCEPT !.status = s, !.attempts = n] ELSE j : j \in jobs}
  BY <1>1 DEF Update
<1>3. ASSUME NEW k \in jobs'
      PROVE  \/ k \in jobs
             \/ k.event = e /\ k.status = s
  <2>1. PICK j \in jobs : k = IF j.event = e
                              THEN [j EXCEPT !.status = s, !.attempts = n] ELSE j
    BY <1>2, <1>3
  <2>2. CASE j.event = e
    BY <2>1, <2>2 DEF EdgeInv, QueueOK, JobType
  <2>3. CASE j.event # e
    BY <2>1, <2>3
  <2> QED
    BY <2>2, <2>3
<1>4. s = "skipped" => \A p \in Path : docs[p].event # e
  <2>1. ASSUME s = "skipped", NEW p \in Path, docs[p].event = e PROVE FALSE
    <3>1. e \in DOMAIN written /\ e # 0
      BY <1>1, <2>1 DEF EdgeInv, WritesOK
    <3>2. written[e].path = p
      BY <2>1, <3>1 DEF OneInv, DocsLast
    <3> QED
      BY <1>1, <2>1, <3>2 DEF Stale, Target
  <2> QED
    BY <2>1
<1>5. LastNotSkipped'
  BY <1>3, <1>4 DEF OneInv, LastNotSkipped
<1>6. \A m : Done(m)' => Done(m) \/ (s = "completed" /\ m = e)
  BY <1>3 DEF Done
<1> QED
  BY <1>1, <1>5, <1>6

\* Steps that leave the mappings and the remote documents alone and complete nothing.
LEMMA OneAside ==
  ASSUME OneDrain, OneInv, NEW d \in Process, UNCHANGED <<docs, written, mapped, remote>>,
         LastNotSkipped', \A m : Done(m)' => Done(m), OlderFirst(d)', Served(d)'
  PROVE  OneInv'
<1>1. Deleted' /\ (BodiesApart => Live')
  BY DEF OneInv, Deleted, Live, There
<1> QED
  BY <1>1, OneStep

LEMMA OneBatch ==
  ASSUME OneDrain, EdgeInv, OneInv, NEW d \in Process,
         Due(d) \/ Take(d) \/ DrainDone(d) \/ Stop(d)
  PROVE  OneInv'
<1>1. UNCHANGED <<docs, written, mapped, remote, jobs>>
  BY DEF Due, Take, DrainDone, Stop
<1>2. at'[d] \in {"idle", "next", "check"}
  BY DEF Due, Take, DrainDone, Stop, Go, EdgeInv, DrainsOK
<1>3. OlderFirst(d)' /\ Served(d)'
  BY <1>2 DEF OlderFirst, Served, Past
<1>4. LastNotSkipped' /\ \A m : Done(m)' => Done(m)
  BY <1>1 DEF OneInv, LastNotSkipped, Done
<1> QED
  BY <1>1, <1>3, <1>4, OneAside

LEMMA OneJob ==
  ASSUME OneDrain, NoMoves, EdgeInv, OneInv, NEW d \in Process,
         Check(d) \/ Skip(d) \/ Lookup(d) \/ Error(d) \/ Retry(d)
  PROVE  OneInv'
<1>1. /\ UNCHANGED <<docs, written, mapped, remote, job>> /\ at[d] \notin {"idle", "next"}
      /\ at \in [Process -> Steps] /\ doc \in [Process -> 0..created]
  BY DEF Check, Skip, Lookup, Error, Retry, EdgeInv, DrainsOK
<1>2. /\ Event(d) \in DOMAIN written /\ Op(d) # "move" /\ Removed(d) = Target(d)
  BY <1>1, Working
<1>3. Event(d)' = Event(d) /\ Target(d)' = Target(d) /\ Op(d)' = Op(d)
  BY <1>1 DEF Event, Target, Op
<1>4. LastNotSkipped' /\ \A m : Done(m)' => Done(m)
  <2>1. CASE jobs' = jobs
    BY <1>1, <2>1 DEF OneInv, LastNotSkipped, Done
  <2>2. CASE Skip(d)
    <3>1. Update(d, "skipped", job[d].attempts + 1) /\ Stale(d)
      BY <2>2 DEF Skip
    <3> QED
      BY <1>1, <1>2, <3>1, QueueMoves
  <2>3. CASE Retry(d)
    <3>1. PICK s \in {"failed", "retrying"} : Update(d, s, Attempts(d))
      BY <2>3 DEF Retry
    <3> QED
      BY <1>1, <3>1, QueueMoves
  <2> QED
    BY <2>1, <2>2, <2>3 DEF Check, Lookup, Error
<1>5. OlderFirst(d)' /\ Served(d)'
  <2>1. CASE Check(d)
    <3>1. /\ at'[d] = IF Op(d) = "upsert" THEN "post" ELSE "lookup"
          /\ docs[Target(d)].event = Event(d)
      BY <1>1, <2>1 DEF Check, Go, Stale
    <3> QED
      BY <1>1, <1>3, <3>1 DEF OlderFirst, Served
  <2>2. CASE Lookup(d)
    <3>1. at[d] = "lookup" /\ at'[d] = "remove" /\ doc'[d] = mapped[Target(d)].doc
      BY <1>1, <1>2, <2>2 DEF Lookup, Go
    <3> QED
      BY <1>1, <1>3, <1>4, <3>1 DEF OneInv, OlderFirst, Served, Past
  <2>3. CASE Skip(d) \/ Error(d) \/ Retry(d)
    <3>1. at'[d] \in {"next", "failing"}
      BY <1>1, <2>3 DEF Skip, Error, Retry, Go
    <3> QED
      BY <3>1 DEF OlderFirst, Served, Past
  <2> QED
    BY <2>1, <2>2, <2>3
<1> QED
  BY <1>1, <1>4, <1>5, OneAside

\* A path whose last event is done and that a drain works on had no write since the drain's
\* event, which is what the document shows.
LEMMA Current ==
  ASSUME NoMoves, EdgeInv, OneInv, NEW d \in Process, Past(d),
         docs[Target(d)].event # 0, Done(docs[Target(d)].event)
  PROVE  docs[Target(d)].event = Event(d) /\ (docs[Target(d)].live <=> Op(d) = "upsert")
<1>1. docs[Target(d)].event = Event(d) /\ Target(d) \in Path
  BY Working DEF OneInv, OlderFirst, Past
<1> QED
  BY <1>1 DEF OneInv, DocsLast, Op

LEMMA OneRemove ==
  ASSUME OneDrain, NoMoves, EdgeInv, OneInv, NEW d \in Process, Remove(d) PROVE OneInv'
<1>1. /\ UNCHANGED <<docs, written, jobs, mapped, job, doc>> /\ at[d] = "remove" /\ Past(d)
      /\ remote' = {r \in remote : r.id # doc[d]} /\ at'[d] \in {"unmap", "failing"}
  BY DEF Remove, Go, EdgeInv, DrainsOK, Past
<1>2. /\ Target(d) \in Path /\ Op(d) # "upsert" /\ doc[d] = mapped[Target(d)].doc
  BY <1>1, Working DEF OneInv, Served
<1>3. Event(d)' = Event(d) /\ Target(d)' = Target(d) /\ Op(d)' = Op(d)
  BY <1>1 DEF Event, Target, Op
<1>4. \A n : Done(n)' <=> Done(n)
  BY <1>1 DEF Done
<1>5. LastNotSkipped' /\ Deleted'
  BY <1>1, <1>4 DEF OneInv, LastNotSkipped, Deleted
<1>6. ASSUME BodiesApart PROVE Live'
  <2>1. ASSUME NEW p \in Path, docs[p].live, Done(docs[p].event)
        PROVE  mapped[p].event = docs[p].event /\ There(mapped[p].doc, docs[p].event)'
    <3>1. /\ mapped[p].event = docs[p].event /\ There(mapped[p].doc, docs[p].event)
          /\ docs[p].event # 0
      BY <1>6, <2>1 DEF OneInv, Live, DocsLast
    <3>2. p # Target(d)
      BY <1>1, <1>2, <2>1, <3>1, Current
    <3>3. mapped[p] # NoMapping
      BY <3>1 DEF NoMapping
    <3>4. mapped[p].doc # doc[d]
      BY <1>2, <3>2, <3>3 DEF EdgeInv, MappedOK
    <3> QED
      BY <1>1, <3>1, <3>4 DEF There
  <2> QED
    BY <1>1, <1>4, <2>1 DEF Live
<1>7. OlderFirst(d)' /\ Served(d)'
  BY <1>1, <1>2, <1>3, <1>4 DEF OneInv, OlderFirst, Served, Past
<1> QED
  BY <1>1, <1>5, <1>6, <1>7, OneStep

LEMMA OneUnmap ==
  ASSUME OneDrain, NoMoves, EdgeInv, OneInv, NEW d \in Process, Unmap(d) PROVE OneInv'
<1>1. /\ UNCHANGED <<docs, written, jobs, remote, job, doc>> /\ at[d] = "unmap" /\ Past(d)
      /\ mapped \in [Path -> [doc: 0..created, event: Nat]]
  BY DEF Unmap, EdgeInv, MappedOK, Past
<1>2. Target(d) \in Path /\ Op(d) # "upsert" /\ Op(d) # "move" /\ Removed(d) = Target(d)
  BY <1>1, Working DEF OneInv, Served
<1>3. mapped' = [mapped EXCEPT ![Target(d)] = NoMapping] /\ at'[d] = "complete"
  BY <1>2 DEF Unmap, Go, EdgeInv, DrainsOK
<1>4. mapped'[Target(d)] = NoMapping /\ \A p \in Path : p # Target(d) => mapped'[p] = mapped[p]
  BY <1>1, <1>2, <1>3
<1>5. Event(d)' = Event(d) /\ Target(d)' = Target(d) /\ Op(d)' = Op(d)
  BY <1>1 DEF Event, Target, Op
<1>6. \A n : Done(n)' <=> Done(n)
  BY <1>1 DEF Done
<1>7. LastNotSkipped' /\ Deleted'
  <2>1. ASSUME NEW p \in Path, ~docs[p].live, docs[p].event # 0, Done(docs[p].event)
        PROVE  mapped'[p] = NoMapping
    BY <1>4, <2>1 DEF OneInv, Deleted
  <2>2. Deleted'
    BY <1>1, <1>6, <2>1 DEF Deleted
  <2> QED
    BY <1>1, <2>2 DEF OneInv, LastNotSkipped
<1>8. ASSUME BodiesApart PROVE Live'
  <2>1. ASSUME NEW p \in Path, docs[p].live, Done(docs[p].event)
        PROVE  mapped'[p] = mapped[p]
    <3>1. docs[p].event # 0
      BY <2>1 DEF OneInv, DocsLast
    <3>2. p # Target(d)
      BY <1>1, <1>2, <2>1, <3>1, Current
    <3> QED
      BY <1>4, <3>2
  <2> QED
    BY <1>1, <1>6, <1>8, <2>1 DEF OneInv, Live, There
<1>9. OlderFirst(d)' /\ Served(d)'
  BY <1>1, <1>2, <1>3, <1>4, <1>5, <1>6 DEF OneInv, OlderFirst, Served, Past
<1> QED
  BY <1>1, <1>7, <1>8, <1>9, OneStep

LEMMA OnePost ==
  ASSUME OneDrain, NoMoves, EdgeInv, OneInv, NEW d \in Process, Post(d) PROVE OneInv'
<1>1. /\ UNCHANGED <<docs, written, jobs, mapped, job>> /\ at[d] = "post" /\ Past(d)
      /\ at'[d] \in {"unshare", "failing"}
  BY DEF Post, Go, EdgeInv, DrainsOK, Past
<1>2. Event(d)' = Event(d) /\ Target(d)' = Target(d) /\ Op(d)' = Op(d)
  BY <1>1 DEF Event, Target, Op
<1>3. /\ remote \subseteq remote'
      /\ [id |-> doc'[d], content |-> written[Event(d)].content] \in remote'
  BY PostStep
<1>4. \A n : Done(n)' <=> Done(n)
  BY <1>1 DEF Done
<1>5. LastNotSkipped' /\ Deleted' /\ (BodiesApart => Live')
  BY <1>1, <1>3, <1>4 DEF OneInv, LastNotSkipped, Deleted, Live, There
<1>6. OlderFirst(d)'
  BY <1>1, <1>2, <1>4 DEF OneInv, OlderFirst, Past
<1>7. There(doc[d], Event(d))'
  BY <1>1, <1>2, <1>3 DEF There
<1>8. Served(d)'
  BY <1>1, <1>2, <1>7 DEF OneInv, Served
<1> QED
  BY <1>1, <1>5, <1>6, <1>8, OneStep

\* The mappings other paths lose are of one body with this path's: there are none when bodies
\* are apart, and a deleted document loses nothing it should have.
LEMMA OneUnshare ==
  ASSUME OneDrain, NoMoves, EdgeInv, OneInv, NEW d \in Process, Unshare(d) PROVE OneInv'
<1>1. /\ UNCHANGED <<docs, written, jobs, remote, job, doc>> /\ at[d] = "unshare" /\ Past(d)
      /\ mapped \in [Path -> [doc: 0..created, event: Nat]] /\ at'[d] = "map"
      /\ \A p \in Path : mapped'[p] = IF p # Target(d) /\ mapped[p].doc = doc[d]
                                      THEN NoMapping ELSE mapped[p]
  BY DEF Unshare, EdgeInv, MappedOK, DrainsOK, Past, Go
<1>2. Event(d)' = Event(d) /\ Target(d)' = Target(d) /\ Op(d)' = Op(d)
  BY <1>1 DEF Event, Target, Op
<1>3. Op(d) = "upsert" /\ There(doc[d], Event(d))
  BY <1>1 DEF OneInv, Served
<1>4. \A n : Done(n)' <=> Done(n)
  BY <1>1 DEF Done
<1>5. LastNotSkipped' /\ Deleted'
  <2>1. ASSUME NEW p \in Path, ~docs[p].live, docs[p].event # 0, Done(docs[p].event)
        PROVE  mapped'[p] = NoMapping
    BY <1>1, <2>1 DEF OneInv, Deleted
  <2>2. Deleted'
    BY <1>1, <1>4, <2>1 DEF Deleted
  <2> QED
    BY <1>1, <2>2 DEF OneInv, LastNotSkipped
<1>6. ASSUME BodiesApart PROVE Live'
  <2>1. ASSUME NEW p \in Path, docs[p].live, Done(docs[p].event)
        PROVE  mapped'[p] = mapped[p]
    <3>1. SUFFICES ASSUME p # Target(d), mapped[p].doc = doc[d] PROVE FALSE
      BY <1>1
    <3>2. PICK n : n = docs[p].event
      OBVIOUS
    <3>3. /\ There(doc[d], n) /\ n \in DOMAIN written
          /\ written[n].path = p /\ written[n].op = "upsert"
      BY <1>6, <2>1, <3>1, <3>2 DEF OneInv, Live, DocsLast
    <3>4. written[n].content = written[Event(d)].content
      <4>1. PICK r, s \in remote : /\ r.id = doc[d] /\ r.content = written[n].content
                                   /\ s.id = doc[d] /\ s.content = written[Event(d)].content
        BY <1>3, <3>3 DEF There
      <4> QED
        BY <4>1 DEF EdgeInv, RemoteOK
    <3>5. PICK r \in Request : /\ r.op = "upsert" /\ r.path = p
                               /\ r.content = written[n].content
      BY <3>3 DEF OneInv, Requested
    <3>6. PICK s \in Request : /\ s.op = "upsert" /\ s.path = Target(d)
                               /\ s.content = written[Event(d)].content
      BY <1>1, <1>3, Working
    <3>7. r.path = s.path
      BY <1>6, <3>4, <3>5, <3>6 DEF BodiesApart
    <3> QED
      BY <3>1, <3>5, <3>6, <3>7
  <2> QED
    BY <1>1, <1>4, <1>6, <2>1 DEF OneInv, Live, There
<1>7. OlderFirst(d)'
  BY <1>1, <1>2, <1>4 DEF OneInv, OlderFirst, Past
<1>8. There(doc[d], Event(d))'
  BY <1>1, <1>2, <1>3 DEF There
<1>9. Served(d)'
  BY <1>1, <1>2, <1>3, <1>8 DEF Served
<1> QED
  BY <1>1, <1>5, <1>6, <1>7, <1>9, OneStep

LEMMA OneMap ==
  ASSUME OneDrain, NoMoves, EdgeInv, OneInv, NEW d \in Process, Map(d) PROVE OneInv'
<1>1. /\ UNCHANGED <<docs, written, jobs, remote, job, doc>> /\ at[d] = "map" /\ Past(d)
      /\ mapped \in [Path -> [doc: 0..created, event: Nat]] /\ at'[d] = "complete"
      /\ mapped' = [mapped EXCEPT ![Target(d)] = [doc |-> doc[d], event |-> Event(d)]]
  BY DEF Map, EdgeInv, MappedOK, DrainsOK, Past, Go, Mapping
<1>2. Target(d) \in Path /\ Op(d) = "upsert" /\ There(doc[d], Event(d))
  BY <1>1, Working DEF OneInv, Served
<1>3. /\ mapped'[Target(d)].doc = doc[d] /\ mapped'[Target(d)].event = Event(d)
      /\ \A p \in Path : p # Target(d) => mapped'[p] = mapped[p]
  BY <1>1, <1>2
<1>4. Event(d)' = Event(d) /\ Target(d)' = Target(d) /\ Op(d)' = Op(d)
  BY <1>1 DEF Event, Target, Op
<1>5. \A n : Done(n)' <=> Done(n)
  BY <1>1 DEF Done
<1>6. LastNotSkipped' /\ Deleted'
  <2>1. ASSUME NEW p \in Path, ~docs[p].live, docs[p].event # 0, Done(docs[p].event)
        PROVE  mapped'[p] = NoMapping
    <3>1. p # Target(d)
      BY <1>1, <1>2, <2>1, Current
    <3> QED
      BY <1>3, <2>1, <3>1 DEF OneInv, Deleted
  <2>2. Deleted'
    BY <1>1, <1>5, <2>1 DEF Deleted
  <2> QED
    BY <1>1, <2>2 DEF OneInv, LastNotSkipped
<1>7. ASSUME BodiesApart PROVE Live'
  <2>1. ASSUME NEW p \in Path, docs[p].live, Done(docs[p].event)
        PROVE  mapped'[p].event = docs[p].event /\ There(mapped[p].doc, docs[p].event)'
    <3>1. CASE p = Target(d)
      <4>1. docs[p].event = Event(d)
        <5>1. docs[p].event # 0
          BY <2>1 DEF OneInv, DocsLast
        <5> QED
          BY <1>1, <2>1, <3>1, <5>1, Current
      <4> QED
        BY <1>1, <1>2, <1>3, <3>1, <4>1 DEF There
    <3>2. CASE p # Target(d)
      BY <1>1, <1>3, <1>7, <2>1, <3>2 DEF OneInv, Live, There
    <3> QED
      BY <3>1, <3>2
  <2> QED
    BY <1>1, <1>5, <2>1 DEF Live
<1>8. OlderFirst(d)'
  BY <1>1, <1>4, <1>5 DEF OneInv, OlderFirst, Past
<1>9. There(mapped[Target(d)].doc, Event(d))'
  BY <1>1, <1>2, <1>3, <1>4 DEF There
<1>10. Served(d)'
  BY <1>1, <1>2, <1>3, <1>4, <1>9 DEF Served
<1> QED
  BY <1>1, <1>6, <1>7, <1>8, <1>10, OneStep

LEMMA OneComplete ==
  ASSUME OneDrain, NoMoves, EdgeInv, OneInv, NEW d \in Process, Complete(d) PROVE OneInv'
<1>1. /\ UNCHANGED <<docs, written, mapped, remote, job>> /\ at[d] = "complete" /\ Past(d)
      /\ at'[d] = "next"
  BY DEF Complete, Go, EdgeInv, DrainsOK, Past
<1>2. PICK e : e = Event(d)
  OBVIOUS
<1>3. LastNotSkipped' /\ \A n : Done(n)' => Done(n) \/ n = e
  <2>1. Update(d, "completed", job[d].attempts + 1)
    BY DEF Complete
  <2> QED
    BY <1>1, <1>2, <2>1, QueueMoves
<1>4. /\ Target(d) \in Path /\ e \in DOMAIN written /\ e # 0
      /\ Op(d) = written[e].op /\ Target(d) = written[e].path
  BY <1>1, <1>2, Working DEF EdgeInv, WritesOK, Op, Target
<1>5. \A p \in Path : docs[p].event = e =>
        p = Target(d) /\ (docs[p].live <=> Op(d) = "upsert")
  BY <1>4 DEF OneInv, DocsLast
<1>6. IF Op(d) = "upsert"
      THEN mapped[Target(d)].event = e /\ There(mapped[Target(d)].doc, e)
      ELSE mapped[Target(d)] = NoMapping
  BY <1>1, <1>2 DEF OneInv, Served
<1>7. Deleted'
  <2>1. ASSUME NEW p \in Path, ~docs[p].live, docs[p].event # 0, Done(docs[p].event)'
        PROVE  mapped[p] = NoMapping
    <3>1. CASE docs[p].event = e
      BY <1>5, <1>6, <2>1, <3>1
    <3>2. CASE docs[p].event # e
      <4>1. PICK n : n = docs[p].event
        OBVIOUS
      <4>2. Done(n)
        BY <1>1, <1>3, <2>1, <3>2, <4>1
      <4> QED
        BY <2>1, <4>1, <4>2 DEF OneInv, Deleted
    <3> QED
      BY <3>1, <3>2
  <2> QED
    BY <1>1, <2>1 DEF Deleted
<1>8. ASSUME BodiesApart PROVE Live'
  <2>1. ASSUME NEW p \in Path, docs[p].live, Done(docs[p].event)'
        PROVE  mapped[p].event = docs[p].event /\ There(mapped[p].doc, docs[p].event)
    <3>1. CASE docs[p].event = e
      BY <1>5, <1>6, <2>1, <3>1
    <3>2. CASE docs[p].event # e
      <4>1. PICK n : n = docs[p].event
        OBVIOUS
      <4>2. Done(n)
        BY <1>1, <1>3, <2>1, <3>2, <4>1
      <4> QED
        BY <1>8, <2>1, <4>1, <4>2 DEF OneInv, Live
    <3> QED
      BY <3>1, <3>2
  <2> QED
    BY <1>1, <2>1 DEF Live, There
<1>9. OlderFirst(d)' /\ Served(d)'
  BY <1>1 DEF OlderFirst, Served, Past
<1> QED
  BY <1>1, <1>3, <1>7, <1>8, <1>9, OneStep

LEMMA OneInit ==
  ASSUME Init PROVE OneInv
<1>1. DOMAIN written = {}
  BY DEF Init
<1>2. Requested /\ DocsLast /\ LastNotSkipped
  BY <1>1 DEF Init, Requested, DocsLast, LastNotSkipped
<1>3. Deleted /\ Live
  BY DEF Init, Deleted, Live, Done
<1>4. ASSUME NEW d \in Process PROVE OlderFirst(d) /\ Served(d)
  BY DEF Init, OlderFirst, Past, Served
<1> QED
  BY <1>2, <1>3, <1>4 DEF OneInv

LEMMA OneSame ==
  ASSUME OneInv, UNCHANGED vars PROVE OneInv'
<1>1. UNCHANGED <<docs, written, jobs, mapped, remote, at, job, doc>>
  BY DEF vars, drain
<1>2. Requested' /\ DocsLast' /\ LastNotSkipped' /\ Deleted' /\ (BodiesApart => Live')
  BY <1>1 DEF OneInv, Requested, DocsLast, LastNotSkipped, Deleted, Live, Done, There
<1>3. ASSUME NEW d \in Process PROVE OlderFirst(d)' /\ Served(d)'
  BY <1>1 DEF OneInv, OlderFirst, Past, Served, Done, There, Event, Op, Target
<1> QED
  BY <1>2, <1>3 DEF OneInv

LEMMA OneInvariant ==
  ASSUME OneDrain, NoMoves PROVE Spec => []OneInv
<1>1. Init => OneInv
  BY OneInit
<1>2. EdgeInv /\ OneInv /\ [Next]_vars => OneInv'
  <2>1. SUFFICES ASSUME EdgeInv, OneInv, [Next]_vars PROVE OneInv'
    OBVIOUS
  <2>2. ASSUME NEW r \in Request, Write(r) PROVE OneInv'
    BY <2>1, <2>2, OneWrite
  <2>3. ASSUME NEW n \in enqueues, Enqueue(n) PROVE OneInv'
    BY <2>1, <2>3, OneEnqueue
  <2>4. ASSUME NEW d \in Process, DrainStep(d) \/ Stop(d) PROVE OneInv'
    BY <2>1, <2>4, OneBatch, OneJob, OneRemove, OneUnmap, OnePost, OneUnshare, OneMap,
       OneComplete DEF DrainStep
  <2>5. CASE UNCHANGED vars
    BY <2>1, <2>5, OneSame
  <2> QED
    BY <2>1, <2>2, <2>3, <2>4, <2>5 DEF Next
<1> QED
  BY <1>1, <1>2, EdgeInvariant, PTL DEF Spec

\* Every event's job was done or skipped, so that of a path's last event was done.
LEMMA LastDone ==
  ASSUME OneInv, Settled, NEW p \in Path, docs[p].event # 0
  PROVE  Done(docs[p].event)
<1>1. docs[p].event \in DOMAIN written
  BY DEF OneInv, DocsLast
<1>2. PICK j \in jobs : j.event = docs[p].event /\ j.status \in {"completed", "skipped"}
  BY <1>1 DEF Settled
<1> QED
  BY <1>2 DEF OneInv, LastNotSkipped, Done

\* Once the queue of one process is worked off, hybrid search has no deleted document, however
\* the jobs of edits and deletes overtook each other, failed and were retried, and however
\* often the process died.
THEOREM DeletesArrive ==
  ASSUME OneDrain, NoMoves PROVE Spec => []DeletedUnmapped
<1>1. ASSUME EdgeInv, OneInv PROVE DeletedUnmapped
  <2>1. SUFFICES ASSUME Settled, NEW p \in Path, ~docs[p].live PROVE mapped[p] = NoMapping
    BY DEF DeletedUnmapped
  <2>2. CASE docs[p].event # 0
    BY <1>1, <2>1, <2>2, LastDone DEF OneInv, Deleted
  <2>3. CASE docs[p].event = 0
    <3>1. SUFFICES ASSUME mapped[p] # NoMapping PROVE FALSE
      OBVIOUS
    <3>2. PICK n \in DOMAIN written : written[n].path = p /\ n \in Nat \ {0}
      BY <1>1, <3>1 DEF EdgeInv, MappedOK, BodyOf, WritesOK
    <3>3. docs[p].event >= n
      BY <1>1, <3>2 DEF OneInv, DocsLast
    <3> QED
      BY <2>3, <3>2, <3>3
  <2> QED
    BY <2>2, <2>3
<1> QED
  BY <1>1, EdgeInvariant, OneInvariant, PTL

\* And it has every live document, with the body of its last write, if no two paths are given
\* one body: EdgeQuake would have one document of it, and only one path a mapping.
THEOREM EditsArrive ==
  ASSUME OneDrain, NoMoves, BodiesApart PROVE Spec => []LiveMapped
<1>1. ASSUME OneInv PROVE LiveMapped
  <2>1. SUFFICES ASSUME Settled, NEW p \in Path, docs[p].live
        PROVE  /\ mapped[p].event = docs[p].event
               /\ [id |-> mapped[p].doc, content |-> docs[p].content] \in remote
    BY DEF LiveMapped
  <2>2. docs[p].event # 0 /\ docs[p].content = written[docs[p].event].content
    BY <1>1, <2>1 DEF OneInv, DocsLast
  <2>3. mapped[p].event = docs[p].event /\ There(mapped[p].doc, docs[p].event)
    BY <1>1, <2>1, <2>2, LastDone DEF OneInv, Live
  <2> QED
    BY <2>2, <2>3 DEF There
<1> QED
  BY <1>1, OneInvariant, PTL

-----------------------------------------------------------------------------
(* One process: the queue as a drain read it is the queue as it is.          *)

\* What a drain has read and not worked off is unchanged in the table, and still to be done.
Snapshot(d) ==
  /\ \A j \in batch[d] : j \in jobs /\ Pending(j)
  /\ at[d] \notin {"idle", "next"} => job[d] \in jobs \ batch[d] /\ Pending(job[d])

\* A job changes while it is to be done only, and its attempts by one.
JobChanges ==
  \A j \in jobs :
    \/ j \in jobs'
    \/ Pending(j) /\ \E k \in jobs' : k.event = j.event /\ k.attempts = j.attempts + 1

\* The UPDATE of a job that was still as the drain read it.
LEMMA CountedUpdate ==
  ASSUME EdgeInv, NEW d \in Process, Snapshot(d), at[d] \notin {"idle", "next"},
         NEW s, Update(d, s, job[d].attempts + 1)
  PROVE  JobChanges /\ \A j \in jobs : j # job[d] => j \in jobs'
<1>1. PICK e, n : e = Event(d) /\ n = job[d].attempts + 1
  OBVIOUS
<1>2. jobs' = {IF j.event = e THEN [j EXCEPT !.status = s, !.attempts = n] ELSE j : j \in jobs}
  BY <1>1 DEF Update
<1>3. job[d] \in jobs /\ job[d].event = e /\ Pending(job[d])
  BY <1>1 DEF Snapshot, Event
<1>4. ASSUME NEW j \in jobs, j # job[d] PROVE j \in jobs'
  <2>1. j.event # e
    BY <1>3, <1>4 DEF EdgeInv, QueueOK
  <2> QED
    BY <1>2, <2>1
<1>5. ASSUME NEW j \in jobs, j = job[d]
      PROVE  Pending(j) /\ \E k \in jobs' : k.event = j.event /\ k.attempts = j.attempts + 1
  <2>1. PICK k : k = [j EXCEPT !.status = s, !.attempts = n]
    OBVIOUS
  <2>2. k \in jobs'
    BY <1>2, <1>3, <1>5, <2>1
  <2>3. k.event = j.event /\ k.attempts = n
    BY <2>1 DEF EdgeInv, QueueOK, JobType
  <2> QED
    BY <1>1, <1>3, <1>5, <2>2, <2>3
<1> QED
  BY <1>4, <1>5 DEF JobChanges

LEMMA SnapshotStep ==
  ASSUME OneDrain, EdgeInv, \A d \in Process : Snapshot(d), [Next]_vars
  PROVE  (\A d \in Process : Snapshot(d)') /\ JobChanges
<1>1. CASE UNCHANGED <<drain, jobs>>
  BY <1>1 DEF drain, Snapshot, JobChanges
<1>2. ASSUME NEW n \in enqueues, Enqueue(n)
      PROVE  (\A d \in Process : Snapshot(d)') /\ JobChanges
  <2>1. jobs \subseteq jobs' /\ UNCHANGED drain
    BY <1>2 DEF Enqueue
  <2> QED
    BY <2>1 DEF drain, Snapshot, JobChanges
<1>3. ASSUME NEW d \in Process, DrainStep(d) \/ Stop(d)
      PROVE  (\A e \in Process : Snapshot(e)') /\ JobChanges
  <2>1. \A e \in Process : e = d
    BY DEF OneDrain
  <2>2. at \in [Process -> Steps] /\ Snapshot(d)
    BY DEF EdgeInv, DrainsOK
  <2>3. batch \in [Process -> SUBSET JobType] /\ job \in [Process -> JobType \cup {NoJob}]
    BY DEF EdgeInv, DrainsOK
  <2>4. SUFFICES Snapshot(d)' /\ JobChanges
    BY <2>1
  <2>5. CASE Due(d)
    <3>1. jobs' = jobs /\ at'[d] = "next" /\ \A j \in batch'[d] : j \in jobs /\ Pending(j)
      BY <2>2, <2>3, <2>5 DEF Due, Go, Pending
    <3> QED
      BY <3>1 DEF Snapshot, JobChanges
  <2>6. CASE Take(d)
    <3>1. PICK j \in batch[d] : job' = [job EXCEPT ![d] = j]
                                /\ batch' = [batch EXCEPT ![d] = @ \ {j}]
      BY <2>6 DEF Take
    <3>2. jobs' = jobs /\ job'[d] = j /\ batch'[d] = batch[d] \ {j}
      BY <2>3, <2>6, <3>1 DEF Take
    <3> QED
      BY <2>2, <3>1, <3>2 DEF Snapshot, JobChanges
  <2>7. CASE DrainDone(d) \/ Stop(d)
    <3>1. jobs' = jobs /\ at'[d] = "idle" /\ batch'[d] \subseteq batch[d]
      BY <2>2, <2>3, <2>7 DEF DrainDone, Stop, Go
    <3> QED
      BY <2>2, <3>1 DEF Snapshot, JobChanges
  <2>8. CASE \/ Check(d) \/ Lookup(d) \/ Remove(d) \/ Unmap(d) \/ Post(d) \/ Unshare(d)
             \/ Map(d) \/ Error(d)
    <3>1. UNCHANGED <<jobs, batch, job>> /\ at[d] \notin {"idle", "next"}
      BY <2>8 DEF Check, Lookup, Remove, Unmap, Post, Unshare, Map, Error
    <3> QED
      BY <2>2, <3>1 DEF Snapshot, JobChanges
  <2>9. CASE Skip(d) \/ Complete(d) \/ Retry(d)
    <3>1. PICK s : Update(d, s, job[d].attempts + 1)
      BY <2>9 DEF Skip, Complete, Retry, Attempts
    <3>2. /\ at[d] \notin {"idle", "next"} /\ at'[d] = "next" /\ batch' = batch
      BY <2>2, <2>9 DEF Skip, Complete, Retry, Go
    <3>3. JobChanges /\ \A j \in jobs : j # job[d] => j \in jobs'
      BY <2>2, <3>1, <3>2, CountedUpdate
    <3>4. Snapshot(d)'
      BY <2>2, <3>2, <3>3 DEF Snapshot
    <3> QED
      BY <3>3, <3>4
  <2> QED
    BY <1>3, <2>5, <2>6, <2>7, <2>8, <2>9 DEF DrainStep
<1>4. ASSUME NEW r \in Request, Write(r) PROVE UNCHANGED <<drain, jobs>>
  BY <1>4 DEF Write
<1>5. CASE UNCHANGED vars
  BY <1>1, <1>5 DEF vars
<1> QED
  BY <1>1, <1>2, <1>3, <1>4, <1>5 DEF Next

\* With one process the attempts a drain writes, which it counts from what it read when it
\* began, are right: a job is changed only while it is to be done, and by one attempt, so that
\* one which was completed, skipped or given up stays so.  (Two processes can revive a job.)
THEOREM AttemptsCounted ==
  ASSUME OneDrain PROVE Spec => [][JobChanges]_vars
<1>1. Init => \A d \in Process : Snapshot(d)
  BY DEF Init, Snapshot
<1>2. EdgeInv /\ (\A d \in Process : Snapshot(d)) /\ [Next]_vars
        => (\A d \in Process : Snapshot(d))' /\ JobChanges
  BY SnapshotStep
<1> QED
  BY <1>1, <1>2, EdgeInvariant, PTL DEF Spec

=============================================================================
