--------------------------- MODULE BridgeCallProofs ---------------------------
(***************************************************************************)
(* What BridgeCall promises, for any number of requests and stations, any  *)
(* limits and any faults: its state stays well formed, and its rounds are  *)
(* those of RoundQueue, one at a time and in order.  That every round ends *)
(* is liveness and is left to TLC.                                         *)
(***************************************************************************)
EXTENDS BridgeCall, TLAPS

-----------------------------------------------------------------------------
(* The inductive invariant: the type invariant, the shapes it leaves open,   *)
(* and that a round which gets pruned has persisted its row.                 *)

Result == {"none", "retry", "success", "failed", "offline"}
RowType == [request: Request, status: Ended \cup {"running"}, results: [Station -> Result]]
JobType ==
  [request: Request \cup {None}, at: {"idle", "create", "threads", "officers", "prune"},
   results: [Station -> Result]]

Shapes ==
  /\ job \in JobType
  /\ rows \in Seq(RowType)
  /\ answer \in [Request -> {"none", "waiting", "full", "view", "error", "cut"}]

Persisted ==
  At("prune") =>
    \A i \in DOMAIN rows : rows[i].request = job.request => rows[i].status \in Ended

QueueOK ==
  /\ queue \in Seq(Request) /\ Len(queue) <= MaxPending
  /\ \A i, j \in DOMAIN queue : queue[i] = queue[j] => i = j
  /\ job.at = "idle" => job = Idle /\ queue = <<>>
  /\ job.at # "idle" => job.request \in Request /\ \A i \in DOMAIN queue : queue[i] # job.request
  /\ \A r \in Request :
       answer[r] = "waiting" <=> job.request = r \/ \E i \in DOMAIN queue : queue[i] = r

RowOK(row) ==
  \/ /\ row.status \in Ended
     /\ \A s \in Station : row.results[s] \in {"success", "failed", "offline"}
  \/ /\ row.status = "running"
     /\ row.request = job.request \/ answer[row.request] \in {"error", "cut"}

RowsOK == \A i \in DOMAIN rows : RowOK(rows[i])

CallInv == Shapes /\ Persisted /\ QueueOK /\ RowsOK /\ faults \in 0..MaxFaults

LEMMA InvIsTyped == CallInv => TypeOK
BY DEF CallInv, Shapes, QueueOK, RowsOK, RowOK, TypeOK, JobType, Result

LEMMA Words ==
  /\ Idle \in JobType /\ Idle.at = "idle" /\ Idle.request = None /\ None \notin Request
  /\ \A r \in Request : /\ Start(r) \in JobType /\ Start(r).at = "create"
                        /\ Start(r).request = r
  /\ NoResults \in [Station -> Result]
BY NoneAssumption DEF Idle, Start, NoResults, JobType, Result

LEMMA Running ==
  ASSUME CallInv
  PROVE  /\ Active <=> job.at # "idle"
         /\ Active <=> job.request # None
         /\ ~Active => queue = <<>> /\ job = Idle
BY Words DEF CallInv, QueueOK, Active

-----------------------------------------------------------------------------
(* Rows.                                                                     *)

\* Rows that stay are as good as they were if what was answered stays so.
LEMMA RowStays ==
  ASSUME CallInv, NEW row \in RowType, RowOK(row),
         row.status \in Ended \/ row.request # job.request \/ job'.request = row.request
           \/ answer'[row.request] \in {"error", "cut"},
         \A r \in Request : answer[r] \in {"error", "cut"} => answer'[r] \in {"error", "cut"}
  PROVE  RowOK(row)'
BY DEF RowOK, RowType, Ended

LEMMA NewestRows ==
  ASSUME NEW q \in Seq(RowType), rows = q
  PROVE  /\ Newest \in Seq(RowType)
         /\ \A i \in DOMAIN Newest : \E j \in DOMAIN q : Newest[i] = q[j]
<1>1. Len(q) \in Nat /\ Keep \in Nat /\ Keep # 0
  BY LimitAssumption
<1>2. CASE Len(q) <= Keep
  BY <1>2 DEF Newest
<1>3. CASE Len(q) > Keep
  <2>1. PICK m : m = Len(q) - Keep + 1
    OBVIOUS
  <2>2. m \in 1..Len(q) /\ Newest = SubSeq(q, m, Len(q))
    BY <1>1, <1>3, <2>1 DEF Newest
  <2>3. /\ SubSeq(q, m, Len(q)) \in Seq(RowType)
        /\ DOMAIN SubSeq(q, m, Len(q)) = 1..(Len(q) - m + 1)
        /\ \A i \in 1..(Len(q) - m + 1) : SubSeq(q, m, Len(q))[i] = q[m + i - 1]
    BY <1>1, <2>2
  <2>4. \A i \in 1..(Len(q) - m + 1) : m + i - 1 \in DOMAIN q
    BY <1>1, <2>2
  <2> QED
    BY <2>2, <2>3, <2>4
<1> QED
  BY <1>1, <1>2, <1>3

LEMMA AddedRows ==
  ASSUME NEW q \in Seq(RowType), NEW row \in RowType
  PROVE  /\ Append(q, row) \in Seq(RowType)
         /\ \A i \in DOMAIN Append(q, row) :
              Append(q, row)[i] = row \/ \E j \in DOMAIN q : Append(q, row)[i] = q[j]
OBVIOUS

-----------------------------------------------------------------------------
(* Callers and the queue.                                                    *)

Final == {"full", "view", "error", "cut"}

\* Requests enter the queue once.
LEMMA Queued ==
  ASSUME NEW q \in Seq(Request), NEW r \in Request, \A i \in DOMAIN q : q[i] # r,
         \A i, j \in DOMAIN q : q[i] = q[j] => i = j
  PROVE  /\ Append(q, r) \in Seq(Request) /\ Len(Append(q, r)) = Len(q) + 1
         /\ \A i, j \in DOMAIN Append(q, r) : Append(q, r)[i] = Append(q, r)[j] => i = j
         /\ \A x : (\E i \in DOMAIN Append(q, r) : Append(q, r)[i] = x)
                     <=> x = r \/ \E i \in DOMAIN q : q[i] = x
<1>1. /\ Len(q) \in Nat /\ DOMAIN q = 1..Len(q)
      /\ Append(q, r) \in Seq(Request) /\ Len(Append(q, r)) = Len(q) + 1
      /\ DOMAIN Append(q, r) = 1..(Len(q) + 1) /\ Append(q, r)[Len(q) + 1] = r
      /\ \A i \in 1..Len(q) : Append(q, r)[i] = q[i]
  OBVIOUS
<1>2. PICK n, a : n = Len(q) /\ a = Append(q, r)
  OBVIOUS
<1>3. \A i \in 1..(n + 1) : i = n + 1 \/ i \in 1..n
  BY <1>1, <1>2
<1>4. /\ n \in Nat /\ DOMAIN q = 1..n /\ DOMAIN a = 1..(n + 1) /\ a[n + 1] = r
      /\ \A i \in 1..n : a[i] = q[i] /\ i \in 1..(n + 1)
      /\ n + 1 \in 1..(n + 1)
  BY <1>1, <1>2
<1>5. \A i, j \in 1..(n + 1) : a[i] = a[j] => i = j
  BY <1>3, <1>4
<1>6. \A x : (\E i \in 1..(n + 1) : a[i] = x) <=> x = r \/ \E i \in 1..n : q[i] = x
  BY <1>3, <1>4
<1> QED
  BY <1>1, <1>2, <1>4, <1>5, <1>6

\* The next request leaves the queue, the others move up.
LEMMA Moved ==
  ASSUME NEW q \in Seq(Request), q # <<>>, \A i, j \in DOMAIN q : q[i] = q[j] => i = j
  PROVE  /\ Tail(q) \in Seq(Request) /\ Len(Tail(q)) = Len(q) - 1 /\ Head(q) \in Request
         /\ \A i, j \in DOMAIN Tail(q) : Tail(q)[i] = Tail(q)[j] => i = j
         /\ \A i \in DOMAIN Tail(q) : Tail(q)[i] # Head(q)
         /\ \A x : (\E i \in DOMAIN q : q[i] = x)
                     <=> x = Head(q) \/ \E i \in DOMAIN Tail(q) : Tail(q)[i] = x
<1>1. PICK n, t : n = Len(q) /\ t = Tail(q)
  OBVIOUS
<1>2. /\ n \in Nat \ {0} /\ DOMAIN q = 1..n /\ Head(q) = q[1] /\ q[1] \in Request
      /\ t \in Seq(Request) /\ Len(t) = n - 1 /\ DOMAIN t = 1..(n - 1)
      /\ \A i \in 1..(n - 1) : t[i] = q[i + 1]
  BY <1>1
<1>3. \A i \in 1..(n - 1) : i + 1 \in 1..n /\ i + 1 # 1
  BY <1>2
<1>4. \A i \in 1..n : i = 1 \/ (i - 1 \in 1..(n - 1) /\ (i - 1) + 1 = i)
  BY <1>2
<1>5. 1 \in 1..n
  BY <1>2
<1>9. \A i, j \in 1..n : q[i] = q[j] => i = j
  BY <1>2
<1>6. ASSUME NEW i \in 1..(n - 1), NEW j \in 1..(n - 1), t[i] = t[j] PROVE i = j
  <2>1. q[i + 1] = q[j + 1] /\ i + 1 \in 1..n /\ j + 1 \in 1..n
    BY <1>2, <1>3, <1>6
  <2>2. i + 1 = j + 1
    BY <1>9, <2>1
  <2> QED
    BY <1>2, <2>2
<1>7. ASSUME NEW i \in 1..(n - 1) PROVE t[i] # q[1]
  <2>1. t[i] = q[i + 1] /\ i + 1 \in 1..n /\ i + 1 # 1
    BY <1>2, <1>3
  <2> QED
    BY <1>5, <1>9, <2>1
<1>8. \A x : (\E i \in 1..n : q[i] = x) <=> x = q[1] \/ \E i \in 1..(n - 1) : t[i] = x
  <2> TAKE x
  <2>1. ASSUME NEW i \in 1..n, q[i] = x PROVE x = q[1] \/ \E k \in 1..(n - 1) : t[k] = x
    <3>1. CASE i = 1
      BY <2>1, <3>1
    <3>2. CASE i # 1
      <4> DEFINE k == i - 1
      <4>1. k \in 1..(n - 1) /\ k + 1 = i
        BY <1>4, <3>2
      <4>2. t[k] = q[i]
        BY <1>2, <4>1
      <4> QED
        BY <2>1, <4>1, <4>2
    <3> QED
      BY <3>1, <3>2
  <2>2. ASSUME NEW i \in 1..(n - 1), t[i] = x PROVE \E k \in 1..n : q[k] = x
    BY <1>2, <1>3, <2>2
  <2> QED
    BY <1>5, <2>1, <2>2
<1>10. \A i, j \in DOMAIN Tail(q) : Tail(q)[i] = Tail(q)[j] => i = j
  BY <1>1, <1>2, <1>6
<1>11. /\ Tail(q) \in Seq(Request) /\ Len(Tail(q)) = Len(q) - 1 /\ Head(q) \in Request
       /\ \A i \in DOMAIN Tail(q) : Tail(q)[i] # Head(q)
  BY <1>1, <1>2, <1>7
<1>12. \A x : (\E i \in DOMAIN q : q[i] = x)
               <=> x = Head(q) \/ \E i \in DOMAIN Tail(q) : Tail(q)[i] = x
  BY <1>1, <1>2, <1>8, Zenon
<1> QED
  BY <1>10, <1>11, <1>12

\* A round that is answered makes room for the next one.
LEMMA SettleOK ==
  ASSUME CallInv, Active, NEW a \in {"view", "error"}, Settle(a)
  PROVE  /\ QueueOK' /\ job' \in JobType /\ job'.at \in {"idle", "create"}
         /\ answer' \in [Request -> {"none", "waiting", "full", "view", "error", "cut"}]
         /\ answer'[job.request] = a /\ job.request \in Request
         /\ job'.request # job.request
         /\ \A r \in Request \ {job.request} : answer'[r] = answer[r]
<1>1. /\ job.request \in Request /\ answer' = [answer EXCEPT ![job.request] = a] /\ NextJob(a)
      /\ \A i \in DOMAIN queue : queue[i] # job.request
  BY Running DEF CallInv, QueueOK, Settle
<1>2. /\ answer' \in [Request -> {"none", "waiting", "full", "view", "error", "cut"}]
      /\ answer'[job.request] = a
      /\ \A r \in Request \ {job.request} : answer'[r] = answer[r]
  BY <1>1 DEF CallInv, Shapes
<1>3. CASE queue = <<>>
  <2>1. job' = Idle /\ queue' = <<>>
    BY <1>1, <1>3 DEF NextJob
  <2>2. \A r \in Request : answer'[r] = "waiting" <=> job'.request = r
    BY <1>1, <1>2, <1>3, <2>1, Words DEF CallInv, QueueOK
  <2> QED
    BY <1>1, <1>2, <2>1, <2>2, Words, LimitAssumption DEF QueueOK
<1>4. CASE queue # <<>>
  <2>1. job' = Start(Head(queue)) /\ queue' = Tail(queue)
    BY <1>1, <1>4 DEF NextJob
  <2>2. /\ Tail(queue) \in Seq(Request) /\ Len(Tail(queue)) = Len(queue) - 1
        /\ Head(queue) \in Request
        /\ \A i, j \in DOMAIN Tail(queue) : Tail(queue)[i] = Tail(queue)[j] => i = j
        /\ \A i \in DOMAIN Tail(queue) : Tail(queue)[i] # Head(queue)
        /\ \A x : (\E i \in DOMAIN queue : queue[i] = x)
                    <=> x = Head(queue) \/ \E i \in DOMAIN Tail(queue) : Tail(queue)[i] = x
    BY <1>4, Moved DEF CallInv, QueueOK
  <2>3. job'.request = Head(queue) /\ job'.at = "create" /\ job' \in JobType
    BY <2>1, <2>2, Words
  <2>4. Head(queue) # job.request
    BY <1>1, <2>2
  <2>5. \A r \in Request :
          answer'[r] = "waiting" <=> job'.request = r \/ \E i \in DOMAIN queue' : queue'[i] = r
    <3> TAKE r \in Request
    <3>1. answer[r] = "waiting" <=> job.request = r \/ \E i \in DOMAIN queue : queue[i] = r
      BY DEF CallInv, QueueOK
    <3>2. (\E i \in DOMAIN queue : queue[i] = r)
            <=> r = Head(queue) \/ \E i \in DOMAIN queue' : queue'[i] = r
      BY <2>1, <2>2
    <3>3. CASE r = job.request
      <4>1. ~\E i \in DOMAIN queue : queue[i] = r
        BY <1>1, <3>3
      <4> QED
        BY <1>2, <2>3, <3>2, <3>3, <4>1
    <3>4. CASE r # job.request
      BY <1>2, <2>3, <3>1, <3>2, <3>4
    <3> QED
      BY <3>3, <3>4
  <2>6. Len(queue') <= MaxPending
    BY <2>1, <2>2, LimitAssumption DEF CallInv, QueueOK
  <2> QED
    BY <1>1, <1>2, <2>1, <2>2, <2>3, <2>4, <2>5, <2>6 DEF QueueOK
<1> QED
  BY <1>3, <1>4

-----------------------------------------------------------------------------
(* The invariant and the steps of the refinement.                            *)

Answered == {r \in Request : answer[r] \in Final}

\* A caller that has not asked is nowhere.
LEMMA NotAsked ==
  ASSUME CallInv, NEW r \in Request
  PROVE  Rounds!Asked(r) <=> answer[r] # "none"
<1>1. Rounds!Asked(r) <=>
        r = job.request \/ answer[r] \in Final \/ \E i \in DOMAIN queue : queue[i] = r
  BY DEF Rounds!Asked, Final
<1>2. answer[r] \in Final \cup {"none", "waiting"}
  BY DEF CallInv, Shapes, Final
<1> QED
  BY <1>1, <1>2 DEF CallInv, QueueOK, Final

LEMMA RowsKept ==
  ASSUME CallInv, UNCHANGED rows,
         \A r \in Request :
           /\ answer[r] \in {"error", "cut"} => answer'[r] \in {"error", "cut"}
           /\ r = job.request => r = job'.request \/ answer'[r] \in {"error", "cut"}
  PROVE  RowsOK'
<1> SUFFICES ASSUME NEW i \in DOMAIN rows PROVE RowOK(rows[i])'
  BY DEF RowsOK
<1>1. PICK row \in RowType : row = rows[i]
  BY DEF CallInv, Shapes
<1>2. RowOK(row) /\ row.request \in Request
  BY <1>1 DEF CallInv, RowsOK, RowType
<1>3. RowOK(row)'
  BY <1>2, RowStays
<1> QED
  BY <1>1, <1>3

LEMMA AskStep ==
  ASSUME CallInv, NEW r \in Request, Ask(r)
  PROVE  CallInv' /\ (Rounds!Refuse(r) \/ Rounds!Accept(r))
<1>1. /\ answer[r] = "none" /\ UNCHANGED <<rows, faults>> /\ ~Rounds!Asked(r)
      /\ r # job.request /\ \A i \in DOMAIN queue : queue[i] # r
  BY NotAsked DEF Ask, CallInv, QueueOK
<1>2. CASE Len(queue) >= MaxPending
  <2>1. answer' = [answer EXCEPT ![r] = "full"] /\ UNCHANGED <<queue, job>>
    BY <1>2 DEF Ask
  <2>2. /\ answer'[r] = "full" /\ \A x \in Request \ {r} : answer'[x] = answer[x]
        /\ answer' \in [Request -> {"none", "waiting", "full", "view", "error", "cut"}]
    BY <2>1 DEF CallInv, Shapes
  <2>3. Shapes' /\ Persisted' /\ (faults \in 0..MaxFaults)'
    BY <1>1, <2>1, <2>2 DEF CallInv, Shapes, Persisted, At
  <2>4. QueueOK'
    BY <1>1, <2>1, <2>2 DEF CallInv, QueueOK
  <2>5. RowsOK'
    BY <1>1, <2>1, <2>2, RowsKept
  <2>6. Answered' = Answered \cup {r}
    BY <2>2 DEF Answered, Final
  <2>7. Rounds!Refuse(r)
    BY <1>1, <2>1, <2>6 DEF Rounds!Refuse, Answered, Final
  <2> QED
    BY <2>3, <2>4, <2>5, <2>7 DEF CallInv
<1>3. CASE Len(queue) < MaxPending
  <2>1. /\ answer' = [answer EXCEPT ![r] = "waiting"]
        /\ IF Active THEN queue' = Append(queue, r) /\ UNCHANGED job
           ELSE job' = Start(r) /\ UNCHANGED queue
    BY <1>3, LimitAssumption DEF Ask, CallInv, QueueOK
  <2>2. /\ answer'[r] = "waiting" /\ \A x \in Request \ {r} : answer'[x] = answer[x]
        /\ answer' \in [Request -> {"none", "waiting", "full", "view", "error", "cut"}]
    BY <2>1 DEF CallInv, Shapes
  <2>3. Answered' = Answered
    BY <1>1, <2>2 DEF Answered, Final
  <2>4. CASE Active
    <3>1. queue' = Append(queue, r) /\ UNCHANGED job /\ job.request # None
      BY <2>1, <2>4, Running
    <3>2. /\ Append(queue, r) \in Seq(Request) /\ Len(Append(queue, r)) = Len(queue) + 1
          /\ \A i, j \in DOMAIN Append(queue, r) :
               Append(queue, r)[i] = Append(queue, r)[j] => i = j
          /\ \A x : (\E i \in DOMAIN Append(queue, r) : Append(queue, r)[i] = x)
                      <=> x = r \/ \E i \in DOMAIN queue : queue[i] = x
      BY <1>1, Queued DEF CallInv, QueueOK
    <3>3. \A x \in Request :
            answer'[x] = "waiting" <=> job'.request = x \/ \E i \in DOMAIN queue' : queue'[i] = x
      BY <2>2, <3>1, <3>2 DEF CallInv, QueueOK
    <3>4. Len(queue') <= MaxPending
      BY <1>3, <3>1, <3>2, LimitAssumption DEF CallInv, QueueOK
    <3>5. \A i \in DOMAIN queue' : queue'[i] # job'.request
      BY <1>1, <2>4, <3>1, <3>2, Running DEF CallInv, QueueOK
    <3>6. QueueOK'
      BY <2>4, <3>1, <3>2, <3>3, <3>4, <3>5, Running DEF CallInv, QueueOK
    <3>7. Shapes' /\ Persisted' /\ (faults \in 0..MaxFaults)'
      BY <1>1, <2>2, <3>1 DEF CallInv, Shapes, Persisted, At
    <3>8. RowsOK'
      BY <1>1, <2>2, <3>1, RowsKept
    <3>9. Rounds!Accept(r)
      BY <1>1, <2>3, <3>1 DEF Rounds!Accept, Answered, Final
    <3> QED
      BY <3>6, <3>7, <3>8, <3>9 DEF CallInv
  <2>5. CASE ~Active
    <3>1. /\ job' = Start(r) /\ UNCHANGED queue /\ queue = <<>> /\ job.request = None
          /\ job' \in JobType /\ job'.at = "create" /\ job'.request = r /\ job.at = "idle"
      BY <2>1, <2>5, Running, Words
    <3>2. QueueOK'
      BY <1>1, <2>2, <3>1, Words DEF CallInv, QueueOK
    <3>3. Shapes' /\ Persisted' /\ (faults \in 0..MaxFaults)'
      BY <1>1, <2>2, <3>1 DEF CallInv, Shapes, Persisted, At
    <3>4. RowsOK'
      BY <1>1, <2>2, <3>1, Words, RowsKept
    <3>5. Rounds!Accept(r)
      BY <1>1, <2>3, <3>1 DEF Rounds!Accept, Answered, Final
    <3> QED
      BY <3>2, <3>3, <3>4, <3>5 DEF CallInv
  <2> QED
    BY <2>4, <2>5
<1>4. Len(queue) \in Nat /\ MaxPending \in Nat
  BY LimitAssumption DEF CallInv, QueueOK
<1> QED
  BY <1>2, <1>3, <1>4

\* The steps of a round are nothing to its callers.
LEMMA QuietStep ==
  ASSUME CallInv, UNCHANGED <<queue, answer, faults>>, job' \in JobType,
         job'.request = job.request, job.at # "idle", job'.at # "idle"
  PROVE  QueueOK' /\ (faults \in 0..MaxFaults)' /\ UNCHANGED Rounds!vars
BY DEF CallInv, QueueOK, Rounds!vars

LEMMA CreateStep ==
  ASSUME CallInv, CreateRow PROVE CallInv' /\ UNCHANGED Rounds!vars
<1>1. PICK row : row = [request |-> job.request, status |-> "running", results |-> NoResults]
  OBVIOUS
<1>2. /\ job.at = "create" /\ rows' = Append(rows, row) /\ job' = [job EXCEPT !.at = "threads"]
      /\ UNCHANGED <<queue, answer, faults>> /\ job.request \in Request
  BY <1>1 DEF CreateRow, At, Go, CallInv, QueueOK
<1>3. job' \in JobType /\ job'.request = job.request /\ job'.at = "threads"
  BY <1>2 DEF CallInv, Shapes, JobType
<1>4. row \in RowType /\ row.status = "running" /\ row.request = job.request
  BY <1>1, <1>2, Words DEF RowType
<1>5. /\ rows' \in Seq(RowType)
      /\ \A i \in DOMAIN rows' : rows'[i] = row \/ \E j \in DOMAIN rows : rows'[i] = rows[j]
  BY <1>2, <1>4, AddedRows DEF CallInv, Shapes
<1>6. Shapes' /\ Persisted'
  BY <1>2, <1>3, <1>5 DEF CallInv, Shapes, Persisted, At
<1>7. RowsOK'
  <2>1. RowOK(row)'
    BY <1>3, <1>4 DEF RowOK
  <2>2. ASSUME NEW j \in DOMAIN rows PROVE \E old \in RowType : old = rows[j] /\ RowOK(old)'
    <3>1. PICK old \in RowType : old = rows[j] /\ RowOK(old)
      BY DEF CallInv, Shapes, RowsOK
    <3>2. RowOK(old)'
      BY <1>2, <1>3, <3>1, RowStays
    <3> QED
      BY <3>1, <3>2
  <2>3. ASSUME NEW i \in DOMAIN rows' PROVE RowOK(rows[i])'
    <3>1. PICK n \in RowType : n = rows'[i] /\ RowOK(n)'
      BY <1>4, <1>5, <2>1, <2>2
    <3> QED
      BY <3>1 DEF RowOK
  <2> QED
    BY <2>3 DEF RowsOK
<1> QED
  BY <1>2, <1>3, <1>6, <1>7, QuietStep DEF CallInv

LEMMA WorkStep ==
  ASSUME CallInv, EnsureThreads \/ \E s \in Station : Officer(s)
  PROVE  CallInv' /\ UNCHANGED Rounds!vars
<1>1. /\ job' \in JobType /\ job'.request = job.request /\ job.at # "idle"
      /\ job'.at = "officers" /\ UNCHANGED <<queue, rows, answer, faults>>
  <2>1. CASE EnsureThreads
    BY <2>1 DEF EnsureThreads, At, Go, CallInv, Shapes, JobType
  <2>2. ASSUME NEW s \in Station, Officer(s)
        PROVE  /\ job' \in JobType /\ job'.request = job.request /\ job.at # "idle"
               /\ job'.at = "officers" /\ UNCHANGED <<queue, rows, answer, faults>>
    <3>1. /\ job.at = "officers" /\ UNCHANGED <<queue, rows, answer, faults>>
          /\ \E result \in Result : job' = [job EXCEPT !.results[s] = result]
      BY <2>2 DEF Officer, At, Result
    <3>2. job \in JobType
      BY DEF CallInv, Shapes
    <3> QED
      BY <3>1, <3>2 DEF JobType
  <2> QED
    BY <2>1, <2>2
<1>2. Shapes' /\ Persisted'
  BY <1>1 DEF CallInv, Shapes, Persisted, At
<1>3. RowsOK'
  BY <1>1, RowsKept
<1> QED
  BY <1>1, <1>2, <1>3, QuietStep DEF CallInv

LEMMA PersistStep ==
  ASSUME CallInv, Persist PROVE CallInv' /\ UNCHANGED Rounds!vars
<1>1. /\ job.at = "officers" /\ job' = [job EXCEPT !.at = "prune"]
      /\ UNCHANGED <<queue, answer, faults>> /\ ~Some("none") /\ ~Some("retry")
      /\ rows' = [i \in DOMAIN rows |->
           IF rows[i].request = job.request
           THEN [rows[i] EXCEPT !.status = Status, !.results = job.results] ELSE rows[i]]
  BY DEF Persist, At, Go
<1>2. /\ job' \in JobType /\ job'.request = job.request /\ job'.at = "prune"
      /\ job.results \in [Station -> Result]
  BY <1>1 DEF CallInv, Shapes, JobType
<1>3. /\ Status \in Ended
      /\ \A s \in Station : job.results[s] \in {"success", "failed", "offline"}
  BY <1>1, <1>2 DEF Status, Some, Ended, Result
<1>4. ASSUME NEW i \in DOMAIN rows
      PROVE  /\ rows'[i] \in RowType /\ RowOK(rows[i])'
             /\ rows'[i].request = job.request => rows'[i].status \in Ended
  <2>1. PICK row \in RowType : row = rows[i] /\ RowOK(row)
    BY DEF CallInv, Shapes, RowsOK
  <2>2. CASE row.request = job.request
    <3>1. PICK status \in Ended, results \in [Station -> Result] :
            status = Status /\ results = job.results
      BY <1>2, <1>3
    <3>2. rows'[i] = [row EXCEPT !.status = status, !.results = results]
      BY <1>1, <2>1, <2>2, <3>1
    <3>3. /\ rows'[i] \in RowType /\ rows'[i].status = status /\ rows'[i].results = results
      BY <3>2 DEF RowType
    <3> QED
      BY <1>3, <3>1, <3>3 DEF RowOK
  <2>3. CASE row.request # job.request
    <3>1. rows'[i] = row
      BY <1>1, <2>1, <2>3
    <3>2. RowOK(row)'
      BY <1>1, <2>1, <2>3, RowStays
    <3> QED
      BY <2>3, <3>1, <3>2 DEF RowOK
  <2> QED
    BY <2>2, <2>3
<1>5. DOMAIN rows' = DOMAIN rows /\ rows' \in Seq(RowType)
  <2>1. Len(rows) \in Nat /\ DOMAIN rows = 1..Len(rows) /\ DOMAIN rows' = 1..Len(rows)
    <3>1. rows \in Seq(RowType)
      BY DEF CallInv, Shapes
    <3>2. DOMAIN rows' = DOMAIN rows
      BY <1>1
    <3> QED
      BY <3>1, <3>2
  <2>2. rows' \in [1..Len(rows) -> RowType]
    BY <1>1, <1>4, <2>1
  <2> QED
    BY <2>1, <2>2
<1>6. Shapes' /\ Persisted'
  BY <1>1, <1>2, <1>4, <1>5 DEF CallInv, Shapes, Persisted, At
<1>7. RowsOK'
  BY <1>4, <1>5 DEF RowsOK
<1> QED
  BY <1>1, <1>2, <1>6, <1>7, QuietStep DEF CallInv

\* A round that ends, well or not: rows that stay, or its own row when it fails.
LEMMA SettleStep ==
  ASSUME CallInv, Active, NEW a \in {"view", "error"}, Settle(a),
         a = "view" => At("prune"), faults' \in 0..MaxFaults, rows' \in Seq(RowType),
         \A i \in DOMAIN rows' :
           \/ \E j \in DOMAIN rows : rows'[i] = rows[j]
           \/ /\ a = "error"
              /\ rows'[i] \in RowType /\ rows'[i].status = "running"
              /\ rows'[i].request = job.request
  PROVE  CallInv' /\ Rounds!End
<1>1. /\ QueueOK' /\ job' \in JobType /\ job'.at \in {"idle", "create"}
      /\ answer' \in [Request -> {"none", "waiting", "full", "view", "error", "cut"}]
      /\ answer'[job.request] = a /\ job.request \in Request /\ job'.request # job.request
      /\ \A r \in Request \ {job.request} : answer'[r] = answer[r]
  BY SettleOK
<1>2. Shapes' /\ Persisted'
  BY <1>1 DEF Shapes, Persisted, At
<1>3. answer[job.request] = "waiting"
  BY <1>1 DEF CallInv, QueueOK
<1>4. \A r \in Request : answer[r] \in {"error", "cut"} => answer'[r] \in {"error", "cut"}
  BY <1>1, <1>3
<1>5. ASSUME NEW i \in DOMAIN rows' PROVE RowOK(rows[i])'
  <2>1. CASE \E j \in DOMAIN rows : rows'[i] = rows[j]
    <3>1. PICK j \in DOMAIN rows : rows'[i] = rows[j]
      BY <2>1
    <3>2. PICK row \in RowType : row = rows[j] /\ RowOK(row)
      BY DEF CallInv, Shapes, RowsOK
    <3>3. a = "view" /\ row.request = job.request => row.status \in Ended
      BY <3>2 DEF CallInv, Persisted
    <3>4. RowOK(row)'
      BY <1>1, <1>4, <3>2, <3>3, RowStays
    <3> QED
      BY <3>1, <3>2, <3>4 DEF RowOK
  <2>2. CASE /\ a = "error" /\ rows'[i].status = "running"
             /\ rows'[i].request = job.request
    BY <1>1, <2>2 DEF RowOK
  <2> QED
    BY <2>1, <2>2
<1>6. CallInv'
  BY <1>1, <1>2, <1>5 DEF CallInv, RowsOK
<1>7. Answered' = Answered \cup {job.request}
  BY <1>1 DEF Answered, Final
<1>8. IF queue = <<>> THEN job'.request = None /\ UNCHANGED queue
      ELSE job'.request = Head(queue) /\ queue' = Tail(queue)
  <2>1. NextJob(a)
    BY DEF Settle
  <2>2. queue # <<>> => Head(queue) \in Request
    BY Moved DEF CallInv, QueueOK
  <2> QED
    BY <2>1, <2>2, Words DEF NextJob
<1>9. Rounds!End
  BY <1>1, <1>7, <1>8, Words DEF Rounds!End, Answered, Final
<1> QED
  BY <1>6, <1>9

LEMMA PrunedRows ==
  ASSUME CallInv, rows' = Newest
  PROVE  /\ rows' \in Seq(RowType)
         /\ \A i \in DOMAIN rows' : \E j \in DOMAIN rows : rows'[i] = rows[j]
<1>1. PICK q \in Seq(RowType) : q = rows
  BY DEF CallInv, Shapes
<1> QED
  BY <1>1, NewestRows

LEMMA PruneStep == ASSUME CallInv, Prune PROVE CallInv' /\ Rounds!End
<1>1. At("prune") /\ rows' = Newest /\ Settle("view") /\ UNCHANGED faults
  BY DEF Prune
<1>2. Active
  BY <1>1, Running DEF At
<1>3. faults' \in 0..MaxFaults
  BY <1>1 DEF CallInv
<1> QED
  BY <1>1, <1>2, <1>3, PrunedRows, SettleStep

LEMMA ErrorStep == ASSUME CallInv, Error PROVE CallInv' /\ Rounds!End
<1>1. /\ Settle("error") /\ faults' \in 0..MaxFaults
  BY BoundAssumption DEF Error, CallInv
<1>2. CASE Active /\ UNCHANGED rows
  <2>1. rows' \in Seq(RowType) /\ \A i \in DOMAIN rows' : \E j \in DOMAIN rows : rows'[i] = rows[j]
    BY <1>2 DEF CallInv, Shapes
  <2> QED
    BY <1>1, <1>2, <2>1, SettleStep
<1>3. CASE /\ At("create")
           /\ rows' = Append(rows, [request |-> job.request, status |-> "running",
                                    results |-> NoResults])
  <2>1. PICK row : row = [request |-> job.request, status |-> "running", results |-> NoResults]
    OBVIOUS
  <2>2. Active /\ job.request \in Request
    BY <1>3, Running DEF At, CallInv, QueueOK
  <2>3. row \in RowType /\ row.status = "running" /\ row.request = job.request
    BY <2>1, <2>2, Words DEF RowType
  <2>4. /\ rows' \in Seq(RowType)
        /\ \A i \in DOMAIN rows' : rows'[i] = row \/ \E j \in DOMAIN rows : rows'[i] = rows[j]
    BY <1>3, <2>1, <2>3, AddedRows DEF CallInv, Shapes
  <2> QED
    BY <1>1, <2>2, <2>3, <2>4, SettleStep
<1>4. CASE At("prune") /\ rows' = Newest
  <2>1. Active
    BY <1>4, Running DEF At
  <2> QED
    BY <1>1, <1>4, <2>1, PrunedRows, SettleStep
<1> QED
  BY <1>2, <1>3, <1>4 DEF Error

LEMMA CrashStep == ASSUME CallInv, Crash PROVE CallInv' /\ Rounds!CutOff
<1>1. /\ faults' \in 0..MaxFaults /\ queue' = <<>> /\ job' = Idle /\ UNCHANGED rows
      /\ answer' = [r \in Request |-> IF answer[r] = "waiting" THEN "cut" ELSE answer[r]]
  BY BoundAssumption DEF Crash, CallInv
<1>2. answer' \in [Request -> {"none", "waiting", "full", "view", "error", "cut"}]
  BY <1>1 DEF CallInv, Shapes
<1>3. Shapes' /\ Persisted'
  BY <1>1, <1>2, Words DEF CallInv, Shapes, Persisted, At
<1>4. QueueOK'
  BY <1>1, <1>2, Words, LimitAssumption DEF QueueOK
<1>5. RowsOK'
  <2>1. \A r \in Request :
          /\ answer[r] \in {"error", "cut"} => answer'[r] \in {"error", "cut"}
          /\ r = job.request => answer'[r] \in {"error", "cut"}
    BY <1>1 DEF CallInv, QueueOK
  <2> QED
    BY <1>1, <2>1, RowsKept
<1>6. Answered' = Answered \cup {r \in Request : Rounds!Asked(r)}
  <2>1. \A r \in Request : answer'[r] \in Final <=> answer[r] # "none"
    BY <1>1 DEF CallInv, Shapes, Final
  <2>2. \A r \in Request : answer[r] \in Final => answer[r] # "none"
    BY DEF Final
  <2> QED
    BY <2>1, <2>2, NotAsked DEF Answered
<1>7. Rounds!CutOff
  BY <1>1, <1>6, Words DEF Rounds!CutOff, Answered, Final
<1> QED
  BY <1>1, <1>3, <1>4, <1>5, <1>7 DEF CallInv

LEMMA CallStep ==
  ASSUME CallInv, [Next]_vars PROVE CallInv' /\ [Rounds!Next]_Rounds!vars
<1>1. ASSUME NEW r \in Request, Ask(r) PROVE CallInv' /\ Rounds!Next
  BY <1>1, AskStep DEF Rounds!Next
<1>2. CASE Round
  BY <1>2, CreateStep, WorkStep, PersistStep, PruneStep DEF Round, Rounds!Next
<1>3. CASE Error
  BY <1>3, ErrorStep DEF Rounds!Next
<1>4. CASE Crash
  BY <1>4, CrashStep DEF Rounds!Next
<1>5. CASE UNCHANGED vars
  BY <1>5 DEF vars, CallInv, Shapes, Persisted, At, QueueOK, RowsOK, RowOK, Rounds!vars
<1> QED
  BY <1>1, <1>2, <1>3, <1>4, <1>5 DEF Next

LEMMA CallInit == ASSUME Init PROVE CallInv /\ Rounds!Init
<1>1. /\ queue = <<>> /\ job = Idle /\ rows = <<>> /\ faults = 0
      /\ answer = [r \in Request |-> "none"]
  BY DEF Init
<1>2. Shapes /\ Persisted /\ RowsOK
  BY <1>1, Words DEF Shapes, Persisted, At, RowsOK
<1>3. QueueOK
  BY <1>1, Words, LimitAssumption DEF QueueOK
<1>4. Rounds!Init
  BY <1>1, Words DEF Rounds!Init
<1> QED
  BY <1>1, <1>2, <1>3, <1>4, BoundAssumption DEF CallInv

-----------------------------------------------------------------------------
(* Theorems.                                                                 *)

\* A caller waits exactly while its request is queued or runs, and a row that still says
\* running is the current round's or belongs to a caller who got an error
\* (rounds.ts:162-210, 582-705).
THEOREM TypeCorrect == Spec => []TypeOK
<1>1. Spec => []CallInv
  BY CallInit, CallStep, PTL DEF Spec
<1> QED
  BY <1>1, InvIsTyped, PTL

\* Rounds run one at a time and in the order of their requests, and a round that fails takes
\* no other one with it (processScopeQueue, rounds.ts:162-186).
THEOREM RoundsInOrder == Spec => Rounds!OrderSpec
BY CallInit, CallStep, PTL DEF Spec, Rounds!OrderSpec

=============================================================================
