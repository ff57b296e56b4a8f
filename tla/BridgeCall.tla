------------------------------ MODULE BridgeCall ------------------------------
(***************************************************************************)
(* Bridge calls: a directive to all stations of a ship, run as a round     *)
(* (node/src/lib/bridge-call/rounds.ts).  A process keeps one queue of     *)
(* rounds per user and ship, its scope; rounds of other scopes share       *)
(* nothing with it.  A request that finds the queue idle becomes the job   *)
(* in the same turn of the event loop, and a job that ends starts the next *)
(* one in the turn that answers its caller.                                *)
(***************************************************************************)
EXTENDS Naturals, Sequences

CONSTANTS
  Request,     \* POST /api/bridge-call/rounds
  Station,     \* stations of the ship
  None,        \* no job
  MaxPending,  \* rounds that may wait
  Keep,        \* rounds a prune leaves
  MaxFaults    \* bound: errors and crashes

ASSUME NoneAssumption == None \notin Request
ASSUME LimitAssumption == MaxPending \in Nat \ {0} /\ Keep \in Nat \ {0}
ASSUME BoundAssumption == MaxFaults \in Nat

VARIABLES
  queue,    \* requests that wait
  job,      \* the round that runs: its request, step and officers' results
  rows,     \* BridgeCallRound rows in createdAt order
  answer,   \* per request: what its caller got
  faults

vars == <<queue, job, rows, answer, faults>>

NoResults == [s \in Station |-> "none"]
Idle == [request |-> None, at |-> "idle", results |-> NoResults]
Start(r) == [request |-> r, at |-> "create", results |-> NoResults]

Init ==
  /\ queue = <<>>
  /\ job = Idle
  /\ rows = <<>>
  /\ answer = [r \in Request |-> "none"]
  /\ faults = 0

-----------------------------------------------------------------------------

\* Mutant: the loop is started for every request.
NeverActive == FALSE

Active == job # Idle

\* enqueueScopedRound
Ask(r) ==
  /\ answer[r] = "none"
  /\ IF Len(queue) >= MaxPending
     THEN answer' = [answer EXCEPT ![r] = "full"] /\ UNCHANGED <<queue, job>>
     ELSE /\ answer' = [answer EXCEPT ![r] = "waiting"]
          /\ IF Active THEN queue' = Append(queue, r) /\ UNCHANGED job
             ELSE job' = Start(r) /\ UNCHANGED queue
  /\ UNCHANGED <<rows, faults>>

At(step) == job.at = step
Go(step) == job' = [job EXCEPT !.at = step]

\* Mutant: an error ends the loop.
EndsLoop(a) ==
  IF a = "error" THEN job' = Idle /\ UNCHANGED queue
  ELSE IF queue = <<>> THEN job' = Idle /\ UNCHANGED queue
  ELSE job' = Start(Head(queue)) /\ queue' = Tail(queue)

\* The loop goes on with the next job, whatever became of this one.
NextJob(a) ==
  IF queue = <<>> THEN job' = Idle /\ UNCHANGED queue
  ELSE job' = Start(Head(queue)) /\ queue' = Tail(queue)

Settle(a) == answer' = [answer EXCEPT ![job.request] = a] /\ NextJob(a)

CreateRow ==
  /\ At("create")
  /\ rows' = Append(rows, [request |-> job.request, status |-> "running", results |-> NoResults])
  /\ Go("threads")
  /\ UNCHANGED <<queue, answer, faults>>

\* ensureStationThreadsForUser
EnsureThreads ==
  /\ At("threads")
  /\ Go("officers")
  /\ UNCHANGED <<queue, rows, answer, faults>>

\* The officers work side by side; a prompt that fails is sent once more, a station that is
\* offline or has no session is not asked.
Officer(s) ==
  /\ At("officers")
  /\ \E result \in {"success", "failed"} \cup
                   (IF job.results[s] = "none" THEN {"retry", "offline"} ELSE {}) :
       job' = [job EXCEPT !.results[s] = result]
  /\ job.results[s] \in {"none", "retry"}
  /\ UNCHANGED <<queue, rows, answer, faults>>

Some(result) == \E s \in Station : job.results[s] = result

Status ==
  IF ~Some("success") /\ Some("failed") THEN "failed"
  ELSE IF Some("success") /\ Some("failed") THEN "partial"
  ELSE "completed"

\* One transaction: a result per station and the status; signals that follow may fail.
Persist ==
  /\ At("officers")
  /\ ~Some("none") /\ ~Some("retry")
  /\ rows' = [i \in DOMAIN rows |->
       IF rows[i].request = job.request
       THEN [rows[i] EXCEPT !.status = Status, !.results = job.results] ELSE rows[i]]
  /\ Go("prune")
  /\ UNCHANGED <<queue, answer, faults>>

Newest == IF Len(rows) <= Keep THEN rows ELSE SubSeq(rows, Len(rows) - Keep + 1, Len(rows))

\* pruneBridgeCallRounds, and the answer.
Prune ==
  /\ At("prune")
  /\ rows' = Newest
  /\ Settle("view")
  /\ UNCHANGED faults

\* A statement fails, after it was done or before; only the caller gets to know.
Error ==
  /\ faults < MaxFaults
  /\ faults' = faults + 1
  /\ \/ Active /\ UNCHANGED rows
     \/ /\ At("create")
        /\ rows' = Append(rows, [request |-> job.request, status |-> "running",
                                 results |-> NoResults])
     \/ At("prune") /\ rows' = Newest
  /\ Settle("error")

\* The process dies and starts again.
Crash ==
  /\ faults < MaxFaults
  /\ faults' = faults + 1
  /\ queue' = <<>>
  /\ job' = Idle
  /\ answer' = [r \in Request |-> IF answer[r] = "waiting" THEN "cut" ELSE answer[r]]
  /\ UNCHANGED rows

-----------------------------------------------------------------------------

Round == CreateRow \/ EnsureThreads \/ (\E s \in Station : Officer(s)) \/ Persist \/ Prune

Next == (\E r \in Request : Ask(r)) \/ Round \/ Error \/ Crash

Spec == Init /\ [][Next]_vars

\* Statements and prompts come back: runtime providers have time limits.
FairSpec == Spec /\ WF_vars(Round)

-----------------------------------------------------------------------------
(* Properties.                                                               *)

Ended == {"completed", "partial", "failed"}

\* The type invariant: a caller is waiting exactly while its request is queued or runs, each
\* once; a row that has ended has the result of every station, and a row that has not is
\* the one being worked on or one whose caller got an error.
TypeOK ==
  /\ queue \in Seq(Request) /\ Len(queue) <= MaxPending
  /\ \A i, j \in DOMAIN queue : queue[i] = queue[j] => i = j
  /\ job.at \in {"idle", "create", "threads", "officers", "prune"}
  /\ job.at = "idle" => job = Idle /\ queue = <<>>
  /\ job.at # "idle" => job.request \in Request /\ \A i \in DOMAIN queue : queue[i] # job.request
  /\ \A s \in Station : job.results[s] \in {"none", "retry", "success", "failed", "offline"}
  /\ \A r \in Request :
       /\ answer[r] \in {"none", "waiting", "full", "view", "error", "cut"}
       /\ answer[r] = "waiting" <=>
            job.request = r \/ \E i \in DOMAIN queue : queue[i] = r
  /\ \A i \in DOMAIN rows :
       \/ /\ rows[i].status \in Ended
          /\ \A s \in Station : rows[i].results[s] \in {"success", "failed", "offline"}
       \/ /\ rows[i].status = "running"
          /\ rows[i].request = job.request \/ answer[rows[i].request] \in {"error", "cut"}
  /\ faults \in 0..MaxFaults

\* The refinement: what is queued waits, the job runs, and all other callers are answered.
Rounds == INSTANCE RoundQueue WITH
  waiting <- queue,
  running <- job.request,
  answered <- {r \in Request : answer[r] \in {"full", "view", "error", "cut"}}

\* Rounds of a scope run one at a time, in the order of their requests, and every caller is
\* answered, also those behind a round that failed (processScopeQueue, rounds.ts:162-186).
ImplementsRounds == Rounds!Spec

=============================================================================
