---------------------------- MODULE DeliveryQueue ----------------------------
(***************************************************************************)
(* The job queues of the bridge: dispatches to external connections        *)
(* (node/src/lib/bridge/connections/dispatch.ts), replies of agents in a   *)
(* chat room (lib/bridge-agent-chat/replies.ts) and the mirror between     *)
(* sessions and threads (lib/bridge-chat/sync.ts).  They are one pattern   *)
(* that differs in how a job's effect and its completion hang together:    *)
(*   dispatch  sends outside any transaction, then completes, then prunes; *)
(*   reply     prompts the agent's session, then posts its message and     *)
(*             completes in one transaction;                               *)
(*   mirror    posts at most once (BridgeMirrorLink), then completes.      *)
(* queue says which of the three a behaviour is about.                     *)
(*                                                                         *)
(* Drains are functions of requests: any number run side by side.  Each    *)
(* reads the due jobs once, then claims and runs them one by one with what *)
(* it read.  A job's number is its place in createdAt order.               *)
(***************************************************************************)
EXTENDS Integers, Sequences, FiniteSets

CONSTANTS
  Queue,        \* the queues looked at, of "dispatch", "reply", "mirror"
  Drain,        \* drains that may be under way at a time
  MaxAttempts,  \* attempts after which a job has failed for good
  Keep,         \* ended dispatches a prune leaves
  MaxJobs,      \* bound: jobs enqueued
  MaxFaults,    \* bound: errors after a job's effect, and of the prunes
  MaxStops      \* bound: drains that end half way

ASSUME QueueAssumption == Queue \subseteq {"dispatch", "reply", "mirror"} /\ Queue # {}
ASSUME LimitAssumption == MaxAttempts \in Nat \ {0} /\ Keep \in Nat \ {0}
ASSUME BoundAssumption == MaxJobs \in Nat /\ MaxFaults \in Nat /\ MaxStops \in Nat

VARIABLES
  queue,   \* the queue of this behaviour
  jobs,    \* its rows in createdAt order; a deleted one has status "gone"
  tally,   \* per row: what has happened, see Tally; a record of the past, not in the code
  drain,   \* per drain: its step, the jobs it read and has not finished, rows to prune
  faults, stops

vars == <<queue, jobs, tally, drain, faults, stops>>

Job ==
  [status: {"pending", "processing", "completed", "failed", "gone"},
   attempts: 0..MaxAttempts, next: {"null", "now", "later"}]
\* prompts: prompts the agent's session got for a reply since the catch block last recorded a
\*   failed attempt; each leaves interactions, mirror jobs and, for the station cou, dispatches.
\* sent: how often the effect happened: a POST to the connector, the agent's message in the
\*   room, the mirrored message.
\* late: errors after the effect: of its call, of the UPDATE that completes it, of the prune.
Tally == [prompts: Nat, sent: Nat, late: Nat]
DrainStep == {"idle", "claim", "prompt", "run", "complete", "prune", "delete", "fail",
              "pruneFailed", "deleteFailed"}
Idle == [at |-> "idle", todo |-> <<>>, stale |-> {}]
DrainState ==
  [at: DrainStep, stale: SUBSET DOMAIN jobs,
   todo: Seq([id: DOMAIN jobs, attempts: 0..MaxAttempts - 1])]
Live(j) == jobs[j].status # "gone"

Init ==
  /\ queue \in Queue
  /\ jobs = <<>>
  /\ tally = <<>>
  /\ drain = [d \in Drain |-> Idle]
  /\ faults = 0
  /\ stops = 0

Step(d, at) == drain' = [drain EXCEPT ![d].at = at]

\* The drain goes on to the next job it read, or ends.
Advance(d) ==
  drain' = [drain EXCEPT ![d] =
    IF Len(drain[d].todo) = 1 THEN Idle
    ELSE [at |-> "claim", todo |-> Tail(drain[d].todo), stale |-> {}]]

Current(d) == Head(drain[d].todo)
Set(j, row) == jobs' = [jobs EXCEPT ![j] = row]
Count(j, row) == tally' = [tally EXCEPT ![j] = row]

-----------------------------------------------------------------------------

\* nextAttemptAt of a new job is now.
Enqueue ==
  /\ Len(jobs) < MaxJobs
  /\ jobs' = Append(jobs, [status |-> "pending", attempts |-> 0, next |-> "now"])
  /\ tally' = Append(tally, [prompts |-> 0, sent |-> 0, late |-> 0])
  /\ UNCHANGED <<queue, drain, faults, stops>>

\* A retry's time comes.
Elapse(j) ==
  /\ j \in DOMAIN jobs /\ jobs[j].next = "later"
  /\ jobs' = [jobs EXCEPT ![j].next = "now"]
  /\ UNCHANGED <<queue, tally, drain, faults, stops>>

\* Mutant: the SELECT finds jobs that have failed for good, too.
DueForever(j) == jobs[j].status \in {"pending", "failed"} /\ jobs[j].next \in {"null", "now"}

\* Mutant: the SELECT finds new jobs only.
DueOnce(j) == jobs[j].status = "pending" /\ jobs[j].next \in {"null", "now"}

Due(j) ==
  \/ jobs[j].status = "pending" /\ jobs[j].next \in {"null", "now"}
  \/ jobs[j].status = "failed" /\ jobs[j].next = "now"

DueJobs == {j \in DOMAIN jobs : Due(j)}

\* The SELECT a drain begins with, in createdAt order; attempts are kept from here.
Begin(d) ==
  /\ drain[d].at = "idle"
  /\ DueJobs # {}
  /\ \E ids \in [1..Cardinality(DueJobs) -> DueJobs] :
       /\ \A i, k \in DOMAIN ids : i < k => ids[i] < ids[k]
       /\ drain' = [drain EXCEPT ![d] =
            [at |-> "claim", stale |-> {},
             todo |-> [i \in DOMAIN ids |-> [id |-> ids[i], attempts |-> jobs[ids[i]].attempts]]]]
  /\ UNCHANGED <<queue, jobs, tally, faults, stops>>

\* Mutant: a job another drain is processing can be claimed as well.
ClaimableAgain(j) == jobs[j].status \in {"pending", "failed", "processing"}

\* The condition of the claim, wider than the SELECT's: a failed row without a next attempt
\* passes it.
Claimable(j) ==
  jobs[j].status \in {"pending", "failed"} /\ jobs[j].next \in {"null", "now"}

Claim(d) ==
  /\ drain[d].at = "claim"
  /\ LET j == Current(d).id IN
     IF Claimable(j)
     THEN /\ Set(j, [jobs[j] EXCEPT !.status = "processing"])
          /\ Step(d, IF queue = "reply" THEN "prompt" ELSE "run")
     ELSE Advance(d) /\ UNCHANGED jobs
  /\ UNCHANGED <<queue, tally, faults, stops>>

\* executeSessionPrompt, before the transaction of the reply: each retry prompts again.
Prompt(d) ==
  /\ drain[d].at = "prompt"
  /\ LET j == Current(d).id IN Count(j, [tally[j] EXCEPT !.prompts = @ + 1])
  /\ Step(d, "run")
  /\ UNCHANGED <<queue, jobs, faults, stops>>

\* The send, or the transaction that posts the message.  The mirror's finds the link of an
\* earlier run and posts nothing.
Sent(j) == [tally[j] EXCEPT !.sent = IF queue = "mirror" /\ @ > 0 THEN @ ELSE @ + 1]
Effect(j) == Count(j, Sent(j))

\* The row with one more error after the effect.
OneLate(row) == [row EXCEPT !.late = @ + 1]

Completed(j) == Set(j, [jobs[j] EXCEPT !.status = "completed", !.next = "null"])

\* The row of a reply is completed in the transaction of its message.
Run(d) ==
  /\ drain[d].at = "run"
  /\ LET j == Current(d).id IN
     IF queue = "reply"
     THEN Live(j) /\ Effect(j) /\ Completed(j) /\ Advance(d)
     ELSE Effect(j) /\ Step(d, "complete") /\ UNCHANGED jobs
  /\ UNCHANGED <<queue, faults, stops>>

\* Mutant: the answer of the connector is not looked at.
IgnoreRefusal(d) ==
  /\ drain[d].at = "run"
  /\ Step(d, "complete")
  /\ UNCHANGED <<queue, jobs, tally, faults, stops>>

\* The other side refuses, or a row the job needs is missing.  A prompt may fail after its
\* interaction was stored.
RunFails(d) ==
  /\ drain[d].at \in {"prompt", "run"}
  /\ Step(d, "fail")
  /\ \/ UNCHANGED tally
     \/ /\ drain[d].at = "prompt"
        /\ LET j == Current(d).id IN Count(j, [tally[j] EXCEPT !.prompts = @ + 1])
  /\ UNCHANGED <<queue, jobs, faults, stops>>

Fault == faults < MaxFaults /\ faults' = faults + 1

\* The effect happens, and the caller sees an error.
RunTimesOut(d) ==
  /\ drain[d].at = "run" /\ Fault
  /\ LET j == Current(d).id IN
     /\ Count(j, OneLate(Sent(j)))
     /\ IF queue = "reply" THEN Live(j) /\ Completed(j) ELSE UNCHANGED jobs
  /\ Step(d, "fail")
  /\ UNCHANGED <<queue, stops>>

Complete(d) ==
  /\ drain[d].at = "complete"
  /\ LET j == Current(d).id IN
     IF ~Live(j) THEN Step(d, "fail") /\ UNCHANGED jobs
     ELSE /\ Completed(j)
          /\ IF queue = "dispatch" THEN Step(d, "prune") ELSE Advance(d)
  /\ UNCHANGED <<queue, tally, faults, stops>>

\* The update fails, or its answer is lost.
CompleteErrs(d) ==
  /\ drain[d].at = "complete" /\ Fault
  /\ Step(d, "fail")
  /\ LET j == Current(d).id IN
     /\ Count(j, OneLate(tally[j]))
     /\ UNCHANGED jobs \/ (Live(j) /\ Completed(j))
  /\ UNCHANGED <<queue, stops>>

\* The ended rows but the newest Keep, read here and deleted in the next step.
Stale ==
  LET ended == {j \in DOMAIN jobs : jobs[j].status \in {"completed", "failed"}}
  IN  {j \in ended : Cardinality({k \in ended : k > j}) >= Keep}

Pruning(d) == drain[d].at \in {"prune", "pruneFailed"}
Deleting(d) == drain[d].at \in {"delete", "deleteFailed"}

Prune(d) ==
  /\ Pruning(d)
  /\ IF Stale = {} THEN Advance(d)
     ELSE drain' = [drain EXCEPT ![d].stale = Stale,
                      ![d].at = IF @ = "prune" THEN "delete" ELSE "deleteFailed"]
  /\ UNCHANGED <<queue, jobs, tally, faults, stops>>

Delete(d) ==
  /\ Deleting(d)
  /\ jobs' = [j \in DOMAIN jobs |->
                IF j \in drain[d].stale THEN [jobs[j] EXCEPT !.status = "gone"] ELSE jobs[j]]
  /\ Advance(d)
  /\ UNCHANGED <<queue, tally, faults, stops>>

\* A prune runs in the try of the delivery that was completed before it: its error is taken
\* for the delivery's.  After a failure it runs in the catch, where an error ends the drain.
PruneErrs(d) ==
  /\ Pruning(d) \/ Deleting(d)
  /\ Fault
  /\ LET j == Current(d).id IN
     IF drain[d].at \in {"prune", "delete"} THEN Step(d, "fail") /\ Count(j, OneLate(tally[j]))
     ELSE drain' = [drain EXCEPT ![d] = Idle] /\ UNCHANGED tally
  /\ UNCHANGED <<queue, jobs, stops>>

\* The count goes on from the one the SELECT read.
Attempts(d) == Current(d).attempts + 1

\* The catch block; a row that is gone ends the drain.
Fail(d) ==
  /\ drain[d].at = "fail"
  /\ LET j == Current(d).id
         terminal == Attempts(d) >= MaxAttempts
     IN
     IF ~Live(j) THEN drain' = [drain EXCEPT ![d] = Idle] /\ UNCHANGED <<jobs, tally>>
     ELSE /\ Set(j, [status |-> "failed", attempts |-> Attempts(d),
                     next |-> IF terminal THEN "null" ELSE "later"])
          /\ Count(j, [tally[j] EXCEPT !.prompts = 0])
          /\ IF terminal /\ queue = "dispatch" THEN Step(d, "pruneFailed") ELSE Advance(d)
  /\ UNCHANGED <<queue, faults, stops>>

\* The process dies, or an update outside the try fails and the drain throws.
Stop(d) ==
  /\ drain[d].at # "idle" /\ stops < MaxStops
  /\ stops' = stops + 1
  /\ drain' = [drain EXCEPT ![d] = Idle]
  /\ UNCHANGED <<queue, jobs, tally, faults>>

-----------------------------------------------------------------------------

Work(d) ==
  \/ Claim(d) \/ Prompt(d) \/ Run(d) \/ RunFails(d) \/ Complete(d)
  \/ Prune(d) \/ Delete(d) \/ Fail(d)

Errs(d) == RunTimesOut(d) \/ CompleteErrs(d) \/ PruneErrs(d) \/ Stop(d)

Next ==
  \/ Enqueue
  \/ \E j \in DOMAIN jobs : Elapse(j)
  \/ \E d \in Drain : Begin(d) \/ Work(d) \/ Errs(d)

Spec == Init /\ [][Next]_vars

\* A drain goes on, times pass, and requests that drain the queue keep coming: no timer
\* does it for them.
FairSpec ==
  /\ Spec
  /\ \A d \in Drain : WF_vars(Work(d)) /\ WF_vars(Begin(d))
  /\ \A j \in 1..MaxJobs : WF_vars(Elapse(j))

-----------------------------------------------------------------------------
(* Properties.                                                               *)

\* The type invariant: the column attempts stays within the limit (an older snapshot may set
\* it back, so it does not bound how often a job is run), and a drain that is doing something
\* has a job at hand (dispatch.ts:372-471, replies.ts:462-546).
TypeOK ==
  /\ queue \in Queue
  /\ jobs \in Seq(Job)
  /\ tally \in Seq(Tally) /\ Len(tally) = Len(jobs)
  /\ drain \in [Drain -> DrainState]
  /\ \A d \in Drain : drain[d].at = "idle" <=> drain[d].todo = <<>>
  /\ faults \in 0..MaxFaults /\ stops \in 0..MaxStops

\* A job is completed only if its effect happened: no error path, stale read or drain that
\* overlaps marks a message as delivered that was not sent
\* (dispatch.ts:376-402, replies.ts:385-420, sync.ts:820-832).
CompletedIsSent ==
  \A j \in DOMAIN jobs : jobs[j].status = "completed" => tally[j].sent > 0

\* Whatever drains overlap and however old what they read is, nothing is done twice but by a
\* retry.  A POST to a connector, or an agent's message in a room, is repeated only after an
\* error that came after it: of the call itself, of the UPDATE that completes the job or of
\* the prune, whether or not what they asked for was done.  The mirror, which keeps a link in
\* the transaction of its message, never repeats it.  The prompt of a reply, outside the
\* transaction, is repeated after any failed attempt, and once each time
\* (claims: dispatch.ts:203-225, replies.ts:217-239, sync.ts:765-785; replies.ts:364-398).
RepeatsNeedErrors ==
  \A j \in DOMAIN jobs :
    /\ tally[j].sent <= IF queue = "mirror" THEN 1 ELSE 1 + tally[j].late
    /\ tally[j].prompts <= 1

Ended(j) ==
  j \in DOMAIN jobs
  /\ \/ jobs[j].status \in {"completed", "gone"}
     \/ jobs[j].status = "failed" /\ jobs[j].attempts = MaxAttempts

\* If no drain is cut off, every job ends and stays ended: it is completed, pruned or out
\* of attempts, though a drain with an older count of attempts may give it some back.
JobsEnd ==
  [](stops = 0) => \A j \in 1..MaxJobs : (j \in DOMAIN jobs) ~> [](Ended(j))

=============================================================================
