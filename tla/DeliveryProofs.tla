--------------------------- MODULE DeliveryProofs ---------------------------
(***************************************************************************)
(* The job queues of DeliveryQueue, for any number of drains, jobs,        *)
(* attempts and errors: a completed job was sent, and it is sent again     *)
(* only after an error that followed the sending.                          *)
(***************************************************************************)
EXTENDS DeliveryQueue, TLAPS, FiniteSetTheorems, SequenceTheorems

-----------------------------------------------------------------------------
(* The inductive invariant.                                                  *)

\* A drain has a job from its claim to the end of the attempt.
OwnStep == {"prompt", "run", "complete", "prune", "delete", "fail"}
Owns(d, j) == drain[d].at \in OwnStep /\ Current(d).id = j

\* What a SELECT may find has an attempt left.
AttemptLeft ==
  \A j \in DOMAIN jobs :
    jobs[j].status = "pending" \/ jobs[j].next # "null" => jobs[j].attempts < MaxAttempts

OneOwner == \A d, e \in Drain : \A j \in DOMAIN jobs : Owns(d, j) /\ Owns(e, j) => d = e
OwnedTaken ==
  \A d \in Drain : \A j \in DOMAIN jobs :
    Owns(d, j) => jobs[j].status \in {"processing", "completed", "gone"}

\* What is completed, or about to be, was sent.
SentFirst ==
  /\ CompletedIsSent
  /\ \A d \in Drain : drain[d].at = "complete" => tally[Current(d).id].sent > 0

\* The job may be sent again without another error.
MayResend(j) ==
  \/ jobs[j].status \in {"pending", "failed"}
  \/ \E d \in Drain : drain[d].at \in {"prompt", "run"} /\ Current(d).id = j
  \/ \E d \in Drain : drain[d].at = "fail" /\ Current(d).id = j /\ Live(j)

\* Each job that may be sent again has been sent no more often than errors came after it.
Resends ==
  \A j \in DOMAIN jobs :
    IF queue = "mirror" THEN tally[j].sent <= 1
    ELSE /\ tally[j].sent <= 1 + tally[j].late
         /\ MayResend(j) => tally[j].sent <= tally[j].late

\* The agent may be prompted again without another failed attempt.
MayPrompt(j) ==
  \/ jobs[j].status \in {"pending", "failed"}
  \/ \E d \in Drain : drain[d].at = "prompt" /\ Current(d).id = j

\* Each job whose agent may be prompted again has not been prompted since it last failed.
Reprompts ==
  \A j \in DOMAIN jobs :
    /\ tally[j].prompts <= 1
    /\ MayPrompt(j) => tally[j].prompts = 0

QueueInv == TypeOK /\ AttemptLeft /\ OneOwner /\ OwnedTaken /\ SentFirst /\ Resends

-----------------------------------------------------------------------------
(* Rows, counters and drains.                                                *)

LEMMA Limits ==
  MaxAttempts \in Nat /\ MaxAttempts > 0 /\ MaxFaults \in Nat /\ MaxStops \in Nat
BY LimitAssumption, BoundAssumption

LEMMA FunctionSeq ==
  ASSUME NEW S, NEW n \in Nat, NEW f \in [1..n -> S]
  PROVE  f \in Seq(S) /\ Len(f) = n
OBVIOUS

LEMMA Rows ==
  ASSUME TypeOK
  PROVE  /\ Len(jobs) \in Nat /\ DOMAIN jobs = 1..Len(jobs) /\ DOMAIN tally = DOMAIN jobs
         /\ \A j \in DOMAIN jobs : jobs[j] \in Job /\ tally[j] \in Tally
BY DEF TypeOK

\* A drain at work has a job at hand.
LEMMA AtHand ==
  ASSUME TypeOK, NEW d \in Drain, drain[d].at # "idle"
  PROVE  /\ Current(d).id \in DOMAIN jobs /\ Current(d).attempts \in 0..MaxAttempts - 1
         /\ drain[d] \in DrainState
<1>1. /\ drain[d] \in DrainState /\ drain[d].todo # <<>>
      /\ drain[d].todo \in Seq([id: DOMAIN jobs, attempts: 0..MaxAttempts - 1])
  BY DEF TypeOK, DrainState
<1>2. Head(drain[d].todo) \in [id: DOMAIN jobs, attempts: 0..MaxAttempts - 1]
  BY <1>1, HeadTailProperties
<1> QED
  BY <1>1, <1>2 DEF Current

\* The row of one job is written.
LEMMA SetRow ==
  ASSUME TypeOK, NEW j \in DOMAIN jobs, NEW row \in Job, Set(j, row)
  PROVE  /\ jobs' \in Seq(Job) /\ Len(jobs') = Len(jobs) /\ DOMAIN jobs' = DOMAIN jobs
         /\ jobs'[j] = row /\ \A k \in DOMAIN jobs \ {j} : jobs'[k] = jobs[k]
<1>1. jobs \in Seq(Job) /\ j \in 1..Len(jobs)
  BY DEF TypeOK
<1>2. /\ jobs' \in Seq(Job) /\ Len(jobs') = Len(jobs)
      /\ \A k \in 1..Len(jobs) : jobs'[k] = IF k = j THEN row ELSE jobs[k]
  BY <1>1, ExceptSeq DEF Set
<1> QED
  BY <1>1, <1>2

\* What has happened to one job is counted.
LEMMA CountRow ==
  ASSUME TypeOK, NEW j \in DOMAIN jobs, NEW t \in Tally, Count(j, t)
  PROVE  /\ tally' \in Seq(Tally) /\ Len(tally') = Len(tally) /\ tally'[j] = t
         /\ \A k \in DOMAIN jobs \ {j} : tally'[k] = tally[k]
<1>1. tally \in Seq(Tally) /\ j \in 1..Len(tally) /\ DOMAIN jobs = 1..Len(tally)
  BY Rows DEF TypeOK
<1>2. /\ tally' \in Seq(Tally) /\ Len(tally') = Len(tally)
      /\ \A k \in 1..Len(tally) : tally'[k] = IF k = j THEN t ELSE tally[k]
  BY <1>1, ExceptSeq DEF Count
<1> QED
  BY <1>1, <1>2

LEMMA SentRow ==
  ASSUME TypeOK, NEW j \in DOMAIN jobs
  PROVE  /\ Sent(j) \in Tally /\ Sent(j).late = tally[j].late
         /\ Sent(j).sent =
              IF queue = "mirror" /\ tally[j].sent > 0 THEN tally[j].sent ELSE tally[j].sent + 1
<1>1. tally[j] \in Tally
  BY Rows
<1> QED
  BY <1>1 DEF Sent, Tally

LEMMA LateRow ==
  ASSUME NEW t \in Tally
  PROVE  OneLate(t) \in Tally /\ OneLate(t).sent = t.sent /\ OneLate(t).late = t.late + 1
BY DEF OneLate, Tally

\* Only d moves, and it stays well formed.
Moves(d) ==
  /\ drain' \in [Drain -> DrainState]
  /\ drain'[d].at = "idle" <=> drain'[d].todo = <<>>
  /\ \A e \in Drain \ {d} : drain'[e] = drain[e]

LEMMA StepMoves ==
  ASSUME TypeOK, NEW d \in Drain, drain[d].at # "idle", NEW at \in DrainStep \ {"idle"},
         Step(d, at)
  PROVE  Moves(d) /\ drain'[d].at = at /\ drain'[d].todo = drain[d].todo
BY AtHand DEF Step, Moves, TypeOK, DrainState

LEMMA IdleMoves ==
  ASSUME TypeOK, NEW d \in Drain, drain' = [drain EXCEPT ![d] = Idle]
  PROVE  Moves(d) /\ drain'[d].at = "idle"
<1>1. Idle \in DrainState
  BY EmptySeq DEF Idle, DrainState, DrainStep
<1> QED
  BY <1>1 DEF Idle, Moves, TypeOK

LEMMA AdvanceMoves ==
  ASSUME TypeOK, NEW d \in Drain, drain[d].at # "idle", Advance(d)
  PROVE  Moves(d) /\ drain'[d].at \in {"idle", "claim"}
<1> DEFINE T == [id: DOMAIN jobs, attempts: 0..MaxAttempts - 1]
           next == [at |-> "claim", todo |-> Tail(drain[d].todo), stale |-> {}]
<1>1. CASE Len(drain[d].todo) = 1
  BY <1>1, IdleMoves DEF Advance
<1>2. CASE Len(drain[d].todo) # 1
  <2>1. drain[d].todo \in Seq(T) /\ drain[d].todo # <<>>
    BY DEF TypeOK, DrainState
  <2>2. Tail(drain[d].todo) \in Seq(T) /\ Len(Tail(drain[d].todo)) = Len(drain[d].todo) - 1
    BY <2>1, HeadTailProperties
  <2>3. Tail(drain[d].todo) # <<>>
    <3>1. Len(drain[d].todo) \in Nat /\ Len(Tail(drain[d].todo)) # 0
      BY <1>2, <2>1, <2>2, LenProperties
    <3> QED
      BY <3>1, EmptySeq
  <2>4. next \in DrainState
    BY <2>2 DEF DrainState, DrainStep
  <2>5. drain' = [drain EXCEPT ![d] = next]
    BY <1>2 DEF Advance
  <2> QED
    BY <2>3, <2>4, <2>5 DEF Moves, TypeOK
<1> QED
  BY <1>1, <1>2

LEMMA MovesType ==
  ASSUME TypeOK, NEW d \in Drain, Moves(d), UNCHANGED queue,
         jobs' \in Seq(Job), Len(jobs') = Len(jobs), tally' \in Seq(Tally),
         Len(tally') = Len(tally),
         faults' \in 0..MaxFaults, stops' \in 0..MaxStops
  PROVE  TypeOK' /\ DOMAIN jobs' = DOMAIN jobs
<1>1. DOMAIN jobs' = DOMAIN jobs
  BY DEF TypeOK
<1>2. DrainState' = DrainState
  BY <1>1 DEF DrainState
<1> QED
  BY <1>1, <1>2 DEF TypeOK, Moves

-----------------------------------------------------------------------------
(* Steps.                                                                    *)

Taken == {"processing", "completed", "gone"}

\* What a step of d that concerns one job has to show about that job.
LEMMA LocalStep ==
  ASSUME QueueInv, TypeOK', UNCHANGED queue,
         NEW d \in Drain, Moves(d), NEW j \in DOMAIN jobs, DOMAIN jobs' = DOMAIN jobs,
         \A k \in DOMAIN jobs \ {j} : jobs'[k] = jobs[k] /\ tally'[k] = tally[k],
         jobs'[j].status = "pending" \/ jobs'[j].next # "null" => jobs'[j].attempts < MaxAttempts,
         drain'[d].at \in OwnStep => Current(d)'.id = j,
         Owns(d, j)' => jobs'[j].status \in Taken,
         Owns(d, j) \/ ~Owns(d, j)' \/ jobs[j].status \notin Taken,
         Owns(d, j) \/ jobs'[j] = jobs[j] \/ jobs[j].status \notin Taken,
         tally'[j].sent >= tally[j].sent,
         jobs'[j].status = "completed" \/ drain'[d].at = "complete" => tally'[j].sent > 0,
         \/ /\ jobs'[j] = jobs[j] /\ tally'[j] = tally[j]
            /\ drain'[d].at \notin {"prompt", "run", "fail"}
         \/ IF queue = "mirror" THEN tally'[j].sent <= 1
            ELSE /\ tally'[j].sent <= 1 + tally'[j].late
                 /\ \/ tally'[j].sent <= tally'[j].late
                    \/ /\ jobs'[j].status \notin {"pending", "failed"}
                       /\ drain'[d].at \notin {"prompt", "run"}
                       /\ drain'[d].at = "fail" => jobs'[j].status = "gone"
                       /\ Owns(d, j)
  PROVE  QueueInv'
<1> USE DEF QueueInv
<1>1. \A e \in Drain \ {d} :
        drain'[e] = drain[e] /\ \A k \in DOMAIN jobs : Owns(e, k)' <=> Owns(e, k)
  BY DEF Moves, Owns, Current
<1>2. AttemptLeft'
  BY DEF AttemptLeft
<1>3. \A e \in Drain \ {d} : Owns(e, j) => ~Owns(d, j)' /\ jobs'[j] = jobs[j] /\ ~Owns(d, j)
  BY DEF OneOwner, OwnedTaken, Taken
<1>4. \A k \in DOMAIN jobs : Owns(d, k)' => k = j
  BY DEF Owns
<1>5. OneOwner'
  BY <1>1, <1>3, <1>4 DEF OneOwner
<1>6. OwnedTaken'
  BY <1>1, <1>3, <1>4 DEF OwnedTaken, Taken
<1>7. SentFirst'
  <2>1. CompletedIsSent'
    BY DEF SentFirst, CompletedIsSent
  <2>2. ASSUME NEW e \in Drain \ {d}, drain'[e].at = "complete"
        PROVE  tally'[Current(e)'.id].sent > 0
    <3>1. drain'[e] = drain[e] /\ Current(e)'.id = Current(e).id /\ Current(e).id \in DOMAIN jobs
      BY <1>1, <2>2, AtHand DEF Current
    <3>2. tally[Current(e).id].sent > 0
      BY <2>2, <3>1 DEF SentFirst
    <3>3. tally[j] \in Tally /\ tally'[j] \in Tally
      <4>1. tally' \in Seq(Tally) /\ Len(tally') = Len(jobs') /\ jobs' \in Seq(Job)
        BY DEF TypeOK
      <4> QED
        BY <4>1, Rows
    <3>4. tally[j].sent \in Nat /\ tally'[j].sent \in Nat
      BY <3>3 DEF Tally
    <3> QED
      BY <3>1, <3>2, <3>4
  <2>3. drain'[d].at = "complete" => tally'[Current(d)'.id].sent > 0
    BY DEF OwnStep
  <2> QED
    BY <2>1, <2>2, <2>3 DEF SentFirst
<1>8. Resends'
  <2> SUFFICES ASSUME NEW k \in DOMAIN jobs
               PROVE  IF queue = "mirror" THEN tally'[k].sent <= 1
                      ELSE /\ tally'[k].sent <= 1 + tally'[k].late
                           /\ MayResend(k)' => tally'[k].sent <= tally'[k].late
    BY DEF Resends
  <2>1. CASE k = j /\ ~(/\ jobs'[j] = jobs[j] /\ tally'[j] = tally[j]
                       /\ drain'[d].at \notin {"prompt", "run", "fail"})
    <3>1. CASE /\ jobs'[j].status \notin {"pending", "failed"}
               /\ drain'[d].at \notin {"prompt", "run"}
               /\ drain'[d].at = "fail" => jobs'[j].status = "gone"
               /\ Owns(d, j)
      <4>1. ASSUME NEW e \in Drain
            PROVE  ~(drain'[e].at \in {"prompt", "run"} /\ Current(e)'.id = j)
        BY <1>1, <1>3, <3>1 DEF Owns, OwnStep, OneOwner
      <4>2. ASSUME NEW e \in Drain PROVE ~(drain'[e].at = "fail" /\ Current(e)'.id = j /\ Live(j)')
        BY <1>1, <1>3, <3>1 DEF Owns, OwnStep, OneOwner, Live
      <4> QED
        BY <2>1, <3>1, <4>1, <4>2 DEF MayResend
    <3> QED
      BY <2>1, <3>1, Rows DEF TypeOK
  <2>2. CASE k # j \/ (/\ jobs'[j] = jobs[j] /\ tally'[j] = tally[j]
                      /\ drain'[d].at \notin {"prompt", "run", "fail"})
    <3>1. jobs'[k] = jobs[k] /\ tally'[k] = tally[k]
      BY <2>2
    <3>2. MayResend(k)' => MayResend(k)
      <4>1. \A e \in Drain \ {d} : drain'[e] = drain[e] /\ Current(e)' = Current(e)
        BY <1>1 DEF Current
      <4>2. drain'[d].at \in {"prompt", "run", "fail"} => Current(d)'.id # k
        BY <2>2 DEF OwnStep
      <4> QED
        BY <3>1, <4>1, <4>2 DEF MayResend, Live
    <3> QED
      BY <3>1, <3>2 DEF Resends
  <2> QED
    BY <2>1, <2>2
<1> QED
  BY <1>2, <1>5, <1>6, <1>7, <1>8

\* Drains that leave their jobs, rows that are deleted, and times that come.
LEMMA RowsStep ==
  ASSUME QueueInv, TypeOK', UNCHANGED <<queue, tally, faults>>, DOMAIN jobs' = DOMAIN jobs,
         \A e \in Drain : drain'[e] = drain[e] \/ drain'[e].at \notin OwnStep,
         \A k \in DOMAIN jobs :
           /\ jobs'[k].status \in {jobs[k].status, "gone"}
           /\ jobs'[k].attempts = jobs[k].attempts
           /\ jobs'[k].next # "null" => jobs[k].next # "null"
  PROVE  QueueInv'
<1> USE DEF QueueInv
<1>1. \A e \in Drain : \A k \in DOMAIN jobs : Owns(e, k)' => Owns(e, k) /\ drain'[e] = drain[e]
  BY DEF Owns, Current
<1>2. AttemptLeft'
  BY DEF AttemptLeft
<1>3. OneOwner' /\ OwnedTaken'
  BY <1>1 DEF OneOwner, OwnedTaken
<1>4. SentFirst'
  <2>1. \A e \in Drain : drain'[e].at = "complete" =>
                           drain'[e] = drain[e] /\ Current(e)' = Current(e)
    BY DEF OwnStep, Current
  <2> QED
    BY <2>1 DEF SentFirst, CompletedIsSent
<1>5. ASSUME NEW k \in DOMAIN jobs, MayResend(k)' PROVE MayResend(k)
  <2>1. \A e \in Drain : drain'[e].at \in {"prompt", "run", "fail"} =>
                           drain'[e] = drain[e] /\ Current(e)' = Current(e)
    BY DEF OwnStep, Current
  <2>2. Live(k)' => Live(k)
    BY DEF Live
  <2> QED
    BY <1>5, <2>1, <2>2 DEF MayResend
<1>6. Resends'
  BY <1>5 DEF Resends
<1> QED
  BY <1>2, <1>3, <1>4, <1>6

\* A drain with no job, or none it owns any more.
LEMMA FreeStep ==
  ASSUME QueueInv, NEW d \in Drain, Moves(d), drain'[d].at \notin OwnStep,
         UNCHANGED <<queue, jobs, tally>>, faults' \in 0..MaxFaults, stops' \in 0..MaxStops
  PROVE  QueueInv'
<1>1. TypeOK'
  BY MovesType DEF QueueInv, TypeOK
<1>2. CASE DOMAIN jobs = {}
  BY <1>1, <1>2 DEF QueueInv, AttemptLeft, OneOwner, OwnedTaken, SentFirst, CompletedIsSent,
                    Resends, Moves, OwnStep, Current
<1>3. ASSUME NEW j \in DOMAIN jobs PROVE QueueInv'
  <2>1. /\ jobs'[j] = jobs[j] /\ tally'[j] = tally[j] /\ tally[j] \in Tally /\ ~Owns(d, j)'
        /\ tally'[j].sent >= tally[j].sent
        /\ jobs[j].status = "completed" => tally[j].sent > 0
        /\ drain'[d].at \notin {"prompt", "run", "fail", "complete"}
        /\ jobs[j].status = "pending" \/ jobs[j].next # "null" => jobs[j].attempts < MaxAttempts
    BY <1>3, Rows DEF QueueInv, SentFirst, CompletedIsSent, OwnStep, Owns, AttemptLeft, Tally
  <2> QED
    BY <1>1, <1>3, <2>1, LocalStep, Limits
<1> QED
  BY <1>2, <1>3

-----------------------------------------------------------------------------
(* The actions.                                                              *)

\* What the invariant says of the job a drain has.
LEMMA OwnFacts ==
  ASSUME QueueInv, NEW d \in Drain, drain[d].at # "idle", NEW j, j = Current(d).id
  PROVE  /\ j \in DOMAIN jobs /\ jobs[j] \in Job /\ tally[j] \in Tally
         /\ Owns(d, j) <=> drain[d].at \in OwnStep
         /\ Owns(d, j) => jobs[j].status \in Taken
         /\ jobs[j].status = "pending" \/ jobs[j].next # "null" => jobs[j].attempts < MaxAttempts
         /\ jobs[j].status = "completed" \/ drain[d].at = "complete" => tally[j].sent > 0
         /\ queue = "mirror" => tally[j].sent <= 1
         /\ queue # "mirror" =>
              /\ tally[j].sent <= 1 + tally[j].late
              /\ \/ drain[d].at \in {"prompt", "run"} \/ jobs[j].status \in {"pending", "failed"}
                 \/ drain[d].at = "fail" /\ Live(j)
                 => tally[j].sent <= tally[j].late
<1>1. j \in DOMAIN jobs /\ jobs[j] \in Job /\ tally[j] \in Tally
  BY AtHand, Rows DEF QueueInv
<1> QED
  BY <1>1 DEF QueueInv, TypeOK, Owns, OwnedTaken, Taken, AttemptLeft, SentFirst, CompletedIsSent,
     Resends, MayResend

LEMMA ClaimStep == ASSUME QueueInv, NEW d \in Drain, Claim(d) PROVE QueueInv'
<1> DEFINE j == Current(d).id
           row == [jobs[j] EXCEPT !.status = "processing"]
           at == IF queue = "reply" THEN "prompt" ELSE "run"
<1>1. CASE Claimable(j)
  <2>1. /\ Set(j, row) /\ Step(d, at) /\ drain[d].at = "claim"
        /\ UNCHANGED <<queue, tally, faults, stops>>
    BY <1>1 DEF Claim
  <2>2. PICK k : k = j
    OBVIOUS
  <2>3. /\ k \in DOMAIN jobs /\ jobs[k] \in Job /\ tally[k] \in Tally /\ ~Owns(d, k)
        /\ jobs[k].next # "null" => jobs[k].attempts < MaxAttempts
        /\ queue = "mirror" => tally[k].sent <= 1
        /\ queue # "mirror" => tally[k].sent <= tally[k].late
    BY <1>1, <2>1, <2>2, OwnFacts DEF Claimable, OwnStep
  <2>4. row \in Job
    BY <2>2, <2>3 DEF Job
  <2>5. /\ jobs' \in Seq(Job) /\ Len(jobs') = Len(jobs) /\ DOMAIN jobs' = DOMAIN jobs
        /\ jobs'[k] = row /\ \A i \in DOMAIN jobs \ {k} : jobs'[i] = jobs[i]
    BY <2>1, <2>2, <2>3, <2>4, SetRow DEF QueueInv
  <2>6. Moves(d) /\ drain'[d].at \in {"prompt", "run"} /\ drain'[d].todo = drain[d].todo
    BY <2>1, StepMoves DEF QueueInv, DrainStep
  <2>7. TypeOK'
    BY <2>1, <2>5, <2>6, MovesType DEF QueueInv, TypeOK
  <2>8. Current(d)'.id = k /\ Owns(d, k)'
    BY <2>2, <2>6 DEF Current, Owns, OwnStep
  <2>9. /\ jobs'[k].status = "processing" /\ jobs'[k].next = jobs[k].next
        /\ jobs'[k].attempts = jobs[k].attempts /\ jobs[k].status \notin Taken
    BY <1>1, <2>2, <2>3, <2>5 DEF Job, Claimable, Taken
  <2>10. /\ UNCHANGED queue /\ \A i \in DOMAIN jobs \ {k} : tally'[i] = tally[i]
         /\ tally'[k].sent >= tally[k].sent
         /\ IF queue = "mirror" THEN tally'[k].sent <= 1
            ELSE tally'[k].sent <= 1 + tally'[k].late /\ tally'[k].sent <= tally'[k].late
    BY <2>1, <2>3 DEF Tally
  <2>11. "processing" \in Taken /\ drain'[d].at # "complete"
    BY <2>6 DEF Taken
  <2> QED
    BY <2>3, <2>5, <2>6, <2>7, <2>8, <2>9, <2>10, <2>11, LocalStep, ZenonT(60)
<1>2. CASE ~Claimable(j)
  <2>1. Advance(d) /\ drain[d].at = "claim" /\ UNCHANGED <<queue, jobs, tally, faults, stops>>
    BY <1>2 DEF Claim
  <2> QED
    BY <2>1, AdvanceMoves, FreeStep, Limits DEF QueueInv, TypeOK, OwnStep
<1> QED
  BY <1>1, <1>2

\* A step of the drain that owns the job.
LEMMA OwnerStep ==
  ASSUME QueueInv, UNCHANGED queue, faults' \in 0..MaxFaults, stops' \in 0..MaxStops,
         NEW d \in Drain, Moves(d), NEW j, j = Current(d).id, drain[d].at \in OwnStep,
         drain'[d].at \in OwnStep => drain'[d].todo = drain[d].todo,
         UNCHANGED jobs \/ \E row \in Job : Set(j, row),
         UNCHANGED tally \/ \E t \in Tally : Count(j, t), tally'[j].sent >= tally[j].sent,
         jobs'[j].status = "pending" \/ jobs'[j].next # "null" => jobs'[j].attempts < MaxAttempts,
         drain'[d].at \in OwnStep => jobs'[j].status \in Taken,
         jobs'[j].status = "completed" \/ drain'[d].at = "complete" => tally'[j].sent > 0,
         \/ /\ jobs'[j] = jobs[j] /\ tally'[j] = tally[j]
            /\ drain'[d].at \notin {"prompt", "run", "fail"}
         \/ IF queue = "mirror" THEN tally'[j].sent <= 1
            ELSE /\ tally'[j].sent <= 1 + tally'[j].late
                 /\ \/ tally'[j].sent <= tally'[j].late
                    \/ /\ jobs'[j].status \notin {"pending", "failed"}
                       /\ drain'[d].at \notin {"prompt", "run"}
                       /\ drain'[d].at = "fail" => jobs'[j].status = "gone"
  PROVE  QueueInv'
<1>1. drain[d].at # "idle"
  BY DEF OwnStep
<1>2. j \in DOMAIN jobs /\ Owns(d, j) /\ tally[j] \in Tally /\ TypeOK
  BY <1>1, OwnFacts DEF QueueInv
<1>3. /\ jobs' \in Seq(Job) /\ Len(jobs') = Len(jobs) /\ DOMAIN jobs' = DOMAIN jobs
      /\ \A i \in DOMAIN jobs \ {j} : jobs'[i] = jobs[i]
  <2>1. CASE UNCHANGED jobs
    BY <1>2, <2>1 DEF TypeOK
  <2>2. ASSUME NEW row \in Job, Set(j, row)
        PROVE  /\ jobs' \in Seq(Job) /\ Len(jobs') = Len(jobs) /\ DOMAIN jobs' = DOMAIN jobs
               /\ \A i \in DOMAIN jobs \ {j} : jobs'[i] = jobs[i]
    BY <1>2, <2>2, SetRow
  <2> QED
    BY <2>1, <2>2
<1>4. /\ tally' \in Seq(Tally) /\ Len(tally') = Len(tally)
      /\ \A i \in DOMAIN jobs \ {j} : tally'[i] = tally[i]
  <2>1. CASE UNCHANGED tally
    BY <1>2, <2>1 DEF TypeOK
  <2>2. ASSUME NEW t \in Tally, Count(j, t)
        PROVE  /\ tally' \in Seq(Tally) /\ Len(tally') = Len(tally)
               /\ \A i \in DOMAIN jobs \ {j} : tally'[i] = tally[i]
    BY <1>2, <2>2, CountRow
  <2> QED
    BY <2>1, <2>2
<1>5. TypeOK'
  BY <1>2, <1>3, <1>4, MovesType
<1>6. /\ drain'[d].at \in OwnStep => Current(d)'.id = j
      /\ Owns(d, j)' => jobs'[j].status \in Taken
  BY DEF Current, Owns
<1> QED
  BY <1>2, <1>3, <1>4, <1>5, <1>6, LocalStep

LEMMA CompletedRow ==
  ASSUME TypeOK, NEW j \in DOMAIN jobs, Completed(j)
  PROVE  /\ \E row \in Job : Set(j, row)
         /\ jobs'[j].status = "completed" /\ jobs'[j].next = "null"
<1> DEFINE row == [jobs[j] EXCEPT !.status = "completed", !.next = "null"]
<1>1. row \in Job /\ row.status = "completed" /\ row.next = "null"
  BY Rows DEF Job
<1>2. Set(j, row)
  BY DEF Completed
<1>3. jobs'[j] = row
  BY <1>1, <1>2, SetRow
<1> QED
  BY <1>1, <1>2, <1>3

\* What a step of an attempt may rely on.
LEMMA AttemptFacts ==
  ASSUME QueueInv, NEW d \in Drain, drain[d].at # "idle", NEW j, j = Current(d).id
  PROVE  /\ j \in DOMAIN jobs /\ jobs[j] \in Job /\ tally[j] \in Tally /\ TypeOK
         /\ tally[j].sent \in Nat /\ tally[j].late \in Nat
         /\ drain[d].at \in OwnStep => jobs[j].status \in Taken
         /\ jobs[j].status = "pending" \/ jobs[j].next # "null" => jobs[j].attempts < MaxAttempts
         /\ jobs[j].status = "completed" \/ drain[d].at = "complete" => tally[j].sent > 0
         /\ queue = "mirror" => tally[j].sent <= 1
         /\ queue # "mirror" =>
              /\ tally[j].sent <= 1 + tally[j].late
              /\ drain[d].at \in {"prompt", "run"} \/ (drain[d].at = "fail" /\ Live(j))
                   => tally[j].sent <= tally[j].late
BY OwnFacts DEF QueueInv, Tally

LEMMA RunStep ==
  ASSUME QueueInv, NEW d \in Drain, Run(d) \/ RunTimesOut(d) PROVE QueueInv'
<1>1. PICK j : j = Current(d).id
  OBVIOUS
<1>2. drain[d].at = "run" /\ UNCHANGED <<queue, stops>>
  BY DEF Run, RunTimesOut
<1>3. /\ j \in DOMAIN jobs /\ tally[j] \in Tally /\ TypeOK
      /\ tally[j].sent \in Nat /\ tally[j].late \in Nat
      /\ jobs[j].status \in Taken
      /\ jobs[j].status = "pending" \/ jobs[j].next # "null" => jobs[j].attempts < MaxAttempts
      /\ queue = "mirror" => tally[j].sent <= 1
      /\ queue # "mirror" => tally[j].sent <= tally[j].late
  BY <1>1, <1>2, AttemptFacts DEF OwnStep
\* What is sent, and what the row says afterwards.
<1>4. PICK t \in Tally :
        /\ Count(j, t) /\ t.sent > 0 /\ t.sent >= tally[j].sent
        /\ queue = "mirror" => t.sent <= 1
        /\ queue # "mirror" => t.sent = tally[j].sent + 1
        /\ t.late = IF Run(d) THEN tally[j].late ELSE tally[j].late + 1
  <2>1. /\ Sent(j) \in Tally /\ Sent(j).late = tally[j].late
        /\ Sent(j).sent > 0 /\ Sent(j).sent >= tally[j].sent
        /\ queue = "mirror" => Sent(j).sent <= 1
        /\ queue # "mirror" => Sent(j).sent = tally[j].sent + 1
    BY <1>3, SentRow
  <2>2. CASE Run(d)
    BY <1>1, <2>1, <2>2 DEF Run, Effect
  <2>3. CASE RunTimesOut(d) /\ ~Run(d)
    BY <1>1, <2>1, <2>3, LateRow DEF RunTimesOut
  <2> QED
    BY <2>2, <2>3
<1>5. tally'[j] = t
  BY <1>3, <1>4, CountRow
<1>6. CASE Run(d) /\ queue = "reply"
  <2>1. Completed(j) /\ Advance(d) /\ UNCHANGED faults
    BY <1>1, <1>6 DEF Run
  <2>2. Moves(d) /\ drain'[d].at \notin OwnStep
    BY <1>2, <1>3, <2>1, AdvanceMoves DEF OwnStep
  <2>3. /\ \E row \in Job : Set(j, row)
        /\ jobs'[j].status = "completed" /\ jobs'[j].next = "null"
    BY <1>3, <2>1, CompletedRow
  <2>4. tally'[j].sent <= 1 + tally'[j].late
    BY <1>3, <1>4, <1>5, <1>6
  <2>5. stops' \in 0..MaxStops /\ faults' \in 0..MaxFaults
    BY <1>2, <1>3, <2>1 DEF TypeOK
  <2> QED
    BY <1>1, <1>2, <1>4, <1>5, <1>6, <2>2, <2>3, <2>4, <2>5, OwnerStep DEF OwnStep
<1>7. CASE Run(d) /\ queue # "reply"
  <2>1. Step(d, "complete") /\ UNCHANGED <<jobs, faults>>
    BY <1>1, <1>7 DEF Run
  <2>2. Moves(d) /\ drain'[d].at = "complete" /\ drain'[d].todo = drain[d].todo
    BY <1>2, <1>3, <2>1, StepMoves DEF DrainStep
  <2>3. IF queue = "mirror" THEN tally'[j].sent <= 1 ELSE tally'[j].sent <= 1 + tally'[j].late
    BY <1>3, <1>4, <1>5, <1>7
  <2>4. stops' \in 0..MaxStops /\ faults' \in 0..MaxFaults
    BY <1>2, <1>3, <2>1 DEF TypeOK
  <2>5. jobs'[j] = jobs[j]
    BY <2>1
  <2>6. jobs[j].status \notin {"pending", "failed"}
    BY <1>3 DEF Taken
  <2> QED
    BY <1>1, <1>2, <1>3, <1>4, <1>5, <2>1, <2>2, <2>3, <2>4, <2>5, <2>6, OwnerStep DEF OwnStep
<1>8. CASE RunTimesOut(d) /\ ~Run(d)
  <2>1. /\ Completed(j) \/ UNCHANGED jobs
        /\ Step(d, "fail") /\ faults' = faults + 1 /\ faults < MaxFaults
    BY <1>1, <1>8 DEF RunTimesOut, Fault
  <2>2. Moves(d) /\ drain'[d].at = "fail" /\ drain'[d].todo = drain[d].todo
    BY <1>2, <1>3, <2>1, StepMoves DEF DrainStep
  <2>3. IF queue = "mirror" THEN tally'[j].sent <= 1
        ELSE tally'[j].sent <= 1 + tally'[j].late /\ tally'[j].sent <= tally'[j].late
    BY <1>3, <1>4, <1>5, <1>8
  <2>4. stops' \in 0..MaxStops /\ faults' \in 0..MaxFaults
    BY <1>2, <1>3, <2>1, Limits DEF TypeOK
  <2>5. CASE Completed(j)
    <3>1. /\ \E row \in Job : Set(j, row)
          /\ jobs'[j].status = "completed" /\ jobs'[j].next = "null"
      BY <1>3, <2>5, CompletedRow
    <3> QED
      BY <1>1, <1>2, <1>4, <1>5, <2>2, <2>3, <2>4, <3>1, OwnerStep DEF OwnStep, Taken
  <2>6. CASE UNCHANGED jobs
    BY <1>1, <1>2, <1>3, <1>4, <1>5, <2>2, <2>3, <2>4, <2>6, OwnerStep DEF OwnStep
  <2> QED
    BY <2>1, <2>5, <2>6
<1> QED
  BY <1>6, <1>7, <1>8

\* The steps of an attempt that send nothing.
LEMMA AttemptStep ==
  ASSUME QueueInv, NEW d \in Drain,
         \/ Prompt(d) \/ RunFails(d) \/ Complete(d) \/ CompleteErrs(d)
         \/ Prune(d) \/ PruneErrs(d) \/ Fail(d)
  PROVE  QueueInv'
<1>1. PICK j : j = Current(d).id
  OBVIOUS
<1>2. /\ drain[d].at # "idle" /\ UNCHANGED <<queue, stops>>
      /\ faults' = faults \/ (faults < MaxFaults /\ faults' = faults + 1)
  BY DEF Prompt, RunFails, Complete, CompleteErrs, Prune, PruneErrs, Fail, Pruning, Deleting, Fault
<1>3. /\ j \in DOMAIN jobs /\ jobs[j] \in Job /\ tally[j] \in Tally /\ TypeOK
      /\ tally[j].sent \in Nat /\ tally[j].late \in Nat
      /\ drain[d].at \in OwnStep => jobs[j].status \in Taken
      /\ jobs[j].status = "pending" \/ jobs[j].next # "null" => jobs[j].attempts < MaxAttempts
      /\ jobs[j].status = "completed" \/ drain[d].at = "complete" => tally[j].sent > 0
      /\ queue = "mirror" => tally[j].sent <= 1
      /\ queue # "mirror" =>
           /\ tally[j].sent <= 1 + tally[j].late
           /\ drain[d].at \in {"prompt", "run"} \/ (drain[d].at = "fail" /\ Live(j))
                => tally[j].sent <= tally[j].late
  BY <1>1, <1>2, AttemptFacts
<1>4. stops' \in 0..MaxStops /\ faults' \in 0..MaxFaults
  BY <1>2, <1>3, Limits DEF TypeOK
<1>5. /\ UNCHANGED tally \/ \E t \in Tally : Count(j, t)
      /\ tally'[j].sent = tally[j].sent
      /\ tally'[j].late \in {tally[j].late, tally[j].late + 1}
      /\ CompleteErrs(d) \/ (PruneErrs(d) /\ drain[d].at \in {"prune", "delete"})
           => tally'[j].late = tally[j].late + 1
  <2> DEFINE prompted == [tally[j] EXCEPT !.prompts = @ + 1]
             recorded == [tally[j] EXCEPT !.prompts = 0]
  <2>1. /\ prompted \in Tally /\ recorded \in Tally
        /\ prompted.sent = tally[j].sent /\ prompted.late = tally[j].late
        /\ recorded.sent = tally[j].sent /\ recorded.late = tally[j].late
    BY <1>3 DEF Tally
  <2>2. ASSUME NEW t \in Tally, Count(j, t) PROVE tally'[j] = t
    BY <1>3, <2>2, CountRow
  <2> DEFINE late == OneLate(tally[j])
  <2>3. late \in Tally /\ late.sent = tally[j].sent /\ late.late = tally[j].late + 1
    BY <1>3, LateRow
  <2>4. CASE CompleteErrs(d) \/ (PruneErrs(d) /\ drain[d].at \in {"prune", "delete"})
    <3>1. Count(j, late)
      BY <1>1, <2>4 DEF CompleteErrs, PruneErrs
    <3> QED
      BY <2>2, <2>3, <3>1
  <2>5. CASE ~(CompleteErrs(d) \/ (PruneErrs(d) /\ drain[d].at \in {"prune", "delete"}))
    <3>1. UNCHANGED tally \/ Count(j, prompted) \/ Count(j, recorded)
      BY <1>1, <2>5 DEF Prompt, RunFails, Complete, Prune, PruneErrs, Fail
    <3> HIDE DEF prompted, recorded
    <3> QED
      BY <2>1, <2>2, <2>5, <3>1
  <2> QED
    BY <2>4, <2>5
<1> USE DEF DrainStep
\* On to another step with the job, or off it, its row as it was.
<1>6. ASSUME NEW at \in OwnStep \ {"prompt", "run", "fail"}, Step(d, at), UNCHANGED <<jobs, tally>>,
             drain[d].at \in OwnStep, at = "complete" => tally[j].sent > 0
      PROVE  QueueInv'
  <2>1. Moves(d) /\ drain'[d].at = at /\ drain'[d].todo = drain[d].todo
    BY <1>2, <1>3, <1>6, StepMoves DEF OwnStep
  <2>2. jobs'[j] = jobs[j] /\ tally'[j] = tally[j]
    BY <1>6
  <2> QED
    BY <1>1, <1>2, <1>3, <1>4, <1>5, <1>6, <2>1, <2>2, OwnerStep
\* Back to where it may be sent again, which is no more often than errors came after it.
<1>7. ASSUME NEW at \in {"run", "fail"}, Step(d, at), UNCHANGED jobs, drain[d].at \in OwnStep,
             queue # "mirror" =>
               \/ tally'[j].sent <= tally'[j].late
               \/ at = "fail" /\ jobs[j].status = "gone"
      PROVE  QueueInv'
  <2>1. Moves(d) /\ drain'[d].at = at /\ drain'[d].todo = drain[d].todo
    BY <1>2, <1>3, <1>7, StepMoves
  <2>2. /\ jobs'[j] = jobs[j] /\ (queue = "mirror" => tally'[j].sent <= 1)
        /\ queue # "mirror" => tally'[j].sent <= 1 + tally'[j].late
    BY <1>3, <1>5, <1>7
  <2>3. tally'[j].sent >= tally[j].sent
    BY <1>3, <1>5
  <2> QED
    BY <1>1, <1>2, <1>3, <1>4, <1>5, <1>7, <2>1, <2>2, <2>3, OwnerStep DEF OwnStep
<1>8. ASSUME Moves(d), drain'[d].at \notin OwnStep, UNCHANGED <<jobs, tally>> PROVE QueueInv'
  BY <1>2, <1>4, <1>8, FreeStep
<1>9. CASE RunFails(d) \/ Prompt(d)
  <2>1. /\ drain[d].at \in {"prompt", "run"} /\ UNCHANGED jobs
        /\ Step(d, "fail") \/ Step(d, "run")
    BY <1>9 DEF RunFails, Prompt
  <2>2. queue # "mirror" => tally'[j].sent <= tally'[j].late
    BY <1>3, <1>5, <2>1
  <2> QED
    BY <1>7, <2>1, <2>2 DEF OwnStep
\* The row of the job is completed, or the update fails after it.
<1>10. ASSUME Completed(j), drain[d].at = "complete", NEW at \in DrainStep,
              Moves(d), drain'[d].at = at, at \in OwnStep => drain'[d].todo = drain[d].todo,
              \/ at \in {"idle", "claim", "prune"}
              \/ at = "fail" /\ tally'[j].late = tally[j].late + 1
       PROVE  QueueInv'
  <2>1. /\ \E row \in Job : Set(j, row)
        /\ jobs'[j].status = "completed" /\ jobs'[j].next = "null"
    BY <1>3, <1>10, CompletedRow
  <2>2. IF queue = "mirror" THEN tally'[j].sent <= 1
        ELSE /\ tally'[j].sent <= 1 + tally'[j].late
             /\ at = "fail" => tally'[j].sent <= tally'[j].late
    BY <1>2, <1>3, <1>4, <1>5, <1>10
  <2>3. tally'[j].sent > 0 /\ tally'[j].sent >= tally[j].sent
    BY <1>3, <1>5, <1>10
  <2> QED
    BY <1>1, <1>2, <1>4, <1>5, <1>10, <2>1, <2>2, <2>3, OwnerStep DEF OwnStep, Taken
<1>11. CASE Complete(d)
  <2>1. drain[d].at = "complete"
    BY <1>11 DEF Complete
  <2>2. CASE ~Live(j)
    BY <1>1, <1>7, <1>11, <2>1, <2>2 DEF Complete, Live, OwnStep
  <2>3. CASE Live(j) /\ queue = "dispatch"
    <3>1. Completed(j) /\ Step(d, "prune")
      BY <1>1, <1>11, <2>3 DEF Complete
    <3>2. Moves(d) /\ drain'[d].at = "prune" /\ drain'[d].todo = drain[d].todo
      BY <1>2, <1>3, <3>1, StepMoves
    <3> QED
      BY <1>10, <2>1, <3>1, <3>2
  <2>4. CASE Live(j) /\ queue # "dispatch"
    <3>1. Completed(j) /\ Advance(d)
      BY <1>1, <1>11, <2>4 DEF Complete
    <3>2. Moves(d) /\ drain'[d].at \in {"idle", "claim"}
      BY <1>2, <1>3, <3>1, AdvanceMoves
    <3> QED
      BY <1>10, <2>1, <3>1, <3>2 DEF OwnStep
  <2> QED
    BY <2>2, <2>3, <2>4
<1>12. CASE CompleteErrs(d)
  <2>1. /\ drain[d].at = "complete" /\ Step(d, "fail")
        /\ UNCHANGED jobs \/ Completed(j)
    BY <1>1, <1>12 DEF CompleteErrs
  <2>2. /\ tally'[j].late = tally[j].late + 1
        /\ queue # "mirror" => tally'[j].sent <= tally'[j].late
    BY <1>3, <1>5, <1>12
  <2>3. Moves(d) /\ drain'[d].at = "fail" /\ drain'[d].todo = drain[d].todo
    BY <1>2, <1>3, <2>1, StepMoves
  <2>4. CASE Completed(j)
    BY <1>10, <2>1, <2>2, <2>3, <2>4
  <2> QED
    BY <1>7, <2>1, <2>2, <2>4 DEF OwnStep
\* A drain that reads what to prune, before or after it lets go of the job.
<1>13. CASE Prune(d)
  <2>1. UNCHANGED <<jobs, tally>> /\ Pruning(d)
    BY <1>13 DEF Prune
  <2>2. CASE Stale = {}
    BY <1>2, <1>3, <1>8, <1>13, <2>1, <2>2, AdvanceMoves DEF Prune, OwnStep
  <2>3. CASE Stale # {}
    <3> DEFINE at == IF drain[d].at = "prune" THEN "delete" ELSE "deleteFailed"
               row == [drain[d] EXCEPT !.stale = Stale, !.at = at]
    <3>1. drain[d] \in DrainState /\ Stale \in SUBSET DOMAIN jobs
      BY <1>2, <1>3, AtHand DEF Stale
    <3>2. row \in DrainState /\ row.todo = drain[d].todo /\ row.at = at
      BY <3>1 DEF DrainState
    <3>3. drain' = [drain EXCEPT ![d] = row]
      BY <1>3, <1>13, <2>3, <3>1 DEF Prune, TypeOK, DrainState
    <3>4. Moves(d) /\ drain'[d].todo = drain[d].todo /\ drain'[d].at = at
      BY <1>2, <1>3, <3>2, <3>3 DEF Moves, TypeOK
    <3>5. CASE drain[d].at = "prune"
      <4>1. jobs'[j] = jobs[j] /\ tally'[j] = tally[j]
        BY <2>1
      <4> QED
        BY <1>1, <1>2, <1>3, <1>4, <1>5, <2>1, <3>4, <3>5, <4>1, OwnerStep DEF OwnStep
    <3> QED
      BY <1>8, <2>1, <3>4, <3>5 DEF OwnStep
  <2> QED
    BY <2>2, <2>3
<1>14. CASE PruneErrs(d)
  <2>1. CASE drain[d].at \in {"prune", "delete"}
    <3>1. Step(d, "fail") /\ UNCHANGED jobs
      BY <1>14, <2>1 DEF PruneErrs
    <3>2. queue # "mirror" => tally'[j].sent <= tally'[j].late
      BY <1>3, <1>5, <1>14, <2>1
    <3> QED
      BY <1>7, <2>1, <3>1, <3>2 DEF OwnStep
  <2>2. CASE drain[d].at \notin {"prune", "delete"}
    BY <1>3, <1>8, <1>14, <2>2, IdleMoves DEF PruneErrs, OwnStep
  <2> QED
    BY <2>1, <2>2
<1>15. CASE Fail(d)
  <2>1. drain[d].at = "fail"
    BY <1>15 DEF Fail
  <2>2. CASE ~Live(j)
    BY <1>1, <1>3, <1>8, <1>15, <2>2, IdleMoves DEF Fail, OwnStep
  <2>3. CASE Live(j)
    <3> DEFINE terminal == Attempts(d) >= MaxAttempts
               row == [status |-> "failed", attempts |-> Attempts(d),
                       next |-> IF terminal THEN "null" ELSE "later"]
    <3>1. /\ Set(j, row)
          /\ IF terminal /\ queue = "dispatch" THEN Step(d, "pruneFailed") ELSE Advance(d)
      BY <1>1, <1>15, <2>3 DEF Fail
    <3>2. Attempts(d) \in 0..MaxAttempts
      BY <1>2, <1>3, AtHand, Limits DEF Attempts
    <3>3. row \in Job /\ (row.next # "null" => row.attempts < MaxAttempts)
      BY <3>2, Limits DEF Job
    <3>4. jobs'[j] = row
      BY <1>3, <3>1, <3>3, SetRow
    <3>5. Moves(d) /\ drain'[d].at \notin OwnStep
      <4>1. CASE terminal /\ queue = "dispatch"
        BY <1>2, <1>3, <3>1, <4>1, StepMoves DEF OwnStep
      <4>2. CASE ~(terminal /\ queue = "dispatch")
        BY <1>2, <1>3, <3>1, <4>2, AdvanceMoves DEF OwnStep
      <4> QED
        BY <4>1, <4>2
    <3>6. /\ tally'[j].sent >= tally[j].sent
          /\ IF queue = "mirror" THEN tally'[j].sent <= 1
             ELSE tally'[j].sent <= 1 + tally'[j].late /\ tally'[j].sent <= tally'[j].late
          /\ jobs[j].status = "completed" => tally'[j].sent > 0
      BY <1>3, <1>5, <2>1, <2>3
    <3>7. jobs'[j].status = "failed" /\ (jobs'[j].next # "null" => jobs'[j].attempts < MaxAttempts)
      BY <3>3, <3>4
    <3> HIDE DEF row
    <3> QED
      BY <1>1, <1>2, <1>4, <1>5, <2>1, <3>1, <3>3, <3>5, <3>6, <3>7, OwnerStep DEF OwnStep
  <2> QED
    BY <2>2, <2>3
<1> QED
  BY <1>9, <1>11, <1>12, <1>13, <1>14, <1>15

\* The SELECT: the numbers of the due jobs in order, with the attempts of each.
LEMMA BeginStep == ASSUME QueueInv, NEW d \in Drain, Begin(d) PROVE QueueInv'
<1> DEFINE T == [id: DOMAIN jobs, attempts: 0..MaxAttempts - 1]
<1>1. PICK ids \in [1..Cardinality(DueJobs) -> DueJobs] :
        drain' = [drain EXCEPT ![d] =
          [at |-> "claim", stale |-> {},
           todo |-> [i \in DOMAIN ids |-> [id |-> ids[i], attempts |-> jobs[ids[i]].attempts]]]]
  BY DEF Begin
<1> DEFINE n == Cardinality(DueJobs)
           todo == [i \in DOMAIN ids |-> [id |-> ids[i], attempts |-> jobs[ids[i]].attempts]]
           row == [at |-> "claim", stale |-> {}, todo |-> todo]
<1>2. /\ DOMAIN jobs = 1..Len(jobs) /\ Len(jobs) \in Nat
      /\ DueJobs \subseteq DOMAIN jobs /\ DueJobs # {}
  BY Rows DEF QueueInv, DueJobs, Begin
<1>3. n \in Nat /\ n # 0
  <2>1. IsFiniteSet(1..Len(jobs))
    BY <1>2, FS_Interval
  <2>2. IsFiniteSet(DueJobs)
    BY <1>2, <2>1, FS_Subset
  <2> QED
    BY <1>2, <2>2, FS_CardinalityType, FS_EmptySet
<1>4. \A j \in DueJobs : jobs[j].attempts \in 0..MaxAttempts - 1
  BY <1>2, Rows, Limits DEF QueueInv, AttemptLeft, DueJobs, Due, Job
<1>5. todo \in [1..n -> T]
  <2>1. DOMAIN ids = 1..n
    BY <1>1
  <2>2. \A i \in 1..n : [id |-> ids[i], attempts |-> jobs[ids[i]].attempts] \in T
    BY <1>1, <1>2, <1>4
  <2> QED
    BY <2>1, <2>2
<1>6. todo \in Seq(T) /\ Len(todo) = n
  <2> HIDE DEF todo, T, n
  <2> QED
    BY <1>3, <1>5, FunctionSeq
<1>7. todo # <<>>
  <2> HIDE DEF todo, T
  <2> QED
    BY <1>3, <1>6, EmptySeq
<1>8. row \in DrainState
  <2> HIDE DEF todo
  <2> QED
    BY <1>6 DEF DrainState, DrainStep
<1>9. Moves(d) /\ drain'[d].at = "claim"
  <2>1. drain' = [drain EXCEPT ![d] = row]
    BY <1>1
  <2> HIDE DEF todo
  <2> QED
    BY <1>7, <1>8, <2>1 DEF Moves, QueueInv, TypeOK
<1>10. /\ UNCHANGED <<queue, jobs, tally, faults, stops>>
       /\ faults' \in 0..MaxFaults /\ stops' \in 0..MaxStops
  BY Limits DEF Begin, QueueInv, TypeOK
<1>11. drain'[d].at \notin OwnStep
  BY <1>9 DEF OwnStep
<1> HIDE DEF todo
<1> QED
  BY <1>9, <1>10, <1>11, FreeStep

\* A new job has not been sent.
LEMMA EnqueueStep == ASSUME QueueInv, Enqueue PROVE QueueInv'
<1> DEFINE n == Len(jobs)
           row == [status |-> "pending", attempts |-> 0, next |-> "now"]
           zero == [prompts |-> 0, sent |-> 0, late |-> 0]
<1>1. /\ jobs \in Seq(Job) /\ n \in Nat /\ DOMAIN jobs = 1..n /\ DOMAIN tally = 1..n
      /\ tally \in Seq(Tally) /\ Len(tally) = n
  BY Rows DEF QueueInv, TypeOK
<1>2. row \in Job
  BY Limits DEF Job
<1>3. /\ jobs' \in Seq(Job) /\ Len(jobs') = n + 1 /\ jobs'[n + 1] = row
      /\ \A j \in 1..n : jobs'[j] = jobs[j]
  BY <1>1, <1>2, AppendProperties DEF Enqueue
<1>4. /\ tally' \in Seq(Tally) /\ Len(tally') = n + 1 /\ tally'[n + 1] = zero
      /\ \A j \in 1..n : tally'[j] = tally[j]
  <2>1. zero \in Tally
    BY DEF Tally
  <2> QED
    BY <1>1, <2>1, AppendProperties DEF Enqueue
<1>5. DOMAIN jobs' = 1..(n + 1) /\ \A j \in 1..(n + 1) : j \in 1..n \/ j = n + 1
  BY <1>1, <1>3
<1>6. UNCHANGED <<queue, drain, faults, stops>>
  BY DEF Enqueue
<1>7. DrainState \subseteq DrainState'
  <2> SUFFICES ASSUME NEW x \in DrainState PROVE x \in DrainState'
    OBVIOUS
  <2> DEFINE T == [id: DOMAIN jobs, attempts: 0..MaxAttempts - 1]
             U == [id: DOMAIN jobs', attempts: 0..MaxAttempts - 1]
  <2>1. T \subseteq U /\ DOMAIN jobs \subseteq DOMAIN jobs'
    BY <1>1, <1>5
  <2>2. x.todo \in Seq(T)
    BY DEF DrainState
  <2>3. x.todo \in Seq(U)
    <3> HIDE DEF T, U
    <3> QED
      BY <2>1, <2>2, SeqMonotonic
  <2> QED
    BY <2>1, <2>3 DEF DrainState
<1>8. TypeOK'
  BY <1>3, <1>4, <1>6, <1>7 DEF QueueInv, TypeOK
<1>9. \A d \in Drain : drain[d].at # "idle" => Current(d).id \in 1..n
  BY <1>1, AtHand DEF QueueInv
<1>10. \A d \in Drain : \A j \in 1..(n + 1) : Owns(d, j)' => j \in 1..n /\ Owns(d, j)
  BY <1>6, <1>9 DEF Owns, OwnStep, Current
<1>11. AttemptLeft' /\ OneOwner' /\ OwnedTaken'
  BY <1>1, <1>3, <1>5, <1>10, Limits DEF QueueInv, AttemptLeft, OneOwner, OwnedTaken
<1>12. SentFirst'
  <2>1. CompletedIsSent'
    BY <1>1, <1>3, <1>4, <1>5 DEF QueueInv, SentFirst, CompletedIsSent
  <2>2. \A d \in Drain : drain[d].at = "complete" => tally[Current(d).id].sent > 0
    BY DEF QueueInv, SentFirst
  <2>3. \A d \in Drain : Current(d)' = Current(d)
    BY <1>6 DEF Current
  <2> QED
    BY <1>4, <1>6, <1>9, <2>1, <2>2, <2>3 DEF SentFirst
<1>13. Resends'
  <2>1. \A j \in 1..n : MayResend(j)' => MayResend(j)
    BY <1>3, <1>6 DEF MayResend, Live, Current
  <2>2. zero.sent = 0 /\ zero.late = 0
    OBVIOUS
  <2> QED
    BY <1>1, <1>4, <1>5, <1>6, <2>1, <2>2 DEF QueueInv, Resends
<1> QED
  BY <1>8, <1>11, <1>12, <1>13 DEF QueueInv

LEMMA ElapseStep == ASSUME QueueInv, NEW j \in DOMAIN jobs, Elapse(j) PROVE QueueInv'
<1> DEFINE row == [jobs[j] EXCEPT !.next = "now"]
<1>1. /\ jobs[j] \in Job /\ jobs[j].next = "later"
      /\ UNCHANGED <<queue, tally, drain, faults, stops>>
      /\ row \in Job /\ row.status = jobs[j].status /\ row.attempts = jobs[j].attempts
  BY Rows DEF QueueInv, Elapse, Job
<1>2. Set(j, row)
  BY <1>1 DEF Elapse, Set, Job, QueueInv, TypeOK
<1>3. /\ jobs' \in Seq(Job) /\ Len(jobs') = Len(jobs) /\ DOMAIN jobs' = DOMAIN jobs
      /\ jobs'[j] = row /\ \A k \in DOMAIN jobs \ {j} : jobs'[k] = jobs[k]
  BY <1>1, <1>2, SetRow DEF QueueInv
<1>4. TypeOK'
  BY <1>1, <1>3 DEF QueueInv, TypeOK, DrainState
<1>5. \A k \in DOMAIN jobs :
        /\ jobs'[k].status \in {jobs[k].status, "gone"}
        /\ jobs'[k].attempts = jobs[k].attempts
        /\ jobs'[k].next # "null" => jobs[k].next # "null"
  BY <1>1, <1>3
<1> QED
  BY <1>1, <1>3, <1>4, <1>5, RowsStep

\* Rows are deleted by what was read in the step before, whatever has become of them.
LEMMA DeleteStep == ASSUME QueueInv, NEW d \in Drain, Delete(d) PROVE QueueInv'
<1>1. drain[d].at # "idle" /\ Advance(d) /\ UNCHANGED <<queue, tally, faults, stops>>
  BY DEF Delete, Deleting
<1>2. Len(jobs) \in Nat /\ DOMAIN jobs = 1..Len(jobs) /\ \A k \in DOMAIN jobs : jobs[k] \in Job
  BY Rows DEF QueueInv
<1>3. jobs' = [k \in DOMAIN jobs |->
                 IF k \in drain[d].stale THEN [jobs[k] EXCEPT !.status = "gone"] ELSE jobs[k]]
  BY DEF Delete
<1>4. /\ DOMAIN jobs' = DOMAIN jobs /\ jobs' \in [1..Len(jobs) -> Job]
      /\ \A k \in DOMAIN jobs :
           /\ jobs'[k].status \in {jobs[k].status, "gone"}
           /\ jobs'[k].attempts = jobs[k].attempts /\ jobs'[k].next = jobs[k].next
  BY <1>2, <1>3 DEF Job
<1>5. jobs' \in Seq(Job) /\ Len(jobs') = Len(jobs)
  BY <1>2, <1>4, FunctionSeq
<1>6. Moves(d) /\ drain'[d].at \in {"idle", "claim"}
  BY <1>1, AdvanceMoves DEF QueueInv
<1>7. TypeOK'
  BY <1>1, <1>5, <1>6, MovesType DEF QueueInv, TypeOK
<1>8. \A e \in Drain : drain'[e] = drain[e] \/ drain'[e].at \notin OwnStep
  BY <1>6 DEF Moves, OwnStep
<1> QED
  BY <1>1, <1>4, <1>7, <1>8, RowsStep

LEMMA StopStep == ASSUME QueueInv, NEW d \in Drain, Stop(d) PROVE QueueInv'
<1>1. /\ UNCHANGED <<queue, jobs, tally, faults>> /\ stops' \in 0..MaxStops
      /\ faults' \in 0..MaxFaults
  BY Limits DEF Stop, QueueInv, TypeOK
<1>2. Moves(d) /\ drain'[d].at \notin OwnStep
  BY IdleMoves DEF Stop, QueueInv, OwnStep
<1> QED
  BY <1>1, <1>2, FreeStep

LEMMA QueueStep == QueueInv /\ [Next]_vars => QueueInv'
<1> SUFFICES ASSUME QueueInv, [Next]_vars PROVE QueueInv'
  OBVIOUS
<1>1. ASSUME NEW d \in Drain, Work(d) PROVE QueueInv'
  BY <1>1, ClaimStep, RunStep, AttemptStep, DeleteStep DEF Work
<1>2. ASSUME NEW d \in Drain, Errs(d) PROVE QueueInv'
  BY <1>2, RunStep, AttemptStep, StopStep DEF Errs
<1>3. CASE UNCHANGED vars
  BY <1>3 DEF vars, QueueInv, TypeOK, DrainState, AttemptLeft, OneOwner, OwnedTaken, SentFirst,
     CompletedIsSent, Resends, MayResend, Owns, Current, Live
<1> QED
  BY <1>1, <1>2, <1>3, BeginStep, EnqueueStep, ElapseStep DEF Next

LEMMA QueueInit == Init => QueueInv
<1> SUFFICES ASSUME Init PROVE QueueInv
  OBVIOUS
<1>1. DOMAIN jobs = {} /\ jobs \in Seq(Job) /\ tally \in Seq(Tally) /\ Len(tally) = Len(jobs)
  BY EmptySeq DEF Init
<1>2. Idle \in DrainState
  BY EmptySeq DEF Idle, DrainState, DrainStep
<1>3. TypeOK
  BY <1>1, <1>2, Limits DEF Init, TypeOK, Idle
<1> QED
  BY <1>1, <1>3 DEF Init, QueueInv, AttemptLeft, OneOwner, OwnedTaken, SentFirst, CompletedIsSent,
     Resends, Idle

-----------------------------------------------------------------------------
(* Prompts.                                                                  *)

Waiting == {"pending", "failed"}

\* No prompt is added, and no drain comes to prompt for a job but by claiming it.
LEMMA PromptStays ==
  ASSUME Reprompts, DOMAIN jobs' = DOMAIN jobs,
         \A k \in DOMAIN jobs :
           /\ tally'[k].prompts = tally[k].prompts
           /\ jobs'[k].status \in Waiting => jobs[k].status \in Waiting,
         \A e \in Drain :
           drain'[e].at = "prompt" => \/ drain'[e] = drain[e]
                                      \/ jobs[Current(e)'.id].status \in Waiting
  PROVE  Reprompts'
<1>1. ASSUME NEW k \in DOMAIN jobs, MayPrompt(k)' PROVE MayPrompt(k)
  <2>1. \A e \in Drain : drain'[e] = drain[e] => Current(e)' = Current(e)
    BY DEF Current
  <2> QED
    BY <1>1, <2>1 DEF MayPrompt, Waiting
<1> QED
  BY <1>1 DEF Reprompts

\* What an attempt does to its row, to the counts and to its drain.
LEMMA RowStays ==
  ASSUME TypeOK, NEW j \in DOMAIN jobs, UNCHANGED jobs \/ Completed(j)
  PROVE  /\ DOMAIN jobs' = DOMAIN jobs
         /\ \A k \in DOMAIN jobs : jobs'[k].status \in Waiting => jobs[k].status \in Waiting
BY CompletedRow, SetRow DEF Waiting

LEMMA CountStays ==
  ASSUME TypeOK, NEW j \in DOMAIN jobs,
         \/ UNCHANGED tally
         \/ \E t \in {Sent(j), OneLate(Sent(j)), OneLate(tally[j])} : Count(j, t)
  PROVE  \A k \in DOMAIN jobs : tally'[k].prompts = tally[k].prompts
<1>1. tally[j] \in Tally
  BY Rows
<1>2. /\ Sent(j) \in Tally /\ Sent(j).prompts = tally[j].prompts
  BY <1>1 DEF Sent, Tally
<1>3. ASSUME NEW t \in Tally
      PROVE  OneLate(t) \in Tally /\ OneLate(t).prompts = t.prompts
  BY DEF OneLate, Tally
<1>4. \A t \in {Sent(j), OneLate(Sent(j)), OneLate(tally[j])} :
        t \in Tally /\ t.prompts = tally[j].prompts
  BY <1>1, <1>2, <1>3
<1> QED
  BY <1>4, CountRow

LEMMA DrainStays ==
  ASSUME TypeOK, NEW d \in Drain, drain[d].at # "idle",
         \/ Advance(d)
         \/ \E at \in DrainStep \ {"idle", "prompt"} : Step(d, at)
         \/ drain' = [drain EXCEPT ![d] = Idle]
  PROVE  \A e \in Drain : drain'[e].at = "prompt" => drain'[e] = drain[e]
<1>1. Moves(d) /\ drain'[d].at # "prompt"
  BY AdvanceMoves, StepMoves, IdleMoves
<1> QED
  BY <1>1 DEF Moves

LEMMA PromptStep == QueueInv /\ QueueInv' /\ Reprompts /\ [Next]_vars => Reprompts'
<1> SUFFICES ASSUME QueueInv, QueueInv', Reprompts, [Next]_vars PROVE Reprompts'
  OBVIOUS
<1> USE DEF DrainStep
<1>1. ASSUME NEW d \in Drain, Claim(d) PROVE Reprompts'
  <2>1. PICK j : j = Current(d).id
    OBVIOUS
  <2>2. drain[d].at = "claim" /\ UNCHANGED tally
    BY <1>1 DEF Claim
  <2>3. j \in DOMAIN jobs /\ TypeOK
    BY <2>1, <2>2, AttemptFacts
  <2>4. CASE Claimable(j)
    <3> DEFINE at == IF queue = "reply" THEN "prompt" ELSE "run"
    <3>1. Set(j, [jobs[j] EXCEPT !.status = "processing"]) /\ Step(d, at)
      BY <1>1, <2>1, <2>4 DEF Claim
    <3>2. Moves(d) /\ drain'[d].todo = drain[d].todo
      BY <2>2, <2>3, <3>1, StepMoves
    <3>3. jobs[j].status \in Waiting /\ Current(d)'.id = j
      BY <2>1, <2>4, <3>2 DEF Claimable, Waiting, Current
    <3>4. /\ DOMAIN jobs' = DOMAIN jobs
          /\ \A k \in DOMAIN jobs : jobs'[k].status \in Waiting => jobs[k].status \in Waiting
      BY <2>3, <3>1, <3>3 DEF Set, TypeOK
    <3>5. \A e \in Drain : drain'[e].at = "prompt" =>
            drain'[e] = drain[e] \/ jobs[Current(e)'.id].status \in Waiting
      BY <3>2, <3>3 DEF Moves
    <3> QED
      BY <2>2, <3>4, <3>5, PromptStays
  <2>5. CASE ~Claimable(j)
    <3>1. UNCHANGED jobs /\ Advance(d)
      BY <1>1, <2>1, <2>5 DEF Claim
    <3> QED
      BY <2>2, <2>3, <3>1, DrainStays, PromptStays
  <2> QED
    BY <2>4, <2>5
\* The drain that prompts is the only one that has the job.
<1>2. ASSUME NEW d \in Drain, Prompt(d) \/ RunFails(d) PROVE Reprompts'
  <2>1. PICK j : j = Current(d).id
    OBVIOUS
  <2> DEFINE prompted == [tally[j] EXCEPT !.prompts = @ + 1]
  <2>2. /\ drain[d].at \in {"prompt", "run"} /\ UNCHANGED jobs
        /\ Step(d, "run") \/ Step(d, "fail")
        /\ UNCHANGED tally \/ (drain[d].at = "prompt" /\ Count(j, prompted))
    BY <1>2, <2>1 DEF Prompt, RunFails
  <2>3. j \in DOMAIN jobs /\ TypeOK /\ tally[j] \in Tally
    BY <2>1, <2>2, AttemptFacts
  <2>4. \A e \in Drain : drain'[e].at = "prompt" => drain'[e] = drain[e]
    BY <2>2, <2>3, DrainStays
  <2>5. CASE UNCHANGED tally
    BY <2>2, <2>4, <2>5, PromptStays
  <2>6. CASE drain[d].at = "prompt" /\ Count(j, prompted)
    <3>1. /\ prompted \in Tally /\ prompted.prompts = tally[j].prompts + 1
          /\ tally[j].prompts \in Nat
      BY <2>3 DEF Tally
    <3>2. tally'[j] = prompted /\ \A k \in DOMAIN jobs \ {j} : tally'[k] = tally[k]
      BY <2>3, <2>6, <3>1, CountRow
    <3>3. Owns(d, j) /\ tally[j].prompts = 0
      BY <2>1, <2>3, <2>6 DEF Owns, OwnStep, Reprompts, MayPrompt
    <3>4. ~MayPrompt(j)'
      <4>1. jobs'[j].status \notin Waiting
        BY <2>2, <2>3, <3>3 DEF QueueInv, OwnedTaken, Waiting
      <4>2. ASSUME NEW e \in Drain, drain'[e].at = "prompt", Current(e)'.id = j PROVE FALSE
        <5>1. drain'[e] = drain[e] /\ Current(e) = Current(e)'
          BY <2>4, <4>2 DEF Current
        <5>2. Owns(e, j)
          BY <4>2, <5>1 DEF Owns, OwnStep
        <5>3. e = d
          BY <2>3, <3>3, <5>2 DEF QueueInv, OneOwner
        <5>4. Moves(d) /\ drain'[d].at # "prompt"
          BY <2>2, <2>3, StepMoves
        <5> QED
          BY <4>2, <5>3, <5>4
      <4> QED
        BY <4>1, <4>2 DEF MayPrompt, Waiting
    <3>5. ASSUME NEW k \in DOMAIN jobs, MayPrompt(k)', k # j PROVE MayPrompt(k)
      <4>1. \A e \in Drain : drain'[e] = drain[e] => Current(e)' = Current(e)
        BY DEF Current
      <4> QED
        BY <2>2, <2>4, <3>5, <4>1 DEF MayPrompt
    <3> HIDE DEF prompted
    <3> QED
      BY <2>2, <3>1, <3>2, <3>3, <3>4, <3>5 DEF Reprompts
  <2> QED
    BY <2>2, <2>5, <2>6
<1>3. ASSUME NEW d \in Drain,
             \/ Run(d) \/ RunTimesOut(d) \/ Complete(d) \/ CompleteErrs(d)
             \/ Prune(d) \/ PruneErrs(d) \/ Stop(d)
      PROVE  Reprompts'
  <2>1. PICK j : j = Current(d).id
    OBVIOUS
  <2>2. drain[d].at # "idle"
    BY <1>3 DEF Run, RunTimesOut, Complete, CompleteErrs, Prune, PruneErrs, Stop, Pruning, Deleting
  <2>3. j \in DOMAIN jobs /\ TypeOK
    BY <2>1, <2>2, AttemptFacts
  <2>4. UNCHANGED jobs \/ Completed(j)
    BY <1>3, <2>1 DEF Run, RunTimesOut, Complete, CompleteErrs, Prune, PruneErrs, Stop
  <2>5. \/ UNCHANGED tally
        \/ \E t \in {Sent(j), OneLate(Sent(j)), OneLate(tally[j])} : Count(j, t)
    BY <1>3, <2>1
       DEF Run, Effect, RunTimesOut, Complete, CompleteErrs, Prune, PruneErrs, Stop
  <2>6. \A e \in Drain : drain'[e].at = "prompt" => drain'[e] = drain[e]
    <3>1. CASE Prune(d) /\ Stale # {}
      <4>1. /\ \A e \in Drain \ {d} : drain'[e] = drain[e]
            /\ drain'[d].at \in {"delete", "deleteFailed"}
        BY <2>3, <3>1 DEF Prune, TypeOK, DrainState
      <4> QED
        BY <4>1
    <3>2. CASE ~(Prune(d) /\ Stale # {})
      <4>1. \/ Advance(d)
            \/ \E at \in DrainStep \ {"idle", "prompt"} : Step(d, at)
            \/ drain' = [drain EXCEPT ![d] = Idle]
        BY <1>3, <2>1, <3>2
           DEF Run, RunTimesOut, Complete, CompleteErrs, Prune, PruneErrs, Stop
      <4> QED
        BY <2>2, <2>3, <4>1, DrainStays
    <3> QED
      BY <3>1, <3>2
  <2> QED
    BY <2>3, <2>4, <2>5, <2>6, RowStays, CountStays, PromptStays
<1>4. ASSUME NEW d \in Drain, Delete(d) PROVE Reprompts'
  <2>1. drain[d].at # "idle" /\ Advance(d) /\ UNCHANGED tally /\ TypeOK
    BY <1>4 DEF Delete, Deleting, QueueInv
  <2>2. /\ DOMAIN jobs' = DOMAIN jobs
        /\ \A k \in DOMAIN jobs : jobs'[k].status \in Waiting => jobs[k].status \in Waiting
    BY <1>4, <2>1, Rows DEF Delete, Waiting, Job
  <2> QED
    BY <2>1, <2>2, DrainStays, PromptStays
\* The failed attempt is recorded before the job can be claimed again.
<1>5. ASSUME NEW d \in Drain, Fail(d) PROVE Reprompts'
  <2>1. PICK j : j = Current(d).id
    OBVIOUS
  <2>2. drain[d].at = "fail"
    BY <1>5 DEF Fail
  <2>3. j \in DOMAIN jobs /\ TypeOK /\ tally[j] \in Tally
    BY <2>1, <2>2, AttemptFacts
  <2>4. \/ Advance(d)
        \/ \E at \in DrainStep \ {"idle", "prompt"} : Step(d, at)
        \/ drain' = [drain EXCEPT ![d] = Idle]
    BY <1>5, <2>1 DEF Fail
  <2>5. \A e \in Drain : drain'[e].at = "prompt" => drain'[e] = drain[e]
    BY <2>2, <2>3, <2>4, DrainStays
  <2>6. CASE ~Live(j)
    <3>1. UNCHANGED <<jobs, tally>>
      BY <1>5, <2>1, <2>6 DEF Fail
    <3> QED
      BY <2>5, <3>1, PromptStays
  <2>7. CASE Live(j)
    <3> DEFINE recorded == [tally[j] EXCEPT !.prompts = 0]
    <3>1. /\ Count(j, recorded) /\ DOMAIN jobs' = DOMAIN jobs
          /\ \A k \in DOMAIN jobs \ {j} : jobs'[k] = jobs[k]
      BY <1>5, <2>1, <2>3, <2>7 DEF Fail, Set
    <3>2. /\ recorded \in Tally /\ recorded.prompts = 0
      BY <2>3 DEF Tally
    <3>3. tally'[j] = recorded /\ \A k \in DOMAIN jobs \ {j} : tally'[k] = tally[k]
      BY <2>3, <3>1, <3>2, CountRow
    <3>4. ASSUME NEW k \in DOMAIN jobs, MayPrompt(k)', k # j PROVE MayPrompt(k)
      <4>1. \A e \in Drain : drain'[e] = drain[e] => Current(e)' = Current(e)
        BY DEF Current
      <4> QED
        BY <2>5, <3>1, <3>4, <4>1 DEF MayPrompt
    <3> HIDE DEF recorded
    <3> QED
      BY <2>3, <3>1, <3>2, <3>3, <3>4 DEF Reprompts
  <2> QED
    BY <2>6, <2>7
<1>6. ASSUME NEW d \in Drain, Begin(d) PROVE Reprompts'
  <2>1. UNCHANGED <<jobs, tally>>
    BY <1>6 DEF Begin
  <2>2. \A e \in Drain : drain'[e].at = "prompt" => drain'[e] = drain[e]
    <3>1. TypeOK
      BY DEF QueueInv
    <3>2. \E todo : drain' = [drain EXCEPT ![d] = [at |-> "claim", stale |-> {}, todo |-> todo]]
      BY <1>6 DEF Begin
    <3> QED
      BY <3>1, <3>2 DEF TypeOK
  <2> QED
    BY <2>1, <2>2, PromptStays
<1>7. ASSUME NEW j \in DOMAIN jobs, Elapse(j) PROVE Reprompts'
  <2>1. UNCHANGED <<tally, drain>> /\ jobs[j] \in Job
    BY <1>7, Rows DEF Elapse, QueueInv
  <2>2. /\ DOMAIN jobs' = DOMAIN jobs
        /\ \A k \in DOMAIN jobs : jobs'[k].status \in Waiting => jobs[k].status \in Waiting
    BY <1>7, <2>1 DEF Elapse, Job
  <2> QED
    BY <2>1, <2>2, PromptStays
<1>8. CASE Enqueue
  <2> DEFINE n == Len(jobs)
             zero == [prompts |-> 0, sent |-> 0, late |-> 0]
  <2>1. /\ n \in Nat /\ DOMAIN jobs = 1..n /\ jobs \in Seq(Job)
        /\ tally \in Seq(Tally) /\ Len(tally) = n
    BY Rows DEF QueueInv, TypeOK
  <2>2. zero \in Tally /\ zero.prompts = 0
    BY DEF Tally
  <2>3. /\ DOMAIN jobs' = 1..(n + 1) /\ \A k \in 1..n : jobs'[k] = jobs[k]
        /\ tally'[n + 1] = zero /\ \A k \in 1..n : tally'[k] = tally[k]
    BY <1>8, <2>1, <2>2, AppendProperties DEF Enqueue
  <2>4. ASSUME NEW k \in 1..n, MayPrompt(k)' PROVE MayPrompt(k)
    BY <1>8, <2>3, <2>4 DEF MayPrompt, Current, Enqueue
  <2>5. \A k \in 1..(n + 1) : k \in 1..n \/ k = n + 1
    BY <2>1
  <2> HIDE DEF zero
  <2> QED
    BY <2>1, <2>2, <2>3, <2>4, <2>5 DEF Reprompts
<1>9. CASE UNCHANGED vars
  BY <1>9 DEF vars, Reprompts, MayPrompt, Current
<1> QED
  BY <1>1, <1>2, <1>3, <1>4, <1>5, <1>6, <1>7, <1>8, <1>9 DEF Next, Work, Errs

LEMMA PromptInit == Init => Reprompts
BY DEF Init, Reprompts

\* Rows, counts and drains stay well formed: no drain runs without a job, and the column
\* attempts stays within the limit, though not the number of times a job is run
\* (dispatch.ts:372-471, replies.ts:462-546).
THEOREM TypeCorrect == Spec => []TypeOK
<1>1. QueueInv => TypeOK
  BY DEF QueueInv
<1> QED
  BY <1>1, QueueInit, QueueStep, PTL DEF Spec

\* A job is completed only if its effect happened (dispatch.ts:376-402, replies.ts:385-420,
\* sync.ts:820-832), for any number of overlapping drains, errors and stops.
THEOREM CompletedJobsSent == Spec => []CompletedIsSent
<1>1. QueueInv => CompletedIsSent
  BY DEF QueueInv, SentFirst
<1> QED
  BY <1>1, QueueInit, QueueStep, PTL DEF Spec

\* What is done twice is a retry's: a POST or a message in a room is repeated only after an
\* error that came after it, the prompt of a reply only after a failed attempt, the message of
\* the mirror never (the claims: dispatch.ts:203-225, replies.ts:217-239, sync.ts:765-785).
THEOREM RepeatsAreRetries == Spec => []RepeatsNeedErrors
<1>1. QueueInv /\ Reprompts => RepeatsNeedErrors
  BY DEF QueueInv, Resends, Reprompts, RepeatsNeedErrors
<1> QED
  BY <1>1, QueueInit, QueueStep, PromptInit, PromptStep, PTL DEF Spec

=============================================================================
