------------------------------ MODULE SyncProofs ------------------------------
(***************************************************************************)
(* What DataCoreSync promises for any fleet, any writes and any losses:    *)
(* the hub holds only what a core accepted from its client, no core has a  *)
(* key twice, although pushes overtake each other and die, and when they   *)
(* make the hub show another writer's document, a conflict is queued or    *)
(* two of the hub's transactions met on it.                                *)
(***************************************************************************)
EXTENDS DataCoreSync, TLAPS

-----------------------------------------------------------------------------
(* The inductive invariant.                                                  *)

RowType ==
  [shape: {"row"}, event: EventType, cursor: [type: {"string"}, value: Nat]]

DocType == {None} \cup [event: EventType, at: Nat]
TxnType == [core: Core, event: EventType, begun: Nat, seen: DocType]

Types ==
  /\ log \in [Core -> Seq(EventType)]
  /\ docs \in [Core -> [Path -> DocType]]
  /\ jobs \in [Core -> SUBSET EventType]
  /\ signers \in [Core -> [Writer -> KeyRef \cup {None}]]
  /\ txns \subseteq TxnType
  /\ tasks \subseteq [kind: {"signer"}, request: RegistrationType]
                     \cup [kind: {"envelope", "event"}, request: EnvelopeType]
  /\ pull \in [Ship -> Seq(RowType)]
  /\ cursor \in [Ship -> Nat]
  /\ now \in Nat
  /\ losses \in 0..MaxLosses
  /\ pulls \in [Ship -> 0..MaxPulls]
  /\ met \in [Core -> SUBSET Path]

\* What travels to the hub was accepted where it comes from.
TasksAccepted ==
  \A task \in tasks :
    task.kind \in {"envelope", "event"} =>
      task.request \in Envelope /\ task.request \in Events(task.request.core)

HubAccepted == \A e \in Events(Hub) : e \in Events(e.core)

KeysOnce(c) == \A i, j \in DOMAIN log[c] : log[c][i].key = log[c][j].key => i = j

ClientKey == {e.key : e \in Envelope}

\* An event is a client's, or the merge of one.
EventsKnown(c) ==
  \A f \in Events(c) :
    f.key \in ClientKey \/ \E g \in Events(c) : g.key \in ClientKey /\ f.key = <<c, g.key>>

\* A job's event is there and not merged.
JobsOpen(c) ==
  \A e \in jobs[c] :
    /\ e \in Events(c) /\ e.key \in ClientKey
    /\ \A f \in Events(c) : f.key # <<c, e.key>>

CoreOK(c) == KeysOnce(c) /\ EventsKnown(c) /\ JobsOpen(c)

\* Nothing is newer than the clock.
Past ==
  /\ \A c \in Core, p \in Path : docs[c][p] # None => docs[c][p].at <= now
  /\ \A c \in Core : \A e \in Events(c) : e.at <= now
  /\ \A t \in txns : t.begun <= now /\ t.event.at <= now

\* An open transaction writes an event its core has not got and no other one writes: a
\* client's, taken from it or accepted elsewhere, or the merge of a job, newer than what it saw.
Client(t) ==
  /\ t.event \in Envelope
  /\ t.event.core = t.core \/ (t.core = Hub /\ t.event \in Events(t.event.core))
Merging(t) ==
  /\ t.event.op = "merge" /\ t.event.core = t.core
  /\ t.seen # None => t.seen.at <= t.event.at
  /\ \E e \in jobs[t.core] : t.event.key = <<t.core, e.key>> /\ t.event.path = e.path
TxnOK(t) ==
  /\ \A f \in Events(t.core) : f.key # t.event.key
  /\ \A u \in txns : u.core = t.core /\ u.event.key = t.event.key => u = t
  /\ Client(t) \/ Merging(t)

SyncInv ==
  /\ Types /\ TasksAccepted /\ HubAccepted /\ Past
  /\ \A c \in Core : CoreOK(c)
  /\ \A t \in txns : TxnOK(t)

-----------------------------------------------------------------------------
(* Logs.                                                                     *)

LEMMA Cores == Hub \in Core /\ Ship \subseteq Core /\ \A s \in Ship : s # Hub
BY CoreAssumption DEF Core

LEMMA EventsTyped ==
  ASSUME Types, NEW c \in Core
  PROVE  Events(c) \subseteq EventType
BY DEF Types, Events

LEMMA Envelopes ==
  ASSUME NEW e \in Envelope
  PROVE  /\ e \in EnvelopeType /\ e \in EventType /\ e.core \in Core /\ e.key \in ClientKey
         /\ e.path \in Path /\ e.at \in Nat /\ e.op # "merge"
BY RequestAssumption DEF EnvelopeType, EventType, ClientKey

\* One event more, with a new key.
LEMMA Logged ==
  ASSUME Types, NEW c \in Core, NEW e \in EventType, KeysOnce(c),
         log' = [log EXCEPT ![c] = Append(@, e)], \A f \in Events(c) : f.key # e.key
  PROVE  /\ log' \in [Core -> Seq(EventType)]
         /\ Events(c)' = Events(c) \cup {e}
         /\ \A d \in Core \ {c} : Events(d)' = Events(d) /\ log'[d] = log[d]
         /\ KeysOnce(c)'
<1>1. PICK q \in Seq(EventType) : q = log[c]
  BY DEF Types
<1>2. PICK n, a : n = Len(q) /\ a = Append(q, e)
  OBVIOUS
<1>3. /\ n \in Nat /\ DOMAIN q = 1..n /\ a \in Seq(EventType) /\ DOMAIN a = 1..(n + 1)
      /\ a[n + 1] = e /\ \A i \in 1..n : a[i] = q[i]
  BY <1>1, <1>2
<1>4. /\ log' \in [Core -> Seq(EventType)] /\ log'[c] = a
      /\ \A d \in Core \ {c} : log'[d] = log[d]
  BY <1>1, <1>2, <1>3 DEF Types
<1>5. \A i \in 1..(n + 1) : i \in 1..n \/ i = n + 1
  BY <1>3
<1>6. 1..n \subseteq 1..(n + 1) /\ n + 1 \in 1..(n + 1)
  BY <1>3
<1>7. Events(c)' = Events(c) \cup {e}
  <2>1. \A x : x \in Events(c) <=> \E i \in 1..n : x = q[i]
    BY <1>1, <1>3 DEF Events
  <2>2. \A x : x \in Events(c)' <=> \E i \in 1..(n + 1) : x = a[i]
    <3>1. Events(c)' = {log'[c][i] : i \in DOMAIN log'[c]}
      BY DEF Events
    <3>2. Events(c)' = {a[i] : i \in DOMAIN a}
      BY <1>4, <3>1
    <3>3. DOMAIN a = 1..(n + 1)
      BY <1>3
    <3> QED
      BY <3>2, <3>3
  <2>3. \A x : (\E i \in 1..(n + 1) : x = a[i]) <=> x = e \/ \E i \in 1..n : x = q[i]
    BY <1>3, <1>5, <1>6
  <2> QED
    BY <2>1, <2>2, <2>3
<1>8. \A i \in 1..n : q[i].key # e.key
  BY <1>1, <1>3 DEF Events
<1>9. \A i, j \in 1..n : q[i].key = q[j].key => i = j
  BY <1>1, <1>3 DEF KeysOnce
<1>10. \A i, j \in 1..(n + 1) : a[i].key = a[j].key => i = j
  BY <1>3, <1>5, <1>8, <1>9
<1>11. KeysOnce(c)'
  BY <1>3, <1>4, <1>10 DEF KeysOnce
<1>12. \A d \in Core \ {c} : Events(d)' = Events(d)
  BY <1>4 DEF Events
<1> QED
  BY <1>4, <1>7, <1>11, <1>12

\* A core whose log and jobs stay is as good as before.
LEMMA CoreSame ==
  ASSUME NEW c \in Core, CoreOK(c), log'[c] = log[c], jobs'[c] = jobs[c]
  PROVE  CoreOK(c)'
BY DEF CoreOK, KeysOnce, EventsKnown, JobsOpen, Events

\* Tasks that were accepted stay so.
LEMMA TasksStay ==
  ASSUME SyncInv, \A d \in Core : Events(d) \subseteq Events(d)',
         \A task \in tasks' :
           \/ task \in tasks \/ task.kind = "signer"
           \/ task.request \in Envelope /\ task.request \in Events(task.request.core)'
  PROVE  TasksAccepted'
<1> SUFFICES ASSUME NEW task \in tasks', task.kind \in {"envelope", "event"}
             PROVE  task.request \in Envelope /\ task.request \in Events(task.request.core)'
  BY DEF TasksAccepted
<1>1. CASE task \in tasks
  <2>1. PICK e \in Envelope : e = task.request /\ e \in Events(e.core)
    BY <1>1 DEF SyncInv, TasksAccepted
  <2>2. e.core \in Core
    BY Envelopes
  <2> QED
    BY <2>1, <2>2
<1> QED
  BY <1>1

-----------------------------------------------------------------------------
(* The two steps of a transaction.                                           *)

\* Another transaction begins: it has a key of its own and reads what its core shows.
LEMMA Begun ==
  ASSUME SyncInv, NEW c \in Core, NEW e \in EventType, Begin(c, e), UNCHANGED store,
         e.at <= now, \A f \in Events(c) : f.key # e.key,
         \/ /\ e \in Envelope /\ (e.core = c \/ (c = Hub /\ e \in Events(e.core)))
         \/ /\ e.op = "merge" /\ e.core = c /\ e.at = now
            /\ \E x \in jobs[c] : e.key = <<c, x.key>> /\ e.path = x.path
  PROVE  /\ txns' \subseteq TxnType /\ now' \in Nat /\ met' \in [Core -> SUBSET Path]
         /\ \A d \in Core : Events(d)' = Events(d)
         /\ HubAccepted' /\ Past'
         /\ \A d \in Core : CoreOK(d)'
         /\ \A t \in txns' : TxnOK(t)'
<1>1. log' = log /\ docs' = docs /\ jobs' = jobs
  BY DEF store
<1>2. e.path \in Path /\ e.at \in Nat /\ now \in Nat
  BY DEF EventType, SyncInv, Types
<1>3. PICK n : n = [core |-> c, event |-> e, seen |-> docs[c][e.path], begun |-> now + 1]
  OBVIOUS
<1>4. /\ txns' = txns \cup {n} /\ now' = now + 1
      /\ \A t \in txns : ~(t.core = c /\ t.event.key = e.key)
      /\ met' = met \/ met' = [met EXCEPT ![c] = @ \cup {e.path}]
  BY <1>3 DEF Begin, Underway
<1>5. /\ n.core = c /\ n.event = e /\ n.seen = docs[c][e.path] /\ n.begun = now + 1
      /\ n \in TxnType
  BY <1>2, <1>3 DEF TxnType, SyncInv, Types
<1>6. \A d : Events(d)' = Events(d)
  BY <1>1 DEF Events
<1>7. txns' \subseteq TxnType /\ now' \in Nat /\ met' \in [Core -> SUBSET Path]
  <2>1. txns' \subseteq TxnType
    BY <1>4, <1>5 DEF SyncInv, Types
  <2>2. now' \in Nat
    BY <1>2, <1>4
  <2>3. met' \in [Core -> SUBSET Path]
    <3>1. met \in [Core -> SUBSET Path] /\ met[c] \cup {e.path} \in SUBSET Path
      BY <1>2 DEF SyncInv, Types
    <3> QED
      BY <1>4, <3>1
  <2> QED
    BY <2>1, <2>2, <2>3
<1>8. HubAccepted' /\ \A d \in Core : CoreOK(d)'
  BY <1>1, <1>6, CoreSame DEF SyncInv, HubAccepted
<1>9. Past'
  <2>1. \A d \in Core, p \in Path :
          docs'[d][p] # None => docs'[d][p].at \in Nat /\ docs'[d][p].at <= now
    BY <1>1 DEF SyncInv, Past, Types, DocType
  <2>2. \A t \in txns : t.begun \in Nat /\ t.event.at \in Nat /\ t.begun <= now /\ t.event.at <= now
    BY DEF SyncInv, Past, Types, TxnType, EventType
  <2>3. \A d \in Core : \A f \in Events(d)' : f.at \in Nat /\ f.at <= now
    BY <1>6, EventsTyped DEF SyncInv, Past, EventType
  <2>4. now' = now + 1 /\ now \in Nat
    BY <1>2, <1>4
  <2>5. \A t \in txns' : t.begun <= now' /\ t.event.at <= now'
    BY <1>2, <1>4, <1>5, <2>2
  <2>6. /\ \A d \in Core, p \in Path : docs'[d][p] # None => docs'[d][p].at <= now'
        /\ \A d \in Core : \A f \in Events(d)' : f.at <= now'
    BY <2>1, <2>3, <2>4
  <2> QED
    BY <2>5, <2>6 DEF Past
<1>10. \A t \in txns' : Client(t)' \/ Merging(t)'
  <2>1. ASSUME NEW t \in txns PROVE Client(t)' \/ Merging(t)'
    <3>1. Client(t) \/ Merging(t)
      BY DEF SyncInv, TxnOK
    <3> QED
      BY <1>1, <1>6, <3>1 DEF Client, Merging
  <2>2. CASE e \in Envelope /\ (e.core = c \/ (c = Hub /\ e \in Events(e.core)))
    <3>1. Client(n)'
      BY <1>5, <1>6, <2>2 DEF Client
    <3> QED
      BY <1>4, <2>1, <3>1
  <2>3. CASE /\ e.op = "merge" /\ e.core = c /\ e.at = now
             /\ \E x \in jobs[c] : e.key = <<c, x.key>> /\ e.path = x.path
    <3>1. n.seen # None => n.seen.at <= e.at
      BY <1>2, <1>5, <2>3 DEF SyncInv, Past
    <3>2. Merging(n)'
      BY <1>1, <1>5, <2>3, <3>1 DEF Merging
    <3> QED
      BY <1>4, <2>1, <3>2
  <2> QED
    BY <2>2, <2>3
<1>11. \A t \in txns' : \A f \in Events(t.core)' : f.key # t.event.key
  BY <1>4, <1>5, <1>6 DEF SyncInv, TxnOK
<1>12. \A t, u \in txns' : u.core = t.core /\ u.event.key = t.event.key => u = t
  BY <1>4, <1>5 DEF SyncInv, TxnOK
<1>13. \A t \in txns' : TxnOK(t)'
  BY <1>10, <1>11, <1>12 DEF TxnOK
<1> QED
  BY <1>6, <1>7, <1>8, <1>9, <1>13

\* What a commit does to the jobs of its core: the one it merges is done, a conflict is new.
LEMMA JobsApplied ==
  ASSUME SyncInv, NEW t \in txns, Apply(t)
  PROVE  /\ jobs' \in [Core -> SUBSET EventType]
         /\ \A d \in Core : d # t.core => jobs'[d] = jobs[d]
         /\ \A x \in jobs'[t.core] :
              \/ x \in jobs[t.core] /\ t.event.key # <<t.core, x.key>>
              \/ x = t.event /\ t.event \in Envelope /\ Conflict(t)
         /\ \A x \in jobs[t.core] : t.event.key # <<t.core, x.key>> => x \in jobs'[t.core]
         /\ Conflict(t) => t.event \in jobs'[t.core]
<1>1. t \in TxnType /\ t.core \in Core /\ t.event \in EventType
  BY DEF SyncInv, Types, TxnType
<1>2. jobs' = [jobs EXCEPT ![t.core] =
        {e \in @ : MergeKey(t.core, e) # t.event.key}
        \cup IF Conflict(t) THEN {t.event} ELSE {}]
  BY DEF Apply
<1>3. /\ jobs'[t.core] = {e \in jobs[t.core] : <<t.core, e.key>> # t.event.key}
                         \cup IF Conflict(t) THEN {t.event} ELSE {}
      /\ jobs' \in [Core -> SUBSET EventType]
      /\ \A d \in Core : d # t.core => jobs'[d] = jobs[d]
  BY <1>1, <1>2 DEF SyncInv, Types, MergeKey
<1>4. Conflict(t) => t.event \in Envelope
  <2>1. Client(t) \/ Merging(t)
    BY DEF SyncInv, TxnOK
  <2>2. ASSUME Merging(t), Conflict(t) PROVE FALSE
    <3>1. t.seen # None /\ t.seen.at > t.event.at /\ t.seen.at <= t.event.at
      BY <2>2 DEF Merging, Conflict
    <3>2. t.seen.at \in Nat /\ t.event.at \in Nat
      BY <1>1, <3>1 DEF TxnType, DocType, EventType
    <3> QED
      BY <3>1, <3>2
  <2> QED
    BY <2>1, <2>2 DEF Client
<1> QED
  BY <1>3, <1>4

\* It commits.
LEMMA Committed ==
  ASSUME SyncInv, NEW t \in txns, Apply(t), UNCHANGED <<now, met>>
  PROVE  /\ log' \in [Core -> Seq(EventType)]
         /\ docs' \in [Core -> [Path -> DocType]]
         /\ jobs' \in [Core -> SUBSET EventType]
         /\ txns' \subseteq TxnType
         /\ HubAccepted' /\ Past' /\ \A d \in Core : CoreOK(d)'
         /\ \A u \in txns' : TxnOK(u)'
         /\ \A d \in Core : Events(d) \subseteq Events(d)'
         /\ t.event \in Events(t.core)'
<1>1. PICK c \in Core, e \in EventType :
        /\ c = t.core /\ e = t.event /\ t \in TxnType
        /\ t.begun \in Nat /\ t.begun <= now /\ e.path \in Path
  BY DEF SyncInv, Types, TxnType, Past, EventType
<1>2. /\ log' = [log EXCEPT ![c] = Append(@, e)] /\ txns' = txns \ {t}
      /\ docs' = [docs EXCEPT ![c][e.path] = [event |-> e, at |-> t.begun]]
  BY <1>1 DEF Apply
<1>3. TxnOK(t) /\ (Client(t) \/ Merging(t))
  BY DEF SyncInv, TxnOK
<1>4. \A f \in Events(c) : f.key # e.key
  BY <1>1, <1>3 DEF TxnOK
<1>5. /\ log' \in [Core -> Seq(EventType)]
      /\ Events(c)' = Events(c) \cup {e}
      /\ \A d \in Core \ {c} : Events(d)' = Events(d) /\ log'[d] = log[d]
      /\ KeysOnce(c)'
  BY <1>1, <1>2, <1>4, Logged DEF SyncInv, CoreOK
<1>6. /\ docs' \in [Core -> [Path -> DocType]] /\ txns' \subseteq TxnType
      /\ \A d \in Core, p \in Path :
           docs'[d][p] = docs[d][p] \/ docs'[d][p] = [event |-> e, at |-> t.begun]
  BY <1>1, <1>2 DEF SyncInv, Types, DocType
<1>7. /\ jobs' \in [Core -> SUBSET EventType]
      /\ \A d \in Core : d # c => jobs'[d] = jobs[d]
      /\ \A x \in jobs'[c] :
           (x \in jobs[c] /\ e.key # <<c, x.key>>) \/ (x = e /\ e \in Envelope)
      /\ \A x \in jobs[c] : e.key # <<c, x.key>> => x \in jobs'[c]
  BY <1>1, JobsApplied
<1>8. \A d \in Core : Events(d) \subseteq Events(d)'
  BY <1>5
<1>9. EventsKnown(c)'
  <2>1. e.key \in ClientKey \/ \E g \in Events(c) : g.key \in ClientKey /\ e.key = <<c, g.key>>
    <3>1. CASE Client(t)
      BY <1>1, <3>1, Envelopes DEF Client
    <3>2. CASE Merging(t)
      BY <1>1, <3>2 DEF Merging, SyncInv, CoreOK, JobsOpen
    <3> QED
      BY <1>3, <3>1, <3>2
  <2> QED
    BY <1>5, <2>1 DEF SyncInv, CoreOK, EventsKnown
<1>10. e \in Envelope =>
        /\ e.key \in ClientKey /\ \A x : e.key # <<c, x>> \/ x \notin ClientKey
        /\ \A f \in Events(c) : f.key # <<c, e.key>>
  <2> SUFFICES ASSUME e \in Envelope
               PROVE  /\ e.key \in ClientKey /\ \A x : e.key # <<c, x>> \/ x \notin ClientKey
                      /\ \A f \in Events(c) : f.key # <<c, e.key>>
    OBVIOUS
  <2>1. e.key \in ClientKey
    BY DEF ClientKey
  <2>2. \A x, y \in ClientKey : x # <<c, y>>
    BY KeyAssumption DEF ClientKey
  <2>3. ASSUME NEW f \in Events(c), f.key = <<c, e.key>> PROVE FALSE
    <3>1. f.key \notin ClientKey
      BY <2>1, <2>2, <2>3
    <3>2. PICK g \in Events(c) : g.key \in ClientKey /\ f.key = <<c, g.key>>
      BY <3>1 DEF SyncInv, CoreOK, EventsKnown
    <3>3. g.key = e.key
      BY <2>3, <3>2
    <3> QED
      BY <1>4, <3>3
  <2> QED
    BY <2>1, <2>2, <2>3
<1>11. JobsOpen(c)'
  <2>1. ASSUME NEW x \in jobs'[c]
        PROVE  /\ x \in Events(c)' /\ x.key \in ClientKey
               /\ \A f \in Events(c)' : f.key # <<c, x.key>>
    <3>1. CASE x \in jobs[c] /\ e.key # <<c, x.key>>
      <4>1. /\ x \in Events(c) /\ x.key \in ClientKey
            /\ \A f \in Events(c) : f.key # <<c, x.key>>
        BY <3>1 DEF SyncInv, CoreOK, JobsOpen
      <4> QED
        BY <1>5, <3>1, <4>1
    <3>2. CASE x = e /\ e \in Envelope
      BY <1>5, <1>10, <3>2
    <3> QED
      BY <1>7, <2>1, <3>1, <3>2
  <2> QED
    BY <2>1 DEF JobsOpen
<1>12. \A d \in Core : CoreOK(d)'
  BY <1>5, <1>7, <1>9, <1>11, CoreSame DEF SyncInv, CoreOK
<1>13. Past'
  <2>1. \A p \in Path, d \in Core : docs'[d][p] # None => docs'[d][p].at <= now'
    <3>1. ASSUME NEW p \in Path, NEW d \in Core, docs'[d][p] # None
          PROVE  docs'[d][p].at <= now
      BY <1>1, <1>6, <3>1 DEF SyncInv, Past
    <3> QED
      BY <3>1
  <2>2. \A d \in Core : \A f \in Events(d)' : f.at <= now
    BY <1>1, <1>5 DEF SyncInv, Past
  <2>3. \A u \in txns' : u.begun <= now /\ u.event.at <= now
    BY <1>2 DEF SyncInv, Past
  <2> QED
    BY <2>1, <2>2, <2>3 DEF Past
<1>14. HubAccepted'
  <2>1. ASSUME NEW f \in Events(Hub)' PROVE f \in Events(f.core)'
    <3>1. CASE f \in Events(Hub)
      <4>1. f \in Events(f.core) /\ f.core \in Core
        BY <3>1, EventsTyped, Cores DEF SyncInv, HubAccepted, EventType
      <4> QED
        BY <1>8, <4>1
    <3>2. CASE f = e
      <4>1. e.core \in Core
        BY <1>1 DEF EventType
      <4>2. e.core = c \/ e \in Events(e.core)
        BY <1>1, <1>3 DEF Client, Merging
      <4> QED
        BY <1>5, <1>8, <3>2, <4>1, <4>2
    <3> QED
      BY <1>5, <2>1, <3>1, <3>2, Cores
  <2> QED
    BY <2>1 DEF HubAccepted
<1>15. \A u \in txns' : TxnOK(u)'
  <2> SUFFICES ASSUME NEW u \in txns' PROVE TxnOK(u)'
    OBVIOUS
  <2>1. u \in txns /\ u # t /\ TxnOK(u) /\ u \in TxnType /\ u.core \in Core
    BY <1>2 DEF SyncInv, Types, TxnType
  <2>2. u.core = c => u.event.key # e.key
    BY <1>1, <2>1 DEF TxnOK
  <2>3. \A f \in Events(u.core)' : f.key # u.event.key
    BY <1>5, <2>1, <2>2 DEF TxnOK
  <2>4. \A v \in txns' : v.core = u.core /\ v.event.key = u.event.key => v = u
    BY <1>2, <2>1 DEF TxnOK
  <2>5. Client(u) => Client(u)'
    BY <1>8, Envelopes DEF Client
  <2>6. Merging(u) => Merging(u)'
    <3> SUFFICES ASSUME Merging(u) PROVE Merging(u)'
      OBVIOUS
    <3>1. PICK x \in jobs[u.core] : u.event.key = <<u.core, x.key>> /\ u.event.path = x.path
      BY DEF Merging
    <3>2. x \in jobs'[u.core]
      BY <1>7, <2>1, <2>2, <3>1
    <3> QED
      BY <3>1, <3>2 DEF Merging
  <2> QED
    BY <2>1, <2>3, <2>4, <2>5, <2>6 DEF TxnOK
<1> QED
  BY <1>1, <1>5, <1>6, <1>7, <1>8, <1>12, <1>13, <1>14, <1>15

-----------------------------------------------------------------------------
(* Steps.                                                                    *)

\* Steps that leave the cores' logs, documents and jobs alone and begin no transaction.
LEMMA StoreSame ==
  ASSUME SyncInv, UNCHANGED <<store, now, met>>, txns' \subseteq txns,
         signers' \in [Core -> [Writer -> KeyRef \cup {None}]],
         tasks' \subseteq [kind: {"signer"}, request: RegistrationType]
                          \cup [kind: {"envelope", "event"}, request: EnvelopeType],
         pull' \in [Ship -> Seq(RowType)], cursor' \in [Ship -> Nat],
         losses' \in 0..MaxLosses, pulls' \in [Ship -> 0..MaxPulls],
         \A task \in tasks' :
           \/ task \in tasks \/ task.kind = "signer"
           \/ task.request \in Envelope /\ task.request \in Events(task.request.core)
  PROVE  SyncInv'
<1>1. log' = log /\ docs' = docs /\ jobs' = jobs /\ now' = now /\ met' = met
  BY DEF store
<1>2. \A d : Events(d)' = Events(d)
  BY <1>1 DEF Events
<1>3. Types'
  BY <1>1 DEF SyncInv, Types
<1>4. TasksAccepted'
  BY <1>2, TasksStay
<1>5. HubAccepted' /\ Past' /\ \A d \in Core : CoreOK(d)'
  BY <1>1, <1>2, CoreSame DEF SyncInv, HubAccepted, Past
<1>6. \A t \in txns' : TxnOK(t)'
  BY <1>1, <1>2 DEF SyncInv, TxnOK, Client, Merging
<1> QED
  BY <1>3, <1>4, <1>5, <1>6 DEF SyncInv

LEMMA RegisterStep ==
  ASSUME SyncInv, NEW r \in Registration, RegisterSigner(r) PROVE SyncInv'
<1>1. r \in RegistrationType /\ r.core \in Core /\ r.writer \in Writer /\ r.keyRef \in KeyRef
  BY RequestAssumption DEF RegistrationType
<1>2. /\ signers' = [signers EXCEPT ![r.core][r.writer] = r.keyRef]
      /\ tasks' = tasks \cup Push("signer", r) /\ UNCHANGED <<store, now, met, txns>>
      /\ UNCHANGED <<pull, cursor, losses, pulls>>
  BY DEF RegisterSigner, database
<1>3. signers' \in [Core -> [Writer -> KeyRef \cup {None}]]
  BY <1>1, <1>2 DEF SyncInv, Types
<1>4. \A task \in Push("signer", r) :
        task.kind = "signer" /\ task \in [kind: {"signer"}, request: RegistrationType]
  BY <1>1 DEF Push
<1> QED
  BY <1>2, <1>3, <1>4, StoreSame DEF SyncInv, Types

LEMMA WriteStep == ASSUME SyncInv, NEW e \in Envelope, Write(e) PROVE SyncInv'
<1>1. /\ ~Duplicate(e.core, e) /\ Begin(e.core, e) /\ e.at <= now
      /\ UNCHANGED <<store, signers, tasks, pull, cursor, losses, pulls>>
  BY DEF Write
<1>2. e \in EventType /\ e.core \in Core /\ \A f \in Events(e.core) : f.key # e.key
  BY <1>1, Envelopes DEF Duplicate
<1>3. /\ txns' \subseteq TxnType /\ now' \in Nat /\ met' \in [Core -> SUBSET Path]
      /\ \A d \in Core : Events(d)' = Events(d)
      /\ HubAccepted' /\ Past' /\ \A d \in Core : CoreOK(d)'
      /\ \A t \in txns' : TxnOK(t)'
  BY <1>1, <1>2, Begun
<1>4. Types'
  BY <1>1, <1>3 DEF SyncInv, Types, store
<1>5. TasksAccepted'
  BY <1>1, <1>3, TasksStay
<1> QED
  BY <1>3, <1>4, <1>5 DEF SyncInv

LEMMA CommitStep == ASSUME SyncInv, NEW t \in txns, Commit(t) PROVE SyncInv'
<1>1. /\ Apply(t) /\ tasks' = tasks \cup Pushed(t)
      /\ UNCHANGED <<signers, pull, cursor, now, losses, pulls, met>>
  BY DEF Commit
<1>2. /\ log' \in [Core -> Seq(EventType)]
      /\ docs' \in [Core -> [Path -> DocType]]
      /\ jobs' \in [Core -> SUBSET EventType] /\ txns' \subseteq TxnType
      /\ HubAccepted' /\ Past' /\ \A d \in Core : CoreOK(d)'
      /\ \A u \in txns' : TxnOK(u)'
      /\ \A d \in Core : Events(d) \subseteq Events(d)'
      /\ t.event \in Events(t.core)'
  BY <1>1, Committed
<1>3. \A task \in Pushed(t) :
        /\ task.kind = "envelope" /\ task.request = t.event /\ t.event.core = t.core
        /\ t.event \in Envelope
  <2>1. Client(t) \/ Merging(t)
    BY DEF SyncInv, TxnOK
  <2> QED
    BY <2>1 DEF Pushed, Push, Client, Merging
<1>4. \A task \in Pushed(t) : task \in [kind: {"envelope", "event"}, request: EnvelopeType]
  <2>1. Pushed(t) \subseteq {[kind |-> "envelope", request |-> t.event]}
    BY DEF Pushed, Push
  <2> QED
    BY <1>3, <2>1, Envelopes
<1>5. Types'
  BY <1>1, <1>2, <1>4 DEF SyncInv, Types
<1>6. TasksAccepted'
  BY <1>1, <1>2, <1>3, TasksStay
<1> QED
  BY <1>2, <1>5, <1>6 DEF SyncInv

LEMMA RollbackStep == ASSUME SyncInv, NEW t \in txns, Rollback(t) PROVE SyncInv'
<1>1. /\ UNCHANGED <<store, now, met>> /\ txns' \subseteq txns /\ Lose
      /\ UNCHANGED <<signers, tasks, pull, cursor, pulls>>
  BY DEF Rollback
<1>2. losses' \in 0..MaxLosses
  BY <1>1, BoundAssumption DEF Lose, SyncInv, Types
<1> QED
  BY <1>1, <1>2, StoreSame DEF SyncInv, Types

LEMMA PushSignerStep == ASSUME SyncInv, NEW task \in tasks, PushSigner(task) PROVE SyncInv'
<1>1. /\ task.kind \in {"signer", "envelope"} /\ tasks' = (tasks \ {task}) \cup Following(task)
      /\ UNCHANGED <<store, now, met, txns>> /\ UNCHANGED <<pull, cursor, pulls>>
      /\ \/ /\ signers' = [signers EXCEPT ![Hub][task.request.writer] = task.request.keyRef]
            /\ UNCHANGED losses
         \/ Lose /\ UNCHANGED signers
  BY DEF PushSigner, database
<1>2. /\ task.request \in RegistrationType \/ task.request \in EnvelopeType
      /\ task.kind = "envelope" => task.request \in EnvelopeType
  BY DEF SyncInv, Types
<1>3. task.request.writer \in Writer /\ task.request.keyRef \in KeyRef
  BY <1>2 DEF RegistrationType, EnvelopeType
<1>4. signers' \in [Core -> [Writer -> KeyRef \cup {None}]] /\ losses' \in 0..MaxLosses
  <2>1. CASE Lose /\ UNCHANGED signers
    BY <2>1, BoundAssumption DEF SyncInv, Types, Lose
  <2>2. CASE /\ signers' = [signers EXCEPT ![Hub][task.request.writer] = task.request.keyRef]
             /\ UNCHANGED losses
    BY <1>3, <2>2, Cores DEF SyncInv, Types
  <2> QED
    BY <1>1, <2>1, <2>2
<1>5. \A f \in Following(task) :
        /\ f \in [kind: {"envelope", "event"}, request: EnvelopeType]
        /\ f.request \in Envelope /\ f.request \in Events(f.request.core)
  BY <1>1, <1>2 DEF Following, SyncInv, TasksAccepted
<1> QED
  BY <1>1, <1>4, <1>5, StoreSame DEF SyncInv, Types

LEMMA PushEventStep == ASSUME SyncInv, NEW task \in tasks, PushEvent(task) PROVE SyncInv'
<1>1. /\ task.kind = "event" /\ tasks' = tasks \ {task}
      /\ UNCHANGED <<store, signers, pull, cursor, pulls>>
  BY DEF PushEvent
<1>2. PICK e \in Envelope : e = task.request /\ e \in Events(e.core)
  BY <1>1 DEF SyncInv, TasksAccepted
<1>3. CASE Accepted(e) /\ Begin(Hub, e) /\ UNCHANGED losses
  <2>1. \A f \in Events(Hub) : f.key # e.key
    BY <1>3 DEF Accepted, Duplicate
  <2>2. e \in EventType /\ e.at <= now
    <3>1. PICK c \in Core : c = e.core
      BY Envelopes
    <3> QED
      BY <1>2, <3>1, Envelopes DEF SyncInv, Past
  <2>3. /\ txns' \subseteq TxnType /\ now' \in Nat /\ met' \in [Core -> SUBSET Path]
        /\ \A d \in Core : Events(d)' = Events(d)
        /\ HubAccepted' /\ Past' /\ \A d \in Core : CoreOK(d)'
        /\ \A t \in txns' : TxnOK(t)'
    BY <1>1, <1>2, <1>3, <2>1, <2>2, Begun, Cores
  <2>4. Types'
    BY <1>1, <1>3, <2>3 DEF SyncInv, Types, store
  <2>5. TasksAccepted'
    BY <1>1, <2>3, TasksStay
  <2> QED
    BY <2>3, <2>4, <2>5 DEF SyncInv
<1>4. CASE UNCHANGED <<store, now, met, txns>> /\ losses' \in 0..MaxLosses
  BY <1>1, <1>4, StoreSame DEF SyncInv, Types
<1>5. Lose => losses' \in 0..MaxLosses
  BY BoundAssumption DEF Lose, SyncInv, Types
<1>6. UNCHANGED losses => losses' \in 0..MaxLosses
  BY DEF SyncInv, Types
<1> QED
  BY <1>1, <1>2, <1>3, <1>4, <1>5, <1>6 DEF PushEvent

LEMMA CrashStep == ASSUME SyncInv, NEW s \in Ship, Crash(s) PROVE SyncInv'
<1>1. /\ UNCHANGED <<store, now, met>> /\ UNCHANGED <<signers, cursor, pulls>>
      /\ tasks' \subseteq tasks /\ txns' \subseteq txns
      /\ pull' = [pull EXCEPT ![s] = <<>>] /\ Lose
  BY DEF Crash
<1>2. pull' \in [Ship -> Seq(RowType)] /\ losses' \in 0..MaxLosses
  BY <1>1, BoundAssumption DEF SyncInv, Types, Lose
<1> QED
  BY <1>1, <1>2, StoreSame DEF SyncInv, Types

\* A merge has a key no event of its core has.
LEMMA MergeStep == ASSUME SyncInv, NEW c \in Core, Merge(c) PROVE SyncInv'
<1>1. PICK e \in jobs[c] :
        /\ Begin(c, [key |-> MergeKey(c, e), core |-> c, op |-> "merge", path |-> e.path,
                     writer |-> Quartermaster, keyRef |-> None, at |-> now])
        /\ UNCHANGED <<store, signers, tasks, pull, cursor, losses, pulls>>
  BY DEF Merge
<1>2. PICK m : m = [key |-> MergeKey(c, e), core |-> c, op |-> "merge", path |-> e.path,
                    writer |-> Quartermaster, keyRef |-> None, at |-> now]
  OBVIOUS
<1>3. /\ m.key = <<c, e.key>> /\ m.core = c /\ m.op = "merge" /\ m.path = e.path /\ m.at = now
      /\ Begin(c, m)
  BY <1>1, <1>2 DEF MergeKey
<1>4. /\ e.key \in ClientKey /\ \A f \in Events(c) : f.key # <<c, e.key>>
      /\ e.path \in Path /\ now \in Nat
  BY EventsTyped DEF SyncInv, CoreOK, JobsOpen, EventType, Types
<1>5. m \in EventType
  <2>1. m.key \in Core \X {x.key : x \in Envelope}
    BY <1>3, <1>4 DEF ClientKey
  <2> QED
    BY <1>2, <1>4, <2>1 DEF EventType
<1>6. m.at <= now
  BY <1>3, <1>4
<1>7. /\ txns' \subseteq TxnType /\ now' \in Nat /\ met' \in [Core -> SUBSET Path]
      /\ \A d \in Core : Events(d)' = Events(d)
      /\ HubAccepted' /\ Past' /\ \A d \in Core : CoreOK(d)'
      /\ \A t \in txns' : TxnOK(t)'
  BY <1>1, <1>3, <1>4, <1>5, <1>6, Begun
<1>8. Types'
  BY <1>1, <1>7 DEF SyncInv, Types, store
<1>9. TasksAccepted'
  BY <1>1, <1>7, TasksStay
<1> QED
  BY <1>7, <1>8, <1>9 DEF SyncInv

LEMMA FetchStep == ASSUME SyncInv, NEW s \in Ship, Fetch(s) PROVE SyncInv'
<1>1. /\ cursor[s] < Len(log[Hub]) /\ pulls[s] < MaxPulls
      /\ pull' = [pull EXCEPT ![s] =
           [i \in 1..(Len(log[Hub]) - cursor[s]) |->
              Row(log[Hub][cursor[s] + i], cursor[s] + i)]]
      /\ pulls' = [pulls EXCEPT ![s] = @ + 1]
      /\ UNCHANGED <<store, now, met, txns>> /\ UNCHANGED <<signers, tasks, cursor, losses>>
  BY DEF Fetch, database
<1>2. PICK q \in Seq(EventType), k \in Nat : q = log[Hub] /\ k = cursor[s]
  BY Cores DEF SyncInv, Types
<1>3. PICK n \in Nat : n = Len(q) - k
  BY <1>1, <1>2
<1>4. \A i \in 1..n : k + i \in DOMAIN q /\ k + i \in Nat
  BY <1>1, <1>2, <1>3
<1>5. \A i \in 1..n : Row(q[k + i], k + i) \in RowType
  BY <1>2, <1>4 DEF Row, RowType
<1>6. [i \in 1..n |-> Row(q[k + i], k + i)] \in Seq(RowType)
  BY <1>3, <1>5
<1>7. pull' \in [Ship -> Seq(RowType)] /\ pulls' \in [Ship -> 0..MaxPulls]
  BY <1>1, <1>2, <1>3, <1>6, BoundAssumption DEF SyncInv, Types
<1> QED
  BY <1>1, <1>7, StoreSame DEF SyncInv, Types

\* No row parses as an envelope: none is applied and the cursor stays.
LEMMA ApplyRowStep == ASSUME SyncInv, NEW s \in Ship, ApplyRow(s) PROVE SyncInv'
<1>1. pull[s] \in Seq(RowType) /\ pull[s] # <<>>
  BY DEF ApplyRow, SyncInv, Types
<1>2. Head(pull[s]) \in RowType /\ Tail(pull[s]) \in Seq(RowType)
  BY <1>1
<1>3. ~Parses(Head(pull[s])) /\ NextCursor(s, Head(pull[s])) = cursor[s]
  BY <1>2 DEF Parses, NextCursor, RowType
<1>4. /\ UNCHANGED <<store, now, met, txns>> /\ UNCHANGED <<signers, tasks, losses, pulls>>
      /\ pull' = [pull EXCEPT ![s] = Tail(@)]
      /\ cursor' = cursor \/ cursor' = [cursor EXCEPT ![s] = cursor[s]]
  BY <1>3 DEF ApplyRow
<1>5. pull' \in [Ship -> Seq(RowType)] /\ cursor' \in [Ship -> Nat]
  BY <1>2, <1>4 DEF SyncInv, Types
<1> QED
  BY <1>4, <1>5, StoreSame DEF SyncInv, Types

LEMMA SyncStep == ASSUME SyncInv, [Next]_vars PROVE SyncInv'
<1>1. CASE UNCHANGED vars
  BY <1>1, StoreSame DEF vars, store, SyncInv, Types
<1> QED
  BY <1>1, RegisterStep, WriteStep, CommitStep, RollbackStep, PushSignerStep, PushEventStep,
     CrashStep, FetchStep, ApplyRowStep, MergeStep DEF Next

LEMMA SyncInit == ASSUME Init PROVE SyncInv
<1>1. Types
  <2>1. <<>> \in Seq(EventType) /\ <<>> \in Seq(RowType)
    OBVIOUS
  <2> QED
    BY <2>1, BoundAssumption DEF Init, Types, DocType
<1>2. \A c \in Core : Events(c) = {} /\ log[c] = <<>> /\ jobs[c] = {}
  BY DEF Init, Events
<1> QED
  BY <1>1, <1>2, Cores
  DEF Init, SyncInv, TasksAccepted, HubAccepted, Past, CoreOK, KeysOnce, EventsKnown, JobsOpen

LEMMA Inductive == Spec => []SyncInv
BY SyncInit, SyncStep, PTL DEF Spec

-----------------------------------------------------------------------------
(* The order of the writes of one ship.                                      *)

\* A core's log has one event before another.
Before(c, f, g) ==
  \E i, j \in DOMAIN log[c] : i < j /\ log[c][i] = f /\ log[c][j] = g

\* A document is the last event of its path.
LastOfPath(c, p) ==
  \E i \in DOMAIN log[c] :
    /\ docs[c][p] # None
    /\ log[c][i] = docs[c][p].event /\ log[c][i].path = p
    /\ \A j \in DOMAIN log[c] : log[c][j].path = p => j <= i
Unwritten(c, p) == docs[c][p] = None /\ \A i \in DOMAIN log[c] : log[c][i].path # p
Shown(c, p) == Unwritten(c, p) \/ LastOfPath(c, p)

\* A ship has its own events only, and the merges of the hub are the hub's.
Homes ==
  /\ \A s \in Ship : \A e \in Events(s) : e.core = s
  /\ \A e \in Events(Hub) : e.op = "merge" => e.core = Hub

\* A write on its way that would conflict with nothing at the hub comes after all the hub has
\* of its ship: the hub shows nothing newer, so the ship made what is there before.
InOrder(e) ==
  /\ e.path \notin met[Hub]
  /\ docs[Hub][e.path] # None
  /\ docs[Hub][e.path].at <= e.at
  => \A f \in Events(Hub) : f.path = e.path /\ f.core = e.core => Before(e.core, f, e)
TasksInOrder == \A task \in tasks : task.kind # "signer" => InOrder(task.request)

\* As long as two transactions of the hub never met on a document, one that is open is the
\* only one on it and has seen what is there still; what its ship wrote after it began
\* comes after what it writes.
Serial(t) ==
  t.core = Hub /\ t.event.path \notin met[Hub] =>
    /\ t.seen = docs[Hub][t.event.path]
    /\ t.seen # None => t.seen.at <= t.begun
    /\ \A u \in txns : u.core = Hub /\ u.event.path = t.event.path => u = t
    /\ t.event.core \in Ship => InOrder(t.event)
    /\ \A task \in tasks :
         (/\ task.kind # "signer" /\ task.request.path = t.event.path
          /\ task.request.core = t.event.core /\ t.begun <= task.request.at)
         => Before(t.event.core, t.event, task.request)

\* Nothing was merged, deleted or queued at the hub.
Plain(p) ==
  /\ \A e \in jobs[Hub] : e.path # p
  /\ \A e \in Events(Hub) : e.path = p => e.op = "upsert"

\* What the hub has of another writer than the one it shows is not the last of its ship.
ShowsLater(p) ==
  p \notin met[Hub] /\ docs[Hub][p] # None /\ Plain(p) =>
    \A f \in Events(Hub) :
      f.path = p /\ f.core \in Ship /\ f.writer # docs[Hub][p].event.writer =>
        \E h \in Events(Hub) : h.path = p /\ (h.core = f.core => Before(f.core, f, h))

OrderInv ==
  /\ Homes /\ TasksInOrder
  /\ \A t \in txns : Serial(t)
  /\ \A p \in Path : ShowsLater(p) /\ \A c \in Core : Shown(c, p)

\* One event more, and its document, of a transaction begun at b.
Put(c, e, b) ==
  /\ log' = [log EXCEPT ![c] = Append(@, e)]
  /\ docs' = [docs EXCEPT ![c][e.path] = [event |-> e, at |-> b]]

LEMMA PutLog ==
  ASSUME SyncInv, NEW c \in Core, NEW e \in EventType, NEW b \in Nat, Put(c, e, b)
  PROVE  /\ Events(c)' = Events(c) \cup {e}
         /\ \A d \in Core \ {c} : Events(d)' = Events(d) /\ log'[d] = log[d]
         /\ \A i \in DOMAIN log[c] : i \in DOMAIN log'[c] /\ log'[c][i] = log[c][i]
         /\ \E n \in DOMAIN log'[c] :
              /\ n \in Nat /\ log'[c][n] = e
              /\ DOMAIN log'[c] = DOMAIN log[c] \cup {n} /\ \A i \in DOMAIN log[c] : i < n
<1>1. PICK q \in Seq(EventType) : q = log[c]
  BY DEF SyncInv, Types
<1>2. PICK n, a : n = Len(q) /\ a = Append(q, e)
  OBVIOUS
<1>3. /\ n \in Nat /\ DOMAIN q = 1..n /\ DOMAIN a = 1..(n + 1) /\ a[n + 1] = e
      /\ \A i \in 1..n : a[i] = q[i]
  BY <1>1, <1>2
<1>4. log'[c] = a /\ \A d \in Core \ {c} : log'[d] = log[d]
  BY <1>1, <1>2 DEF Put, SyncInv, Types
<1>5. 1..(n + 1) = 1..n \cup {n + 1} /\ n + 1 \in 1..(n + 1) /\ \A i \in 1..n : i < n + 1
  BY <1>3
<1>6. Events(c)' = Events(c) \cup {e}
  <2>1. Events(c)' = {a[i] : i \in DOMAIN a}
    BY <1>4 DEF Events
  <2>2. Events(c) = {q[i] : i \in DOMAIN q}
    BY <1>1 DEF Events
  <2> QED
    BY <1>3, <1>5, <2>1, <2>2
<1>7. \A d \in Core \ {c} : Events(d)' = Events(d)
  BY <1>4 DEF Events
<1>8. \A i \in DOMAIN log[c] : i \in DOMAIN log'[c] /\ log'[c][i] = log[c][i]
  BY <1>1, <1>3, <1>4, <1>5
<1>9. /\ n + 1 \in DOMAIN log'[c] /\ n + 1 \in Nat /\ log'[c][n + 1] = e
      /\ DOMAIN log'[c] = DOMAIN log[c] \cup {n + 1} /\ \A i \in DOMAIN log[c] : i < n + 1
  BY <1>1, <1>3, <1>4, <1>5
<1> QED
  BY <1>4, <1>6, <1>7, <1>8, <1>9

\* The new event is the last; the order of the others stays.
LEMMA PutOrder ==
  ASSUME SyncInv, NEW c \in Core, NEW e \in EventType, NEW b \in Nat, Put(c, e, b)
  PROVE  /\ \A f \in Events(c) : Before(c, f, e)'
         /\ \A d \in Core : \A f, g : Before(d, f, g) => Before(d, f, g)'
<1>1. PICK n \in DOMAIN log'[c] : log'[c][n] = e /\ \A i \in DOMAIN log[c] : i < n
  BY PutLog
<1>2. \A i \in DOMAIN log[c] : i \in DOMAIN log'[c] /\ log'[c][i] = log[c][i]
  BY PutLog
<1>3. ASSUME NEW f \in Events(c) PROVE Before(c, f, e)'
  <2>1. PICK i \in DOMAIN log[c] : log[c][i] = f
    BY DEF Events
  <2> QED
    BY <1>1, <1>2, <2>1 DEF Before
<1>4. ASSUME NEW d \in Core, NEW f, NEW g, Before(d, f, g) PROVE Before(d, f, g)'
  <2>1. PICK i, j \in DOMAIN log[d] : i < j /\ log[d][i] = f /\ log[d][j] = g
    BY <1>4 DEF Before
  <2>2. \A k \in DOMAIN log[d] : k \in DOMAIN log'[d] /\ log'[d][k] = log[d][k]
    BY <1>2, PutLog
  <2> QED
    BY <2>1, <2>2 DEF Before
<1> QED
  BY <1>3, <1>4

LEMMA PutDocs ==
  ASSUME SyncInv, NEW c \in Core, NEW e \in EventType, NEW b \in Nat, Put(c, e, b)
  PROVE  /\ docs'[c][e.path] = [event |-> e, at |-> b]
         /\ \A d \in Core : d # c => docs'[d] = docs[d]
         /\ \A p \in Path : p # e.path => docs'[c][p] = docs[c][p]
         /\ docs'[c][e.path] # None /\ docs'[c][e.path].event = e
<1>1. e.path \in Path
  BY DEF EventType
<1>2. /\ docs'[c][e.path] = [event |-> e, at |-> b]
      /\ \A d \in Core : d # c => docs'[d] = docs[d]
      /\ \A p \in Path : p # e.path => docs'[c][p] = docs[c][p]
  BY <1>1 DEF Put, SyncInv, Types
<1> QED
  BY <1>2, NoneAssumption

LEMMA PutShown ==
  ASSUME SyncInv, OrderInv, NEW c \in Core, NEW e \in EventType, NEW b \in Nat, Put(c, e, b)
  PROVE  \A p \in Path : \A d \in Core : Shown(d, p)'
<1> SUFFICES ASSUME NEW p \in Path, NEW d \in Core PROVE Shown(d, p)'
  OBVIOUS
<1>1. Shown(d, p)
  BY DEF OrderInv
<1>2. CASE d # c
  <2>1. log'[d] = log[d]
    BY <1>2, PutLog
  <2>2. docs'[d][p] = docs[d][p]
    BY <1>2, PutDocs
  <2> QED
    BY <1>1, <2>1, <2>2 DEF Shown, Unwritten, LastOfPath
<1>3. PICK n \in DOMAIN log'[c] :
        /\ n \in Nat /\ log'[c][n] = e
        /\ DOMAIN log'[c] = DOMAIN log[c] \cup {n} /\ \A i \in DOMAIN log[c] : i < n
  BY PutLog
<1>4. \A i \in DOMAIN log[c] : i \in DOMAIN log'[c] /\ log'[c][i] = log[c][i]
  BY PutLog
<1>5. \A i \in DOMAIN log[c] : i \in Nat
  BY DEF SyncInv, Types
<1>6. CASE d = c /\ p = e.path
  <2>1. docs'[c][p] # None /\ docs'[c][p].event = e
    BY <1>6, PutDocs
  <2>2. \A j \in DOMAIN log'[c] : j <= n
    BY <1>3, <1>5
  <2> QED
    BY <1>3, <1>6, <2>1, <2>2 DEF Shown, LastOfPath
<1>7. CASE d = c /\ p # e.path
  <2>1. \A x \in Path : x # e.path => docs'[c][x] = docs[c][x]
    BY PutDocs
  <2>2. docs'[c][p] = docs[c][p]
    BY <1>7, <2>1
  <2>3. CASE Unwritten(c, p)
    BY <1>3, <1>4, <1>7, <2>2, <2>3 DEF Shown, Unwritten
  <2>4. CASE LastOfPath(c, p)
    BY <1>3, <1>4, <1>7, <2>2, <2>4 DEF Shown, LastOfPath
  <2> QED
    BY <1>1, <1>7, <2>3, <2>4 DEF Shown
<1> QED
  BY <1>2, <1>6, <1>7

\* A ship takes a write or merges: its task, if there is one, comes after all it had.
LEMMA ShipPut ==
  ASSUME SyncInv, OrderInv, NEW t \in txns, t.core \in Ship, Put(t.core, t.event, t.begun),
         jobs'[Hub] = jobs[Hub], met' = met, txns' = txns \ {t},
         \A task \in tasks' :
           task \in tasks \/ task.kind = "signer" \/ task.request = t.event
  PROVE  OrderInv'
<1>1. PICK s \in Ship, e \in EventType, b \in Nat :
        s = t.core /\ e = t.event /\ b = t.begun /\ s \in Core /\ s # Hub /\ Hub \in Core
  BY Cores DEF SyncInv, Types, TxnType
<1>2. Put(s, e, b)
  BY <1>1
<1>3. /\ Events(s)' = Events(s) \cup {e}
      /\ \A d \in Core \ {s} : Events(d)' = Events(d)
      /\ Events(Hub)' = Events(Hub)
  BY <1>1, <1>2, PutLog
<1>4. /\ \A f \in Events(s) : Before(s, f, e)'
      /\ \A d \in Core : \A f, g : Before(d, f, g) => Before(d, f, g)'
  BY <1>1, <1>2, PutOrder
<1>5. \A p \in Path : docs'[Hub][p] = docs[Hub][p]
  BY <1>1, <1>2, PutDocs
<1>6. e.core = s
  BY <1>1 DEF SyncInv, TxnOK, Client, Merging
<1>7. Homes'
  BY <1>3, <1>6, Cores DEF OrderInv, Homes
<1>8. ASSUME NEW g \in EventType, InOrder(g) PROVE InOrder(g)'
  <2>1. g.path \in Path /\ g.core \in Core
    BY DEF EventType
  <2> QED
    BY <1>3, <1>4, <1>5, <1>8, <2>1 DEF InOrder
<1>9. \A f : (f \in Events(Hub) \/ \E u \in txns : u.core = Hub /\ u.event = f) /\ f.core = s
        => Before(s, f, e)'
  <2>1. ASSUME NEW f \in Events(Hub), f.core = s PROVE f \in Events(s)
    BY <2>1 DEF SyncInv, HubAccepted
  <2>2. ASSUME NEW u \in txns, u.core = Hub, u.event.core = s PROVE u.event \in Events(s)
    BY <1>1, <2>2 DEF SyncInv, TxnOK, Client, Merging
  <2> QED
    BY <1>4, <2>1, <2>2
<1>10. ASSUME NEW task \in tasks', task.kind # "signer", task \in tasks
       PROVE  task.request \in EventType /\ InOrder(task.request)'
  <2>1. PICK g \in Envelope : g = task.request
    BY <1>10 DEF SyncInv, Types, TasksAccepted
  <2> QED
    BY <1>8, <1>10, <2>1, Envelopes DEF OrderInv, TasksInOrder
<1>11. InOrder(e)'
  BY <1>3, <1>6, <1>9 DEF InOrder
<1>12. TasksInOrder'
  BY <1>1, <1>10, <1>11 DEF TasksInOrder
<1>13. ASSUME NEW u \in txns' PROVE Serial(u)'
  <2> SUFFICES ASSUME u.core = Hub, u.event.path \notin met[Hub]
               PROVE  /\ u.seen = docs'[Hub][u.event.path]
                      /\ u.seen # None => u.seen.at <= u.begun
                      /\ \A v \in txns' :
                           v.core = Hub /\ v.event.path = u.event.path => v = u
                      /\ u.event.core \in Ship => InOrder(u.event)'
                      /\ \A task \in tasks' :
                           (/\ task.kind # "signer" /\ task.request.path = u.event.path
                            /\ task.request.core = u.event.core
                            /\ u.begun <= task.request.at)
                           => Before(u.event.core, u.event, task.request)'
    BY DEF Serial
  <2>1. u \in txns /\ Serial(u) /\ u.event \in EventType
    BY DEF OrderInv, SyncInv, Types, TxnType
  <2>2. u.event.path \in Path /\ u.event.core \in Core
    BY <2>1 DEF EventType
  <2>3. ASSUME NEW task \in tasks', task.kind # "signer", task.request.path = u.event.path,
               task.request.core = u.event.core, u.begun <= task.request.at
        PROVE  Before(u.event.core, u.event, task.request)'
    <3>1. CASE task \in tasks
      BY <1>4, <2>1, <2>2, <2>3, <3>1 DEF Serial
    <3>2. CASE task.request = t.event
      BY <1>1, <1>6, <1>9, <2>1, <2>3, <3>2
    <3> QED
      BY <2>3, <3>1, <3>2
  <2> QED
    BY <1>5, <1>8, <2>1, <2>2, <2>3 DEF Serial
<1>14. ASSUME NEW p \in Path PROVE ShowsLater(p)'
  <2>1. Plain(p)' <=> Plain(p)
    BY <1>3 DEF Plain
  <2>2. ShowsLater(p)
    BY DEF OrderInv
  <2> QED
    BY <1>1, <1>3, <1>4, <1>5, <2>1, <2>2 DEF ShowsLater, Core
<1>15. \A p \in Path : \A d \in Core : Shown(d, p)'
  BY <1>1, <1>2, PutShown
<1> QED
  BY <1>7, <1>12, <1>13, <1>14, <1>15 DEF OrderInv

\* The hub takes a write, from its client or a ship, or merges.
LEMMA HubPut ==
  ASSUME SyncInv, OrderInv, NEW t \in txns, t.core = Hub, Put(Hub, t.event, t.begun),
         tasks' \subseteq tasks, met' = met, txns' = txns \ {t},
         \A x \in jobs[Hub] : x.path # t.event.path => x \in jobs'[Hub],
         ShowsLater(t.event.path)'
  PROVE  OrderInv'
<1>1. PICK e \in EventType, b \in Nat :
        /\ e = t.event /\ b = t.begun /\ e.path \in Path
        /\ Hub \in Core /\ Ship \subseteq Core /\ \A s \in Ship : s # Hub
  BY Cores DEF SyncInv, Types, TxnType, EventType
<1>2. Put(Hub, e, b)
  BY <1>1
<1>3. /\ Events(Hub)' = Events(Hub) \cup {e}
      /\ \A s \in Ship : Events(s)' = Events(s)
  BY <1>1, <1>2, PutLog
<1>4. \A d \in Core : \A f, g : Before(d, f, g) => Before(d, f, g)'
  BY <1>1, <1>2, PutOrder
<1>5. /\ docs'[Hub][e.path] = [event |-> e, at |-> b]
      /\ \A p \in Path : p # e.path => docs'[Hub][p] = docs[Hub][p]
  BY <1>1, <1>2, PutDocs
<1>6. Homes'
  <2>1. e.op = "merge" => e.core = Hub
    BY <1>1, Envelopes DEF SyncInv, TxnOK, Client, Merging
  <2> QED
    BY <1>3, <2>1 DEF OrderInv, Homes
<1>7. ASSUME NEW g \in EventType, g.path # e.path, InOrder(g) PROVE InOrder(g)'
  <2>1. g.path \in Path /\ g.core \in Core
    BY DEF EventType
  <2>2. \A f \in Events(Hub)' : f.path = g.path => f \in Events(Hub)
    BY <1>3, <1>7
  <2> QED
    BY <1>4, <1>5, <1>7, <2>1, <2>2 DEF InOrder
<1>8. ASSUME NEW task \in tasks', task.kind # "signer" PROVE InOrder(task.request)'
  <2>1. PICK g \in Envelope : g = task.request /\ g \in EventType
    BY <1>8, Envelopes DEF SyncInv, Types, TasksAccepted
  <2>2. g.path \in Path /\ g.core \in Core /\ g.at \in Nat
    BY Envelopes
  <2>3. InOrder(g)
    BY <1>8, <2>1 DEF OrderInv, TasksInOrder
  <2>4. CASE g.path = e.path
    <3> SUFFICES ASSUME e.path \notin met[Hub], b <= g.at, NEW f \in Events(Hub)',
                        f.path = e.path, f.core = g.core
                 PROVE  Before(g.core, f, g)'
      BY <1>5, <2>1, <2>4 DEF InOrder
    <3>1. Serial(t)
      BY DEF OrderInv
    <3>2. CASE f = e
      <4>1. Before(g.core, e, g)
        BY <1>1, <1>8, <2>1, <2>4, <3>1, <3>2 DEF Serial
      <4> QED
        BY <1>4, <2>2, <3>2, <4>1
    <3>3. CASE f \in Events(Hub)
      <4>1. docs[Hub][e.path] # None
        BY <1>1, <3>3 DEF OrderInv, Shown, Unwritten, LastOfPath, Events
      <4>2. docs[Hub][e.path].at <= b /\ docs[Hub][e.path].at \in Nat
        BY <1>1, <3>1, <4>1 DEF Serial, SyncInv, Types, DocType
      <4>3. docs[Hub][e.path].at <= g.at
        BY <1>1, <2>2, <4>2
      <4>4. Before(g.core, f, g)
        BY <2>3, <2>4, <3>3, <4>1, <4>3 DEF InOrder
      <4> QED
        BY <1>4, <2>2, <4>4
    <3> QED
      BY <1>3, <3>2, <3>3
  <2> QED
    BY <1>7, <2>1, <2>3, <2>4
<1>9. ASSUME NEW u \in txns' PROVE Serial(u)'
  <2> SUFFICES ASSUME u.core = Hub, u.event.path \notin met[Hub]
               PROVE  /\ u.seen = docs'[Hub][u.event.path]
                      /\ u.seen # None => u.seen.at <= u.begun
                      /\ \A v \in txns' :
                           v.core = Hub /\ v.event.path = u.event.path => v = u
                      /\ u.event.core \in Ship => InOrder(u.event)'
                      /\ \A task \in tasks' :
                           (/\ task.kind # "signer" /\ task.request.path = u.event.path
                            /\ task.request.core = u.event.core
                            /\ u.begun <= task.request.at)
                           => Before(u.event.core, u.event, task.request)'
    BY DEF Serial
  <2>1. u \in txns /\ u # t /\ Serial(u) /\ u.event \in EventType
    BY DEF OrderInv, SyncInv, Types, TxnType
  <2>2. u.event.path \in Path /\ u.event.core \in Core
    BY <2>1 DEF EventType
  <2>3. u.event.path # e.path
    BY <1>1, <2>1 DEF Serial
  <2> QED
    BY <1>4, <1>5, <1>7, <2>1, <2>2, <2>3 DEF Serial
<1>10. ASSUME NEW p \in Path PROVE ShowsLater(p)'
  <2>1. CASE p = e.path
    BY <1>1, <2>1
  <2>2. CASE p # e.path
    <3>1. Plain(p)' => Plain(p)
      BY <1>1, <1>3, <2>2 DEF Plain
    <3>2. ShowsLater(p)
      BY DEF OrderInv
    <3>3. \A f \in Events(Hub)' : f.path = p => f \in Events(Hub)
      BY <1>3, <2>2
    <3> QED
      BY <1>1, <1>3, <1>4, <1>5, <2>2, <3>1, <3>2, <3>3 DEF ShowsLater
  <2> QED
    BY <2>1, <2>2
<1>11. \A p \in Path : \A d \in Core : Shown(d, p)'
  BY <1>1, <1>2, PutShown
<1> QED
  BY <1>6, <1>8, <1>9, <1>10, <1>11 DEF OrderInv, TasksInOrder

\* Nothing is written: of the tasks some end, some go on, and transactions may end.
LEMMA OrderSame ==
  ASSUME SyncInv, OrderInv, UNCHANGED <<store, met>>, txns' \subseteq txns,
         \A task \in tasks' :
           \/ task.kind = "signer"
           \/ \E k \in tasks : k.kind # "signer" /\ k.request = task.request
  PROVE  OrderInv'
<1>1. log' = log /\ docs' = docs /\ jobs' = jobs /\ met' = met
  BY DEF store
<1>2. /\ \A c : Events(c)' = Events(c)
      /\ \A c, f, g : Before(c, f, g)' <=> Before(c, f, g)
      /\ \A c, p : Shown(c, p)' <=> Shown(c, p)
  BY <1>1 DEF Events, Before, Shown, Unwritten, LastOfPath
<1>3. Homes'
  BY <1>2 DEF OrderInv, Homes
<1>4. \A e : InOrder(e)' <=> InOrder(e)
  BY <1>1, <1>2 DEF InOrder
<1>5. TasksInOrder'
  BY <1>4 DEF OrderInv, TasksInOrder
<1>6. \A p : ShowsLater(p)' <=> ShowsLater(p)
  BY <1>1, <1>2 DEF ShowsLater, Plain
<1>7. \A t \in txns' : Serial(t)'
  BY <1>1, <1>2, <1>4 DEF OrderInv, Serial
<1> QED
  BY <1>2, <1>3, <1>5, <1>6, <1>7 DEF OrderInv

\* A transaction that begins at the hub is alone on its document, or the two have met.
LEMMA OrderBegin ==
  ASSUME SyncInv, OrderInv, NEW c \in Core, NEW e \in EventType, Begin(c, e),
         UNCHANGED store, tasks' \subseteq tasks,
         c = Hub /\ e.core \in Ship => InOrder(e)
  PROVE  OrderInv'
<1>1. log' = log /\ docs' = docs /\ jobs' = jobs
  BY DEF store
<1>2. /\ \A d : Events(d)' = Events(d)
      /\ \A d, f, g : Before(d, f, g)' <=> Before(d, f, g)
      /\ \A d, p : Shown(d, p)' <=> Shown(d, p)
  BY <1>1 DEF Events, Before, Shown, Unwritten, LastOfPath
<1>3. PICK n : n = [core |-> c, event |-> e, seen |-> docs[c][e.path], begun |-> now + 1]
  OBVIOUS
<1>4. /\ txns' = txns \cup {n} /\ n.core = c /\ n.event = e /\ n.begun = now + 1
      /\ n.seen = docs[c][e.path] /\ now \in Nat /\ e.path \in Path /\ Hub \in Core
  BY <1>3, Cores DEF Begin, SyncInv, Types, EventType
<1>5. /\ met' = IF \E u \in txns : u.core = c /\ u.event.path = e.path
                THEN [met EXCEPT ![c] = @ \cup {e.path}] ELSE met
      /\ met \in [Core -> SUBSET Path]
  BY DEF Begin, SyncInv, Types
<1>6. /\ met[Hub] \subseteq met'[Hub]
      /\ \A u \in txns : c = Hub /\ u.core = c /\ u.event.path = e.path => e.path \in met'[Hub]
  BY <1>4, <1>5
<1>7. Homes'
  BY <1>2 DEF OrderInv, Homes
<1>8. \A g : InOrder(g) => InOrder(g)'
  BY <1>1, <1>2, <1>6 DEF InOrder
<1>9. TasksInOrder'
  BY <1>8 DEF OrderInv, TasksInOrder
<1>10. \A p : ShowsLater(p) => ShowsLater(p)'
  BY <1>1, <1>2, <1>6 DEF ShowsLater, Plain
<1>11. ASSUME NEW t \in txns PROVE Serial(t)'
  <2>1. Serial(t)
    BY DEF OrderInv
  <2>2. n.core = Hub /\ t.core = Hub /\ n.event.path = t.event.path
          => t.event.path \in met'[Hub]
    BY <1>4, <1>6
  <2> QED
    BY <1>1, <1>2, <1>4, <1>6, <1>8, <2>1, <2>2 DEF Serial
<1>12. Serial(n)'
  <2> SUFFICES ASSUME c = Hub, e.path \notin met'[Hub]
               PROVE  /\ n.seen = docs[Hub][e.path]
                      /\ n.seen # None => n.seen.at <= n.begun
                      /\ \A u \in txns' : u.core = Hub /\ u.event.path = e.path => u = n
                      /\ e.core \in Ship => InOrder(e)'
                      /\ \A task \in tasks' :
                           task.kind # "signer" => ~(n.begun <= task.request.at)
    BY <1>1, <1>4 DEF Serial
  <2>1. n.seen # None => n.seen.at <= n.begun
    <3>1. n.seen # None => n.seen.at <= now /\ n.seen.at \in Nat
      BY <1>4 DEF SyncInv, Past, Types, DocType
    <3> QED
      BY <1>4, <3>1
  <2>2. ASSUME NEW task \in tasks, task.kind # "signer" PROVE ~(n.begun <= task.request.at)
    <3>1. PICK g \in Envelope, d \in Core : g = task.request /\ d = g.core /\ g \in Events(d)
      BY <2>2, Envelopes DEF SyncInv, Types, TasksAccepted
    <3>2. g.at \in Nat /\ g.at <= now
      BY <3>1, Envelopes DEF SyncInv, Past
    <3> QED
      BY <1>4, <3>1, <3>2
  <2> QED
    BY <1>4, <1>6, <1>8, <2>1, <2>2
<1> QED
  BY <1>2, <1>4, <1>7, <1>9, <1>10, <1>11, <1>12 DEF OrderInv

\* A push that finds another writer's document, not newer, and no conflict, is in order.
LEMMA PushShows ==
  ASSUME SyncInv, OrderInv, NEW t \in txns, t.core = Hub, t.event \in Envelope,
         t.event.core \in Ship, Apply(t), met' = met
  PROVE  ShowsLater(t.event.path)'
<1>1. PICK e \in EventType, b \in Nat :
        /\ e = t.event /\ b = t.begun /\ e.core \in Core /\ e.key \in ClientKey
        /\ e.op # "merge" /\ e.path \in Path /\ e.at \in Nat
        /\ Hub \in Core /\ \A s \in Ship : s # Hub
  BY Cores, Envelopes DEF SyncInv, Types, TxnType
<1>2. Put(Hub, e, b)
  BY <1>1 DEF Apply, Put
<1>3. /\ \A x \in jobs[Hub] : x \in jobs'[Hub]
      /\ Conflict(t) => e \in jobs'[Hub]
  <2>1. \A x \in jobs[Hub] : e.key # <<Hub, x.key>>
    BY <1>1, KeyAssumption DEF SyncInv, CoreOK, JobsOpen, ClientKey
  <2> QED
    BY <1>1, <2>1, JobsApplied
<1>4. Events(Hub)' = Events(Hub) \cup {e}
  BY <1>1, <1>2, PutLog
<1>5. \A d \in Core : \A f, g : Before(d, f, g) => Before(d, f, g)'
  BY <1>1, <1>2, PutOrder
<1>6. docs'[Hub][e.path].event = e
  <2>1. docs'[Hub][e.path] = [event |-> e, at |-> b]
    BY <1>1, <1>2, PutDocs
  <2> QED
    BY <2>1
<1> SUFFICES ASSUME e.path \notin met[Hub], Plain(e.path)', NEW f \in Events(Hub)',
                    f.path = e.path, f.core \in Ship, f.writer # e.writer
             PROVE  \E h \in Events(Hub)' :
                      h.path = e.path /\ (h.core = f.core => Before(f.core, f, h)')
  BY <1>1, <1>6 DEF ShowsLater
<1>7. ~Conflict(t) /\ Plain(e.path)
  BY <1>1, <1>3, <1>4 DEF Plain
<1>8. f \in Events(Hub) /\ f.core \in Core
  BY <1>4, Cores
<1>9. /\ Shown(Hub, e.path) /\ ShowsLater(e.path) /\ InOrder(e)
      /\ t.seen = docs[Hub][e.path]
  BY <1>1 DEF OrderInv, Serial
<1>10. docs[Hub][e.path] # None
  BY <1>8, <1>9 DEF Shown, Unwritten, LastOfPath, Events
<1>11. docs[Hub][e.path].event \in Events(Hub) /\ docs[Hub][e.path].event.path = e.path
  BY <1>9, <1>10 DEF Shown, Unwritten, LastOfPath, Events
<1>12. docs[Hub][e.path].event.op = "upsert"
  BY <1>7, <1>11 DEF Plain
<1>13. docs[Hub][e.path].at \in Nat
  BY <1>1, <1>10 DEF SyncInv, Types, DocType
<1>14. CASE docs[Hub][e.path].event.writer = e.writer
  <2>1. PICK h \in Events(Hub) :
          h.path = e.path /\ (h.core = f.core => Before(f.core, f, h))
    BY <1>7, <1>8, <1>9, <1>10, <1>14 DEF ShowsLater
  <2> QED
    BY <1>4, <1>5, <1>8, <2>1
<1>15. CASE docs[Hub][e.path].event.writer # e.writer
  <2>1. ~(docs[Hub][e.path].at > e.at)
    BY <1>1, <1>7, <1>9, <1>10, <1>12, <1>15 DEF Conflict
  <2>2. docs[Hub][e.path].at <= e.at
    BY <1>1, <1>13, <2>1
  <2>3. f.core = e.core => Before(e.core, f, e)
    BY <1>8, <1>9, <1>10, <2>2 DEF InOrder
  <2> QED
    BY <1>1, <1>4, <1>5, <2>3
<1> QED
  BY <1>14, <1>15

LEMMA OrderCommit ==
  ASSUME SyncInv, OrderInv, NEW t \in txns, Commit(t) PROVE OrderInv'
<1>1. /\ Apply(t) /\ tasks' = tasks \cup Pushed(t) /\ met' = met /\ txns' = txns \ {t}
      /\ Put(t.core, t.event, t.begun)
  BY DEF Commit, Apply, Put
<1>2. /\ t.core \in Core /\ t.event \in EventType /\ t.event.path \in Path /\ t.begun \in Nat
      /\ Client(t) \/ Merging(t)
  BY DEF SyncInv, Types, TxnType, EventType, TxnOK
<1>3. CASE t.core \in Ship
  <2>1. jobs'[Hub] = jobs[Hub]
    BY <1>1, <1>3, Cores, JobsApplied
  <2>2. \A task \in tasks' : task \in tasks \/ task.request = t.event
    BY <1>1 DEF Pushed, Push
  <2> QED
    BY <1>1, <1>3, <2>1, <2>2, ShipPut
<1>4. CASE t.core = Hub
  <2>1. tasks' \subseteq tasks
    BY <1>1, <1>4 DEF Pushed, Push
  <2>2. t.event \in Events(Hub)'
    BY <1>1, <1>2, <1>4, PutLog, Cores
  <2>3. ASSUME NEW x \in jobs[Hub], x.path # t.event.path PROVE x \in jobs'[Hub]
    <3>1. x \in Events(Hub) /\ x.key \in ClientKey
      BY Cores DEF SyncInv, CoreOK, JobsOpen
    <3>2. t.event.key # <<Hub, x.key>>
      <4>1. CASE Client(t)
        BY <3>1, <4>1, KeyAssumption, Cores DEF Client, ClientKey
      <4>2. CASE Merging(t)
        <5>1. PICK y \in jobs[Hub] : t.event.key = <<Hub, y.key>> /\ t.event.path = y.path
          BY <1>4, <4>2 DEF Merging
        <5>2. y \in Events(Hub)
          BY Cores DEF SyncInv, CoreOK, JobsOpen
        <5>3. x.key = y.key => x = y
          BY <3>1, <5>2, Cores DEF SyncInv, CoreOK, KeysOnce, Events
        <5> QED
          BY <2>3, <5>1, <5>3
      <4> QED
        BY <1>2, <4>1, <4>2
    <3> QED
      BY <1>1, <1>4, <3>2, JobsApplied
  <2>4. docs'[Hub][t.event.path].event = t.event
    BY <1>1, <1>2, <1>4, PutDocs, Cores
  <2>5. ShowsLater(t.event.path)'
    <3>1. CASE t.event.op = "merge"
      BY <2>2, <3>1 DEF ShowsLater, Plain
    <3>2. CASE t.event.core = Hub
      BY <2>2, <3>2, Cores DEF ShowsLater
    <3>3. CASE t.event \in Envelope /\ t.event.core \in Ship
      BY <1>1, <1>4, <3>3, PushShows
    <3>4. t.event.core = Hub \/ t.event.core \in Ship
      BY <1>2 DEF EventType, Core
    <3> QED
      BY <1>2, <3>1, <3>2, <3>3, <3>4 DEF Client, Merging
  <2> QED
    BY <1>1, <1>4, <2>1, <2>3, <2>5, HubPut
<1> QED
  BY <1>2, <1>3, <1>4 DEF Core

LEMMA OrderMerge ==
  ASSUME SyncInv, OrderInv, NEW c \in Core, Merge(c) PROVE OrderInv'
<1>1. PICK e \in jobs[c] :
        /\ Begin(c, [key |-> MergeKey(c, e), core |-> c, op |-> "merge", path |-> e.path,
                     writer |-> Quartermaster, keyRef |-> None, at |-> now])
        /\ UNCHANGED <<store, tasks>>
  BY DEF Merge
<1>2. PICK m : m = [key |-> MergeKey(c, e), core |-> c, op |-> "merge", path |-> e.path,
                    writer |-> Quartermaster, keyRef |-> None, at |-> now]
  OBVIOUS
<1>3. e.key \in ClientKey /\ e.path \in Path /\ now \in Nat
  BY EventsTyped DEF SyncInv, CoreOK, JobsOpen, EventType, Types
<1>4. m \in EventType /\ m.core = c
  <2>1. m.key \in Core \X {x.key : x \in Envelope}
    BY <1>2, <1>3 DEF ClientKey, MergeKey
  <2> QED
    BY <1>2, <1>3, <2>1 DEF EventType
<1>5. c = Hub => m.core \notin Ship
  BY <1>4, Cores
<1> QED
  BY <1>1, <1>2, <1>4, <1>5, OrderBegin

LEMMA OrderStep == ASSUME SyncInv, OrderInv, [Next]_vars PROVE OrderInv'
<1>1. CASE UNCHANGED vars
  BY <1>1, OrderSame DEF vars, store
<1>2. ASSUME NEW r \in Registration, RegisterSigner(r) PROVE OrderInv'
  <2>1. UNCHANGED <<store, met, txns>> /\ tasks' = tasks \cup Push("signer", r)
    BY <1>2 DEF RegisterSigner, database
  <2>2. \A task \in Push("signer", r) : task.kind = "signer"
    BY DEF Push
  <2> QED
    BY <2>1, <2>2, OrderSame
<1>3. ASSUME NEW e \in Envelope, Write(e) PROVE OrderInv'
  <2>1. Begin(e.core, e) /\ UNCHANGED <<store, tasks>>
    BY <1>3 DEF Write
  <2>2. e \in EventType /\ e.core \in Core /\ (e.core = Hub => e.core \notin Ship)
    BY Envelopes, Cores
  <2> QED
    BY <2>1, <2>2, OrderBegin
<1>4. ASSUME NEW t \in txns, Rollback(t) PROVE OrderInv'
  <2>1. UNCHANGED <<store, met, tasks>> /\ txns' \subseteq txns
    BY <1>4 DEF Rollback
  <2> QED
    BY <2>1, OrderSame
<1>5. ASSUME NEW task \in tasks, PushSigner(task) PROVE OrderInv'
  <2>1. UNCHANGED <<store, met, txns>> /\ tasks' = (tasks \ {task}) \cup Following(task)
    BY <1>5 DEF PushSigner, database
  <2>2. \A f \in Following(task) : task.kind # "signer" /\ f.request = task.request
    BY DEF Following
  <2> QED
    BY <2>1, <2>2, OrderSame
<1>6. ASSUME NEW task \in tasks, PushEvent(task) PROVE OrderInv'
  <2>1. task.kind = "event" /\ tasks' = tasks \ {task} /\ UNCHANGED store
    BY <1>6 DEF PushEvent
  <2>2. PICK e \in Envelope : e = task.request /\ e \in EventType /\ InOrder(e)
    BY <2>1, Envelopes DEF SyncInv, TasksAccepted, OrderInv, TasksInOrder
  <2>3. CASE Begin(Hub, e)
    BY <2>1, <2>2, <2>3, OrderBegin, Cores
  <2>4. CASE UNCHANGED <<txns, met>>
    BY <2>1, <2>4, OrderSame
  <2> QED
    BY <1>6, <2>2, <2>3, <2>4 DEF PushEvent
<1>7. ASSUME NEW s \in Ship, Crash(s) \/ Fetch(s) PROVE OrderInv'
  <2>1. UNCHANGED <<store, met>> /\ tasks' \subseteq tasks /\ txns' \subseteq txns
    BY <1>7 DEF Crash, Fetch, database
  <2> QED
    BY <2>1, OrderSame
<1>8. ASSUME NEW s \in Ship, ApplyRow(s) PROVE OrderInv'
  <2>1. pull[s] \in Seq(RowType) /\ pull[s] # <<>>
    BY <1>8 DEF ApplyRow, SyncInv, Types
  <2>2. Head(pull[s]) \in RowType
    BY <2>1
  <2>3. ~Parses(Head(pull[s]))
    BY <2>2 DEF Parses, RowType
  <2>4. UNCHANGED <<store, met, txns, tasks>>
    BY <1>8, <2>3 DEF ApplyRow
  <2> QED
    BY <2>4, OrderSame
<1> QED
  BY <1>1, <1>2, <1>3, <1>4, <1>5, <1>6, <1>7, <1>8, OrderCommit, OrderMerge DEF Next

LEMMA OrderInit == ASSUME Init PROVE OrderInv
<1>1. \A c \in Core : Events(c) = {} /\ log[c] = <<>> /\ \A p \in Path : docs[c][p] = None
  BY DEF Init, Events
<1>2. tasks = {} /\ txns = {}
  BY DEF Init
<1>3. \A c \in Core, p \in Path : Shown(c, p)
  BY <1>1 DEF Shown, Unwritten
<1> QED
  BY <1>1, <1>2, <1>3, Cores DEF OrderInv, Homes, TasksInOrder, ShowsLater

\* Both show what they show for a reason: a hub that shows another writer's document than
\* the ship, of the same events, has it queued.
LEMMA OrderQueued == ASSUME SyncInv, OrderInv PROVE ReorderingIsQueued
<1> SUFFICES ASSUME NEW s \in Ship, NEW p \in Path, Complete(s, p), docs[s][p] # None,
                    ~Deleted(s, p), docs[s][p].event.writer # docs[Hub][p].event.writer,
                    ~Queued(Hub, p), p \notin met[Hub]
             PROVE  FALSE
  BY DEF ReorderingIsQueued
<1>1. s \in Core /\ s # Hub /\ Hub \in Core
  BY Cores
<1>2. \A e : e \in Events(Hub) /\ e.path = p => e \in Events(s) /\ e.core = s
  BY DEF Complete, OrderInv, Homes
<1>3. \A e : e \in Events(s) /\ e.path = p => e \in Events(Hub)
  BY DEF Complete
<1>4. Plain(p)
  <2>1. ASSUME NEW e \in Events(Hub), e.path = p PROVE e.op = "upsert"
    <3>1. e \in EventType
      BY <1>1, EventsTyped DEF SyncInv
    <3>2. e.op # "merge"
      BY <1>1, <1>2, <2>1 DEF OrderInv, Homes
    <3>3. e.op # "delete"
      BY <1>2, <2>1 DEF Deleted
    <3> QED
      BY <3>1, <3>2, <3>3 DEF EventType
  <2> QED
    BY <2>1 DEF Plain, Queued
<1>5. PICK k \in DOMAIN log[s] :
        /\ log[s][k] = docs[s][p].event /\ log[s][k].path = p
        /\ \A j \in DOMAIN log[s] : log[s][j].path = p => j <= k
  BY <1>1 DEF OrderInv, Shown, Unwritten, LastOfPath
<1>6. PICK f \in Events(Hub) : f = docs[s][p].event /\ f.path = p /\ f.core = s
  BY <1>2, <1>3, <1>5 DEF Events
<1>7. docs[Hub][p] # None
  BY <1>1, <1>6 DEF OrderInv, Shown, Unwritten, LastOfPath, Events
<1>8. PICK h \in Events(Hub) : h.path = p /\ (h.core = s => Before(s, f, h))
  BY <1>4, <1>6, <1>7 DEF OrderInv, ShowsLater
<1>9. PICK i, j \in DOMAIN log[s] : i < j /\ log[s][i] = f /\ log[s][j] = h
  BY <1>2, <1>8 DEF Before
<1>10. i = k
  BY <1>1, <1>5, <1>6, <1>9 DEF SyncInv, CoreOK, KeysOnce
<1>11. j <= k
  BY <1>5, <1>8, <1>9
<1>12. i \in Nat /\ j \in Nat /\ k \in Nat
  BY <1>1, <1>5, <1>9 DEF SyncInv, Types
<1> QED
  BY <1>9, <1>10, <1>11, <1>12

-----------------------------------------------------------------------------
(* Theorems.                                                                 *)

\* The tables, tasks and pulls of all cores keep their types.
THEOREM TypeCorrect == Spec => []TypeOK
<1>1. ASSUME SyncInv PROVE TypeOK
  <2>1. \A s \in Ship : \A i \in DOMAIN pull[s] : pull[s][i].event \in EventType
    <3>1. ASSUME NEW s \in Ship, NEW i \in DOMAIN pull[s] PROVE pull[s][i] \in RowType
      <4>1. PICK q \in Seq(RowType) : q = pull[s]
        BY <1>1 DEF SyncInv, Types
      <4> QED
        BY <4>1
    <3>2. \A row \in RowType : row.event \in EventType
      BY DEF RowType
    <3> QED
      BY <3>1, <3>2
  <2>2. \A c \in Core :
          /\ Events(c) \subseteq EventType /\ jobs[c] \subseteq EventType
          /\ \A p \in Path : docs[c][p] \in {None} \cup [event: EventType, at: Nat]
    BY <1>1, EventsTyped DEF SyncInv, Types, DocType
  <2> QED
    BY <1>1, <2>1, <2>2 DEF SyncInv, Types, TxnType, DocType, TypeOK
<1> QED
  BY <1>1, Inductive, PTL

\* The hub invents nothing and no core has a key twice: pushes that are lost, overtaken or cut
\* off by a crash (server.ts:101-202, 441-492), merges and reconciles (204-268, 500-540).
THEOREM HubTrue == Spec => []HubOnlyAccepted
<1>1. SyncInv => HubOnlyAccepted
  BY DEF SyncInv, HubAccepted, CoreOK, KeysOnce, HubOnlyAccepted
<1> QED
  BY <1>1, Inductive, PTL

\* Pushes overtake each other, and what that does to a document does not go unnoticed: when
\* ship and hub have the same events of it and show different writers' ones, the hub has a
\* conflict queued (server.ts:101-202, memory-store.ts:421-450), or two of its
\* transactions were at work on it at once, whose checks did not see each other's write.
THEOREM ReorderingTrue == Spec => []ReorderingIsQueued
<1>1. Init => SyncInv /\ OrderInv
  BY SyncInit, OrderInit
<1>2. SyncInv /\ OrderInv /\ [Next]_vars => (SyncInv /\ OrderInv)'
  BY SyncStep, OrderStep
<1>3. SyncInv /\ OrderInv => ReorderingIsQueued
  BY OrderQueued
<1> QED
  BY <1>1, <1>2, <1>3, PTL DEF Spec

=============================================================================
