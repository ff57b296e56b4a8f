---------------------------- MODULE MemoryView ----------------------------
(***************************************************************************)
(* What a data-core instance promises of its tables, with no transactions  *)
(* in sight: an append-only log of events, each with a key of its own,     *)
(* next to the current documents and the chunk index, which change only    *)
(* together with the log and only by the one event that is appended.  This *)
(* is the contract services/data-core/README.md:7-9 lists; MemoryStore     *)
(* implements it.                                                          *)
(***************************************************************************)
EXTENDS Naturals

CONSTANTS Path, None

VARIABLES docs, log, chunks, jobs
vars == <<docs, log, chunks, jobs>>

Init ==
  /\ docs = [p \in Path |-> [content |-> {}, writer |-> None, event |-> 0,
                             at |-> 0, live |-> FALSE]]
  /\ log = {}
  /\ chunks = [p \in Path |-> {}]
  /\ jobs = {}

\* An event nobody has seen: its key, sequence and cursor are new to the log.
Fresh(f) == \A e \in log : e.key # f.key /\ e.seq # f.seq /\ e.id # f.id

\* The bodies writers have sent so far.
Bodies == {f.content : f \in log}

\* The event is the latest one of the path and the body is live and indexed there.
Shows(p, f, body) ==
  /\ docs'[p] = [content |-> body, writer |-> f.writer, event |-> f.id,
                 at |-> f.ingested, live |-> TRUE]
  /\ chunks'[p] = body

\* The path is deleted by the event; the body stays in the dead row.
Hides(p, f) ==
  /\ docs'[p].content = docs[p].content
  /\ docs'[p].event = f.id /\ docs'[p].at = f.ingested /\ ~docs'[p].live
  /\ chunks'[p] = {}

OthersKeep(S) ==
  \A p \in Path \ S : docs'[p] = docs[p] /\ chunks'[p] = chunks[p]

\* A merge job is queued by the event it names, or names none.
Queued(f) == \A j \in jobs' \ jobs : j.incoming \in {0, f.id}

Write(f) ==
  /\ f.op \in {"upsert", "merge"}
  /\ Shows(f.path, f, f.content)
  /\ OthersKeep({f.path})

Delete(f) ==
  /\ f.op = "delete"
  /\ Hides(f.path, f)
  /\ OthersKeep({f.path})

\* The moved body is the event's own or one that was written before.
Move(f) ==
  /\ f.op = "move" /\ f.from # f.path
  /\ \E body \in IF f.content = {} THEN Bodies ELSE {f.content} :
       Shows(f.path, f, body)
  /\ Hides(f.from, f)
  /\ OthersKeep({f.path, f.from})

\* A note moved onto itself is deleted but stays in the index.
MoveOntoItself(f) ==
  /\ f.op = "move" /\ f.from = f.path
  /\ ~docs'[f.path].live /\ docs'[f.path].event = f.id
  /\ chunks'[f.path] = docs'[f.path].content
  /\ OthersKeep({f.path})

Append ==
  \E f \in log' :
    /\ Fresh(f)
    /\ log' = log \cup {f}
    /\ jobs \subseteq jobs'
    /\ Queued(f)
    /\ Write(f) \/ Delete(f) \/ Move(f) \/ MoveOntoItself(f)

\* A request that turns out to be a duplicate leaves a job that names no event.
QueuePlaceholder ==
  /\ jobs \subseteq jobs'
  /\ \A j \in jobs' \ jobs : j.incoming = 0
  /\ UNCHANGED <<docs, log, chunks>>

Next == Append \/ QueuePlaceholder

Spec == Init /\ [][Next]_vars

=============================================================================
