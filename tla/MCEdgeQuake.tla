---------------------------- MODULE MCEdgeQuake ----------------------------
(***************************************************************************)
(* Instances of EdgeQuake for TLC: edits of a document, and a move next to *)
(* an edit of its source, so that two documents have one body.             *)
(***************************************************************************)
EXTENDS EdgeQuake

CONSTANTS p, q, c1, c2, c3, i1, i2, i3

Upsert(id, path, content) ==
  [id |-> id, op |-> "upsert", path |-> path, from |-> path, content |-> content]
Delete(id, path) ==
  [id |-> id, op |-> "delete", path |-> path, from |-> path, content |-> c1]
Move(id, from, path) ==
  [id |-> id, op |-> "move", path |-> path, from |-> from, content |-> c1]

\* A document edited and deleted.
Edits == {Upsert(i1, p, c1), Upsert(i2, p, c2), Delete(i3, p)}

\* A move; the old path comes to have the body that was moved away.
MovedAndBack == {Upsert(i1, p, c1), Move(i2, p, q), Upsert(i3, p, c1)}

=============================================================================
