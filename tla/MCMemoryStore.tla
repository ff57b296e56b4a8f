-------------------------- MODULE MCMemoryStore --------------------------
(***************************************************************************)
(* Instances of MemoryStore for TLC.  The envelopes are chosen so that two *)
(* writers meet on one document in every way the code tells apart: old and *)
(* new writes, deletes, moves in both directions, a resent request, two    *)
(* requests that share a key or a sequence.                                *)
(***************************************************************************)
EXTENDS MemoryStore, TLC

CONSTANTS
  p, q, w1, w2, k1, k2, x, y,
  i1, i2, i3, i4, i5, i6,
  s1, s2, s3, s4, s5, s6

EmptyRegistry == [w \in Writer |-> None]
FullRegistry == [w \in Writer |-> k1]

Env(op, path, from, content, writer, key, seq, at) ==
  [op |-> op, path |-> path, from |-> from, content |-> content,
   writer |-> writer, keyRef |-> k1, key |-> key, seq |-> seq, at |-> at]

\* Two writers upsert p; w2's write is older than anything committed.
First == Env("upsert", p, p, {x}, w1, i1, s1, 9)
Second == Env("upsert", p, p, {y}, w2, i2, s2, 0)
\* The node sends its write again with the sequence of First under a new key.
Reused == Env("upsert", p, p, {y}, w1, i3, s1, 9)
\* The other document, so that moves can meet head-on.
Other == Env("upsert", q, q, {x}, w1, i2, s2, 9)
Remove == Env("delete", p, p, {}, w2, i3, s3, 0)
\* A move with a body of its own, and moves that take the body of their source.
Away == Env("move", q, p, {}, w1, i4, s4, 9)
Back == Env("move", p, q, {y}, w2, i5, s5, 0)
Onto == Env("move", p, p, {}, w1, i6, s6, 9)

WriteEnvelopes == {First, Second, Reused, Remove}
MoveEnvelopes == {First, Other, Away, Back}
SelfMoveEnvelopes == {First, Second, Onto}

TxnSymmetry == Permutations(Txn)

=============================================================================
