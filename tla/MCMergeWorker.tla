-------------------------- MODULE MCMergeWorker --------------------------
(***************************************************************************)
(* Instances of MergeWorker for TLC: two writers in conflict over one      *)
(* document, one or two passes.                                            *)
(***************************************************************************)
EXTENDS MergeWorker, TLC

CONSTANTS p, w1, w2, k1, x, y, z, i1, i2, i3, s1, s2, s3

FullRegistry == [w \in Writer |-> k1]

Env(op, content, writer, key, seq, at) ==
  [op |-> op, path |-> p, from |-> p, content |-> content, writer |-> writer,
   keyRef |-> k1, key |-> key, seq |-> seq, at |-> at]

First == Env("upsert", {x}, w1, i1, s1, 9)
Old == Env("upsert", {y}, w2, i2, s2, 0)
\* A write of the first writer that meets a merge half way, and a delete that lost the race.
Late == Env("upsert", {z}, w1, i3, s3, 9)
Remove == Env("delete", {}, w2, i2, s2, 0)

ConflictEnvelopes == {First, Old, Late, Remove}

\* Client keys and the keys of merges.
Keys == {i1, i2, i3} \cup ((0..MaxRequests) \X (0..MaxRequests))
Seqs == {s1, s2, s3} \cup (Worker \X (0..MaxRequests))

WorkerSymmetry == Permutations(Worker)

=============================================================================
