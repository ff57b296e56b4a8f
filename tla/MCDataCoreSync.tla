-------------------------- MODULE MCDataCoreSync --------------------------
(***************************************************************************)
(* Instances of DataCoreSync for TLC: a ship whose two writers' writes of  *)
(* one document travel to the hub side by side while one of them changes   *)
(* keys; a ship that pulls what a client of the hub wrote.                 *)
(***************************************************************************)
EXTENDS DataCoreSync

CONSTANTS a, p, w1, w2, k1, k2, i1, i2, i3

Env(key, core, writer, keyRef, at) ==
  [key |-> key, core |-> core, op |-> "upsert", path |-> p, writer |-> writer,
   keyRef |-> keyRef, at |-> at]
Reg(core, writer, keyRef) == [core |-> core, writer |-> writer, keyRef |-> keyRef]

\* Two writers on one ship, the second one's write made when the first one's has begun; the
\* first changes keys meanwhile.
ShipWrites == {Env(i1, a, w1, k1, 0), Env(i2, a, w2, k1, 1)}
ShipSigners == {Reg(a, w1, k1), Reg(a, w1, k2), Reg(a, w2, k1)}

\* A ship and a client of the hub.
HubWrites == {Env(i1, a, w1, k1, 0), Env(i3, Hub, w2, k1, 0)}
HubSigners == {Reg(a, w1, k1), Reg(Hub, w2, k1)}

=============================================================================
