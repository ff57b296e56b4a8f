------------------------------ MODULE RoundQueue ------------------------------
(***************************************************************************)
(* What the callers of a bridge call may expect of a scope's rounds: they  *)
(* run one at a time, in the order in which they were accepted, and every  *)
(* caller is answered, whatever becomes of the rounds before.  BridgeCall  *)
(* implements it.                                                          *)
(***************************************************************************)
EXTENDS Naturals, Sequences

CONSTANTS Request, None

VARIABLES waiting, running, answered
vars == <<waiting, running, answered>>

Init == waiting = <<>> /\ running = None /\ answered = {}

Asked(r) == r = running \/ r \in answered \/ \E i \in DOMAIN waiting : waiting[i] = r

\* A request is turned away, starts at once, or waits.
Refuse(r) ==
  /\ ~Asked(r)
  /\ answered' = answered \cup {r}
  /\ UNCHANGED <<waiting, running>>

Accept(r) ==
  /\ ~Asked(r)
  /\ IF running = None THEN running' = r /\ UNCHANGED waiting
     ELSE waiting' = Append(waiting, r) /\ UNCHANGED running
  /\ UNCHANGED answered

\* The round ends, well or not, and the next one starts.
End ==
  /\ running # None
  /\ answered' = answered \cup {running}
  /\ IF waiting = <<>> THEN running' = None /\ UNCHANGED waiting
     ELSE running' = Head(waiting) /\ waiting' = Tail(waiting)

\* The process dies; callers see their connections break.
CutOff ==
  /\ answered' = answered \cup {r \in Request : Asked(r)}
  /\ waiting' = <<>>
  /\ running' = None

Next == (\E r \in Request : Refuse(r) \/ Accept(r)) \/ End \/ CutOff

\* What is promised about the order, and that rounds end.
OrderSpec == Init /\ [][Next]_vars
Spec == OrderSpec /\ WF_vars(End)

=============================================================================
