---------------------------- MODULE ToolGovernance ----------------------------
(***************************************************************************)
(* Who may use which tool of the catalog: requests for access and grants   *)
(* of a ship (node/src/lib/tools/requests.ts), decisions about activation  *)
(* (activation.ts), and the bindings of a subagent (agent-bindings.ts),    *)
(* each with the governance events it logs (lib/governance/events.ts).     *)
(*                                                                         *)
(* Every handler first reads and checks, without a lock, then writes its   *)
(* report to a file, then runs one READ COMMITTED transaction that relies  *)
(* on what it read: Begin... and Commit... here, with other handlers in    *)
(* between.  Who may act is left out: a refusal changes nothing.           *)
(*                                                                         *)
(* One ship and one subagent.  The log is kept by subject, an entry and    *)
(* what the event is about, each with its events in the order of commits.  *)
(***************************************************************************)
EXTENDS Naturals, Sequences

CONSTANTS
  Entry,     \* tool catalog entries
  Installs,  \* activation an entry's source gives it: [Entry -> Activation]
  Crew,      \* bridge crew of the ship
  Request,   \* access requests
  Worker,    \* handlers that may be under way at a time
  None,      \* no crew, no grant
  MaxCalls   \* bound: handlers that begin

Activation == {"pending", "approved", "denied"}
Scope == {"ship"} \cup Crew
Subject == Entry \X (Scope \cup {"catalog", "subagent"})

ASSUME InstallsAssumption == Installs \in [Entry -> {"pending", "approved"}]
ASSUME CrewAssumption == Crew \cap {"ship", "catalog", "subagent", None} = {}
ASSUME GrantAssumption == None \notin Nat /\ MaxCalls \in Nat

VARIABLES
  catalog,   \* per entry: whether it is installed, and its activation
  grants,    \* ShipToolGrant rows; a grant's id is the call that created it
  requests,  \* per request: its row
  bindings,  \* SubagentToolBinding rows; by is the call that wrote them
  log,       \* per subject: the types of its GovernanceGrantEvents
  work,      \* per worker: the call, what it wants and what it has read
  calls

vars == <<catalog, grants, requests, bindings, log, work, calls>>

Grant == [id: Nat, entry: Entry, scope: Scope]
Binding == [entry: Entry, enabled: BOOLEAN, by: Nat]
RequestRow ==
  [status: {"none"}] \cup
  [status: {"pending", "approved", "denied"}, entry: Entry, crew: Crew \cup {None},
   grant: 1..calls \cup {None}]
EventType ==
  {"tool_activation_approved", "tool_activation_denied", "ship_tool_grant_approved",
   "ship_tool_grant_revoked", "subagent_tool_granted", "subagent_tool_revoked"}
Idle == [op |-> "idle"]

Init ==
  /\ catalog = [e \in Entry |-> [installed |-> FALSE, activation |-> Installs[e]]]
  /\ grants = {}
  /\ requests = [r \in Request |-> [status |-> "none"]]
  /\ bindings = {}
  /\ log = [s \in Subject |-> <<>>]
  /\ work = [w \in Worker |-> Idle]
  /\ calls = 0

-----------------------------------------------------------------------------

\* A refresh finds the entry's files, or finds them gone.
Refresh(e) ==
  /\ catalog' = [catalog EXCEPT ![e].installed = ~@]
  /\ UNCHANGED <<grants, requests, bindings, log, work, calls>>

Begin(w, call) ==
  /\ work[w] = Idle
  /\ calls < MaxCalls
  /\ calls' = calls + 1
  /\ work' = [work EXCEPT ![w] = call]
  /\ UNCHANGED <<catalog, grants, requests, bindings, log>>

End(w) == work' = [work EXCEPT ![w] = Idle] /\ UNCHANGED calls

Doing(w, op) == work[w].op = op

\* A check, a report file or the transaction fails: nothing has changed.
Fail(w) ==
  /\ work[w] # Idle
  /\ End(w)
  /\ UNCHANGED <<catalog, grants, requests, bindings, log>>

Usable(e) == catalog[e].installed /\ catalog[e].activation = "approved"
Logged(e, about, type) == log' = [log EXCEPT ![<<e, about>>] = Append(@, type)]

-----------------------------------------------------------------------------
(* Activation of a catalog entry.                                            *)

BeginDecision(w, e, to) == Begin(w, [op |-> "activate", entry |-> e, to |-> to])

CommitDecision(w) ==
  /\ Doing(w, "activate")
  /\ catalog' = [catalog EXCEPT ![work[w].entry].activation = work[w].to]
  /\ Logged(work[w].entry, "catalog",
            IF work[w].to = "approved" THEN "tool_activation_approved"
            ELSE "tool_activation_denied")
  /\ End(w)
  /\ UNCHANGED <<grants, requests, bindings>>

-----------------------------------------------------------------------------
(* Access requests and grants of the ship.                                   *)

\* A new row: nobody has it, or is about to insert it.
BeginRequest(w, r, e, c) ==
  /\ requests[r].status = "none"
  /\ \A v \in Worker : Doing(v, "request") => work[v].request # r
  /\ Usable(e)
  /\ Begin(w, [op |-> "request", request |-> r, entry |-> e, crew |-> c])

CommitRequest(w) ==
  /\ Doing(w, "request")
  /\ requests' = [requests EXCEPT ![work[w].request] =
       [status |-> "pending", entry |-> work[w].entry, crew |-> work[w].crew, grant |-> None]]
  /\ End(w)
  /\ UNCHANGED <<catalog, grants, bindings, log>>

\* The mode requester_only needs a requester among the crew.
BeginApproval(w, r, scope) ==
  /\ requests[r].status = "pending"
  /\ scope \in {"ship", requests[r].crew} \ {None}
  /\ Begin(w, [op |-> "approve", request |-> r, scope |-> scope, call |-> calls + 1])

BeginDenial(w, r) ==
  /\ requests[r].status = "pending"
  /\ Begin(w, [op |-> "deny", request |-> r])

BeginBootstrap(w, e) ==
  /\ Usable(e)
  /\ Begin(w, [op |-> "bootstrap", entry |-> e, call |-> calls + 1])

GrantsOf(e, s) == {g \in grants : g.entry = e /\ g.scope = s}

\* The upsert by ship, entry and scope keeps the row that is there.
Upserted(e, s, call) ==
  IF GrantsOf(e, s) # {} THEN grants ELSE grants \cup {[id |-> call, entry |-> e, scope |-> s]}

\* Mutant: the request is linked to the grant the upsert would have created.
OwnCall(e, s, call) == call

GrantId(e, s, call) ==
  IF GrantsOf(e, s) # {} THEN (CHOOSE g \in GrantsOf(e, s) : TRUE).id ELSE call

\* The request is updated by its id, whatever its status has become.
CommitApproval(w) ==
  /\ Doing(w, "approve")
  /\ LET r == work[w].request
         e == requests[r].entry
         s == work[w].scope
     IN  /\ grants' = Upserted(e, s, work[w].call)
         /\ requests' = [requests EXCEPT ![r].status = "approved",
                                         ![r].grant = GrantId(e, s, work[w].call)]
         /\ Logged(e, s, "ship_tool_grant_approved")
  /\ End(w)
  /\ UNCHANGED <<catalog, bindings>>

CommitDenial(w) ==
  /\ Doing(w, "deny")
  /\ requests' = [requests EXCEPT ![work[w].request].status = "denied"]
  /\ End(w)
  /\ UNCHANGED <<catalog, grants, bindings, log>>

CommitBootstrap(w) ==
  /\ Doing(w, "bootstrap")
  /\ grants' = Upserted(work[w].entry, "ship", work[w].call)
  /\ Logged(work[w].entry, "ship", "ship_tool_grant_approved")
  /\ End(w)
  /\ UNCHANGED <<catalog, requests, bindings>>

BeginRevocation(w, g) == g \in grants /\ Begin(w, [op |-> "revoke", grant |-> g])

\* Mutant: the rows are deleted by deleteMany, which does not mind finding none.
NoMatter(g) == TRUE

\* The row of that id is still there; delete fails without it.
Present(g) == g \in grants

\* Requests lose their link to the row.
CommitRevocation(w) ==
  /\ Doing(w, "revoke")
  /\ LET g == work[w].grant IN
     /\ Present(g)
     /\ grants' = grants \ {g}
     /\ requests' = [r \in Request |->
          IF requests[r].status # "none" /\ requests[r].grant = g.id
          THEN [requests[r] EXCEPT !.grant = None] ELSE requests[r]]
     /\ Logged(g.entry, g.scope, "ship_tool_grant_revoked")
  /\ End(w)
  /\ UNCHANGED <<catalog, bindings>>

-----------------------------------------------------------------------------
(* The bindings of the subagent, replaced as a whole.                        *)

\* Mutant: a binding that is there counts as enabled.
AnyBound == {b.entry : b \in bindings}

Enabled == {b.entry : b \in {x \in bindings : x.enabled}}

\* want is a set of bindings with one per entry; the enabled ones of now tell what to log.
BeginReplace(w, want) ==
  /\ \A b \in want : Usable(b.entry)
  /\ LET enabled == Enabled
         next == {b.entry : b \in {x \in want : x.enabled}}
     IN  Begin(w, [op |-> "replace", want |-> {[b EXCEPT !.by = calls + 1] : b \in want},
                   granted |-> next \ enabled, revoked |-> enabled \ next])

\* The DELETE sees the rows that are committed when it begins, and waits for those that
\* another transaction is deleting.
DeleteBindings(w) ==
  /\ Doing(w, "replace")
  /\ work' = [work EXCEPT ![w] = [op |-> "insert", want |-> @.want, granted |-> @.granted,
                                  revoked |-> @.revoked, seen |-> bindings]]
  /\ UNCHANGED <<catalog, grants, requests, bindings, log, calls>>

\* Mutant: the table has no unique index.
NoIndex(w) == (bindings \ work[w].seen) \cup work[w].want

\* Rows it did not see stay, and the INSERT skips their entries.
Replaced(w) ==
  LET left == bindings \ work[w].seen
  IN  left \cup {b \in work[w].want : \A x \in left : x.entry # b.entry}

CommitReplace(w) ==
  /\ Doing(w, "insert")
  /\ bindings' = Replaced(w)
  /\ log' = [s \in Subject |->
       IF s[2] # "subagent" THEN log[s]
       ELSE IF s[1] \in work[w].granted THEN Append(log[s], "subagent_tool_granted")
       ELSE IF s[1] \in work[w].revoked THEN Append(log[s], "subagent_tool_revoked")
       ELSE log[s]]
  /\ End(w)
  /\ UNCHANGED <<catalog, grants, requests>>

-----------------------------------------------------------------------------

Wants == {{b \in [entry: Entry, enabled: BOOLEAN, by: {0}] :
             want[b.entry] = IF b.enabled THEN "enabled" ELSE "disabled"} :
          want \in [Entry -> {"enabled", "disabled", "unbound"}]}

Call(w) ==
  \/ \E e \in Entry, to \in {"approved", "denied"} : BeginDecision(w, e, to)
  \/ \E r \in Request, e \in Entry, c \in Crew \cup {None} : BeginRequest(w, r, e, c)
  \/ \E r \in Request, s \in Scope : BeginApproval(w, r, s)
  \/ \E r \in Request : BeginDenial(w, r)
  \/ \E e \in Entry : BeginBootstrap(w, e)
  \/ \E g \in grants : BeginRevocation(w, g)
  \/ \E want \in Wants : BeginReplace(w, want)

Transaction(w) ==
  \/ CommitDecision(w) \/ CommitRequest(w) \/ CommitApproval(w) \/ CommitDenial(w)
  \/ CommitBootstrap(w) \/ CommitRevocation(w) \/ DeleteBindings(w) \/ CommitReplace(w)

Next ==
  \/ \E e \in Entry : Refresh(e)
  \/ \E w \in Worker : Call(w) \/ Transaction(w) \/ Fail(w)

Spec == Init /\ [][Next]_vars

-----------------------------------------------------------------------------
(* Properties.                                                               *)

Last(e, about) ==
  IF log[<<e, about>>] = <<>> THEN "none" ELSE log[<<e, about>>][Len(log[<<e, about>>])]

\* The type invariant: rows are well formed, no two of them share a unique key, and no
\* grant is newer than the calls made.
TypeOK ==
  /\ catalog \in [Entry -> [installed: BOOLEAN, activation: Activation]]
  /\ grants \subseteq Grant
  /\ \A g, h \in grants :
       g.id = h.id \/ (g.entry = h.entry /\ g.scope = h.scope) => g = h
  /\ requests \in [Request -> RequestRow]
  /\ bindings \subseteq Binding
  /\ \A b, c \in bindings : b.entry = c.entry => b = c
  /\ log \in [Subject -> Seq(EventType)]
  /\ calls \in 0..MaxCalls

\* The audit log tells the truth about grants and activations: a grant is there if and only
\* if the last event about its entry and scope approved it, and an activation is the one
\* last decided (requests.ts:611-640, 760-850, 893-914 and activation.ts:98-147 log in the
\* transaction that changes the row), though handlers act on rows they read long before.
LogMatchesTables ==
  \A e \in Entry :
    /\ \A s \in Scope :
         GrantsOf(e, s) # {} <=> Last(e, s) = "ship_tool_grant_approved"
    /\ catalog[e].activation =
         CASE Last(e, "catalog") = "tool_activation_approved" -> "approved"
           [] Last(e, "catalog") = "tool_activation_denied" -> "denied"
           [] OTHER -> Installs[e]

\* A request that is linked to a grant is linked to one that is there, for its entry and for
\* the ship or its requester; an approved one without a link had its grant revoked.
RequestsMatchGrants ==
  \A r \in {x \in Request : requests[x].status # "none"} :
    LET row == requests[r] IN
    /\ row.grant # None =>
         \E g \in grants : g.id = row.grant /\ g.entry = row.entry
                           /\ g.scope \in {"ship", row.crew}
    /\ row.status = "approved" /\ row.grant = None =>
         \E s \in Scope : \E i \in DOMAIN log[<<row.entry, s>>] :
           log[<<row.entry, s>>][i] = "ship_tool_grant_revoked"

\* Every enabled binding of the subagent was granted by a logged event with its report, even
\* when replacements read the same bindings and then overwrite or mix with each other
\* (agent-bindings.ts:390-505).
EnabledWasGranted ==
  \A b \in bindings :
    b.enabled => \E i \in DOMAIN log[<<b.entry, "subagent">>] :
                   log[<<b.entry, "subagent">>][i] = "subagent_tool_granted"

=============================================================================
