----------------------------- MODULE ToolProofs -----------------------------
(***************************************************************************)
(* What ToolGovernance promises, for any number of entries, crew, requests *)
(* and handlers: the audit log says which grants and activations there     *)
(* are, requests are linked to grants that are there, and enabled bindings *)
(* were granted, although every handler acts on rows it read long before.  *)
(***************************************************************************)
EXTENDS ToolGovernance, TLAPS

-----------------------------------------------------------------------------
(* The inductive invariant: what each handler has read is still good enough. *)

Reviewed(r) == r \in Request /\ requests[r].status # "none"

\* A number no grant has and no other handler: what the upsert may give to a new row.
OwnNumber(w) ==
  /\ work[w].call \in 1..calls
  /\ \A g \in grants : g.id # work[w].call
  /\ \A v \in Worker \ {w} :
       work[v].op \in {"approve", "bootstrap"} => work[v].call # work[w].call

RequestRead(w) ==
  /\ work[w].request \in Request /\ requests[work[w].request].status = "none"
  /\ work[w].entry \in Entry /\ work[w].crew \in Crew \cup {None}
  /\ \A v \in Worker \ {w} : work[v].op = "request" => work[v].request # work[w].request

ApprovalRead(w) ==
  /\ Reviewed(work[w].request)
  /\ work[w].scope \in {"ship", requests[work[w].request].crew} \ {None}
  /\ OwnNumber(w)

GrantLogged(e) ==
  \E i \in DOMAIN log[<<e, "subagent">>] :
    log[<<e, "subagent">>][i] = "subagent_tool_granted"

\* What a replacement will enable has been granted, or is granted by its own event.
ReplaceRead(w) ==
  /\ work[w].want \subseteq Binding
  /\ \A b, c \in work[w].want : b.entry = c.entry => b = c
  /\ \A b \in work[w].want : b.enabled => b.entry \in work[w].granted \/ GrantLogged(b.entry)

WorkOK(w) ==
  /\ work[w].op = "activate" => work[w].entry \in Entry /\ work[w].to \in {"approved", "denied"}
  /\ work[w].op = "request" => RequestRead(w)
  /\ work[w].op = "approve" => ApprovalRead(w)
  /\ work[w].op = "deny" => Reviewed(work[w].request)
  /\ work[w].op = "bootstrap" => work[w].entry \in Entry /\ OwnNumber(w)
  /\ work[w].op = "revoke" => work[w].grant \in Grant
  /\ work[w].op \in {"replace", "insert"} => ReplaceRead(w)

WorkSound == work = [w \in Worker |-> work[w]] /\ \A w \in Worker : WorkOK(w)
GrantNumbers == \A g \in grants : g.id \in 1..calls

ToolInv ==
  /\ TypeOK /\ WorkSound /\ GrantNumbers
  /\ LogMatchesTables /\ RequestsMatchGrants /\ EnabledWasGranted

-----------------------------------------------------------------------------
(* The log, rows and numbers.                                                *)

LEMMA Constants ==
  /\ "ship" \in Scope /\ Crew \subseteq Scope
  /\ "catalog" \notin Scope /\ "subagent" \notin Scope
  /\ None \notin Nat /\ MaxCalls \in Nat /\ None \notin Crew
  /\ \A e \in Entry : Installs[e] \in Activation
  /\ \A e \in Entry : \A s \in Scope : <<e, s>> \in Subject
  /\ \A e \in Entry : <<e, "catalog">> \in Subject /\ <<e, "subagent">> \in Subject
BY CrewAssumption, GrantAssumption, InstallsAssumption DEF Scope, Subject, Activation

\* What a reviewed request's row looks like.
LEMMA ReviewedRow ==
  ASSUME TypeOK, NEW r, Reviewed(r)
  PROVE  /\ requests[r].status \in {"pending", "approved", "denied"}
         /\ requests[r].entry \in Entry /\ requests[r].crew \in Crew \cup {None}
         /\ requests[r].grant \in 1..calls \cup {None}
         /\ requests[r] \in [status: {"pending", "approved", "denied"}, entry: Entry,
                             crew: Crew \cup {None}, grant: 1..calls \cup {None}]
BY DEF TypeOK, Reviewed, RequestRow

\* Events are only ever added.
LogGrows ==
  /\ log' \in [Subject -> Seq(EventType)]
  /\ \A s \in Subject : \A i \in DOMAIN log[s] : i \in DOMAIN log'[s] /\ log'[s][i] = log[s][i]

LEMMA LoggedFacts ==
  ASSUME TypeOK, NEW e, NEW about, <<e, about>> \in Subject, NEW type \in EventType,
         Logged(e, about, type)
  PROVE  /\ LogGrows
         /\ Last(e, about)' = type
         /\ \E i \in DOMAIN log'[<<e, about>>] : log'[<<e, about>>][i] = type
         /\ \A s \in Subject : s # <<e, about>> => log'[s] = log[s]
<1> DEFINE q == log[<<e, about>>]
           n == Len(q)
<1>1. q \in Seq(EventType) /\ n \in Nat /\ DOMAIN q = 1..n
  BY DEF TypeOK
<1>2. /\ log'[<<e, about>>] = Append(q, type)
      /\ \A s \in Subject : s # <<e, about>> => log'[s] = log[s]
  BY DEF Logged, TypeOK
<1>3. /\ Append(q, type) \in Seq(EventType) /\ Len(Append(q, type)) = n + 1
      /\ DOMAIN Append(q, type) = 1..(n + 1) /\ Append(q, type)[n + 1] = type
      /\ Append(q, type) # <<>> /\ \A i \in 1..n : Append(q, type)[i] = q[i]
  <2> HIDE DEF q
  <2> QED
    BY <1>1
<1>4. log' \in [Subject -> Seq(EventType)]
  BY <1>1, <1>3 DEF Logged, TypeOK
<1>5. LogGrows
  <2>1. ASSUME NEW s \in Subject, NEW i \in DOMAIN log[s]
        PROVE  i \in DOMAIN log'[s] /\ log'[s][i] = log[s][i]
    <3>1. CASE s = <<e, about>>
      <4>1. i \in 1..n /\ i \in 1..(n + 1)
        BY <1>1, <2>1, <3>1
      <4> QED
        BY <1>2, <1>3, <3>1, <4>1
    <3>2. CASE s # <<e, about>>
      BY <1>2, <2>1, <3>2
    <3> QED
      BY <3>1, <3>2
  <2> QED
    BY <1>4, <2>1 DEF LogGrows
<1>6. Last(e, about)' = type
  BY <1>2, <1>3 DEF Last
<1>7. n + 1 \in DOMAIN log'[<<e, about>>] /\ log'[<<e, about>>][n + 1] = type
  BY <1>1, <1>2, <1>3
<1> QED
  BY <1>2, <1>5, <1>6, <1>7

LEMMA GrantLoggedStays ==
  ASSUME LogGrows, NEW e \in Entry, GrantLogged(e)
  PROVE  GrantLogged(e)'
BY Constants DEF LogGrows, GrantLogged

-----------------------------------------------------------------------------
(* Handlers.                                                                 *)

\* What a step of w keeps of what the other handlers have read.
KeepsOthers(w) ==
  /\ calls' \in Nat /\ calls' >= calls
  /\ LogGrows
  /\ \A r \in Request :
       /\ requests[r].status # "none" =>
            requests'[r].status # "none" /\ requests'[r].crew = requests[r].crew
       /\ requests[r].status = "none" =>
            requests'[r].status = "none" \/ (work[w].op = "request" /\ work[w].request = r)
  /\ \A g \in grants' :
       g \in grants \/ (work[w].op \in {"approve", "bootstrap"} /\ g.id = work[w].call)

LEMMA OthersOK ==
  ASSUME TypeOK, WorkSound, NEW w \in Worker, NEW c, work' = [work EXCEPT ![w] = c],
         KeepsOthers(w),
         c.op \in {"approve", "bootstrap"} => c.call = calls + 1,
         c.op = "request" => \A u \in Worker : Doing(u, "request") => work[u].request # c.request,
         NEW v \in Worker \ {w}
  PROVE  WorkOK(v)'
<1>1. work'[v] = work[v] /\ work'[w] = c /\ \A u \in Worker \ {w} : work'[u] = work[u] /\ WorkOK(v)
  BY DEF WorkSound
<1>2. calls \in Nat /\ v \in Worker /\ v # w
  BY Constants DEF TypeOK
<1>3. ASSUME work[v].op = "request" PROVE RequestRead(v)'
  <2>1. RequestRead(v)
    BY <1>1, <1>3 DEF WorkOK
  <2>2. work[w].op = "request" => work[w].request # work[v].request
    BY <1>2, <2>1 DEF RequestRead
  <2>3. requests'[work[v].request].status = "none"
    BY <2>1, <2>2 DEF RequestRead, KeepsOthers
  <2>4. c.op = "request" => c.request # work[v].request
    BY <1>2, <1>3 DEF Doing
  <2>5. \A u \in Worker \ {v} : work'[u].op = "request" => work'[u].request # work[v].request
    BY <1>1, <2>1, <2>4 DEF RequestRead
  <2> QED
    BY <1>1, <2>1, <2>3, <2>5 DEF RequestRead
<1>4. ASSUME work[v].op \in {"approve", "bootstrap"} PROVE OwnNumber(v)'
  <2>1. OwnNumber(v)
    BY <1>1, <1>4 DEF WorkOK, ApprovalRead
  <2>2. \A g \in grants' : g.id # work[v].call
    BY <1>2, <2>1 DEF OwnNumber, KeepsOthers
  <2>3. work[v].call \in 1..calls /\ work[v].call \in 1..calls' /\ work[v].call # calls + 1
    BY <1>2, <2>1 DEF OwnNumber, KeepsOthers
  <2>4. \A u \in Worker \ {v} :
          work'[u].op \in {"approve", "bootstrap"} => work'[u].call # work[v].call
    BY <1>1, <2>1, <2>3 DEF OwnNumber
  <2> QED
    BY <1>1, <2>2, <2>3, <2>4 DEF OwnNumber
<1>5. ASSUME NEW r, Reviewed(r) PROVE Reviewed(r)' /\ requests'[r].crew = requests[r].crew
  BY <1>5 DEF Reviewed, KeepsOthers
<1>6. ASSUME work[v].op = "approve" PROVE ApprovalRead(v)'
  <2>1. ApprovalRead(v)
    BY <1>1, <1>6 DEF WorkOK
  <2>2. PICK r : r = work[v].request
    OBVIOUS
  <2>3. Reviewed(r)' /\ requests'[r].crew = requests[r].crew
    BY <1>5, <2>1, <2>2 DEF ApprovalRead
  <2> QED
    BY <1>1, <1>4, <1>6, <2>1, <2>2, <2>3 DEF ApprovalRead, Reviewed
<1>7. ASSUME work[v].op = "deny" PROVE Reviewed(work[v].request)'
  BY <1>1, <1>5, <1>7 DEF WorkOK, Reviewed, KeepsOthers
<1>8. ASSUME work[v].op \in {"replace", "insert"} PROVE ReplaceRead(v)'
  <2>1. ReplaceRead(v)
    BY <1>1, <1>8 DEF WorkOK
  <2>2. \A b \in work[v].want : b.entry \in Entry
    BY <2>1 DEF ReplaceRead, Binding
  <2>3. \A b \in work[v].want : GrantLogged(b.entry) => GrantLogged(b.entry)'
    BY <2>2, GrantLoggedStays DEF KeepsOthers
  <2> QED
    BY <1>1, <2>1, <2>3 DEF ReplaceRead
<1>9. WorkOK(v)
  BY DEF WorkSound
<1> QED
  BY <1>1, <1>3, <1>4, <1>6, <1>7, <1>8, <1>9 DEF WorkOK, Reviewed

LEMMA TablesSame ==
  ASSUME ToolInv, UNCHANGED <<catalog, grants, requests, bindings, log>>,
         calls' \in 0..MaxCalls, calls' >= calls
  PROVE  /\ TypeOK' /\ GrantNumbers' /\ LogGrows
         /\ LogMatchesTables' /\ RequestsMatchGrants' /\ EnabledWasGranted'
<1>1. calls \in Nat /\ calls' \in Nat /\ 1..calls \subseteq 1..calls'
  BY Constants DEF ToolInv, TypeOK
<1>2. RequestRow \subseteq RequestRow'
  BY <1>1 DEF RequestRow
<1>3. TypeOK'
  BY <1>2 DEF ToolInv, TypeOK
<1>4. GrantNumbers' /\ LogGrows
  BY <1>1 DEF ToolInv, TypeOK, GrantNumbers, LogGrows
<1>5. LogMatchesTables' /\ RequestsMatchGrants' /\ EnabledWasGranted'
  <2>1. LogMatchesTables'
    BY DEF ToolInv, LogMatchesTables, GrantsOf, Last
  <2>2. RequestsMatchGrants'
    BY DEF ToolInv, RequestsMatchGrants
  <2>3. EnabledWasGranted'
    BY DEF ToolInv, EnabledWasGranted
  <2> QED
    BY <2>1, <2>2, <2>3
<1> QED
  BY <1>3, <1>4, <1>5

LEMMA BeginOK ==
  ASSUME ToolInv, NEW w \in Worker, NEW c, Begin(w, c), WorkOK(w)',
         c.op \in {"approve", "bootstrap"} => c.call = calls + 1,
         c.op = "request" => \A u \in Worker : Doing(u, "request") => work[u].request # c.request
  PROVE  ToolInv'
<1>1. /\ UNCHANGED <<catalog, grants, requests, bindings, log>>
      /\ calls \in Nat /\ calls' \in 0..MaxCalls /\ calls' >= calls
  BY Constants DEF Begin, ToolInv, TypeOK
<1>2. /\ TypeOK' /\ GrantNumbers' /\ LogGrows
      /\ LogMatchesTables' /\ RequestsMatchGrants' /\ EnabledWasGranted'
  BY <1>1, TablesSame
<1>3. KeepsOthers(w)
  BY <1>1, <1>2, Constants DEF KeepsOthers
<1>4. work' = [work EXCEPT ![w] = c]
  BY DEF Begin
<1>5. \A v \in Worker \ {w} : WorkOK(v)'
  BY <1>3, <1>4, OthersOK DEF ToolInv
<1>6. WorkSound'
  BY <1>4, <1>5 DEF ToolInv, WorkSound
<1> QED
  BY <1>2, <1>6 DEF ToolInv

\* The number of a call that begins is new.
LEMMA NewNumber ==
  ASSUME ToolInv, NEW w \in Worker, NEW c, Begin(w, c), c.call = calls + 1
  PROVE  OwnNumber(w)'
<1>1. calls \in Nat /\ calls' = calls + 1 /\ grants' = grants
  BY Constants DEF Begin, ToolInv, TypeOK
<1>2. work'[w] = c /\ \A v \in Worker \ {w} : work'[v] = work[v]
  BY DEF Begin, ToolInv, WorkSound
<1>3. \A g \in grants : g.id # calls + 1
  BY <1>1 DEF ToolInv, GrantNumbers
<1>4. \A v \in Worker : work[v].op \in {"approve", "bootstrap"} => work[v].call \in 1..calls
  BY DEF ToolInv, WorkSound, WorkOK, ApprovalRead, OwnNumber
<1> QED
  BY <1>1, <1>2, <1>3, <1>4 DEF OwnNumber

LEMMA CallStep ==
  ASSUME ToolInv, NEW w \in Worker, Call(w)
  PROVE  ToolInv'
<1> USE DEF WorkOK
<1>1. ASSUME NEW c, Begin(w, c) PROVE work'[w] = c /\ UNCHANGED <<requests, grants, log, bindings>>
  BY <1>1 DEF Begin, ToolInv, WorkSound
<1>2. ASSUME NEW e \in Entry, NEW to \in {"approved", "denied"}, BeginDecision(w, e, to)
      PROVE  ToolInv'
  <2> DEFINE c == [op |-> "activate", entry |-> e, to |-> to]
  <2>1. Begin(w, c)
    BY <1>2 DEF BeginDecision
  <2>2. WorkOK(w)'
    BY <1>1, <2>1
  <2> QED
    BY <2>1, <2>2, BeginOK
<1>3. ASSUME NEW r \in Request, NEW e \in Entry, NEW m \in Crew \cup {None},
             BeginRequest(w, r, e, m)
      PROVE  ToolInv'
  <2> DEFINE c == [op |-> "request", request |-> r, entry |-> e, crew |-> m]
  <2>1. Begin(w, c) /\ requests[r].status = "none"
        /\ \A v \in Worker : Doing(v, "request") => work[v].request # r
    BY <1>3 DEF BeginRequest
  <2>2. work'[w] = c /\ \A v \in Worker \ {w} : work'[v] = work[v]
    BY <1>1, <2>1 DEF Begin, ToolInv, WorkSound
  <2>3. RequestRead(w)'
    BY <1>1, <2>1, <2>2 DEF RequestRead, Doing
  <2>4. WorkOK(w)'
    BY <2>2, <2>3
  <2> QED
    BY <2>1, <2>4, BeginOK
<1>4. ASSUME NEW r \in Request, NEW s \in Scope, BeginApproval(w, r, s) PROVE ToolInv'
  <2> DEFINE c == [op |-> "approve", request |-> r, scope |-> s, call |-> calls + 1]
  <2>1. Begin(w, c) /\ requests[r].status = "pending" /\ s \in {"ship", requests[r].crew} \ {None}
    BY <1>4 DEF BeginApproval
  <2>2. work'[w] = c /\ OwnNumber(w)'
    BY <1>1, <2>1, NewNumber
  <2>3. ApprovalRead(w)'
    BY <1>1, <2>1, <2>2 DEF ApprovalRead, Reviewed
  <2>4. WorkOK(w)'
    BY <2>2, <2>3
  <2> QED
    BY <2>1, <2>4, BeginOK
<1>5. ASSUME NEW r \in Request, BeginDenial(w, r) PROVE ToolInv'
  <2> DEFINE c == [op |-> "deny", request |-> r]
  <2>1. Begin(w, c) /\ requests[r].status = "pending"
    BY <1>5 DEF BeginDenial
  <2>2. WorkOK(w)'
    BY <1>1, <2>1 DEF Reviewed
  <2> QED
    BY <2>1, <2>2, BeginOK
<1>6. ASSUME NEW e \in Entry, BeginBootstrap(w, e) PROVE ToolInv'
  <2> DEFINE c == [op |-> "bootstrap", entry |-> e, call |-> calls + 1]
  <2>1. Begin(w, c)
    BY <1>6 DEF BeginBootstrap
  <2>2. work'[w] = c /\ OwnNumber(w)'
    BY <1>1, <2>1, NewNumber
  <2>3. WorkOK(w)'
    BY <2>2
  <2> QED
    BY <2>1, <2>3, BeginOK
<1>7. ASSUME NEW g \in grants, BeginRevocation(w, g) PROVE ToolInv'
  <2> DEFINE c == [op |-> "revoke", grant |-> g]
  <2>1. Begin(w, c) /\ g \in Grant
    BY <1>7 DEF BeginRevocation, ToolInv, TypeOK
  <2>2. WorkOK(w)'
    BY <1>1, <2>1 DEF Grant
  <2> QED
    BY <2>1, <2>2, BeginOK
<1>8. ASSUME NEW want \in Wants, BeginReplace(w, want) PROVE ToolInv'
  <2>1. want \subseteq Binding /\ \A b, x \in want : b.entry = x.entry => b = x
    BY DEF Wants, Binding
  <2> DEFINE enabled == Enabled
             next == {b.entry : b \in {x \in want : x.enabled}}
             rows == {[b EXCEPT !.by = calls + 1] : b \in want}
             c == [op |-> "replace", want |-> rows,
                   granted |-> next \ enabled, revoked |-> enabled \ next]
  <2>2. Begin(w, c)
    BY <1>8 DEF BeginReplace
  <2>3. work'[w] = c /\ UNCHANGED log
    BY <1>1, <2>2
  <2>4. calls \in Nat
    BY Constants DEF ToolInv, TypeOK
  <2>5. rows \subseteq Binding /\ \A b, x \in rows : b.entry = x.entry => b = x
    BY <2>1, <2>4 DEF Binding
  <2>6. \A e \in enabled : GrantLogged(e)
    BY DEF Enabled, ToolInv, EnabledWasGranted, GrantLogged
  <2>7. \A b \in rows : b.enabled => b.entry \in next
    BY <2>1 DEF Binding
  <2>8. \A e : GrantLogged(e)' <=> GrantLogged(e)
    BY <2>3 DEF GrantLogged
  <2>9. ReplaceRead(w)'
    <3> HIDE DEF rows, enabled, next
    <3> QED
      BY <2>3, <2>5, <2>6, <2>7, <2>8 DEF ReplaceRead, Binding
  <2>10. WorkOK(w)'
    BY <2>3, <2>9
  <2> QED
    BY <2>2, <2>10, BeginOK
<1> QED
  BY <1>2, <1>3, <1>4, <1>5, <1>6, <1>7, <1>8 DEF Call

-----------------------------------------------------------------------------
(* Transactions.                                                             *)

LEMMA EndOK ==
  ASSUME ToolInv, NEW w \in Worker, End(w), KeepsOthers(w), TypeOK', GrantNumbers',
         LogMatchesTables', RequestsMatchGrants', EnabledWasGranted'
  PROVE  ToolInv'
<1>1. work' = [work EXCEPT ![w] = Idle] /\ Idle.op = "idle"
  BY DEF End, Idle
<1>2. \A v \in Worker \ {w} : WorkOK(v)'
  BY <1>1, OthersOK DEF ToolInv
<1>3. work'[w] = Idle
  BY <1>1 DEF ToolInv, WorkSound
<1>4. WorkOK(w)'
  BY <1>1, <1>3 DEF WorkOK
<1>5. WorkSound'
  BY <1>1, <1>2, <1>4 DEF ToolInv, WorkSound
<1> QED
  BY <1>5 DEF ToolInv

\* The end of a handler changes neither its number nor those of others.
LEMMA Kept ==
  ASSUME ToolInv, NEW w \in Worker, End(w), LogGrows, UNCHANGED requests, grants' \subseteq grants
  PROVE  KeepsOthers(w)
BY Constants DEF KeepsOthers, End, ToolInv, TypeOK

\* One request of RequestsMatchGrants.
RowOK(r) ==
  LET row == requests[r] IN
  /\ row.grant # None =>
       \E g \in grants : g.id = row.grant /\ g.entry = row.entry /\ g.scope \in {"ship", row.crew}
  /\ row.status = "approved" /\ row.grant = None =>
       \E s \in Scope : \E i \in DOMAIN log[<<row.entry, s>>] :
         log[<<row.entry, s>>][i] = "ship_tool_grant_revoked"

LEMMA Linked == RequestsMatchGrants <=> \A r \in Request : Reviewed(r) => RowOK(r)
BY DEF RequestsMatchGrants, RowOK, Reviewed

LEMMA LinkedNext ==
  ASSUME \A r \in Request : Reviewed(r)' => RowOK(r)'
  PROVE  RequestsMatchGrants'
BY DEF RequestsMatchGrants, RowOK, Reviewed

\* A row stays linked while the log and the grants only grow.
LEMMA RowStays ==
  ASSUME ToolInv, LogGrows, grants \subseteq grants', NEW r \in Request, Reviewed(r),
         requests'[r].entry = requests[r].entry, requests'[r].crew = requests[r].crew,
         requests'[r].grant = requests[r].grant,
         requests'[r].status = "approved" => requests[r].status = "approved"
  PROVE  RowOK(r)'
<1>1. RowOK(r) /\ requests[r].entry \in Entry
  BY Linked, ReviewedRow DEF ToolInv
<1>2. \A s \in Scope : <<requests[r].entry, s>> \in Subject
  BY <1>1, Constants
<1> QED
  BY <1>1, <1>2 DEF RowOK, LogGrows

LEMMA EnabledStays ==
  ASSUME ToolInv, LogGrows, UNCHANGED bindings
  PROVE  EnabledWasGranted'
<1> SUFFICES ASSUME NEW b \in bindings, b.enabled PROVE GrantLogged(b.entry)'
  BY DEF EnabledWasGranted, GrantLogged
<1>1. b.entry \in Entry /\ GrantLogged(b.entry)
  BY DEF ToolInv, TypeOK, Binding, EnabledWasGranted, GrantLogged
<1> QED
  BY <1>1, GrantLoggedStays

\* The event that goes with a change of the grants of one scope.
LEMMA GrantsLogged ==
  ASSUME ToolInv, NEW e \in Entry, NEW s \in Scope,
         NEW type \in {"ship_tool_grant_approved", "ship_tool_grant_revoked"},
         Logged(e, s, type), UNCHANGED catalog,
         GrantsOf(e, s)' # {} <=> type = "ship_tool_grant_approved",
         \A f \in Entry : \A t \in Scope :
           f # e \/ t # s => (GrantsOf(f, t)' # {} <=> GrantsOf(f, t) # {})
  PROVE  LogMatchesTables'
<1>1. /\ Last(e, s)' = type /\ \A x \in Subject : x # <<e, s>> => log'[x] = log[x]
  BY Constants, LoggedFacts DEF ToolInv, EventType
<1>2. ASSUME NEW f \in Entry, NEW t \in Scope
      PROVE  GrantsOf(f, t)' # {} <=> Last(f, t)' = "ship_tool_grant_approved"
  <2>1. CASE f = e /\ t = s
    BY <1>1, <2>1
  <2>2. CASE f # e \/ t # s
    <3>1. <<f, t>> \in Subject /\ <<f, t>> # <<e, s>>
      BY <2>2, Constants
    <3>2. log'[<<f, t>>] = log[<<f, t>>]
      BY <1>1, <3>1
    <3>3. Last(f, t)' = Last(f, t)
      BY <3>2 DEF Last
    <3>4. GrantsOf(f, t) # {} <=> Last(f, t) = "ship_tool_grant_approved"
      BY DEF ToolInv, LogMatchesTables
    <3> QED
      BY <2>2, <3>3, <3>4
  <2> QED
    BY <2>1, <2>2
<1>3. ASSUME NEW f \in Entry PROVE Last(f, "catalog")' = Last(f, "catalog")
  <2>1. <<f, "catalog">> \in Subject /\ <<f, "catalog">> # <<e, s>>
    BY Constants
  <2>2. log'[<<f, "catalog">>] = log[<<f, "catalog">>]
    BY <1>1, <2>1
  <2> QED
    BY <2>2 DEF Last
<1> QED
  BY <1>2, <1>3 DEF ToolInv, LogMatchesTables

\* The upsert: the row that is there, or a new one.
LEMMA UpsertFacts ==
  ASSUME ToolInv, NEW e \in Entry, NEW s \in Scope, NEW call \in 1..calls,
         \A g \in grants : g.id # call, grants' = Upserted(e, s, call), UNCHANGED calls
  PROVE  /\ grants \subseteq grants' /\ grants' \subseteq Grant
         /\ \A g \in grants' : g \in grants \/ g.id = call
         /\ \A g, h \in grants' :
              g.id = h.id \/ (g.entry = h.entry /\ g.scope = h.scope) => g = h
         /\ GrantNumbers'
         /\ GrantsOf(e, s)' # {}
         /\ \A f \in Entry : \A t \in Scope :
              f # e \/ t # s => (GrantsOf(f, t)' # {} <=> GrantsOf(f, t) # {})
         /\ GrantId(e, s, call) \in 1..calls
         /\ \E g \in grants' : g.id = GrantId(e, s, call) /\ g.entry = e /\ g.scope = s
<1>1. calls \in Nat
  BY Constants DEF ToolInv, TypeOK
<1>2. CASE GrantsOf(e, s) # {}
  <2>1. grants' = grants
    BY <1>2 DEF Upserted
  <2>2. PICK g \in GrantsOf(e, s) : GrantId(e, s, call) = g.id
    BY <1>2 DEF GrantId
  <2>3. g \in grants /\ g.entry = e /\ g.scope = s /\ g.id \in 1..calls
    BY <2>2 DEF GrantsOf, ToolInv, GrantNumbers
  <2>4. \A f \in Entry : \A t \in Scope : GrantsOf(f, t)' = GrantsOf(f, t)
    BY <2>1 DEF GrantsOf
  <2> QED
    BY <1>2, <2>1, <2>2, <2>3, <2>4 DEF ToolInv, TypeOK, GrantNumbers
<1>3. CASE GrantsOf(e, s) = {}
  <2> DEFINE new == [id |-> call, entry |-> e, scope |-> s]
  <2>1. grants' = grants \cup {new} /\ GrantId(e, s, call) = call /\ new \in Grant
    BY <1>1, <1>3 DEF Upserted, GrantId, Grant
  <2>2. \A g \in grants : ~(g.entry = e /\ g.scope = s)
    BY <1>3 DEF GrantsOf
  <2>3. \A g, h \in grants' :
          g.id = h.id \/ (g.entry = h.entry /\ g.scope = h.scope) => g = h
    BY <2>1, <2>2 DEF ToolInv, TypeOK
  <2>4. new \in GrantsOf(e, s)'
    BY <2>1 DEF GrantsOf
  <2>5. ASSUME NEW f \in Entry, NEW t \in Scope, f # e \/ t # s
        PROVE  GrantsOf(f, t)' = GrantsOf(f, t)
    BY <2>1, <2>5 DEF GrantsOf
  <2>6. GrantNumbers'
    BY <2>1 DEF ToolInv, GrantNumbers
  <2> QED
    BY <2>1, <2>3, <2>4, <2>5, <2>6 DEF ToolInv, TypeOK
<1> QED
  BY <1>2, <1>3

LEMMA DecisionStep == ASSUME ToolInv, NEW w \in Worker, CommitDecision(w) PROVE ToolInv'
<1>1. PICK e, to : e = work[w].entry /\ to = work[w].to
  OBVIOUS
<1>2. e \in Entry /\ to \in {"approved", "denied"}
  BY <1>1 DEF CommitDecision, Doing, ToolInv, WorkSound, WorkOK
<1> DEFINE type == IF to = "approved" THEN "tool_activation_approved" ELSE "tool_activation_denied"
<1>3. /\ catalog' = [catalog EXCEPT ![e].activation = to] /\ Logged(e, "catalog", type)
      /\ End(w) /\ UNCHANGED <<grants, requests, bindings, calls>>
  BY <1>1 DEF CommitDecision, End
<1>4. /\ LogGrows /\ Last(e, "catalog")' = type
      /\ \A x \in Subject : x # <<e, "catalog">> => log'[x] = log[x]
  <2>1. type \in EventType
    BY DEF EventType
  <2> HIDE DEF type
  <2> QED
    BY <1>2, <1>3, <2>1, LoggedFacts, Constants DEF ToolInv
<1>5. /\ catalog' \in [Entry -> [installed: BOOLEAN, activation: Activation]]
      /\ catalog'[e].activation = to
      /\ \A f \in Entry \ {e} : catalog'[f] = catalog[f]
  BY <1>2, <1>3 DEF ToolInv, TypeOK, Activation
<1>6. TypeOK' /\ GrantNumbers'
  BY <1>3, <1>4, <1>5 DEF ToolInv, TypeOK, GrantNumbers, LogGrows, RequestRow
<1>7. LogMatchesTables'
  <2>1. ASSUME NEW f \in Entry, NEW t \in Scope
        PROVE  Last(f, t)' = Last(f, t) /\ GrantsOf(f, t)' = GrantsOf(f, t)
    <3>1. <<f, t>> \in Subject /\ <<f, t>> # <<e, "catalog">>
      BY Constants
    <3> QED
      BY <1>3, <1>4, <3>1 DEF Last, GrantsOf
  <2>2. ASSUME NEW f \in Entry \ {e} PROVE Last(f, "catalog")' = Last(f, "catalog")
    <3>1. <<f, "catalog">> \in Subject /\ <<f, "catalog">> # <<e, "catalog">>
      BY Constants
    <3> QED
      BY <1>4, <3>1 DEF Last
  <2>3. ASSUME NEW f \in Entry
        PROVE  catalog'[f].activation =
                 CASE Last(f, "catalog")' = "tool_activation_approved" -> "approved"
                   [] Last(f, "catalog")' = "tool_activation_denied" -> "denied"
                   [] OTHER -> Installs[f]
    <3>1. CASE f = e
      BY <1>2, <1>4, <1>5, <3>1
    <3>2. CASE f # e
      BY <1>5, <2>2, <3>2 DEF ToolInv, LogMatchesTables
    <3> QED
      BY <3>1, <3>2
  <2> QED
    BY <2>1, <2>3 DEF ToolInv, LogMatchesTables
<1>8. RequestsMatchGrants'
  <2>1. \A r \in Request : Reviewed(r) => RowOK(r)'
    BY <1>3, <1>4, RowStays
  <2> QED
    BY <1>3, <2>1 DEF RequestsMatchGrants, RowOK, Reviewed
<1> QED
  BY <1>3, <1>4, <1>6, <1>7, <1>8, EndOK, EnabledStays, Kept

LEMMA RequestStep == ASSUME ToolInv, NEW w \in Worker, CommitRequest(w) PROVE ToolInv'
<1>1. PICK r, e, m : r = work[w].request /\ e = work[w].entry /\ m = work[w].crew
  OBVIOUS
<1>2. /\ r \in Request /\ requests[r].status = "none" /\ e \in Entry /\ m \in Crew \cup {None}
      /\ work[w].op = "request"
  BY <1>1 DEF CommitRequest, Doing, ToolInv, WorkSound, WorkOK, RequestRead
<1> DEFINE row == [status |-> "pending", entry |-> e, crew |-> m, grant |-> None]
<1>3. /\ requests' = [requests EXCEPT ![r] = row]
      /\ End(w) /\ UNCHANGED <<catalog, grants, bindings, log, calls>>
  BY <1>1 DEF CommitRequest, End
<1>4. requests' \in [Request -> RequestRow] /\ requests'[r] = row
      /\ \A q \in Request \ {r} : requests'[q] = requests[q]
  BY <1>2, <1>3 DEF ToolInv, TypeOK, RequestRow
<1>5. TypeOK' /\ GrantNumbers' /\ LogGrows
  BY <1>3, <1>4 DEF ToolInv, TypeOK, GrantNumbers, LogGrows, RequestRow
<1>6. LogMatchesTables'
  BY <1>3 DEF ToolInv, LogMatchesTables, Last, GrantsOf
<1>7. RequestsMatchGrants'
  <2>1. ASSUME NEW q \in Request \ {r}, Reviewed(q) PROVE RowOK(q)'
    BY <1>3, <1>4, <1>5, <2>1, RowStays
  <2>2. RowOK(r)'
    BY <1>4 DEF RowOK
  <2>3. \A q \in Request \ {r} : Reviewed(q)' => Reviewed(q)
    BY <1>4 DEF Reviewed
  <2> QED
    BY <2>1, <2>2, <2>3, LinkedNext
<1>8. KeepsOthers(w)
  BY <1>1, <1>2, <1>3, <1>4, <1>5, Constants DEF KeepsOthers, ToolInv, TypeOK
<1> QED
  BY <1>3, <1>5, <1>6, <1>7, <1>8, EndOK, EnabledStays

LEMMA ApprovalStep == ASSUME ToolInv, NEW w \in Worker, CommitApproval(w) PROVE ToolInv'
<1>1. PICK r, e, s, call : /\ r = work[w].request /\ e = requests[r].entry /\ s = work[w].scope
                           /\ call = work[w].call
  OBVIOUS
<1>2. ApprovalRead(w) /\ work[w].op = "approve"
  BY DEF CommitApproval, Doing, ToolInv, WorkSound, WorkOK
<1>3. /\ Reviewed(r) /\ r \in Request /\ s \in {"ship", requests[r].crew} \ {None}
      /\ call \in 1..calls /\ \A g \in grants : g.id # call
  BY <1>1, <1>2 DEF ApprovalRead, OwnNumber, Reviewed
<1>4. e \in Entry /\ s \in Scope
  BY <1>1, <1>3, ReviewedRow, Constants DEF ToolInv
<1>5. /\ grants' = Upserted(e, s, call)
      /\ requests' = [requests EXCEPT ![r].status = "approved", ![r].grant = GrantId(e, s, call)]
      /\ Logged(e, s, "ship_tool_grant_approved")
      /\ End(w) /\ UNCHANGED <<catalog, bindings, calls>>
  BY <1>1 DEF CommitApproval, End
<1> DEFINE id == GrantId(e, s, call)
           row == [requests[r] EXCEPT !.status = "approved", !.grant = id]
<1>6. /\ grants \subseteq grants' /\ grants' \subseteq Grant
      /\ \A g \in grants' : g \in grants \/ g.id = call
      /\ \A g, h \in grants' :
           g.id = h.id \/ (g.entry = h.entry /\ g.scope = h.scope) => g = h
      /\ GrantNumbers' /\ GrantsOf(e, s)' # {}
      /\ \A f \in Entry : \A t \in Scope :
           f # e \/ t # s => (GrantsOf(f, t)' # {} <=> GrantsOf(f, t) # {})
      /\ id \in 1..calls
      /\ \E g \in grants' : g.id = id /\ g.entry = e /\ g.scope = s
  <2> HIDE DEF id
  <2> QED
    BY <1>3, <1>4, <1>5, UpsertFacts DEF id
<1>7. /\ row \in RequestRow /\ row.status = "approved" /\ row.grant = id
      /\ row.entry = e /\ row.crew = requests[r].crew
  <2> HIDE DEF id
  <2> QED
    BY <1>1, <1>3, <1>6, ReviewedRow DEF RequestRow, ToolInv
<1>8. /\ requests' \in [Request -> RequestRow] /\ requests'[r] = row
      /\ \A q \in Request \ {r} : requests'[q] = requests[q]
  <2>1. requests' = [requests EXCEPT ![r] = row]
    BY <1>3, <1>5, ReviewedRow DEF ToolInv, TypeOK
  <2> HIDE DEF row
  <2> QED
    BY <1>3, <1>7, <2>1 DEF ToolInv, TypeOK
<1> HIDE DEF id, row
<1>9. LogGrows
  BY <1>4, <1>5, LoggedFacts, Constants DEF ToolInv, EventType
<1>10. TypeOK'
  BY <1>5, <1>6, <1>8, <1>9 DEF ToolInv, TypeOK, LogGrows, RequestRow
<1>11. LogMatchesTables'
  BY <1>4, <1>5, <1>6, GrantsLogged
<1>12. RequestsMatchGrants'
  <2>1. ASSUME NEW q \in Request \ {r}, Reviewed(q) PROVE RowOK(q)'
    BY <1>6, <1>8, <1>9, <2>1, RowStays
  <2>2. RowOK(r)'
    BY <1>3, <1>6, <1>7, <1>8, Constants DEF RowOK, ToolInv, TypeOK
  <2>3. \A q \in Request \ {r} : Reviewed(q)' => Reviewed(q)
    BY <1>8 DEF Reviewed
  <2> QED
    BY <2>1, <2>2, <2>3, LinkedNext
<1>13. KeepsOthers(w)
  <2>1. calls' \in Nat /\ calls' >= calls
    BY <1>5, Constants DEF ToolInv, TypeOK
  <2>2. \A q \in Request :
          /\ requests[q].status # "none" =>
               requests'[q].status # "none" /\ requests'[q].crew = requests[q].crew
          /\ requests[q].status = "none" => requests'[q].status = "none"
    BY <1>3, <1>7, <1>8 DEF Reviewed
  <2>3. \A g \in grants' : g \in grants \/ g.id = work[w].call
    BY <1>1, <1>6
  <2> QED
    BY <1>2, <1>9, <2>1, <2>2, <2>3 DEF KeepsOthers
<1> QED
  BY <1>5, <1>6, <1>9, <1>10, <1>11, <1>12, <1>13, EndOK, EnabledStays

LEMMA DenialStep == ASSUME ToolInv, NEW w \in Worker, CommitDenial(w) PROVE ToolInv'
<1>1. PICK r : r = work[w].request
  OBVIOUS
<1>2. Reviewed(r) /\ r \in Request /\ requests[r].status # "none"
  BY <1>1 DEF CommitDenial, Doing, ToolInv, WorkSound, WorkOK, Reviewed
<1>3. /\ requests' = [requests EXCEPT ![r].status = "denied"]
      /\ End(w) /\ UNCHANGED <<catalog, grants, bindings, log, calls>>
  BY <1>1 DEF CommitDenial, End
<1>4. /\ requests'[r] = [requests[r] EXCEPT !.status = "denied"]
      /\ \A q \in Request \ {r} : requests'[q] = requests[q]
      /\ DOMAIN requests' = Request /\ requests' = [q \in Request |-> requests'[q]]
  BY <1>2, <1>3 DEF ToolInv, TypeOK
<1>5. /\ requests'[r] \in RequestRow /\ requests'[r].status = "denied"
      /\ requests'[r].entry = requests[r].entry /\ requests'[r].crew = requests[r].crew
      /\ requests'[r].grant = requests[r].grant
  BY <1>2, <1>4, ReviewedRow DEF ToolInv, RequestRow
<1>6. requests' \in [Request -> RequestRow]
  <2>1. \A q \in Request : requests'[q] \in RequestRow
    BY <1>4, <1>5 DEF ToolInv, TypeOK
  <2> QED
    BY <1>4, <2>1
<1>7. TypeOK' /\ GrantNumbers' /\ LogGrows
  BY <1>3, <1>6 DEF ToolInv, TypeOK, GrantNumbers, LogGrows, RequestRow
<1>8. LogMatchesTables'
  BY <1>3 DEF ToolInv, LogMatchesTables, Last, GrantsOf
<1>9. RequestsMatchGrants'
  <2>1. \A q \in Request : Reviewed(q) => RowOK(q)'
    BY <1>3, <1>4, <1>5, <1>7, RowStays
  <2>2. \A q \in Request : Reviewed(q)' => Reviewed(q)
    BY <1>2, <1>4 DEF Reviewed
  <2> QED
    BY <2>1, <2>2, LinkedNext
<1>10. KeepsOthers(w)
  BY <1>2, <1>3, <1>4, <1>5, <1>7, Constants DEF KeepsOthers, ToolInv, TypeOK
<1> QED
  BY <1>3, <1>7, <1>8, <1>9, <1>10, EndOK, EnabledStays

LEMMA BootstrapStep == ASSUME ToolInv, NEW w \in Worker, CommitBootstrap(w) PROVE ToolInv'
<1>1. PICK e, call : e = work[w].entry /\ call = work[w].call
  OBVIOUS
<1>2. work[w].op = "bootstrap" /\ e \in Entry /\ OwnNumber(w)
  BY <1>1 DEF CommitBootstrap, Doing, ToolInv, WorkSound, WorkOK
<1>3. call \in 1..calls /\ \A g \in grants : g.id # call
  BY <1>1, <1>2 DEF OwnNumber
<1>4. /\ grants' = Upserted(e, "ship", call) /\ Logged(e, "ship", "ship_tool_grant_approved")
      /\ End(w) /\ UNCHANGED <<catalog, requests, bindings, calls>>
  BY <1>1 DEF CommitBootstrap, End
<1>5. /\ grants \subseteq grants' /\ grants' \subseteq Grant
      /\ \A g \in grants' : g \in grants \/ g.id = call
      /\ \A g, h \in grants' :
           g.id = h.id \/ (g.entry = h.entry /\ g.scope = h.scope) => g = h
      /\ GrantNumbers' /\ GrantsOf(e, "ship")' # {}
      /\ \A f \in Entry : \A t \in Scope :
           f # e \/ t # "ship" => (GrantsOf(f, t)' # {} <=> GrantsOf(f, t) # {})
  BY <1>2, <1>3, <1>4, UpsertFacts, Constants
<1>6. LogGrows
  BY <1>2, <1>4, LoggedFacts, Constants DEF ToolInv, EventType
<1>7. TypeOK'
  BY <1>4, <1>5, <1>6 DEF ToolInv, TypeOK, LogGrows, RequestRow
<1>8. LogMatchesTables'
  BY <1>2, <1>4, <1>5, GrantsLogged, Constants
<1>9. RequestsMatchGrants'
  <2>1. \A q \in Request : Reviewed(q) => RowOK(q)'
    BY <1>4, <1>5, <1>6, RowStays
  <2>2. \A q \in Request : Reviewed(q)' => Reviewed(q)
    BY <1>4 DEF Reviewed
  <2> QED
    BY <2>1, <2>2, LinkedNext
<1>10. KeepsOthers(w)
  BY <1>1, <1>2, <1>4, <1>5, <1>6, Constants DEF KeepsOthers, ToolInv, TypeOK
<1> QED
  BY <1>4, <1>5, <1>6, <1>7, <1>8, <1>9, <1>10, EndOK, EnabledStays

LEMMA RevocationStep == ASSUME ToolInv, NEW w \in Worker, CommitRevocation(w) PROVE ToolInv'
<1>1. PICK g : g = work[w].grant
  OBVIOUS
<1>2. /\ g \in grants /\ grants' = grants \ {g}
      /\ requests' = [r \in Request |->
           IF requests[r].status # "none" /\ requests[r].grant = g.id
           THEN [requests[r] EXCEPT !.grant = None] ELSE requests[r]]
      /\ Logged(g.entry, g.scope, "ship_tool_grant_revoked")
      /\ End(w) /\ UNCHANGED <<catalog, bindings, calls>>
  BY <1>1 DEF CommitRevocation, Present, End
<1>3. g.entry \in Entry /\ g.scope \in Scope /\ <<g.entry, g.scope>> \in Subject
  BY <1>2, Constants DEF ToolInv, TypeOK, Grant
<1>4. /\ LogGrows
      /\ \E i \in DOMAIN log'[<<g.entry, g.scope>>] :
           log'[<<g.entry, g.scope>>][i] = "ship_tool_grant_revoked"
  BY <1>2, <1>3, LoggedFacts DEF ToolInv, EventType
<1>5. ASSUME NEW r \in Request
      PROVE  /\ requests'[r] \in RequestRow /\ (Reviewed(r)' <=> Reviewed(r))
             /\ Reviewed(r) => /\ requests'[r].status = requests[r].status
                               /\ requests'[r].entry = requests[r].entry
                               /\ requests'[r].crew = requests[r].crew
             /\ requests'[r].grant = requests[r].grant
                \/ (Reviewed(r) /\ requests[r].grant = g.id /\ requests'[r].grant = None)
  <2>1. CASE Reviewed(r) /\ requests[r].grant = g.id
    <3>1. requests'[r] = [requests[r] EXCEPT !.grant = None]
      BY <1>2, <2>1 DEF Reviewed
    <3> QED
      BY <2>1, <3>1, ReviewedRow DEF ToolInv, RequestRow, Reviewed
  <2>2. CASE ~(Reviewed(r) /\ requests[r].grant = g.id)
    <3>1. requests'[r] = requests[r]
      BY <1>2, <2>2 DEF Reviewed
    <3> QED
      BY <3>1 DEF ToolInv, TypeOK, Reviewed
  <2> QED
    BY <2>1, <2>2
<1>6. TypeOK' /\ GrantNumbers'
  <2>1. requests' \in [Request -> RequestRow]
    BY <1>2, <1>5
  <2> QED
    BY <1>2, <1>4, <2>1 DEF ToolInv, TypeOK, GrantNumbers, LogGrows, RequestRow
<1>7. LogMatchesTables'
  <2>1. GrantsOf(g.entry, g.scope)' = {}
    BY <1>2 DEF GrantsOf, ToolInv, TypeOK
  <2>2. ASSUME NEW f \in Entry, NEW t \in Scope, f # g.entry \/ t # g.scope
        PROVE  GrantsOf(f, t)' = GrantsOf(f, t)
    BY <1>2, <2>2 DEF GrantsOf
  <2>3. PICK e, s : e = g.entry /\ s = g.scope
    OBVIOUS
  <2>4. e \in Entry /\ s \in Scope /\ Logged(e, s, "ship_tool_grant_revoked")
        /\ GrantsOf(e, s)' = {} /\ UNCHANGED catalog
    BY <1>2, <1>3, <2>1, <2>3
  <2>5. \A f \in Entry : \A t \in Scope :
          f # e \/ t # s => (GrantsOf(f, t)' # {} <=> GrantsOf(f, t) # {})
    BY <2>2, <2>3
  <2> HIDE DEF GrantsOf, Logged
  <2> QED
    BY <2>4, <2>5, GrantsLogged
<1>8. ASSUME NEW r \in Request, Reviewed(r)' PROVE RowOK(r)'
  <2>1. Reviewed(r) /\ RowOK(r) /\ requests[r].entry \in Entry
        /\ requests'[r].status = requests[r].status /\ requests'[r].entry = requests[r].entry
        /\ requests'[r].crew = requests[r].crew
    BY <1>5, <1>8, Linked, ReviewedRow DEF ToolInv
  <2>2. CASE requests[r].grant = g.id /\ requests'[r].grant = None
    <3>1. g.id # None
      BY <1>2, Constants DEF ToolInv, TypeOK, Grant
    <3>2. g.entry = requests[r].entry
      BY <1>2, <2>1, <2>2, <3>1 DEF RowOK, ToolInv, TypeOK
    <3> QED
      BY <1>3, <1>4, <2>1, <2>2, <3>2 DEF RowOK
  <2>3. CASE requests'[r].grant = requests[r].grant /\ requests[r].grant # g.id
    <3>1. requests[r].grant # None =>
            \E h \in grants' : h.id = requests[r].grant /\ h.entry = requests[r].entry
                               /\ h.scope \in {"ship", requests[r].crew}
      BY <1>2, <2>1, <2>3 DEF RowOK
    <3>2. \A s \in Scope : <<requests[r].entry, s>> \in Subject
      BY <2>1, Constants
    <3> QED
      BY <1>4, <2>1, <2>3, <3>1, <3>2 DEF RowOK, LogGrows
  <2>4. requests[r].grant = g.id => requests'[r].grant = None
    BY <1>2, <2>1, ReviewedRow DEF Reviewed, ToolInv
  <2> QED
    BY <1>5, <2>2, <2>3, <2>4
<1>9. RequestsMatchGrants'
  BY <1>8, LinkedNext
<1>10. KeepsOthers(w)
  <2>1. calls' \in Nat /\ calls' >= calls
    BY <1>2, Constants DEF ToolInv, TypeOK
  <2> QED
    BY <1>2, <1>4, <1>5, <2>1 DEF KeepsOthers, Reviewed
<1> QED
  BY <1>2, <1>4, <1>6, <1>7, <1>9, <1>10, EndOK, EnabledStays

LEMMA DeleteStep == ASSUME ToolInv, NEW w \in Worker, DeleteBindings(w) PROVE ToolInv'
<1>1. PICK c : /\ c.op = "insert" /\ c.want = work[w].want /\ c.granted = work[w].granted
               /\ work' = [work EXCEPT ![w] = c]
  <2> DEFINE c == [op |-> "insert", want |-> work[w].want, granted |-> work[w].granted,
                   revoked |-> work[w].revoked, seen |-> bindings]
  <2>1. work' = [work EXCEPT ![w] = c]
    BY DEF DeleteBindings, ToolInv, WorkSound
  <2> QED
    BY <2>1
<1>2. ReplaceRead(w) /\ UNCHANGED <<catalog, grants, requests, bindings, log, calls>>
  BY DEF DeleteBindings, Doing, ToolInv, WorkSound, WorkOK
<1>3. calls' \in 0..MaxCalls /\ calls' >= calls /\ calls' \in Nat
  BY <1>2, Constants DEF ToolInv, TypeOK
<1>4. /\ TypeOK' /\ GrantNumbers' /\ LogGrows
      /\ LogMatchesTables' /\ RequestsMatchGrants' /\ EnabledWasGranted'
  BY <1>2, <1>3, TablesSame
<1>5. KeepsOthers(w)
  BY <1>2, <1>3, <1>4 DEF KeepsOthers
<1>6. work'[w] = c
  BY <1>1 DEF ToolInv, WorkSound
<1>7. WorkOK(w)'
  <2>1. ReplaceRead(w)'
    BY <1>1, <1>2, <1>6 DEF ReplaceRead, GrantLogged
  <2> QED
    BY <1>1, <1>6, <2>1 DEF WorkOK
<1>8. \A v \in Worker \ {w} : WorkOK(v)'
  BY <1>1, <1>5, OthersOK DEF ToolInv
<1> QED
  BY <1>1, <1>4, <1>7, <1>8 DEF ToolInv, WorkSound

\* One more event, or none.
LEMMA OneMore ==
  ASSUME NEW q \in Seq(EventType), NEW type \in EventType
  PROVE  /\ Append(q, type) \in Seq(EventType)
         /\ \A i \in DOMAIN q : i \in DOMAIN Append(q, type) /\ Append(q, type)[i] = q[i]
         /\ \E i \in DOMAIN Append(q, type) : Append(q, type)[i] = type
<1>1. Len(q) \in Nat /\ DOMAIN q = 1..Len(q)
  OBVIOUS
<1>2. /\ Append(q, type) \in Seq(EventType) /\ DOMAIN Append(q, type) = 1..(Len(q) + 1)
      /\ Append(q, type)[Len(q) + 1] = type
      /\ \A i \in 1..Len(q) : Append(q, type)[i] = q[i]
  OBVIOUS
<1>3. Len(q) + 1 \in 1..(Len(q) + 1) /\ 1..Len(q) \subseteq 1..(Len(q) + 1)
  BY <1>1
<1> QED
  BY <1>1, <1>2, <1>3

LEMMA ReplaceStep == ASSUME ToolInv, NEW w \in Worker, CommitReplace(w) PROVE ToolInv'
<1>1. /\ ReplaceRead(w) /\ bindings' = Replaced(w) /\ End(w)
      /\ UNCHANGED <<catalog, grants, requests, calls>>
  BY DEF CommitReplace, Doing, End, ToolInv, WorkSound, WorkOK
<1>2. log' = [s \in Subject |->
        IF s[2] # "subagent" THEN log[s]
        ELSE IF s[1] \in work[w].granted THEN Append(log[s], "subagent_tool_granted")
        ELSE IF s[1] \in work[w].revoked THEN Append(log[s], "subagent_tool_revoked")
        ELSE log[s]]
  BY DEF CommitReplace
<1>3. "subagent_tool_granted" \in EventType /\ "subagent_tool_revoked" \in EventType
  BY DEF EventType
<1>4. ASSUME NEW s \in Subject
      PROVE  /\ log[s] \in Seq(EventType) /\ log'[s] \in Seq(EventType)
             /\ \A i \in DOMAIN log[s] : i \in DOMAIN log'[s] /\ log'[s][i] = log[s][i]
             /\ s[2] = "subagent" /\ s[1] \in work[w].granted =>
                  \E i \in DOMAIN log'[s] : log'[s][i] = "subagent_tool_granted"
  <2>1. log[s] \in Seq(EventType)
    BY DEF ToolInv, TypeOK
  <2>2. CASE s[2] # "subagent"
    BY <1>2, <2>1, <2>2
  <2>3. CASE s[2] = "subagent" /\ s[1] \in work[w].granted
    <3>1. log'[s] = Append(log[s], "subagent_tool_granted")
      BY <1>2, <2>3
    <3> QED
      BY <1>3, <2>1, <3>1, OneMore
  <2>4. CASE s[2] = "subagent" /\ s[1] \notin work[w].granted
    <3>1. log'[s] = log[s] \/ log'[s] = Append(log[s], "subagent_tool_revoked")
      BY <1>2, <2>4
    <3>2. CASE log'[s] = log[s]
      BY <2>1, <2>4, <3>2
    <3>3. CASE log'[s] = Append(log[s], "subagent_tool_revoked")
      BY <1>3, <2>1, <2>4, <3>3, OneMore
    <3> QED
      BY <3>1, <3>2, <3>3
  <2> QED
    BY <2>2, <2>3, <2>4
<1>5. LogGrows
  BY <1>2, <1>4 DEF LogGrows
<1>6. /\ bindings' \subseteq Binding
      /\ \A b, c \in bindings' : b.entry = c.entry => b = c
  BY <1>1 DEF Replaced, ReplaceRead, ToolInv, TypeOK
<1>7. TypeOK' /\ GrantNumbers'
  BY <1>1, <1>5, <1>6 DEF ToolInv, TypeOK, GrantNumbers, LogGrows, RequestRow
<1>8. LogMatchesTables'
  <2>1. ASSUME NEW e \in Entry, NEW s \in Scope \cup {"catalog"} PROVE Last(e, s)' = Last(e, s)
    <3>1. <<e, s>> \in Subject /\ s # "subagent"
      BY Constants
    <3>2. log'[<<e, s>>] = log[<<e, s>>]
      BY <1>2, <3>1
    <3> QED
      BY <3>2 DEF Last
  <2>2. \A e \in Entry : \A s \in Scope : GrantsOf(e, s)' = GrantsOf(e, s)
    BY <1>1 DEF GrantsOf
  <2> QED
    BY <1>1, <2>1, <2>2 DEF ToolInv, LogMatchesTables
<1>9. RequestsMatchGrants'
  <2>1. \A q \in Request : Reviewed(q) => RowOK(q)'
    BY <1>1, <1>5, RowStays
  <2>2. \A q \in Request : Reviewed(q)' => Reviewed(q)
    BY <1>1 DEF Reviewed
  <2> QED
    BY <2>1, <2>2, LinkedNext
<1>10. EnabledWasGranted'
  <2> SUFFICES ASSUME NEW b \in bindings', b.enabled PROVE GrantLogged(b.entry)'
    BY DEF EnabledWasGranted, GrantLogged
  <2>1. b.entry \in Entry
    BY <1>6 DEF Binding
  <2>2. GrantLogged(b.entry) => GrantLogged(b.entry)'
    BY <1>5, <2>1, GrantLoggedStays
  <2>3. b.entry \in work[w].granted => GrantLogged(b.entry)'
    BY <1>4, <2>1, Constants DEF GrantLogged
  <2>4. b \in bindings => GrantLogged(b.entry)
    BY DEF ToolInv, EnabledWasGranted, GrantLogged
  <2>5. b \in bindings \/ b \in work[w].want
    BY <1>1 DEF Replaced
  <2> QED
    BY <1>1, <2>2, <2>3, <2>4, <2>5 DEF ReplaceRead
<1>11. KeepsOthers(w)
  BY <1>1, <1>5, Kept
<1> QED
  BY <1>1, <1>7, <1>8, <1>9, <1>10, <1>11, EndOK

-----------------------------------------------------------------------------
(* Every step.                                                               *)

LEMMA FailStep == ASSUME ToolInv, NEW w \in Worker, Fail(w) PROVE ToolInv'
<1>1. End(w) /\ UNCHANGED <<catalog, grants, requests, bindings, log, calls>>
  BY DEF Fail, End
<1>2. calls' \in 0..MaxCalls /\ calls' >= calls
  BY <1>1, Constants DEF ToolInv, TypeOK
<1>3. /\ TypeOK' /\ GrantNumbers' /\ LogGrows
      /\ LogMatchesTables' /\ RequestsMatchGrants' /\ EnabledWasGranted'
  BY <1>1, <1>2, TablesSame
<1> QED
  BY <1>1, <1>3, EndOK, Kept

\* WorkSound looks at everything but the catalog and the bindings.
LEMMA WorkSame ==
  ASSUME WorkSound, UNCHANGED <<grants, requests, log, work, calls>>
  PROVE  WorkSound'
BY DEF WorkSound, WorkOK, RequestRead, ApprovalRead, OwnNumber, Reviewed, ReplaceRead, GrantLogged

LEMMA Toggled ==
  ASSUME NEW e \in Entry, NEW c \in [Entry -> [installed: BOOLEAN, activation: Activation]],
         NEW d, d = [c EXCEPT ![e].installed = ~@]
  PROVE  /\ d \in [Entry -> [installed: BOOLEAN, activation: Activation]]
         /\ \A f \in Entry : d[f].activation = c[f].activation
<1>1. DOMAIN d = Entry /\ \A f \in Entry : f # e => d[f] = c[f]
  OBVIOUS
<1>2. d[e] = [c[e] EXCEPT !.installed = ~@]
  OBVIOUS
<1>3. c[e] \in [installed: BOOLEAN, activation: Activation]
  OBVIOUS
<1>4. /\ d[e] \in [installed: BOOLEAN, activation: Activation]
      /\ d[e].activation = c[e].activation
  BY <1>2, <1>3
<1> QED
  BY <1>1, <1>4

LEMMA RefreshStep == ASSUME ToolInv, NEW e \in Entry, Refresh(e) PROVE ToolInv'
<1>1. /\ catalog' = [catalog EXCEPT ![e].installed = ~@]
      /\ UNCHANGED <<grants, requests, bindings, log, work, calls>>
  BY DEF Refresh
<1>2. /\ catalog' \in [Entry -> [installed: BOOLEAN, activation: Activation]]
      /\ \A f \in Entry : catalog'[f].activation = catalog[f].activation
  <2>1. catalog \in [Entry -> [installed: BOOLEAN, activation: Activation]]
    BY DEF ToolInv, TypeOK
  <2>2. catalog' = [catalog EXCEPT ![e].installed = ~@]
    BY <1>1
  <2>3. PICK c, d : c = catalog /\ d = catalog'
    OBVIOUS
  <2>4. c \in [Entry -> [installed: BOOLEAN, activation: Activation]]
    BY <2>1, <2>3
  <2>5. d = [c EXCEPT ![e].installed = ~@]
    BY <2>2, <2>3, Zenon
  <2>6. /\ d \in [Entry -> [installed: BOOLEAN, activation: Activation]]
        /\ \A f \in Entry : d[f].activation = c[f].activation
    BY <2>4, <2>5, Toggled
  <2> QED
    BY <2>3, <2>6, Zenon
<1>3. TypeOK' /\ GrantNumbers'
  BY <1>1, <1>2 DEF ToolInv, TypeOK, GrantNumbers, RequestRow
<1>4. LogMatchesTables'
  <2>1. \A e1, s : Last(e1, s)' = Last(e1, s) /\ GrantsOf(e1, s)' = GrantsOf(e1, s)
    BY <1>1 DEF Last, GrantsOf
  <2> QED
    BY <1>1, <1>2, <2>1 DEF ToolInv, LogMatchesTables
<1>5. RequestsMatchGrants' /\ EnabledWasGranted'
  BY <1>1 DEF ToolInv, RequestsMatchGrants, EnabledWasGranted
<1> QED
  BY <1>1, <1>3, <1>4, <1>5, WorkSame DEF ToolInv

LEMMA ToolStep == ASSUME ToolInv, [Next]_vars PROVE ToolInv'
<1>1. ASSUME NEW e \in Entry, Refresh(e) PROVE ToolInv'
  BY <1>1, RefreshStep
<1>2. ASSUME NEW w \in Worker, Call(w) PROVE ToolInv'
  BY <1>2, CallStep
<1>3. ASSUME NEW w \in Worker, Transaction(w) PROVE ToolInv'
  BY <1>3, DecisionStep, RequestStep, ApprovalStep, DenialStep, BootstrapStep, RevocationStep,
     DeleteStep, ReplaceStep DEF Transaction
<1>4. ASSUME NEW w \in Worker, Fail(w) PROVE ToolInv'
  BY <1>4, FailStep
<1>5. CASE UNCHANGED vars
  <2>1. calls' \in 0..MaxCalls /\ calls' >= calls /\ UNCHANGED work
        /\ UNCHANGED <<catalog, grants, requests, bindings, log, calls>>
    BY <1>5, Constants DEF vars, ToolInv, TypeOK
  <2> QED
    BY <2>1, TablesSame, WorkSame DEF ToolInv
<1> QED
  BY <1>1, <1>2, <1>3, <1>4, <1>5 DEF Next

LEMMA ToolInit == ASSUME Init PROVE ToolInv
<1>1. TypeOK
  <2>1. catalog \in [Entry -> [installed: BOOLEAN, activation: Activation]]
    BY InstallsAssumption DEF Init, Activation
  <2>2. requests \in [Request -> RequestRow]
    BY DEF Init, RequestRow
  <2>3. <<>> \in Seq(EventType)
    OBVIOUS
  <2> QED
    BY <2>1, <2>2, <2>3, Constants DEF Init, TypeOK
<1>2. WorkSound
  BY DEF Init, WorkSound, WorkOK, Idle
<1>3. GrantNumbers /\ RequestsMatchGrants /\ EnabledWasGranted
  BY DEF Init, GrantNumbers, RequestsMatchGrants, EnabledWasGranted
<1>4. LogMatchesTables
  <2>1. \A e \in Entry : \A s \in Scope : GrantsOf(e, s) = {} /\ Last(e, s) = "none"
    BY Constants DEF Init, GrantsOf, Last
  <2>2. \A e \in Entry : Last(e, "catalog") = "none" /\ catalog[e].activation = Installs[e]
    BY Constants DEF Init, Last
  <2> QED
    BY <2>1, <2>2 DEF LogMatchesTables
<1> QED
  BY <1>1, <1>2, <1>3, <1>4 DEF ToolInv

THEOREM Inductive == Spec => []ToolInv
BY ToolInit, ToolStep, PTL DEF Spec

-----------------------------------------------------------------------------
(* Theorems.                                                                 *)

\* Catalog, grants, requests, bindings and log keep their shape and their unique keys, the
\* ones of upsert, create and createMany (requests.ts, agent-bindings.ts).
THEOREM TypeCorrect == Spec => []TypeOK
<1>1. ToolInv => TypeOK
  BY DEF ToolInv
<1> QED
  BY <1>1, Inductive, PTL

\* The audit log tells the truth about grants and activations, however the handlers of
\* requests.ts and activation.ts interleave.
THEOREM LogTrue == Spec => []LogMatchesTables
<1>1. ToolInv => LogMatchesTables
  BY DEF ToolInv
<1> QED
  BY <1>1, Inductive, PTL

\* A linked request is linked to a grant that is there and covers its requester; one that was
\* approved and has no link had its grant revoked (requests.ts:586-640, 893-914).
THEOREM RequestsLinked == Spec => []RequestsMatchGrants
<1>1. ToolInv => RequestsMatchGrants
  BY DEF ToolInv
<1> QED
  BY <1>1, Inductive, PTL

\* No interleaving of replacements enables a tool that was never granted
\* (agent-bindings.ts:390-505).
THEOREM EnabledGranted == Spec => []EnabledWasGranted
<1>1. ToolInv => EnabledWasGranted
  BY DEF ToolInv
<1> QED
  BY <1>1, Inductive, PTL

=============================================================================
