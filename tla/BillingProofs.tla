--------------------------- MODULE BillingProofs ---------------------------
(***************************************************************************)
(* The wallet of BillingWallet keeps its promises, for every set of        *)
(* top-ups, launches and webhook requests, every amount and price, and     *)
(* any number of errors: the balance is the sum of the ledger, active      *)
(* ships are paid for, failed ones refunded, and the transactions          *)
(* implement WalletLedger.                                                 *)
(***************************************************************************)
EXTENDS BillingWallet, TLAPS

-----------------------------------------------------------------------------
(* The inductive invariant.                                                  *)

Inserted(w) == txn[w].step \in {"balance", "commit"}

\* What a launch's transaction is about.
LaunchTxn(l) ==
  /\ txn[l].ref = l
  /\ \/ ship[l].at = "debit" /\ txn[l].type = "launch_debit" /\ txn[l].delta = -Price[l]
     \/ ship[l].at = "refund" /\ txn[l].type = "launch_refund" /\ txn[l].delta = Price[l]

\* What a webhook's transaction is about.
CreditTxn(d) ==
  /\ hook[d] \in events \ {None} /\ hook[d].type = "completed"
  /\ txn[d].type = "topup_credit" /\ txn[d].ref = hook[d].session
  /\ txn[d].delta = Amount[hook[d].session]

TxnSound ==
  /\ \A l \in Launch : txn[l].step # "idle" => LaunchTxn(l)
  /\ \A d \in Delivery : txn[d].step # "idle" => CreditTxn(d)

\* Stripe reports a payment only of a session that stays complete.
EventsTrue == \A e \in events : e.type = "completed" => stripe[e.session] = "complete"
NotYetMade == \A t \in Topup : request[t] \in {"idle", "session"} => stripe[t] = "none"

\* One transaction at a time has updated the balance, from the one that is committed.
CommitAlone == \A v, w \in Worker : txn[v].step = "commit" /\ txn[w].step = "commit" => v = w
CommitFresh ==
  \A w \in Worker : txn[w].step = "commit" => txn[w].after = balance + txn[w].delta

\* An entry that is inserted and not committed is new to the ledger and to the others.
KeyFresh == \A w \in Worker : Inserted(w) => ~Posted(txn[w].type, txn[w].ref)
KeyApart ==
  \A v, w \in Worker :
    Inserted(v) /\ Inserted(w) /\ v # w => txn[v].type # txn[w].type \/ txn[v].ref # txn[w].ref

\* How far a launch has got and what the ledger has of it.
ShipOK(l) ==
  LET s == ship[l]
      debited == Posted("launch_debit", l)
      refunded == Posted("launch_refund", l)
  IN  /\ s.at # "done" => s.status \in {"none", "deploying"}
      /\ s.at \in {"idle", "quote"} => ~debited
      /\ s.at \in {"bootstrap", "activate", "refund"} => debited
      /\ s.at \in {"idle", "quote", "debit", "bootstrap", "activate"} => ~refunded
      /\ s.status = "active" => debited /\ ~refunded
      /\ (s.at = "mark" \/ s.status = "failed") /\ debited => refunded \/ s.refundError
ShipSound == \A l \in Launch : ShipOK(l)

Sound == TypeOK /\ TxnSound /\ EventsTrue /\ NotYetMade
KeyInv == KeyFresh /\ KeyApart
MoneyInv == CommitAlone /\ CommitFresh /\ BalanceIsLedger
WalletInv == Sound /\ KeyInv /\ MoneyInv /\ ShipSound

-----------------------------------------------------------------------------
(* Types.                                                                    *)

LEMMA Constants ==
  /\ Launch \subseteq Worker /\ Delivery \subseteq Worker /\ Launch \cap Delivery = {}
  /\ None \notin Topup /\ None \notin Launch
  /\ \A t \in Topup : Amount[t] \in Nat /\ Amount[t] > 0
  /\ \A l \in Launch : Price[l] \in Nat /\ Price[l] > 0
BY DisjointAssumption, CentsAssumption DEF Worker

\* A transaction under way has a reference and is what its worker started.
LEMMA TxnFacts ==
  ASSUME Sound, NEW w \in Worker, txn[w].step # "idle"
  PROVE  /\ txn[w].type \in EntryType /\ txn[w].ref \in Topup \cup Launch
         /\ txn[w].delta \in Int /\ txn[w].after \in Nat
         /\ w \in Delivery => hook[w] \in events /\ hook[w] # None
<1>1. CASE w \in Launch
  BY <1>1, Constants DEF Sound, TypeOK, TxnType, TxnSound, LaunchTxn
<1>2. CASE w \in Delivery
  BY <1>2, Constants DEF Sound, TypeOK, TxnType, TxnSound, CreditTxn
<1> QED
  BY <1>1, <1>2 DEF Worker

\* What ends a transaction keeps the types of everything else.
LEMMA EndTypes ==
  ASSUME Sound, NEW w \in Worker, txn[w].step # "idle", Returns(w) \/ Throws(w)
  PROVE  /\ events' = events /\ acked' \subseteq events
         /\ hook' \in [Delivery -> events \cup {None}]
         /\ ship' \in [Launch -> ShipType]
<1>1. w \in Delivery => hook[w] \in events
  BY TxnFacts
<1>2. CASE w \in Launch
  <2>1. UNCHANGED hooks /\ (AfterCommit(w) \/ AfterError(w))
    BY <1>2, Constants DEF Returns, Throws
  <2>2. ship' \in [Launch -> ShipType]
    BY <1>2, <2>1 DEF AfterCommit, AfterError, Sound, TypeOK, ShipType
  <2> QED
    BY <2>1, <2>2 DEF hooks, Sound, TypeOK
<1>3. CASE w \in Delivery
  <2>1. UNCHANGED ship /\ (Respond(w, 200) \/ Respond(w, 500))
    BY <1>3, Constants DEF Returns, Throws
  <2> QED
    BY <1>1, <1>3, <2>1 DEF Respond, Sound, TypeOK
<1> QED
  BY <1>2, <1>3 DEF Worker

LEMMA PublishTypes ==
  ASSUME Sound, NEW w \in Worker, Publish(w)
  PROVE  /\ balance' \in Nat /\ ledger' \in Seq(Entry)
         /\ txn' \in [Worker -> TxnType] /\ topup' \in [Topup -> TopupType]
<1>1. /\ txn[w].type \in EntryType /\ txn[w].ref \in Topup \cup Launch
      /\ txn[w].delta \in Int /\ txn[w].after \in Nat
  BY TxnFacts DEF Publish
<1>2. balance' \in Nat /\ ledger' \in Seq(Entry)
  BY <1>1 DEF Publish, Sound, TypeOK, Entry
<1>3. topup' \in [Topup -> TopupType]
  BY DEF Publish, Sound, TypeOK, TopupType
<1>4. txn' \in [Worker -> TxnType]
  BY DEF Publish, Sound, TypeOK, TxnType, NoTxn, EntryType
<1> QED
  BY <1>2, <1>3, <1>4

LEMMA RowTypes ==
  ASSUME txn \in [Worker -> TxnType], NEW w \in Worker, NEW row \in TxnType,
         txn' = [txn EXCEPT ![w] = row]
  PROVE  txn' \in [Worker -> TxnType]
OBVIOUS

LEMMA StartTypes ==
  ASSUME txn \in [Worker -> TxnType], NEW w \in Worker, NEW type \in EntryType,
         NEW ref \in Topup \cup Launch, NEW delta \in Int, Start(w, type, ref, delta)
  PROVE  txn' \in [Worker -> TxnType]
<1>1. [step |-> "insert", type |-> type, ref |-> ref, delta |-> delta, after |-> 0] \in TxnType
  BY DEF TxnType
<1> QED
  BY <1>1, RowTypes DEF Start

LEMMA NoTxnType == NoTxn \in TxnType
BY DEF NoTxn, TxnType, EntryType

LEMMA ShipStepType ==
  ASSUME ship \in [Launch -> ShipType], NEW l \in Launch, NEW from,
         NEW to \in {"debit", "mark", "refund", "activate"}, ShipStep(l, from, to)
  PROVE  ship' \in [Launch -> ShipType]
BY DEF ShipStep, ShipType

\* Every step keeps the types.
LEMMA TypeStep == Sound /\ [Next]_vars => TypeOK'
<1> SUFFICES ASSUME Sound, [Next]_vars PROVE TypeOK'
  OBVIOUS
<1> USE DEF wallet, topups, hooks
<1>1. ASSUME NEW w \in Worker, Insert(w) PROVE TypeOK'
  BY <1>1 DEF Insert, Sound, TypeOK, TxnType
<1>2. ASSUME NEW w \in Worker, UpdateBalance(w) PROVE TypeOK'
  <2>1. txn[w].delta \in Int /\ balance + txn[w].delta \in Nat
    BY <1>2, TxnFacts DEF UpdateBalance, Covered, Sound, TypeOK
  <2> DEFINE row == [txn[w] EXCEPT !.step = "commit", !.after = balance + txn[w].delta]
  <2>a. txn[w] \in TxnType
    BY DEF Sound, TypeOK
  <2>b. row \in TxnType
    BY <2>1, <2>a DEF TxnType
  <2>c. txn' = [txn EXCEPT ![w] = row]
    BY <1>2, <2>a DEF UpdateBalance, TxnType, Sound, TypeOK
  <2>2. txn' \in [Worker -> TxnType]
    BY <2>b, <2>c, RowTypes DEF Sound, TypeOK
  <2> QED
    BY <1>2, <2>2 DEF UpdateBalance, Sound, TypeOK
<1>3. ASSUME NEW w \in Worker, Commit(w) \/ LateError(w) PROVE TypeOK'
  <2>1. Publish(w) /\ txn[w].step # "idle" /\ (Returns(w) \/ Throws(w))
    BY <1>3 DEF Commit, LateError, Publish
  <2>2. UNCHANGED <<request, stripe>> /\ faults' \in Nat
    BY <1>3 DEF Commit, LateError, Sound, TypeOK
  <2> QED
    BY <2>1, <2>2, PublishTypes, EndTypes DEF Sound, TypeOK
<1>4. ASSUME NEW w \in Worker, InsertFails(w) \/ Error(w) PROVE TypeOK'
  <2>1. Abort(w) /\ txn[w].step # "idle" /\ Throws(w)
    BY <1>4 DEF InsertFails, Error, Abort
  <2>2. UNCHANGED <<request, stripe>> /\ faults' \in Nat
    BY <1>4 DEF InsertFails, Error, Sound, TypeOK
  <2>3. txn' \in [Worker -> TxnType]
    BY <2>1, NoTxnType, RowTypes DEF Abort, Sound, TypeOK
  <2> QED
    BY <2>1, <2>2, <2>3, EndTypes DEF Abort, Sound, TypeOK
<1>5. ASSUME NEW t \in Topup, TopupRequest(t) PROVE TypeOK'
  <2>1. CASE CreateTopup(t) \/ MarkTopupFailed(t) \/ UpdateTopupAfterSession(t)
    <3>1. topup' \in [Topup -> TopupType]
      <4>1. CASE CreateTopup(t)
        BY <4>1 DEF CreateTopup, Sound, TypeOK, TopupType
      <4>2. CASE MarkTopupFailed(t)
        BY <4>2 DEF MarkTopupFailed, Sound, TypeOK, TopupType
      <4>3. CASE UpdateTopupAfterSession(t)
        BY <4>3 DEF UpdateTopupAfterSession, Sound, TypeOK, TopupType
      <4> QED
        BY <2>1, <4>1, <4>2, <4>3
    <3> QED
      BY <2>1, <3>1 DEF CreateTopup, MarkTopupFailed, UpdateTopupAfterSession, RequestStep, Sound,
                        TypeOK
  <2>2. CASE CreateSession(t) \/ RespondTopup(t)
    BY <2>2 DEF CreateSession, RespondTopup, RequestStep, Sound, TypeOK
  <2> QED
    BY <1>5, <2>1, <2>2 DEF TopupRequest
<1>6. ASSUME NEW t \in Topup, TopupError(t) \/ TopupCrash(t) PROVE TypeOK'
  <2>1. CASE TopupError(t)
    <3>1. stripe' \in [Topup -> {"none", "open", "complete", "expired"}]
      BY <2>1 DEF TopupError, Sound, TypeOK
    <3>3. topup' \in [Topup -> TopupType]
      <4>1. PICK u : u = topup
        OBVIOUS
      <4>2. u \in [Topup -> TopupType]
        BY <4>1 DEF Sound, TypeOK
      <4>3. [u EXCEPT ![t].named = TRUE] \in [Topup -> TopupType]
        BY <4>2 DEF TopupType
      <4>4. topup' = u \/ topup' = [u EXCEPT ![t].named = TRUE]
        BY <2>1, <4>1, Zenon DEF TopupError
      <4> QED
        BY <4>2, <4>3, <4>4
    <3>2. request' \in [Topup -> {"idle", "session", "rename", "respond", "shown", "fail", "done"}]
      BY <2>1 DEF TopupError, Sound, TypeOK
    <3> QED
      BY <2>1, <3>1, <3>2, <3>3 DEF TopupError, Sound, TypeOK
  <2>2. CASE TopupCrash(t)
    BY <2>2 DEF TopupCrash, Sound, TypeOK
  <2> QED
    BY <1>6, <2>1, <2>2
<1>7. ASSUME NEW t \in Topup, Pay(t) \/ Expire(t) PROVE TypeOK'
  BY <1>7 DEF Pay, Expire, EventOf, Sound, TypeOK
<1>8. ASSUME NEW d \in Delivery, BeginCompletion(d) PROVE TypeOK'
  <2>1. hook[d] \in events /\ hook[d].session \in Topup /\ d \in Worker
    BY <1>8, Constants DEF BeginCompletion, Sound, TypeOK
  <2> DEFINE t == hook[d].session
  <2>2. txn' \in [Worker -> TxnType]
    <3>1. Amount[t] \in Int /\ "topup_credit" \in EntryType
      BY <2>1, Constants DEF EntryType
    <3>2. CASE Start(d, "topup_credit", t, Amount[t])
      BY <2>1, <3>1, <3>2, StartTypes DEF Sound, TypeOK
    <3>3. CASE UNCHANGED txn
      BY <3>3 DEF Sound, TypeOK
    <3> QED
      BY <1>8, <3>2, <3>3 DEF BeginCompletion
  <2> QED
    BY <1>8, <2>1, <2>2 DEF BeginCompletion, Respond, Sound, TypeOK
<1>9. ASSUME NEW d \in Delivery, MarkTopupExpired(d) \/ WebhookError(d) PROVE TypeOK'
  <2>1. hook[d] \in events
    BY <1>9 DEF MarkTopupExpired, WebhookError, Sound, TypeOK
  <2>2. topup' \in [Topup -> TopupType]
    <3>1. topup \in [Topup -> TopupType]
      BY DEF Sound, TypeOK
    <3>2. CASE MarkTopupExpired(d)
      BY <3>1, <3>2, SMTT(60) DEF MarkTopupExpired, TopupType
    <3> QED
      BY <1>9, <3>1, <3>2 DEF WebhookError
  <2>3. acked' \subseteq events' /\ hook' \in [Delivery -> events' \cup {None}]
    BY <1>9, <2>1 DEF MarkTopupExpired, WebhookError, Respond, Sound, TypeOK
  <2> QED
    BY <1>9, <2>2, <2>3, SMTT(60) DEF MarkTopupExpired, WebhookError, Respond, Sound, TypeOK
<1>10. ASSUME NEW d \in Delivery, NEW e \in events, Deliver(d, e) PROVE TypeOK'
  BY <1>10 DEF Deliver, Sound, TypeOK
<1>11. ASSUME NEW l \in Launch, DebitForLaunch(l) \/ RefundLaunchDebit(l) PROVE TypeOK'
  <2>1. txn' \in [Worker -> TxnType]
    <3>1. /\ Price[l] \in Int /\ -Price[l] \in Int /\ l \in Worker
          /\ "launch_debit" \in EntryType /\ "launch_refund" \in EntryType
      BY Constants DEF EntryType
    <3>2. CASE Start(l, "launch_debit", l, -Price[l])
      BY <3>1, <3>2, StartTypes DEF Sound, TypeOK
    <3>3. CASE Start(l, "launch_refund", l, Price[l])
      BY <3>1, <3>3, StartTypes DEF Sound, TypeOK
    <3>4. CASE UNCHANGED txn
      BY <3>4 DEF Sound, TypeOK
    <3> QED
      BY <1>11, <3>2, <3>3, <3>4 DEF DebitForLaunch, RefundLaunchDebit
  <2>2. ship' \in [Launch -> ShipType]
    BY <1>11 DEF DebitForLaunch, RefundLaunchDebit, AfterCommit, Sound, TypeOK, ShipType
  <2> QED
    BY <1>11, <2>1, <2>2 DEF DebitForLaunch, RefundLaunchDebit, Sound, TypeOK
<1>12. ASSUME NEW l \in Launch, Insufficient(l) \/ Stop(l) PROVE TypeOK'
  <2>1. txn' \in [Worker -> TxnType]
    BY <1>12, NoTxnType, RowTypes, Constants DEF Insufficient, Stop, Abort, Sound, TypeOK
  <2>2. ship' \in [Launch -> ShipType]
    BY <1>12 DEF Insufficient, Stop, Sound, TypeOK, ShipType
  <2> QED
    BY <1>12, <2>1, <2>2 DEF Insufficient, Stop, Abort, Sound, TypeOK
<1>13. ASSUME NEW l \in Launch,
              \/ BeginLaunch(l) \/ Quote(l) \/ Refuse(l) \/ Bootstrap(l) \/ Activate(l)
              \/ MarkLaunchFailed(l)
       PROVE  TypeOK'
  <2>1. ship' \in [Launch -> ShipType]
    <3>1. CASE BeginLaunch(l)
      BY <3>1 DEF BeginLaunch, Sound, TypeOK, ShipType
    <3>2. CASE Quote(l)
      BY <3>2, ShipStepType DEF Quote, Sound, TypeOK
    <3>3. CASE Refuse(l)
      BY <3>3, ShipStepType DEF Refuse, Sound, TypeOK
    <3>4. CASE Bootstrap(l)
      BY <3>4, ShipStepType DEF Bootstrap, BootstrapFails, BootstrapSucceeds, Sound, TypeOK
    <3>5. CASE Activate(l)
      BY <3>5 DEF Activate, Sound, TypeOK, ShipType
    <3>6. CASE MarkLaunchFailed(l)
      BY <3>6 DEF MarkLaunchFailed, Sound, TypeOK, ShipType
    <3> QED
      BY <1>13, <3>1, <3>2, <3>3, <3>4, <3>5, <3>6
  <2> QED
    BY <1>13, <2>1 DEF BeginLaunch, Quote, Refuse, Bootstrap, Activate, MarkLaunchFailed, Sound,
                       TypeOK
<1>14. CASE UNCHANGED vars
  BY <1>14 DEF vars, Sound, TypeOK
<1> QED
  BY <1>1, <1>2, <1>3, <1>4, <1>5, <1>6, <1>7, <1>8, <1>9, <1>10, <1>11, <1>12, <1>13, <1>14
  DEF Next, Post, Webhook, LaunchRequest

-----------------------------------------------------------------------------
(* Transactions are what their workers started.                              *)

\* A step of w leaves the transactions of others and what they are about alone.
Alone(w) ==
  /\ events \subseteq events'
  /\ \A v \in Worker \ {w} :
       /\ txn'[v] = txn[v]
       /\ v \in Launch => ship'[v].at = ship[v].at
       /\ v \in Delivery => hook'[v] = hook[v]

OwnSound(w) ==
  txn[w].step # "idle" =>
    (w \in Launch => LaunchTxn(w)) /\ (w \in Delivery => CreditTxn(w))

LEMMA AloneSound ==
  ASSUME TxnSound, NEW w \in Worker, Alone(w), OwnSound(w)'
  PROVE  TxnSound'
<1>1. ASSUME NEW l \in Launch, txn'[l].step # "idle" PROVE LaunchTxn(l)'
  BY <1>1, Constants DEF TxnSound, Alone, OwnSound, LaunchTxn
<1>2. ASSUME NEW d \in Delivery, txn'[d].step # "idle" PROVE CreditTxn(d)'
  BY <1>2, Constants DEF TxnSound, Alone, OwnSound, CreditTxn
<1> QED
  BY <1>1, <1>2 DEF TxnSound

\* The end of a transaction is the business of its worker alone.
LEMMA EndAlone ==
  ASSUME Sound, NEW w \in Worker, Returns(w) \/ Throws(w), txn' = [txn EXCEPT ![w] = NoTxn]
  PROVE  Alone(w) /\ txn'[w].step = "idle"
<1>1. txn'[w].step = "idle" /\ \A v \in Worker \ {w} : txn'[v] = txn[v]
  BY DEF Sound, TypeOK, NoTxn
<1>2. CASE w \in Launch
  <2>1. UNCHANGED hooks /\ (AfterCommit(w) \/ AfterError(w))
    BY <1>2, Constants DEF Returns, Throws
  <2>2. \A v \in Launch \ {w} : ship'[v] = ship[v]
    BY <1>2, <2>1 DEF AfterCommit, AfterError, Sound, TypeOK
  <2> QED
    BY <1>1, <2>1, <2>2 DEF Alone, hooks
<1>3. CASE w \in Delivery
  <2>1. UNCHANGED ship /\ (Respond(w, 200) \/ Respond(w, 500))
    BY <1>3, Constants DEF Returns, Throws
  <2> QED
    BY <1>1, <2>1 DEF Alone, Respond, Sound, TypeOK
<1> QED
  BY <1>2, <1>3 DEF Worker

\* A step that changes the step of a transaction and nothing else about it.
LEMMA SameTxn ==
  ASSUME Sound, NEW w \in Worker, txn[w].step # "idle", UNCHANGED <<hooks, ship>>,
         \A v \in Worker \ {w} : txn'[v] = txn[v],
         txn'[w].type = txn[w].type, txn'[w].ref = txn[w].ref, txn'[w].delta = txn[w].delta
  PROVE  TxnSound'
<1>1. Alone(w)
  BY DEF Alone, hooks
<1>2. OwnSound(w)'
  BY DEF OwnSound, Sound, TxnSound, LaunchTxn, CreditTxn, hooks
<1> QED
  BY <1>1, <1>2, AloneSound DEF Sound

LEMMA TxnStep == Sound /\ [Next]_vars => TxnSound'
<1> SUFFICES ASSUME Sound, [Next]_vars PROVE TxnSound'
  OBVIOUS
<1> USE DEF wallet, topups
<1>1. ASSUME NEW w \in Worker, Insert(w) PROVE TxnSound'
  BY <1>1, SameTxn DEF Insert, Sound, TypeOK, TxnType
<1>2. ASSUME NEW w \in Worker, UpdateBalance(w) PROVE TxnSound'
  BY <1>2, SameTxn DEF UpdateBalance, Sound, TypeOK, TxnType
<1>3. ASSUME NEW w \in Worker, Commit(w) \/ LateError(w) \/ InsertFails(w) \/ Error(w)
      PROVE  TxnSound'
  <2>1. txn' = [txn EXCEPT ![w] = NoTxn] /\ (Returns(w) \/ Throws(w))
    BY <1>3 DEF Commit, LateError, InsertFails, Error, Publish, Abort
  <2> QED
    BY <2>1, EndAlone, AloneSound DEF OwnSound, Sound
<1>4. ASSUME NEW t \in Topup, TopupRequest(t) \/ TopupError(t) \/ TopupCrash(t) PROVE TxnSound'
  <2>1. UNCHANGED <<txn, hooks, ship>>
    BY <1>4 DEF TopupRequest, CreateTopup, CreateSession, UpdateTopupAfterSession, RespondTopup,
                MarkTopupFailed, TopupError, TopupCrash
  <2> QED
    BY <2>1 DEF Sound, TxnSound, LaunchTxn, CreditTxn, hooks
<1>5. ASSUME NEW t \in Topup, Pay(t) \/ Expire(t) PROVE TxnSound'
  BY <1>5 DEF Pay, Expire, Sound, TxnSound, LaunchTxn, CreditTxn
<1>6. ASSUME NEW d \in Delivery, BeginCompletion(d) PROVE TxnSound'
  <2>1. hook[d] \in events \ {None} /\ d \in Worker /\ d \notin Launch
    BY <1>6, Constants DEF BeginCompletion, Sound, TypeOK
  <2>2. CASE Start(d, "topup_credit", hook[d].session, Amount[hook[d].session]) /\ UNCHANGED hooks
    <3>1. Alone(d)
      BY <1>6, <2>1, <2>2 DEF BeginCompletion, Alone, Start, hooks, Sound, TypeOK
    <3>2. OwnSound(d)'
      BY <1>6, <2>1, <2>2 DEF BeginCompletion, OwnSound, CreditTxn, Start, hooks, Sound, TypeOK
    <3> QED
      BY <2>1, <3>1, <3>2, AloneSound DEF Sound
  <2>3. CASE Respond(d, 200) /\ UNCHANGED txn
    <3>1. Alone(d) /\ OwnSound(d)'
      BY <1>6, <2>1, <2>3 DEF BeginCompletion, Alone, OwnSound, Respond, Sound, TypeOK
    <3> QED
      BY <2>1, <3>1, AloneSound DEF Sound
  <2> QED
    BY <1>6, <2>2, <2>3 DEF BeginCompletion
<1>7. ASSUME NEW d \in Delivery, MarkTopupExpired(d) \/ WebhookError(d) PROVE TxnSound'
  <2>1. d \in Worker /\ txn[d].step = "idle" /\ d \notin Launch
    BY <1>7, Constants DEF MarkTopupExpired, WebhookError, Sound, TxnSound, CreditTxn
  <2>2. Alone(d) /\ OwnSound(d)'
    BY <1>7, <2>1 DEF MarkTopupExpired, WebhookError, Alone, OwnSound, Respond, Sound, TypeOK
  <2> QED
    BY <2>1, <2>2, AloneSound DEF Sound
<1>8. ASSUME NEW d \in Delivery, NEW e \in events, Deliver(d, e) PROVE TxnSound'
  <2>1. d \in Worker /\ txn[d].step = "idle" /\ d \notin Launch
    BY <1>8, Constants DEF Deliver, Sound, TxnSound, CreditTxn
  <2>2. Alone(d) /\ OwnSound(d)'
    BY <1>8, <2>1 DEF Deliver, Alone, OwnSound, Sound, TypeOK
  <2> QED
    BY <2>1, <2>2, AloneSound DEF Sound
<1>9. ASSUME NEW l \in Launch, DebitForLaunch(l) \/ RefundLaunchDebit(l) PROVE TxnSound'
  <2>1. l \in Worker /\ l \notin Delivery /\ txn[l].step = "idle" /\ UNCHANGED hooks
    BY <1>9, Constants DEF DebitForLaunch, RefundLaunchDebit
  <2>2. CASE AfterCommit(l) /\ UNCHANGED txn
    <3>1. Alone(l) /\ OwnSound(l)'
      BY <2>1, <2>2 DEF Alone, OwnSound, AfterCommit, hooks, Sound, TypeOK
    <3> QED
      BY <2>1, <3>1, AloneSound DEF Sound
  <2>3. CASE /\ UNCHANGED ship
             /\ \/ ship[l].at = "debit" /\ Start(l, "launch_debit", l, -Price[l])
                \/ ship[l].at = "refund" /\ Start(l, "launch_refund", l, Price[l])
    <3>1. Alone(l)
      BY <2>1, <2>3 DEF Alone, Start, hooks, Sound, TypeOK
    <3>2. OwnSound(l)'
      BY <2>1, <2>3 DEF OwnSound, LaunchTxn, Start, Sound, TypeOK
    <3> QED
      BY <2>1, <3>1, <3>2, AloneSound DEF Sound
  <2> QED
    BY <1>9, <2>2, <2>3 DEF DebitForLaunch, RefundLaunchDebit
<1>10. ASSUME NEW l \in Launch, Insufficient(l) \/ Stop(l) PROVE TxnSound'
  <2>1. l \in Worker /\ txn' = [txn EXCEPT ![l] = NoTxn] /\ UNCHANGED hooks
    BY <1>10, Constants DEF Insufficient, Stop, Abort
  <2>2. \A k \in Launch \ {l} : ship'[k] = ship[k]
    BY <1>10 DEF Insufficient, Stop, Sound, TypeOK
  <2>3. Alone(l) /\ OwnSound(l)'
    BY <2>1, <2>2 DEF Alone, OwnSound, NoTxn, hooks, Sound, TypeOK
  <2> QED
    BY <2>1, <2>3, AloneSound DEF Sound
<1>11. ASSUME NEW l \in Launch,
              \/ BeginLaunch(l) \/ Quote(l) \/ Refuse(l) \/ Bootstrap(l) \/ Activate(l)
              \/ MarkLaunchFailed(l)
       PROVE  TxnSound'
  <2>1. /\ l \in Worker /\ l \notin Delivery /\ ship[l].at \notin {"debit", "refund"}
        /\ UNCHANGED <<txn, hooks>>
    BY <1>11, Constants DEF BeginLaunch, Quote, Refuse, Bootstrap, BootstrapFails,
       BootstrapSucceeds, Activate, MarkLaunchFailed, ShipStep
  <2>2. \A k \in Launch \ {l} : ship'[k] = ship[k]
    BY <1>11 DEF BeginLaunch, Quote, Refuse, Bootstrap, BootstrapFails, BootstrapSucceeds,
                 Activate, MarkLaunchFailed, ShipStep, Sound, TypeOK
  <2>3. txn[l].step = "idle"
    BY <2>1 DEF Sound, TxnSound, LaunchTxn
  <2>4. Alone(l) /\ OwnSound(l)'
    BY <2>1, <2>2, <2>3 DEF Alone, OwnSound, hooks
  <2> QED
    BY <2>1, <2>4, AloneSound DEF Sound
<1>12. CASE UNCHANGED vars
  BY <1>12 DEF vars, Sound, TxnSound, LaunchTxn, CreditTxn
<1> QED
  BY <1>1, <1>2, <1>3, <1>4, <1>5, <1>6, <1>7, <1>8, <1>9, <1>10, <1>11, <1>12
  DEF Next, Post, Webhook, LaunchRequest

-----------------------------------------------------------------------------
(* Stripe.                                                                   *)

\* A session that is complete stays complete, and none is open before it is made.
LEMMA StripeStep == Sound /\ [Next]_vars => EventsTrue' /\ NotYetMade'
<1> SUFFICES ASSUME Sound, [Next]_vars PROVE EventsTrue' /\ NotYetMade'
  OBVIOUS
<1> USE DEF topups
<1>1. CASE UNCHANGED <<stripe, request>> /\ events' = events
  BY <1>1 DEF Sound, EventsTrue, NotYetMade
<1>2. ASSUME NEW t \in Topup, TopupRequest(t) \/ TopupError(t) \/ TopupCrash(t)
      PROVE  EventsTrue' /\ NotYetMade'
  <2>1. /\ events' = events
        /\ stripe' \in {stripe, [stripe EXCEPT ![t] = "open"]}
        /\ stripe' # stripe => request[t] = "session"
        /\ request'[t] \in {"idle", "session"} => stripe' = stripe /\ request[t] = "idle"
        /\ \A u \in Topup \ {t} : request'[u] = request[u]
    <3> USE DEF hooks, RequestStep, Sound, TypeOK
    <3>1. CASE CreateTopup(t)
      BY <3>1 DEF CreateTopup
    <3>2. CASE CreateSession(t)
      BY <3>2 DEF CreateSession
    <3>3. CASE UpdateTopupAfterSession(t)
      BY <3>3 DEF UpdateTopupAfterSession
    <3>4. CASE RespondTopup(t)
      BY <3>4 DEF RespondTopup
    <3>5. CASE MarkTopupFailed(t)
      BY <3>5 DEF MarkTopupFailed
    <3>6. CASE TopupError(t)
      BY <3>6 DEF TopupError
    <3>7. CASE TopupCrash(t)
      BY <3>7 DEF TopupCrash
    <3> QED
      BY <1>2, <3>1, <3>2, <3>3, <3>4, <3>5, <3>6, <3>7 DEF TopupRequest
  <2>2. EventsTrue'
    BY <2>1 DEF Sound, TypeOK, EventsTrue, NotYetMade
  <2>3. NotYetMade'
    BY <2>1 DEF Sound, TypeOK, NotYetMade
  <2> QED
    BY <2>2, <2>3
<1>3. ASSUME NEW t \in Topup, Pay(t) \/ Expire(t) PROVE EventsTrue' /\ NotYetMade'
  <2>1. /\ stripe[t] = "open" /\ UNCHANGED request
        /\ \/ stripe' = [stripe EXCEPT ![t] = "complete"]
              /\ events' = events \cup {EventOf(t, "completed")}
           \/ stripe' = [stripe EXCEPT ![t] = "expired"]
              /\ events' = events \cup {EventOf(t, "expired")}
    BY <1>3 DEF Pay, Expire
  <2>2. EventsTrue'
    BY <2>1 DEF Sound, TypeOK, EventsTrue, EventOf
  <2>3. NotYetMade'
    BY <2>1 DEF Sound, TypeOK, NotYetMade
  <2> QED
    BY <2>2, <2>3
<1>4. ASSUME NEW w \in Worker, Post(w) \/ Error(w) \/ LateError(w)
      PROVE  UNCHANGED <<stripe, request>> /\ events' = events
  BY <1>4 DEF Post, Insert, InsertFails, UpdateBalance, Commit, Error, LateError, Returns, Throws,
              Respond, hooks
<1>5. ASSUME NEW d \in Delivery, Webhook(d) \/ WebhookError(d)
      PROVE  UNCHANGED <<stripe, request>> /\ events' = events
  BY <1>5 DEF Webhook, BeginCompletion, MarkTopupExpired, WebhookError, Respond, hooks
<1>6. ASSUME NEW d \in Delivery, NEW e \in events, Deliver(d, e)
      PROVE  UNCHANGED <<stripe, request>> /\ events' = events
  BY <1>6 DEF Deliver
<1>7. ASSUME NEW l \in Launch, LaunchRequest(l) \/ Stop(l)
      PROVE  UNCHANGED <<stripe, request>> /\ events' = events
  BY <1>7 DEF LaunchRequest, BeginLaunch, Quote, Refuse, DebitForLaunch, Insufficient, Bootstrap,
              Activate, RefundLaunchDebit, MarkLaunchFailed, Stop, hooks
<1> QED
  BY <1>1, <1>2, <1>3, <1>4, <1>5, <1>6, <1>7 DEF Next, vars

LEMMA SoundStep == Sound /\ [Next]_vars => Sound'
BY TypeStep, TxnStep, StripeStep DEF Sound

-----------------------------------------------------------------------------
(* The balance and the ledger.                                               *)

\* A step that begins or ends a transaction of w without committing it.
Quiet(w) ==
  /\ UNCHANGED wallet
  /\ ~Inserted(w)'
  /\ \A v \in Worker \ {w} : txn'[v] = txn[v]

\* All that a step does to the wallet and to the transactions on it.
LEMMA Effect ==
  ASSUME Sound, [Next]_vars
  PROVE  \/ UNCHANGED <<wallet, txn>>
         \/ \E w \in Worker : Insert(w) \/ UpdateBalance(w) \/ Publish(w) \/ Quiet(w)
<1> USE DEF wallet
<1>1. ASSUME NEW w \in Worker, Post(w) \/ Error(w) \/ LateError(w)
      PROVE  Insert(w) \/ UpdateBalance(w) \/ Publish(w) \/ Quiet(w)
  <2>1. CASE InsertFails(w) \/ Error(w)
    BY <2>1 DEF InsertFails, Error, Abort, Quiet, Inserted, NoTxn, Sound, TypeOK
  <2> QED
    BY <1>1, <2>1 DEF Post, Commit, LateError
<1>2. ASSUME NEW t \in Topup,
              \/ TopupRequest(t) \/ TopupError(t) \/ TopupCrash(t) \/ Pay(t) \/ Expire(t)
      PROVE  UNCHANGED <<wallet, txn>>
  BY <1>2 DEF TopupRequest, CreateTopup, CreateSession, UpdateTopupAfterSession, RespondTopup,
              MarkTopupFailed, TopupError, TopupCrash, Pay, Expire
<1>3. ASSUME NEW d \in Delivery, Webhook(d) \/ WebhookError(d)
      PROVE  UNCHANGED <<wallet, txn>> \/ Quiet(d)
  <2>1. d \in Worker
    BY Constants
  <2> QED
    BY <1>3, <2>1 DEF Webhook, BeginCompletion, Start, MarkTopupExpired, WebhookError, Quiet,
                      Inserted, Sound, TypeOK
<1>4. ASSUME NEW d \in Delivery, NEW e \in events, Deliver(d, e) PROVE UNCHANGED <<wallet, txn>>
  BY <1>4 DEF Deliver
<1>5. ASSUME NEW l \in Launch, LaunchRequest(l) \/ Stop(l)
      PROVE  UNCHANGED <<wallet, txn>> \/ Quiet(l)
  <2>1. l \in Worker
    BY Constants
  <2>2. CASE DebitForLaunch(l) \/ RefundLaunchDebit(l)
    BY <2>1, <2>2 DEF DebitForLaunch, RefundLaunchDebit, Start, Quiet, Inserted, Sound, TypeOK
  <2>3. CASE Insufficient(l) \/ Stop(l)
    BY <2>1, <2>3 DEF Insufficient, Stop, Abort, NoTxn, Quiet, Inserted, Sound, TypeOK
  <2> QED
    BY <1>5, <2>2, <2>3 DEF LaunchRequest, BeginLaunch, Quote, Refuse, Bootstrap, Activate,
                            MarkLaunchFailed
<1>6. CASE UNCHANGED vars
  BY <1>6 DEF vars
<1> QED
  BY <1>1, <1>2, <1>3, <1>4, <1>5, <1>6, Constants DEF Next

\* What a commit adds to the ledger.
LEMMA PostedAfter ==
  ASSUME Sound, NEW w \in Worker, Publish(w), NEW type, NEW ref
  PROVE  Posted(type, ref)' <=> Posted(type, ref) \/ (type = txn[w].type /\ ref = txn[w].ref)
<1>1. ledger \in Seq(Entry) /\ Len(ledger') = Len(ledger) + 1
      /\ \A i \in 1..Len(ledger) : ledger'[i] = ledger[i]
  BY DEF Publish, Sound, TypeOK
<1>2. ledger'[Len(ledger) + 1].type = txn[w].type /\ ledger'[Len(ledger) + 1].ref = txn[w].ref
  BY DEF Publish, Sound, TypeOK
<1>3. Len(ledger) \in Nat /\ DOMAIN ledger = 1..Len(ledger) /\ DOMAIN ledger' = 1..(Len(ledger) + 1)
  BY <1>1 DEF Publish, Sound, TypeOK
<1>4. \A i \in 1..(Len(ledger) + 1) : i \in 1..Len(ledger) \/ i = Len(ledger) + 1
  BY <1>3
<1> QED
  BY <1>1, <1>2, <1>3, <1>4 DEF Posted

\* Each reference is posted by one transaction at most.
LEMMA KeyStep == Sound /\ KeyInv /\ [Next]_vars => KeyInv'
<1> SUFFICES ASSUME Sound, KeyInv, [Next]_vars PROVE KeyInv'
  OBVIOUS
<1> USE DEF KeyInv
<1>1. CASE UNCHANGED <<wallet, txn>>
  BY <1>1 DEF wallet, KeyFresh, KeyApart, Inserted, Posted
<1>2. ASSUME NEW w \in Worker, Insert(w) PROVE KeyInv'
  <2>1. /\ UNCHANGED wallet /\ \A v \in Worker \ {w} : txn'[v] = txn[v]
        /\ txn'[w].type = txn[w].type /\ txn'[w].ref = txn[w].ref
    BY <1>2 DEF Insert, Sound, TypeOK, TxnType
  <2>2. KeyFresh'
    BY <1>2, <2>1 DEF Insert, KeyFresh, Inserted, Posted, wallet
  <2>3. KeyApart'
    BY <1>2, <2>1 DEF Insert, KeyHeld, KeyApart, Inserted
  <2> QED
    BY <2>2, <2>3
<1>3. ASSUME NEW w \in Worker, UpdateBalance(w) PROVE KeyInv'
  <2>1. /\ UNCHANGED wallet /\ Inserted(w) /\ \A v \in Worker \ {w} : txn'[v] = txn[v]
        /\ txn'[w].type = txn[w].type /\ txn'[w].ref = txn[w].ref
    BY <1>3 DEF UpdateBalance, Inserted, Sound, TypeOK, TxnType
  <2> QED
    BY <2>1 DEF KeyFresh, KeyApart, Inserted, Posted, wallet
<1>4. ASSUME NEW w \in Worker, Publish(w) PROVE KeyInv'
  <2>1. /\ Inserted(w) /\ ~Inserted(w)' /\ \A v \in Worker \ {w} : txn'[v] = txn[v]
    BY <1>4 DEF Publish, Inserted, NoTxn, Sound, TypeOK
  <2>2. KeyFresh'
    <3> SUFFICES ASSUME NEW v \in Worker, Inserted(v)' PROVE ~Posted(txn[v].type, txn[v].ref)'
      BY DEF KeyFresh
    <3>1. v # w /\ txn'[v] = txn[v] /\ Inserted(v)
      BY <2>1 DEF Inserted
    <3>2. PICK type, ref : type = txn[v].type /\ ref = txn[v].ref
      OBVIOUS
    <3>3. ~Posted(type, ref) /\ ~(type = txn[w].type /\ ref = txn[w].ref)
      BY <2>1, <3>1, <3>2 DEF KeyFresh, KeyApart
    <3>4. ~Posted(type, ref)'
      BY <1>4, <3>3, PostedAfter
    <3> QED
      BY <3>1, <3>2, <3>4 DEF Posted
  <2>3. KeyApart'
    BY <2>1 DEF KeyApart, Inserted
  <2> QED
    BY <2>2, <2>3
<1>5. ASSUME NEW w \in Worker, Quiet(w) PROVE KeyInv'
  BY <1>5 DEF Quiet, wallet, KeyFresh, KeyApart, Inserted, Posted
<1> QED
  BY <1>1, <1>2, <1>3, <1>4, <1>5, Effect

\* The entry a commit appends continues the ledger: no other transaction of this wallet has
\* committed since its UPDATE locked the row.
LEMMA MoneyStep == Sound /\ MoneyInv /\ [Next]_vars => MoneyInv'
<1> SUFFICES ASSUME Sound, MoneyInv, [Next]_vars PROVE MoneyInv'
  OBVIOUS
<1> USE DEF MoneyInv
<1>1. CASE UNCHANGED <<wallet, txn>>
  BY <1>1 DEF wallet, CommitAlone, CommitFresh, BalanceIsLedger
<1>2. ASSUME UNCHANGED wallet, NEW w \in Worker, txn'[w].step # "commit",
             \A v \in Worker \ {w} : txn'[v] = txn[v]
      PROVE  MoneyInv'
  BY <1>2 DEF wallet, CommitAlone, CommitFresh, BalanceIsLedger
<1>3. ASSUME NEW w \in Worker, Insert(w) PROVE MoneyInv'
  <2>1. /\ UNCHANGED wallet /\ txn'[w].step = "balance"
        /\ \A v \in Worker \ {w} : txn'[v] = txn[v]
    BY <1>3 DEF Insert, Sound, TypeOK, TxnType
  <2> QED
    BY <2>1, <1>2
<1>4. ASSUME NEW w \in Worker, Quiet(w) PROVE MoneyInv'
  BY <1>2, <1>4 DEF Quiet, Inserted
<1>5. ASSUME NEW w \in Worker, UpdateBalance(w) PROVE MoneyInv'
  <2>1. /\ UNCHANGED wallet /\ \A v \in Worker \ {w} : txn'[v] = txn[v]
        /\ txn'[w].after = balance + txn[w].delta /\ txn'[w].delta = txn[w].delta
        /\ \A v \in Worker \ {w} : txn[v].step # "commit"
    BY <1>5 DEF UpdateBalance, WalletHeld, Sound, TypeOK, TxnType
  <2> QED
    BY <2>1 DEF wallet, CommitAlone, CommitFresh, BalanceIsLedger
<1>6. ASSUME NEW w \in Worker, Publish(w) PROVE MoneyInv'
  <2>1. /\ txn[w].step = "commit" /\ txn'[w].step = "idle"
        /\ \A v \in Worker \ {w} : txn'[v] = txn[v]
    BY <1>6 DEF Publish, NoTxn, Sound, TypeOK
  <2>2. \A v \in Worker : txn'[v].step # "commit"
    BY <2>1 DEF CommitAlone
  <2>3. BalanceIsLedger'
    <3> DEFINE n == Len(ledger)
               entry == [type |-> txn[w].type, ref |-> txn[w].ref,
                         delta |-> txn[w].delta, after |-> txn[w].after]
    <3>1. /\ ledger \in Seq(Entry) /\ n \in Nat /\ DOMAIN ledger = 1..n
          /\ ledger' = Append(ledger, entry) /\ balance' = entry.after
      BY <1>6 DEF Publish, Sound, TypeOK
    <3>2. /\ Len(ledger') = n + 1 /\ DOMAIN ledger' = 1..(n + 1) /\ ledger' # <<>>
          /\ ledger'[n + 1] = entry /\ \A i \in 1..n : ledger'[i] = ledger[i]
      BY <3>1
    <3>3. entry.after = balance + entry.delta /\ entry.delta \in Int /\ balance \in Int
      BY <2>1, TxnFacts DEF CommitFresh, Sound, TypeOK
    <3>4. balance = IF n = 0 THEN 0 ELSE ledger[n].after
      BY <3>1 DEF BalanceIsLedger
    <3>5. ASSUME NEW i \in 1..(n + 1)
          PROVE  ledger'[i].after =
                   ledger'[i].delta + (IF i = 1 THEN 0 ELSE ledger'[i - 1].after)
      <4>1. CASE i = n + 1
        <5> HIDE DEF entry
        <5>1. ledger'[i] = entry /\ entry.after = entry.delta + balance
          BY <3>2, <3>3, <4>1
        <5>2. balance = IF i = 1 THEN 0 ELSE ledger'[i - 1].after
          <6>1. CASE n = 0
            BY <3>4, <4>1, <6>1
          <6>2. CASE n # 0
            <7>1. n \in 1..n /\ i - 1 = n /\ i # 1
              BY <3>1, <4>1, <6>2
            <7> QED
              BY <3>2, <3>4, <6>2, <7>1
          <6> QED
            BY <6>1, <6>2
        <5> QED
          BY <5>1, <5>2
      <4>2. CASE i \in 1..n
        <5>1. i # 1 => i - 1 \in 1..n
          BY <4>2, <3>1
        <5> QED
          BY <3>1, <3>2, <4>2, <5>1 DEF BalanceIsLedger
      <4> QED
        BY <3>1, <4>1, <4>2
    <3> HIDE DEF entry
    <3> QED
      BY <3>1, <3>2, <3>5 DEF BalanceIsLedger
  <2> QED
    BY <2>2, <2>3 DEF CommitAlone, CommitFresh
<1> QED
  BY <1>1, <1>3, <1>4, <1>5, <1>6, Effect

LEMMA SoundInit == Init => Sound /\ KeyInv /\ MoneyInv
<1> SUFFICES ASSUME Init PROVE Sound /\ KeyInv /\ MoneyInv
  OBVIOUS
<1>1. TypeOK
  <2>1. txn \in [Worker -> TxnType]
    BY NoTxnType DEF Init
  <2> QED
    BY <2>1 DEF Init, TypeOK, TopupType, ShipType
<1>2. \A w \in Worker : txn[w].step = "idle"
  BY DEF Init, NoTxn
<1> QED
  BY <1>1, <1>2, Constants DEF Init, Sound, TxnSound, EventsTrue, NotYetMade, KeyInv, KeyFresh,
     KeyApart, Inserted, MoneyInv, CommitAlone, CommitFresh, BalanceIsLedger

\* The tables and what each request holds stay well formed (wallet.ts, launch/route.ts).
THEOREM TypeCorrect == Spec => []TypeOK
<1>1. Sound => TypeOK
  BY DEF Sound
<1> QED
  BY <1>1, SoundInit, SoundStep, PTL DEF Spec

\* The balance is the sum of the ledger, entry by entry, however the transactions of
\* launches and webhooks overlap (wallet.ts:82-125): the row lock of the UPDATE is enough.
THEOREM BalanceTrue == Spec => []BalanceIsLedger
<1>1. MoneyInv => BalanceIsLedger
  BY DEF MoneyInv
<1> QED
  BY <1>1, SoundInit, SoundStep, MoneyStep, PTL DEF Spec

-----------------------------------------------------------------------------
(* Ships and their money.                                                    *)

\* A step that leaves the ledger, and every launch but l, as they are.
LEMMA ShipAlone ==
  ASSUME ShipSound, NEW l \in Launch, UNCHANGED ledger,
         \A k \in Launch \ {l} : ship'[k] = ship[k], ShipOK(l)'
  PROVE  ShipSound'
BY DEF ShipSound, ShipOK, Posted

\* The launch's own steps outside of a commit.
LEMMA LaunchStep ==
  ASSUME Sound, KeyInv, ShipSound, NEW l \in Launch, LaunchRequest(l) \/ Stop(l)
  PROVE  ShipSound'
<1> DEFINE debited == Posted("launch_debit", l)
           refunded == Posted("launch_refund", l)
<1>1. UNCHANGED ledger
  BY DEF LaunchRequest, BeginLaunch, Quote, Refuse, DebitForLaunch, Insufficient, Bootstrap,
         Activate, RefundLaunchDebit, MarkLaunchFailed, Stop, Abort, wallet
<1>2. (debited' <=> debited) /\ (refunded' <=> refunded)
  BY <1>1 DEF Posted
<1>3. ship \in [Launch -> ShipType] /\ ShipOK(l)
  BY DEF Sound, TypeOK, ShipSound
<1>4. \A k \in Launch \ {l} : ship'[k] = ship[k]
  BY <1>3 DEF LaunchRequest, BeginLaunch, Quote, Refuse, DebitForLaunch, Insufficient, Bootstrap,
         BootstrapFails, BootstrapSucceeds, Activate, RefundLaunchDebit, MarkLaunchFailed, Stop,
         ShipStep, AfterCommit
<1>5. ShipOK(l)'
  <2> USE <1>2, <1>3 DEF ShipOK, ShipType
  <2> HIDE DEF debited, refunded
  <2>1. CASE BeginLaunch(l)
    BY <2>1 DEF BeginLaunch, debited, refunded
  <2>2. CASE Quote(l) \/ Refuse(l)
    BY <2>2 DEF Quote, Refuse, ShipStep, debited, refunded
  <2>3. CASE DebitForLaunch(l)
    BY <2>3 DEF DebitForLaunch, AfterCommit, debited, refunded
  <2>4. CASE Insufficient(l)
    <3>1. LaunchTxn(l) /\ ~Posted(txn[l].type, txn[l].ref) /\ txn[l].delta <= 0
      BY <2>4, Constants DEF Insufficient, Covered, Sound, TypeOK, TxnType, TxnSound, KeyInv,
         KeyFresh, Inserted
    <3>2. ship[l].at = "debit" /\ ~debited
      BY <3>1, Constants DEF LaunchTxn, debited
    <3> QED
      BY <2>4, <3>2 DEF Insufficient, debited, refunded
  <2>5. CASE Bootstrap(l)
    BY <2>5 DEF Bootstrap, BootstrapFails, BootstrapSucceeds, ShipStep, debited, refunded
  <2>6. CASE Activate(l)
    BY <2>6 DEF Activate, debited, refunded
  <2>7. CASE RefundLaunchDebit(l)
    BY <2>7 DEF RefundLaunchDebit, AfterCommit, debited, refunded
  <2>8. CASE MarkLaunchFailed(l)
    BY <2>8 DEF MarkLaunchFailed, debited, refunded
  <2>9. CASE Stop(l)
    BY <2>9 DEF Stop, debited, refunded
  <2> QED
    BY <2>1, <2>2, <2>3, <2>4, <2>5, <2>6, <2>7, <2>8, <2>9 DEF LaunchRequest
<1> QED
  BY <1>1, <1>4, <1>5, ShipAlone

\* A debit or a refund that fails, with or without its COMMIT.
LEMMA ErrorShip ==
  ASSUME ship \in [Launch -> ShipType], NEW l \in Launch, AfterError(l)
  PROVE  /\ \A k \in Launch \ {l} : ship'[k] = ship[k]
         /\ ship'[l].status = ship[l].status
         /\ IF ship[l].at = "debit" THEN ship'[l].at = "done"
                                    ELSE ship'[l].at = "mark" /\ ship'[l].refundError
BY DEF AfterError, ShipType

LEMMA CommitShip ==
  ASSUME ship \in [Launch -> ShipType], NEW l \in Launch, AfterCommit(l)
  PROVE  /\ \A k \in Launch \ {l} : ship'[k] = ship[k]
         /\ ship'[l].status = ship[l].status
         /\ ship'[l].at = IF ship[l].at = "debit" THEN "bootstrap" ELSE "mark"
BY DEF AfterCommit, ShipType

LEMMA AbortShip ==
  ASSUME Sound, ShipSound, NEW w \in Worker, Abort(w), Throws(w)
  PROVE  ShipSound'
<1>1. UNCHANGED ledger
  BY DEF Abort, wallet
<1>2. CASE w \in Launch
  <2>1. AfterError(w) /\ LaunchTxn(w)
    BY <1>2, Constants DEF Throws, Abort, Sound, TxnSound
  <2>2. ship[w].at \in {"debit", "refund"} /\ ShipOK(w)
    BY <1>2, <2>1 DEF LaunchTxn, ShipSound
  <2>3. ShipOK(w)'
    BY <1>1, <1>2, <2>1, <2>2, ErrorShip DEF ShipOK, Posted, Sound, TypeOK
  <2> QED
    BY <1>1, <1>2, <2>1, <2>3, ErrorShip, ShipAlone DEF Sound, TypeOK
<1>3. CASE w \in Delivery
  BY <1>1, <1>3, Constants DEF Throws, ShipSound, ShipOK, Posted
<1> QED
  BY <1>2, <1>3 DEF Worker

\* A commit posts for its own launch only.
LEMMA PublishShip ==
  ASSUME Sound, ShipSound, NEW w \in Worker, Publish(w), Returns(w) \/ Throws(w)
  PROVE  ShipSound'
<1>1. txn[w].step # "idle"
  BY DEF Publish
<1>2. CASE w \in Launch
  <2>1. LaunchTxn(w) /\ (AfterCommit(w) \/ AfterError(w)) /\ ShipOK(w)
    BY <1>1, <1>2, Constants DEF Returns, Throws, Sound, TxnSound, ShipSound
  <2>2. \A k \in Launch \ {w} : ship'[k] = ship[k]
    BY <1>2, <2>1, ErrorShip, CommitShip DEF Sound, TypeOK
  <2>3. ASSUME NEW k \in Launch \ {w} PROVE ShipOK(k)'
    <3>1. /\ Posted("launch_debit", k)' <=> Posted("launch_debit", k)
          /\ Posted("launch_refund", k)' <=> Posted("launch_refund", k)
      BY <2>1, PostedAfter DEF LaunchTxn
    <3> QED
      BY <2>2, <3>1 DEF ShipSound, ShipOK
  <2>4. CASE ship[w].at = "debit"
    <3>1. /\ Posted("launch_debit", w)'
          /\ Posted("launch_refund", w)' <=> Posted("launch_refund", w)
      BY <2>1, <2>4, PostedAfter DEF LaunchTxn
    <3>2. ShipOK(w)'
      BY <1>2, <2>1, <2>4, <3>1, ErrorShip, CommitShip DEF ShipOK, Sound, TypeOK
    <3> QED
      BY <2>3, <3>2 DEF ShipSound
  <2>5. CASE ship[w].at = "refund"
    <3>1. /\ Posted("launch_refund", w)'
          /\ Posted("launch_debit", w)' <=> Posted("launch_debit", w)
      BY <2>1, <2>5, PostedAfter DEF LaunchTxn
    <3>2. ShipOK(w)'
      BY <1>2, <2>1, <2>5, <3>1, ErrorShip, CommitShip DEF ShipOK, Sound, TypeOK
    <3> QED
      BY <2>3, <3>2 DEF ShipSound
  <2> QED
    BY <2>1, <2>4, <2>5 DEF LaunchTxn
<1>3. CASE w \in Delivery
  <2>1. txn[w].type = "topup_credit" /\ UNCHANGED ship
    BY <1>1, <1>3, Constants DEF Returns, Throws, Sound, TxnSound, CreditTxn
  <2>2. ASSUME NEW k \in Launch PROVE ShipOK(k)'
    <3>1. /\ Posted("launch_debit", k)' <=> Posted("launch_debit", k)
          /\ Posted("launch_refund", k)' <=> Posted("launch_refund", k)
      BY <2>1, PostedAfter
    <3> QED
      BY <2>1, <3>1 DEF ShipSound, ShipOK
  <2> QED
    BY <2>2 DEF ShipSound
<1> QED
  BY <1>2, <1>3 DEF Worker

LEMMA ShipInvStep == Sound /\ KeyInv /\ ShipSound /\ [Next]_vars => ShipSound'
<1> SUFFICES ASSUME Sound, KeyInv, ShipSound, [Next]_vars PROVE ShipSound'
  OBVIOUS
<1>1. CASE UNCHANGED <<ledger, ship>>
  BY <1>1 DEF ShipSound, ShipOK, Posted
<1>2. ASSUME NEW w \in Worker, Post(w) \/ Error(w) \/ LateError(w) PROVE ShipSound'
  <2>1. CASE Insert(w) \/ UpdateBalance(w)
    BY <1>1, <2>1 DEF Insert, UpdateBalance, wallet
  <2>2. CASE InsertFails(w) \/ Error(w)
    BY <2>2, AbortShip DEF InsertFails, Error
  <2>3. CASE Commit(w) \/ LateError(w)
    BY <2>3, PublishShip DEF Commit, LateError
  <2> QED
    BY <1>2, <2>1, <2>2, <2>3 DEF Post
<1>3. ASSUME NEW t \in Topup,
              \/ TopupRequest(t) \/ TopupError(t) \/ TopupCrash(t) \/ Pay(t) \/ Expire(t)
      PROVE  UNCHANGED <<ledger, ship>>
  BY <1>3 DEF TopupRequest, CreateTopup, CreateSession, UpdateTopupAfterSession, RespondTopup,
              MarkTopupFailed, TopupError, TopupCrash, Pay, Expire, wallet
<1>4. ASSUME NEW d \in Delivery, Webhook(d) \/ WebhookError(d) PROVE UNCHANGED <<ledger, ship>>
  BY <1>4 DEF Webhook, BeginCompletion, MarkTopupExpired, WebhookError, wallet
<1>5. ASSUME NEW d \in Delivery, NEW e \in events, Deliver(d, e) PROVE UNCHANGED <<ledger, ship>>
  BY <1>5 DEF Deliver, wallet
<1>6. ASSUME NEW l \in Launch, LaunchRequest(l) \/ Stop(l) PROVE ShipSound'
  BY <1>6, LaunchStep
<1> QED
  BY <1>1, <1>2, <1>3, <1>4, <1>5, <1>6 DEF Next, vars

LEMMA WalletInit == Init => WalletInv
<1>1. Init => ShipSound
  BY DEF Init, ShipSound, ShipOK, Posted
<1> QED
  BY <1>1, SoundInit DEF WalletInv

LEMMA WalletStep == WalletInv /\ [Next]_vars => WalletInv'
BY SoundStep, KeyStep, MoneyStep, ShipInvStep DEF WalletInv

\* A ship that is active was debited and not refunded (launch/route.ts:560-690), whatever
\* errors, lost answers and crashes its launch and those of others have met.
THEOREM ActiveShipsPaid == Spec => []ActiveIsPaid
<1>1. WalletInv => ActiveIsPaid
  BY DEF WalletInv, ShipSound, ShipOK, ActiveIsPaid
<1> QED
  BY <1>1, WalletInit, WalletStep, PTL DEF Spec

\* A ship whose row says failed keeps no debit, unless its row says that the refund failed
\* (failLaunch, launch/route.ts:320-360).
THEOREM FailedShipsRefunded == Spec => []FailedIsRefunded
<1>1. WalletInv => FailedIsRefunded
  BY DEF WalletInv, ShipSound, ShipOK, FailedIsRefunded
<1> QED
  BY <1>1, WalletInit, WalletStep, PTL DEF Spec

-----------------------------------------------------------------------------
(* The abstract ledger.                                                      *)

LEMMA RefinesInit == Init => Ledger!Init
BY DEF Init, Ledger!Init

\* A commit posts an entry of the abstract ledger.
LEMMA CommitPosts ==
  ASSUME WalletInv, NEW w \in Worker, Publish(w), UNCHANGED stripe
  PROVE  Ledger!Next
<1>1. /\ txn[w].step = "commit" /\ balance' = txn[w].after
      /\ ledger' = Append(ledger, [type |-> txn[w].type, ref |-> txn[w].ref,
                                   delta |-> txn[w].delta, after |-> txn[w].after])
  BY DEF Publish
<1>2. ~Posted(txn[w].type, txn[w].ref) /\ txn[w].after = balance + txn[w].delta
  BY <1>1 DEF WalletInv, KeyInv, KeyFresh, Inserted, MoneyInv, CommitFresh
<1>3. txn[w].after \in Nat
  BY <1>1, TxnFacts DEF WalletInv
<1>4. Ledger!Post(txn[w].type, txn[w].ref, txn[w].delta)
  BY <1>1, <1>2, <1>3 DEF Ledger!Post, Ledger!Posted, Posted
<1>5. CASE w \in Launch
  <2>1. LaunchTxn(w) /\ ShipOK(w)
    BY <1>1, <1>5 DEF WalletInv, Sound, TxnSound, ShipSound
  <2>2. CASE txn[w].type = "launch_debit"
    <3>1. Ledger!Debit(w)
      BY <1>4, <2>1, <2>2 DEF LaunchTxn, Ledger!Debit
    <3> QED
      BY <1>5, <3>1 DEF Ledger!Next
  <2>3. CASE txn[w].type = "launch_refund"
    <3>1. Posted("launch_debit", w)
      BY <2>1, <2>3 DEF LaunchTxn, ShipOK
    <3>2. Ledger!Refund(w)
      BY <1>4, <2>1, <2>3, <3>1 DEF LaunchTxn, Ledger!Refund, Ledger!Posted, Posted
    <3> QED
      BY <1>5, <3>2 DEF Ledger!Next
  <2> QED
    BY <2>1, <2>2, <2>3 DEF LaunchTxn
<1>6. CASE w \in Delivery
  <2>1. CreditTxn(w)
    BY <1>1, <1>6 DEF WalletInv, Sound, TxnSound
  <2> DEFINE t == hook[w].session
  <2>2. t \in Topup /\ stripe[t] = "complete"
    BY <2>1 DEF CreditTxn, WalletInv, Sound, TypeOK, EventsTrue
  <2>3. Ledger!Credit(t)
    BY <1>4, <2>1, <2>2 DEF CreditTxn, Ledger!Credit
  <2> QED
    BY <2>2, <2>3 DEF Ledger!Next
<1> QED
  BY <1>5, <1>6 DEF Worker

\* Every step is one of the abstract ledger or changes nothing it speaks of.
LEMMA RefinesStep == WalletInv /\ [Next]_vars => [Ledger!Next]_(Ledger!vars)
<1> SUFFICES ASSUME WalletInv, [Next]_vars PROVE [Ledger!Next]_(Ledger!vars)
  OBVIOUS
<1> DEFINE paid == {t \in Topup : stripe[t] = "complete"}
<1>1. CASE UNCHANGED wallet /\ paid' = paid
  BY <1>1 DEF wallet, Ledger!vars
<1>2. ASSUME NEW w \in Worker, Post(w) \/ Error(w) \/ LateError(w)
      PROVE  [Ledger!Next]_(Ledger!vars)
  <2>1. CASE Commit(w) \/ LateError(w)
    BY <2>1, CommitPosts DEF Commit, LateError
  <2>2. CASE Insert(w) \/ UpdateBalance(w) \/ InsertFails(w) \/ Error(w)
    BY <1>1, <2>2 DEF Insert, UpdateBalance, InsertFails, Error, Abort, topups
  <2> QED
    BY <1>2, <2>1, <2>2 DEF Post
<1>3. ASSUME NEW t \in Topup, Pay(t) PROVE Ledger!Next
  <2>1. paid' = paid \cup {t} /\ UNCHANGED wallet
    BY <1>3 DEF Pay, WalletInv, Sound, TypeOK
  <2> QED
    BY <1>3, <2>1 DEF wallet, Ledger!Next, Ledger!Pay
<1>4. ASSUME NEW t \in Topup, TopupRequest(t) \/ TopupError(t) \/ TopupCrash(t) \/ Expire(t)
      PROVE  UNCHANGED wallet /\ paid' = paid
  <2>1. UNCHANGED wallet
    BY <1>4 DEF TopupRequest, CreateTopup, CreateSession, UpdateTopupAfterSession, RespondTopup,
                MarkTopupFailed, TopupError, TopupCrash, Expire
  <2>2. \/ UNCHANGED stripe
        \/ /\ stripe[t] \in {"none", "open"}
           /\ \E s \in {"open", "expired"} : stripe' = [stripe EXCEPT ![t] = s]
    BY <1>4 DEF TopupRequest, CreateTopup, CreateSession, UpdateTopupAfterSession, RespondTopup,
       MarkTopupFailed, TopupError, TopupCrash, Expire, RequestStep, WalletInv, Sound, NotYetMade
  <2> QED
    BY <2>1, <2>2 DEF WalletInv, Sound, TypeOK
<1>5. ASSUME NEW d \in Delivery, Webhook(d) \/ WebhookError(d) PROVE UNCHANGED <<wallet, stripe>>
  BY <1>5 DEF Webhook, BeginCompletion, MarkTopupExpired, WebhookError, topups
<1>6. ASSUME NEW d \in Delivery, NEW e \in events, Deliver(d, e) PROVE UNCHANGED <<wallet, stripe>>
  BY <1>6 DEF Deliver, topups
<1>7. ASSUME NEW l \in Launch, LaunchRequest(l) \/ Stop(l) PROVE UNCHANGED <<wallet, stripe>>
  BY <1>7 DEF LaunchRequest, BeginLaunch, Quote, Refuse, DebitForLaunch, Insufficient, Bootstrap,
              Activate, RefundLaunchDebit, MarkLaunchFailed, Stop, Abort, topups
<1>8. CASE UNCHANGED vars
  BY <1>1, <1>8 DEF vars, wallet
<1> QED
  BY <1>1, <1>2, <1>3, <1>4, <1>5, <1>6, <1>7, <1>8 DEF Next

\* The wallet implements the abstract ledger: each commit posts one entry with a new
\* reference, a credit for money paid and a refund of a debit (wallet.ts:127-470).
THEOREM WalletImplementsLedger == Spec => ImplementsLedger
<1>1. Init => Ledger!Init
  BY RefinesInit
<1>2. WalletInv /\ [Next]_vars => [Ledger!Next]_(Ledger!vars)
  BY RefinesStep
<1> QED
  BY <1>1, <1>2, WalletInit, WalletStep, PTL DEF Spec, ImplementsLedger, Ledger!Spec

-----------------------------------------------------------------------------
(* What the abstract ledger says of its entries the wallet's entries inherit. *)

\* An entry and the place it is posted at.
LEMMA PostAppends ==
  ASSUME ledger \in Seq(Entry), NEW type, NEW ref, NEW delta, Ledger!Post(type, ref, delta)
  PROVE  /\ ~Posted(type, ref)
         /\ DOMAIN ledger = 1..Len(ledger) /\ Len(ledger) \in Nat
         /\ DOMAIN ledger' = 1..(Len(ledger) + 1)
         /\ \A i \in DOMAIN ledger : ledger'[i] = ledger[i]
         /\ ledger'[Len(ledger) + 1].type = type /\ ledger'[Len(ledger) + 1].ref = ref
         /\ ledger'[Len(ledger) + 1].delta = delta
<1>1. PICK e : /\ e = [type |-> type, ref |-> ref, delta |-> delta, after |-> balance + delta]
               /\ ledger' = Append(ledger, e)
  BY DEF Ledger!Post
<1>2. ~Posted(type, ref)
  BY DEF Ledger!Post, Ledger!Posted, Posted
<1>3. /\ DOMAIN ledger = 1..Len(ledger) /\ Len(ledger) \in Nat
      /\ DOMAIN ledger' = 1..(Len(ledger) + 1)
      /\ \A i \in DOMAIN ledger : ledger'[i] = ledger[i]
      /\ ledger'[Len(ledger) + 1] = e
  BY <1>1
<1> QED
  BY <1>1, <1>2, <1>3

LEMMA JustifiedStep ==
  ASSUME ledger \in Seq(Entry), Ledger!Justified, [Ledger!Next]_(Ledger!vars)
  PROVE  Ledger!Justified'
<1> DEFINE paid == {t \in Topup : stripe[t] = "complete"}
<1>1. CASE UNCHANGED ledger /\ paid \subseteq paid'
  BY <1>1 DEF Ledger!Justified
<1>2. ASSUME NEW type, NEW ref, NEW delta, Ledger!Post(type, ref, delta),
             \/ type = "topup_credit" /\ ref \in paid /\ delta = Amount[ref]
             \/ type = "launch_debit" /\ ref \in Launch /\ delta = -Price[ref]
             \/ /\ type = "launch_refund" /\ ref \in Launch /\ delta = Price[ref]
                /\ Posted("launch_debit", ref)
      PROVE  Ledger!Justified'
  <2>1. PICK n : n = Len(ledger) + 1
    OBVIOUS
  <2>2. /\ ~Posted(type, ref)
        /\ DOMAIN ledger' = DOMAIN ledger \cup {n} /\ n \notin DOMAIN ledger
        /\ \A i \in DOMAIN ledger : ledger'[i] = ledger[i] /\ i < n
        /\ ledger'[n].type = type /\ ledger'[n].ref = ref /\ ledger'[n].delta = delta
    <3>1. Ledger!Post(type, ref, delta)
      BY <1>2
    <3>2. PICK m : m = Len(ledger)
      OBVIOUS
    <3>3. /\ ~Posted(type, ref)
          /\ DOMAIN ledger = 1..m /\ m \in Nat /\ DOMAIN ledger' = 1..(m + 1)
          /\ \A i \in DOMAIN ledger : ledger'[i] = ledger[i]
          /\ ledger'[m + 1].type = type /\ ledger'[m + 1].ref = ref
          /\ ledger'[m + 1].delta = delta
      BY <3>1, <3>2, PostAppends
    <3>4. n = m + 1 /\ m \in Nat
      BY <2>1, <3>2, <3>3
    <3> QED
      BY <3>3, <3>4
  <2>3. paid' = paid
    BY <1>2 DEF Ledger!Post
  <2>4. \A i, j \in DOMAIN ledger' :
          ledger'[i].type = ledger'[j].type /\ ledger'[i].ref = ledger'[j].ref => i = j
    BY <2>2 DEF Ledger!Justified, Posted
  <2>5. ASSUME NEW i \in DOMAIN ledger'
        PROVE  LET e == ledger'[i]
               IN \/ e.type = "topup_credit" /\ e.ref \in paid' /\ e.delta = Amount[e.ref]
                  \/ e.type = "launch_debit" /\ e.ref \in Launch /\ e.delta = -Price[e.ref]
                  \/ /\ e.type = "launch_refund" /\ e.ref \in Launch /\ e.delta = Price[e.ref]
                     /\ \E j \in DOMAIN ledger' :
                          j < i /\ ledger'[j].type = "launch_debit" /\ ledger'[j].ref = e.ref
    <3>1. CASE i = n
      BY <1>2, <2>2, <2>3, <3>1 DEF Posted
    <3>2. CASE i # n
      <4>1. i \in DOMAIN ledger /\ ledger'[i] = ledger[i]
        BY <2>2, <3>2
      <4> QED
        BY <2>2, <2>3, <4>1 DEF Ledger!Justified
    <3> QED
      BY <3>1, <3>2
  <2> QED
    BY <2>4, <2>5 DEF Ledger!Justified
<1>3. ASSUME NEW t \in Topup, Ledger!Pay(t) PROVE Ledger!Justified'
  BY <1>1, <1>3 DEF Ledger!Pay
<1>4. ASSUME NEW t \in Topup, Ledger!Credit(t) PROVE Ledger!Justified'
  BY <1>2, <1>4 DEF Ledger!Credit
<1>5. ASSUME NEW l \in Launch, Ledger!Debit(l) PROVE Ledger!Justified'
  BY <1>2, <1>5 DEF Ledger!Debit
<1>6. ASSUME NEW l \in Launch, Ledger!Refund(l) PROVE Ledger!Justified'
  BY <1>2, <1>6 DEF Ledger!Refund, Ledger!Posted, Posted
<1>7. CASE UNCHANGED Ledger!vars
  BY <1>1, <1>7 DEF Ledger!vars
<1> QED
  BY <1>3, <1>4, <1>5, <1>6, <1>7 DEF Ledger!Next

\* No wallet is credited, debited or refunded twice for one thing, whatever is delivered again,
\* retried or raced: each entry has its own reason, a credit a payment and a refund an earlier
\* debit of the same launch and amount.
THEOREM EntriesJustified == Spec => []Ledger!Justified
<1>1. Ledger!Init => Ledger!Justified
  BY DEF Ledger!Init, Ledger!Justified
<1>2. TypeOK => ledger \in Seq(Entry)
  BY DEF TypeOK
<1> QED
  BY <1>1, <1>2, JustifiedStep, WalletImplementsLedger, TypeCorrect, PTL
  DEF ImplementsLedger, Ledger!Spec

=============================================================================
