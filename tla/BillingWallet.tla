---------------------------- MODULE BillingWallet ----------------------------
(***************************************************************************)
(* Ship Yard billing: the prepaid wallet of a user                         *)
(* (node/src/lib/shipyard/billing/wallet.ts), the top-ups Stripe is paid   *)
(* for and reports (app/api/ship-yard/billing), and the launches of        *)
(* managed clouds that are debited and, when they fail, refunded           *)
(* (app/api/ship-yard/launch/route.ts).                                    *)
(*                                                                         *)
(* Every change of the wallet is one READ COMMITTED transaction of a       *)
(* worker, a launch or the delivery of a webhook: an unlocked lookup of    *)
(* the reference, the INSERT of the ledger entry (unique by type and       *)
(* reference), the conditional UPDATE of the balance, which locks the      *)
(* wallet's row, and COMMIT.  What a transaction did is in txn until then. *)
(*                                                                         *)
(* One wallet: those of other users share nothing with it.  Creating its   *)
(* row, which starts at zero, is left out.                                 *)
(***************************************************************************)
EXTENDS Integers, Sequences

CONSTANTS
  Topup, Launch,  \* top-ups (each with its Stripe session), deployments
  Delivery,       \* webhook requests that may be under way at a time
  Amount, Price,  \* cents of a top-up and of a launch's quote
  None,           \* no transaction's reference, no event
  MaxFaults       \* bound: errors, throws and crashes in a behaviour

Worker == Launch \cup Delivery

ASSUME DisjointAssumption ==
  Launch \cap Delivery = {} /\ Launch \cap Topup = {} /\ None \notin Launch \cup Topup
ASSUME CentsAssumption ==
  Amount \in [Topup -> Nat \ {0}] /\ Price \in [Launch -> Nat \ {0}]
ASSUME BoundAssumption == MaxFaults \in Nat

VARIABLES
  balance,  \* ShipyardBillingWallet.balanceCents
  ledger,   \* the committed ShipyardBillingLedgerEntry rows, in commit order
  txn,      \* per worker: the transaction under way
  topup,    \* per top-up: its row
  request,  \* per top-up: where the POST that creates it stands
  stripe,   \* per top-up: its Checkout session at Stripe
  events,   \* the webhook events Stripe has sent and may send again
  acked,    \* those a 200 has answered
  hook,     \* per delivery: the event it brings, or None
  ship,     \* per launch: the handler and the deployment row
  faults

vars == <<balance, ledger, txn, topup, request, stripe, events, acked, hook, ship, faults>>
wallet == <<balance, ledger>>
topups == <<topup, request, stripe>>
hooks == <<events, acked, hook>>

EntryType == {"topup_credit", "launch_debit", "launch_refund"}
Entry == [type: EntryType, ref: Topup \cup Launch, delta: Int, after: Nat]
TxnType ==
  [step: {"idle", "insert", "balance", "commit"}, type: EntryType,
   ref: Topup \cup Launch \cup {None}, delta: Int, after: Nat]
TopupType ==
  [status: {"none", "pending", "completed", "expired", "failed"}, named: BOOLEAN]
ShipType ==
  [at: {"idle", "quote", "debit", "bootstrap", "activate", "refund", "mark", "done"},
   status: {"none", "deploying", "active", "failed"}, refundError: BOOLEAN]
NoTxn == [step |-> "idle", type |-> "launch_debit", ref |-> None, delta |-> 0, after |-> 0]
EventOf(t, type) == [session |-> t, type |-> type]

Init ==
  /\ balance = 0
  /\ ledger = <<>>
  /\ txn = [w \in Worker |-> NoTxn]
  /\ topup = [t \in Topup |-> [status |-> "none", named |-> FALSE]]
  /\ request = [t \in Topup |-> "idle"]
  /\ stripe = [t \in Topup |-> "none"]
  /\ events = {}
  /\ acked = {}
  /\ hook = [d \in Delivery |-> None]
  /\ ship = [l \in Launch |-> [at |-> "idle", status |-> "none", refundError |-> FALSE]]
  /\ faults = 0

-----------------------------------------------------------------------------
(* The transaction that posts one entry.                                     *)

Posted(type, ref) ==
  \E i \in DOMAIN ledger : ledger[i].type = type /\ ledger[i].ref = ref

\* Mutant: the ledger has no unique index.
NoKey(w) == FALSE

\* The INSERT waits for another transaction that has inserted the same reference.
KeyHeld(w) ==
  \E v \in Worker \ {w} : txn[v].step \in {"balance", "commit"}
                          /\ txn[v].type = txn[w].type /\ txn[v].ref = txn[w].ref

\* Mutant: the balance is read and written back, with no lock on the row.
NoLock(w) == FALSE

\* The row of the wallet is locked from the UPDATE of the balance to the COMMIT.
WalletHeld(w) == \E v \in Worker \ {w} : txn[v].step = "commit"

Start(w, type, ref, delta) ==
  txn' = [txn EXCEPT ![w] =
            [step |-> "insert", type |-> type, ref |-> ref, delta |-> delta, after |-> 0]]

Insert(w) ==
  /\ txn[w].step = "insert"
  /\ ~KeyHeld(w) /\ ~Posted(txn[w].type, txn[w].ref)
  /\ txn' = [txn EXCEPT ![w].step = "balance"]
  /\ UNCHANGED <<wallet, topups, hooks, ship, faults>>

\* Mutant: the UPDATE of the balance has no condition.
Anything(w) == TRUE

\* The condition of the UPDATE; a credit has none.
Covered(w) == txn[w].delta > 0 \/ balance + txn[w].delta >= 0

UpdateBalance(w) ==
  /\ txn[w].step = "balance" /\ ~WalletHeld(w) /\ Covered(w)
  /\ txn' = [txn EXCEPT ![w].step = "commit", ![w].after = balance + txn[w].delta]
  /\ UNCHANGED <<wallet, topups, hooks, ship, faults>>

\* What the transaction wrote becomes visible: the entry, the balance, the top-up.
Publish(w) ==
  /\ txn[w].step = "commit"
  /\ balance' = txn[w].after
  /\ ledger' = Append(ledger, [type |-> txn[w].type, ref |-> txn[w].ref,
                               delta |-> txn[w].delta, after |-> txn[w].after])
  /\ topup' = [t \in Topup |->
       IF txn[w].type = "topup_credit" /\ txn[w].ref = t
       THEN [topup[t] EXCEPT !.status = "completed"] ELSE topup[t]]
  /\ txn' = [txn EXCEPT ![w] = NoTxn]

Abort(w) ==
  /\ txn[w].step # "idle"
  /\ txn' = [txn EXCEPT ![w] = NoTxn]
  /\ UNCHANGED <<wallet, topup>>

\* Mutant: the handler of a webhook answers 200 whatever happened.
AlwaysAnswer(d, code) ==
  /\ acked' = acked \cup {hook[d]}
  /\ hook' = [hook EXCEPT ![d] = None]
  /\ UNCHANGED events

\* The response to a webhook; only a 200 stops Stripe from sending the event again.
Respond(d, code) ==
  /\ acked' = IF code = 200 THEN acked \cup {hook[d]} ELSE acked
  /\ hook' = [hook EXCEPT ![d] = None]
  /\ UNCHANGED events

\* Mutant: a debit that fails does not stop the launch.
IgnoreError(l) ==
  ship' = [ship EXCEPT ![l].at = IF @ = "debit" THEN "bootstrap" ELSE "mark",
                       ![l].refundError = ship[l].at # "debit"]

\* The handler of a launch after its transaction failed: a debit's error is thrown on and
\* ends it, a refund's is kept in the row's metadata.
AfterError(l) ==
  ship' = IF ship[l].at = "debit" THEN [ship EXCEPT ![l].at = "done"]
          ELSE [ship EXCEPT ![l].at = "mark", ![l].refundError = TRUE]

AfterCommit(l) ==
  ship' = [ship EXCEPT ![l].at = IF @ = "debit" THEN "bootstrap" ELSE "mark"]

Returns(w) ==
  \/ w \in Launch /\ AfterCommit(w) /\ UNCHANGED hooks
  \/ w \in Delivery /\ Respond(w, 200) /\ UNCHANGED ship

Throws(w) ==
  \/ w \in Launch /\ AfterError(w) /\ UNCHANGED hooks
  \/ w \in Delivery /\ Respond(w, 500) /\ UNCHANGED ship

Commit(w) == Publish(w) /\ Returns(w) /\ UNCHANGED <<request, stripe, faults>>

\* The unique constraint aborts the transaction, so the lookup in the catch block fails
\* as well and the error is thrown on.
InsertFails(w) ==
  /\ txn[w].step = "insert"
  /\ ~KeyHeld(w) /\ Posted(txn[w].type, txn[w].ref)
  /\ Abort(w) /\ Throws(w)
  /\ UNCHANGED <<request, stripe, faults>>

\* The connection breaks, the transaction times out or its process dies.
Error(w) ==
  /\ faults < MaxFaults
  /\ faults' = faults + 1
  /\ Abort(w) /\ Throws(w)
  /\ UNCHANGED <<request, stripe>>

\* The COMMIT happens and its answer gets lost.
LateError(w) ==
  /\ faults < MaxFaults
  /\ faults' = faults + 1
  /\ Publish(w) /\ Throws(w)
  /\ UNCHANGED <<request, stripe>>

-----------------------------------------------------------------------------
(* POST /api/ship-yard/billing/topups, step by step.                         *)

RequestStep(t, from, to) == request[t] = from /\ request' = [request EXCEPT ![t] = to]

\* The row, under a placeholder for the session.
CreateTopup(t) ==
  /\ RequestStep(t, "idle", "session")
  /\ topup' = [topup EXCEPT ![t].status = "pending"]
  /\ UNCHANGED <<wallet, txn, stripe, hooks, ship, faults>>

CreateSession(t) ==
  /\ RequestStep(t, "session", "rename")
  /\ stripe' = [stripe EXCEPT ![t] = "open"]
  /\ UNCHANGED <<wallet, txn, topup, hooks, ship, faults>>

UpdateTopupAfterSession(t) ==
  /\ RequestStep(t, "rename", "respond")
  /\ topup' = [topup EXCEPT ![t].named = TRUE]
  /\ UNCHANGED <<wallet, txn, stripe, hooks, ship, faults>>

\* The user gets the URL of the session.
RespondTopup(t) ==
  /\ RequestStep(t, "respond", "shown")
  /\ UNCHANGED <<wallet, txn, topup, stripe, hooks, ship, faults>>

\* Stripe or the database fails the request, with or without having done what was asked.
TopupError(t) ==
  /\ faults < MaxFaults
  /\ faults' = faults + 1
  /\ request[t] \in {"session", "rename"}
  /\ request' = [request EXCEPT ![t] = "fail"]
  /\ stripe' \in {stripe, IF request[t] = "session" THEN [stripe EXCEPT ![t] = "open"] ELSE stripe}
  /\ topup' \in {topup, IF request[t] = "rename" THEN [topup EXCEPT ![t].named = TRUE] ELSE topup}
  /\ UNCHANGED <<wallet, txn, hooks, ship>>

MarkTopupFailed(t) ==
  /\ RequestStep(t, "fail", "done")
  /\ topup' = [topup EXCEPT ![t].status = IF @ = "pending" THEN "failed" ELSE @]
  /\ UNCHANGED <<wallet, txn, stripe, hooks, ship, faults>>

\* The process dies, or the answer does not reach the user.
TopupCrash(t) ==
  /\ faults < MaxFaults
  /\ faults' = faults + 1
  /\ request[t] \in {"session", "rename", "respond", "fail"}
  /\ request' = [request EXCEPT ![t] = "done"]
  /\ UNCHANGED <<wallet, txn, topup, stripe, hooks, ship>>

-----------------------------------------------------------------------------
(* Stripe, and the webhook it calls.                                         *)

Pay(t) ==
  /\ request[t] = "shown" /\ stripe[t] = "open"
  /\ stripe' = [stripe EXCEPT ![t] = "complete"]
  /\ events' = events \cup {EventOf(t, "completed")}
  /\ UNCHANGED <<wallet, txn, topup, request, acked, hook, ship, faults>>

Expire(t) ==
  /\ stripe[t] = "open"
  /\ stripe' = [stripe EXCEPT ![t] = "expired"]
  /\ events' = events \cup {EventOf(t, "expired")}
  /\ UNCHANGED <<wallet, txn, topup, request, acked, hook, ship, faults>>

\* An event is delivered until it is answered with 200, and sometimes again after that.
Deliver(d, e) ==
  /\ hook[d] = None
  /\ hook' = [hook EXCEPT ![d] = e]
  /\ UNCHANGED <<wallet, txn, topups, events, acked, ship, faults>>

\* completeTopupFromStripeSession goes on only with a pending top-up of that session.
Credits(t) == topup[t].named /\ topup[t].status = "pending"

BeginCompletion(d) ==
  /\ hook[d] # None /\ txn[d].step = "idle"
  /\ hook[d].type = "completed"
  /\ \/ /\ Credits(hook[d].session)
        /\ Start(d, "topup_credit", hook[d].session, Amount[hook[d].session])
        /\ UNCHANGED hooks
     \/ /\ ~Credits(hook[d].session)
        /\ Respond(d, 200)
        /\ UNCHANGED txn
  /\ UNCHANGED <<wallet, topups, ship, faults>>

MarkTopupExpired(d) ==
  /\ hook[d] # None /\ hook[d].type = "expired"
  /\ topup' = [t \in Topup |->
       IF t = hook[d].session /\ topup[t].named /\ topup[t].status = "pending"
       THEN [topup[t] EXCEPT !.status = "expired"] ELSE topup[t]]
  /\ Respond(d, 200)
  /\ UNCHANGED <<wallet, txn, request, stripe, ship, faults>>

\* The request fails before its transaction.
WebhookError(d) ==
  /\ faults < MaxFaults
  /\ faults' = faults + 1
  /\ hook[d] # None /\ txn[d].step = "idle"
  /\ Respond(d, 500)
  /\ UNCHANGED <<wallet, txn, topups, ship>>

-----------------------------------------------------------------------------
(* POST /api/ship-yard/launch for a managed cloud.                           *)

ShipStep(l, from, to) == ship[l].at = from /\ ship' = [ship EXCEPT ![l].at = to]

\* The deployment row, pending and then deploying, and its crew.
BeginLaunch(l) ==
  /\ ship[l].at = "idle"
  /\ ship' = [ship EXCEPT ![l].at = "quote", ![l].status = "deploying"]
  /\ UNCHANGED <<wallet, txn, topups, hooks, faults>>

\* The quote against a balance that is read without a lock.
Quote(l) ==
  /\ ShipStep(l, "quote", IF balance < Price[l] THEN "mark" ELSE "debit")
  /\ UNCHANGED <<wallet, txn, topups, hooks, faults>>

\* Credentials, key or catalog are missing.
Refuse(l) ==
  /\ ShipStep(l, "quote", "mark")
  /\ UNCHANGED <<wallet, txn, topups, hooks, faults>>

DebitForLaunch(l) ==
  /\ ship[l].at = "debit" /\ txn[l].step = "idle"
  /\ \/ /\ Posted("launch_debit", l) /\ AfterCommit(l) /\ UNCHANGED txn
     \/ /\ ~Posted("launch_debit", l)
        /\ Start(l, "launch_debit", l, -Price[l]) /\ UNCHANGED ship
  /\ UNCHANGED <<wallet, topups, hooks, faults>>

\* The UPDATE finds too low a balance: rolled back, and the launch fails undebited.
Insufficient(l) ==
  /\ txn[l].step = "balance" /\ ~WalletHeld(l) /\ ~Covered(l)
  /\ Abort(l)
  /\ ship' = [ship EXCEPT ![l].at = "mark"]
  /\ UNCHANGED <<request, stripe, hooks, faults>>

\* Mutant: a failed bootstrap goes straight to the failed row.
NoRefund(l) == ShipStep(l, "bootstrap", "mark")

BootstrapFails(l) == ShipStep(l, "bootstrap", "refund")
BootstrapSucceeds(l) == ShipStep(l, "bootstrap", "activate")

\* runShipyardCloudBootstrap answers.
Bootstrap(l) ==
  /\ BootstrapFails(l) \/ BootstrapSucceeds(l)
  /\ UNCHANGED <<wallet, txn, topups, hooks, faults>>

Activate(l) ==
  /\ ship[l].at = "activate"
  /\ ship' = [ship EXCEPT ![l].at = "done", ![l].status = "active"]
  /\ UNCHANGED <<wallet, txn, topups, hooks, faults>>

\* failLaunch of a launch that was debited.
RefundLaunchDebit(l) ==
  /\ ship[l].at = "refund" /\ txn[l].step = "idle"
  /\ \/ /\ Posted("launch_refund", l) /\ AfterCommit(l) /\ UNCHANGED txn
     \/ /\ ~Posted("launch_refund", l)
        /\ Start(l, "launch_refund", l, Price[l]) /\ UNCHANGED ship
  /\ UNCHANGED <<wallet, topups, hooks, faults>>

MarkLaunchFailed(l) ==
  /\ ship[l].at = "mark"
  /\ ship' = [ship EXCEPT ![l].at = "done", ![l].status = "failed"]
  /\ UNCHANGED <<wallet, txn, topups, hooks, faults>>

\* An exception no inner handler turns into a failed launch, or the end of the process:
\* the outer catch only logs, and the row stays as it is.
Stop(l) ==
  /\ faults < MaxFaults
  /\ faults' = faults + 1
  /\ ship[l].at \notin {"idle", "done"}
  /\ ship' = [ship EXCEPT ![l].at = "done"]
  /\ txn' = [txn EXCEPT ![l] = NoTxn]
  /\ UNCHANGED <<wallet, topups, hooks>>

-----------------------------------------------------------------------------

Post(w) == Insert(w) \/ InsertFails(w) \/ UpdateBalance(w) \/ Commit(w)

TopupRequest(t) ==
  \/ CreateTopup(t) \/ CreateSession(t) \/ UpdateTopupAfterSession(t)
  \/ RespondTopup(t) \/ MarkTopupFailed(t)

Webhook(d) == BeginCompletion(d) \/ MarkTopupExpired(d)

LaunchRequest(l) ==
  \/ BeginLaunch(l) \/ Quote(l) \/ Refuse(l) \/ DebitForLaunch(l) \/ Insufficient(l)
  \/ Bootstrap(l) \/ Activate(l) \/ RefundLaunchDebit(l) \/ MarkLaunchFailed(l)

Next ==
  \/ \E w \in Worker : Post(w) \/ Error(w) \/ LateError(w)
  \/ \E t \in Topup : TopupRequest(t) \/ TopupError(t) \/ TopupCrash(t) \/ Pay(t) \/ Expire(t)
  \/ \E d \in Delivery : Webhook(d) \/ WebhookError(d)
  \/ \E d \in Delivery, e \in events : Deliver(d, e)
  \/ \E l \in Launch : LaunchRequest(l) \/ Stop(l)

Spec == Init /\ [][Next]_vars

\* Stripe delivers an event until a 200 answers it; a transaction that waits for the wallet
\* or for a key gets it, since whoever holds it commits or fails.
FairSpec ==
  /\ Spec
  /\ \A w \in Worker : SF_vars(Post(w))
  /\ \A d \in Delivery : WF_vars(Webhook(d))
  /\ \A l \in Launch : WF_vars(LaunchRequest(l) /\ ship[l].at # "idle")
  /\ \A t \in Topup, type \in {"completed", "expired"} :
       SF_vars(\E d \in Delivery : EventOf(t, type) \in events \ acked
                                   /\ Deliver(d, EventOf(t, type)))
-----------------------------------------------------------------------------
(* Properties.                                                               *)

\* The type invariant: the tables and what each request holds stay well formed, and a
\* transaction of a launch is about that launch.
TypeOK ==
  /\ balance \in Nat
  /\ ledger \in Seq(Entry)
  /\ txn \in [Worker -> TxnType]
  /\ topup \in [Topup -> TopupType]
  /\ request \in [Topup -> {"idle", "session", "rename", "respond", "shown", "fail", "done"}]
  /\ stripe \in [Topup -> {"none", "open", "complete", "expired"}]
  /\ events \subseteq [session: Topup, type: {"completed", "expired"}]
  /\ acked \subseteq events
  /\ hook \in [Delivery -> events \cup {None}]
  /\ ship \in [Launch -> ShipType]
  /\ faults \in Nat

\* The balance is the sum of the ledger: each entry's balanceAfterCents is that of the
\* entry committed before it plus its own delta, none is negative, and the last one is the
\* balance (incrementWalletBalance and decrementWalletBalance, wallet.ts:82-125), however
\* debits, refunds and credits overlap.
BalanceIsLedger ==
  /\ balance = IF ledger = <<>> THEN 0 ELSE ledger[Len(ledger)].after
  /\ \A i \in DOMAIN ledger :
       ledger[i].after = ledger[i].delta + (IF i = 1 THEN 0 ELSE ledger[i - 1].after)

\* A ship that is active was debited and has not got its money back (route.ts:560-690).
ActiveIsPaid ==
  \A l \in Launch : ship[l].status = "active" =>
    Posted("launch_debit", l) /\ ~Posted("launch_refund", l)

\* A ship whose row says failed has no debit left over, unless its row says that the refund
\* failed (failLaunch, route.ts:320-360).
FailedIsRefunded ==
  \A l \in Launch : ship[l].status = "failed" /\ Posted("launch_debit", l) =>
    Posted("launch_refund", l) \/ ship[l].refundError

\* The refinement: a top-up is paid when its session at Stripe is complete, and what the
\* transactions have in flight is not there yet.
Ledger == INSTANCE WalletLedger WITH
  entries <- ledger,
  paid <- {t \in Topup : stripe[t] = "complete"}

\* The wallet is the abstract ledger: every commit posts one entry whose reference is new,
\* a credit only for what was paid and a refund only for what was debited
\* (debitForLaunch, refundLaunchDebit, completeTopupFromStripeSession).
ImplementsLedger == Ledger!Spec

\* What the user has paid is credited in the end, whatever errors and crashes the webhook
\* and the request that created the top-up meet: the user gets to pay only after the
\* session's id is stored, and Stripe delivers again what was not answered with 200.
PaidIsCredited ==
  \A t \in Topup : stripe[t] = "complete" ~> Posted("topup_credit", t)

=============================================================================
