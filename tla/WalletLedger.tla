---------------------------- MODULE WalletLedger ----------------------------
(***************************************************************************)
(* What a prepaid wallet promises, with no transactions, webhooks or       *)
(* handlers in sight: entries are posted one at a time, each reference at  *)
(* most once, every entry says what the balance was after it, and the      *)
(* balance never goes below zero.  A credit is for money that was paid, a  *)
(* refund gives back a debit of the same launch.  BillingWallet implements *)
(* it.                                                                     *)
(***************************************************************************)
EXTENDS Integers, Sequences

CONSTANTS
  Topup, Launch,
  Amount, \* what a top-up is worth
  Price   \* what a launch costs

VARIABLES balance, entries, paid
vars == <<balance, entries, paid>>

Init == balance = 0 /\ entries = <<>> /\ paid = {}

Posted(type, ref) ==
  \E i \in DOMAIN entries : entries[i].type = type /\ entries[i].ref = ref

Post(type, ref, delta) ==
  /\ ~Posted(type, ref)
  /\ balance + delta >= 0
  /\ balance' = balance + delta
  /\ entries' = Append(entries, [type |-> type, ref |-> ref, delta |-> delta,
                                 after |-> balance + delta])
  /\ UNCHANGED paid

Pay(t) == paid' = paid \cup {t} /\ UNCHANGED <<balance, entries>>
Credit(t) == t \in paid /\ Post("topup_credit", t, Amount[t])
Debit(l) == Post("launch_debit", l, -Price[l])
Refund(l) == Posted("launch_debit", l) /\ Post("launch_refund", l, Price[l])

Next ==
  \/ \E t \in Topup : Pay(t) \/ Credit(t)
  \/ \E l \in Launch : Debit(l) \/ Refund(l)

Spec == Init /\ [][Next]_vars

-----------------------------------------------------------------------------
(* What follows for the entries.                                             *)

\* No entry is posted twice, each is for its reason and of its amount: a credit of a top-up
\* that was paid, the debit of a launch, or a refund that gives back an earlier debit whole.
Justified ==
  /\ \A i, j \in DOMAIN entries :
       entries[i].type = entries[j].type /\ entries[i].ref = entries[j].ref => i = j
  /\ \A i \in DOMAIN entries :
       LET e == entries[i]
       IN \/ e.type = "topup_credit" /\ e.ref \in paid /\ e.delta = Amount[e.ref]
          \/ e.type = "launch_debit" /\ e.ref \in Launch /\ e.delta = -Price[e.ref]
          \/ /\ e.type = "launch_refund" /\ e.ref \in Launch /\ e.delta = Price[e.ref]
             /\ \E j \in DOMAIN entries :
                  j < i /\ entries[j].type = "launch_debit" /\ entries[j].ref = e.ref

=============================================================================
