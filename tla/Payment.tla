------------------------------ MODULE Payment ------------------------------
(***************************************************************************)
(* Purchases, refunds and limits of payment/executor.py and                *)
(* capabilities/payment.py over the three tables of payment/store.py:      *)
(* instruments, intents and the append-only ledger.                        *)
(*                                                                         *)
(* All of it runs on one event loop: what a handler does between two       *)
(* awaits is one action, and the only awaits are the calls of the          *)
(* provider.  Each write of the store commits on its own, so a crash falls *)
(* between two writes of one action (CrashMidWrite).  The provider is      *)
(* external: idempotent by key, it may charge and never answer.  Ledger    *)
(* rows that nothing reads back are left out.                              *)
(***************************************************************************)
EXTENDS Integers, FiniteSets, FiniteSetsExt

CONSTANTS
    Intents,      \* payment intents; their number bounds the purchases prepared
    Executions,   \* execution ids of approved purchases, each approved once
    RefundIds,    \* execution ids of approved refunds
    Handlers,     \* concurrent calls of the capabilities
    Total,        \* the amount the provider quotes, by intent
    Limits,       \* amounts a limit may be set to; 0 is no daily limit
    Ceiling,      \* CEILING_MINOR
    MaxDay,       \* bound: the number of midnights
    NULL

ConstantsOK ==
    /\ Total \in [Intents -> Nat \ {0}]
    /\ Limits \subseteq Nat /\ Ceiling \in Nat /\ MaxDay \in Nat
    /\ NULL \notin Intents \cup Executions \cup RefundIds

VARIABLES
    intent,    \* the intents table: state and execution id
    expired,   \* the intents whose expires_at has passed
    inst,      \* the row of the payment instrument
    charged,   \* ledger rows "charged"
    refunds,   \* ledger rows "refunded"
    handler,   \* what each handler read and waits for
    prov,      \* the provider: the charge known under each execution's key
    provRefs,  \* the provider: the refunds it made
    day        \* the UTC day

book == <<charged, refunds>>
world == <<prov, provRefs>>
vars == <<intent, expired, inst, charged, refunds, handler, prov, provRefs, day>>

States == {"none", "draft", "quoted", "ready", "approved", "executing", "awaiting_sca",
           "succeeded", "failed", "reconcile", "cancelled", "part_refunded", "refunded"}
TERMINAL_STATES == {"failed", "cancelled", "refunded"}
OpenReconciliations == {"reconcile", "awaiting_sca", "executing"}

\* payment/intent.py: the only map of transitions.  Two writes of one action are one
\* step here: draft to ready passes quoted, ready to executing passes approved.
TRANSITIONS == [s \in States |->
    CASE s = "none"          -> {"draft"}
      [] s = "draft"         -> {"quoted", "ready", "cancelled", "failed"}
      [] s = "quoted"        -> {"quoted", "ready", "cancelled", "failed"}
      [] s = "ready"         -> {"quoted", "approved", "cancelled", "failed", "executing"}
      [] s = "approved"      -> {"executing", "cancelled", "failed"}
      [] s = "executing"     -> {"succeeded", "failed", "awaiting_sca", "reconcile"}
      [] s = "awaiting_sca"  -> {"succeeded", "failed", "reconcile"}
      [] s = "reconcile"     -> {"succeeded", "failed"}
      [] s \in {"succeeded", "part_refunded"} -> {"part_refunded", "refunded"}
      [] OTHER               -> {}]

\* The key of a refund: its own execution id, or one derived from the purchase.
RefundKey == [intent : Intents, own : RefundIds \cup {NULL}, already : Nat, wanted : Nat]
Idle == [pc |-> "idle", intent |-> NULL, exec |-> NULL, own |-> NULL,
         already |-> 0, wanted |-> 0]

TypeOK ==
    /\ intent \in [Intents -> [state : States, exec : Executions \cup {NULL}]]
    /\ expired \subseteq Intents
    /\ inst \in [there : BOOLEAN, active : BOOLEAN, single : Nat, daily : Nat]
    /\ \A r \in charged : r \in [intent : Intents, exec : Executions, day : 0..MaxDay]
    /\ \A r \in refunds \cup provRefs : r \in [key : RefundKey, amount : Nat]
    /\ \A h \in Handlers :
          /\ handler[h].pc \in {"idle", "quote", "wire", "lookup", "refund"}
          /\ handler[h].pc # "idle" => handler[h].intent \in Intents
          /\ handler[h].pc \in {"wire", "lookup"} => handler[h].exec \in Executions
    /\ prov \in [Executions -> {"none", "flying", "pending", "succeeded", "declined"}]
    /\ day \in 0..MaxDay

----------------------------------------------------------------------------
(* The store.                                                              *)

PutState(i, s) == intent' = [intent EXCEPT ![i].state = s]

Reply(h) == handler' = [handler EXCEPT ![h] = Idle]

\* store.day_total_minor: refunds are not subtracted.
DayTotal(d) == MapThenSumSet(LAMBDA r : Total[r.intent], {r \in charged : r.day = d})

\* store.record of a charged row: the unique index lets one row per execution in.
Booked(e) == \E r \in charged : r.exec = e

\* Mutant: no unique index on the execution id.
Book_NoIndex(i, e) == charged' = charged \cup {[intent |-> i, exec |-> e, day |-> day]}

Book(i, e) ==
    charged' = IF Booked(e) THEN charged
               ELSE charged \cup {[intent |-> i, exec |-> e, day |-> day]}

RefundsOf(rows, i) == MapThenSumSet(LAMBDA r : r.amount, {r \in rows : r.key.intent = i})

\* instruments.evaluate for one amount on top of what the day has moved.
Evaluate(row, amount, total) ==
    /\ row.active
    /\ amount <= row.single
    /\ row.daily # 0 => total + amount <= row.daily

\* Mutant: no daily limit counts as the lowest one.
Widens_ZeroIsLowest(old, new) ==
    \/ new.single > old.single
    \/ new.daily > old.daily
    \/ ~old.active /\ new.active

\* instruments.widens
Widens(old, new) ==
    \/ new.single > old.single
    \/ old.daily # 0 /\ new.daily = 0
    \/ new.daily > old.daily
    \/ ~old.active /\ new.active

----------------------------------------------------------------------------
(* Preparing and cancelling.                                               *)

\* prepare up to the provider's quote: the draft is stored.
Prepare(h, i) ==
    /\ handler[h].pc = "idle"
    /\ intent[i].state = "none"
    /\ inst.there /\ inst.active
    /\ PutState(i, "draft")
    /\ handler' = [handler EXCEPT ![h] = [Idle EXCEPT !.pc = "quote", !.intent = i]]
    /\ UNCHANGED <<expired, inst, book, world, day>>

\* The quote arrives, and is attached to the draft as prepare remembers it.
QuoteAnswer(h) ==
    LET i == handler[h].intent IN
    /\ handler[h].pc = "quote"
    /\ PutState(i, IF Total[i] > Ceiling THEN "cancelled" ELSE "ready")
    /\ Reply(h)
    /\ UNCHANGED <<expired, inst, book, world, day>>

\* No quote, a recurring one or an unknown surcharge: the draft stays.
QuoteRefused(h) ==
    /\ handler[h].pc = "quote"
    /\ Reply(h)
    /\ UNCHANGED <<intent, expired, inst, book, world, day>>

CancelIntent(i) ==
    /\ intent[i].state \in {"draft", "quoted", "ready", "approved"}
    /\ PutState(i, "cancelled")
    /\ UNCHANGED <<expired, inst, book, handler, world, day>>

----------------------------------------------------------------------------
(* purchase and charge.                                                    *)

Fresh(e) == prov[e] = "none" /\ \A i \in Intents : intent[i].exec # e

\* What an approved purchase must find before anything is written.
Payable(i) == intent[i].state \in {"ready", "approved"} /\ i \notin expired

\* Mutant: an unclear purchase may be bought again.
MayCharge_Unclear(i, e) ==
    /\ intent[i].state \in {"ready", "approved", "reconcile"} /\ i \notin expired
    /\ Fresh(e) /\ inst.there

\* purchase and charge up to the verdict on the instrument.
MayCharge(i, e) == Payable(i) /\ Fresh(e) /\ inst.there

\* The claim is written, and the call goes out.
PurchaseClaims(h, i, e) ==
    /\ handler[h].pc = "idle"
    /\ MayCharge(i, e)
    /\ Evaluate(inst, Total[i], DayTotal(day))
    /\ intent' = [intent EXCEPT ![i] = [state |-> "executing", exec |-> e]]
    /\ prov' = [prov EXCEPT ![e] = "flying"]
    /\ handler' = [handler EXCEPT ![h] =
           [Idle EXCEPT !.pc = "wire", !.intent = i, !.exec = e]]
    /\ UNCHANGED <<expired, inst, book, provRefs, day>>

\* The instrument says no: failed, and nothing was sent.
PurchaseDenied(i, e) ==
    /\ MayCharge(i, e)
    /\ ~Evaluate(inst, Total[i], DayTotal(day))
    /\ PutState(i, "failed")
    /\ UNCHANGED <<expired, inst, book, handler, world, day>>

\* The approval is written, but there is no instrument (or the process died here).
PurchaseStops(i) ==
    /\ Payable(i)
    /\ PutState(i, "approved")
    /\ UNCHANGED <<expired, inst, book, handler, world, day>>

\* The vault refuses the credential or no connection came about: provably nothing.
NeverSent(h) ==
    /\ handler[h].pc = "wire"
    /\ prov[handler[h].exec] = "flying"
    /\ prov' = [prov EXCEPT ![handler[h].exec] = "none"]
    /\ PutState(handler[h].intent, "failed")
    /\ Reply(h)
    /\ UNCHANGED <<expired, inst, book, provRefs, day>>

\* Mutant: any failure after the call counts as "nothing happened".
Ambiguous_Failed(h) ==
    /\ handler[h].pc = "wire"
    /\ PutState(handler[h].intent, "failed")
    /\ Reply(h)
    /\ UNCHANGED <<expired, inst, book, world, day>>

\* A timeout, a server error, a malformed answer: _record_ambiguous.
Ambiguous(h) ==
    /\ handler[h].pc = "wire"
    /\ PutState(handler[h].intent, "reconcile")
    /\ Reply(h)
    /\ UNCHANGED <<expired, inst, book, world, day>>

\* _settle of a success: a duplicate leaves the state to whoever booked first.
Settled(i, e) == IF Booked(e) THEN intent[i].state ELSE "succeeded"

\* The provider answered: _settle.
ChargeAnswer(h) ==
    LET i == handler[h].intent  e == handler[h].exec IN
    /\ handler[h].pc = "wire"
    /\ \/ /\ prov[e] = "succeeded"
          /\ Book(i, e)
          /\ PutState(i, Settled(i, e))
       \/ /\ prov[e] = "pending"
          /\ PutState(i, "awaiting_sca")
          /\ UNCHANGED charged
       \/ /\ prov[e] = "declined"
          /\ PutState(i, "failed")
          /\ UNCHANGED charged
    /\ Reply(h)
    /\ UNCHANGED <<expired, inst, refunds, world, day>>

----------------------------------------------------------------------------
(* reconcile: look it up, never repeat it.                                 *)

\* Mutant: reconcile is not asked whether anything was ever sent.
ReconcileStart_NoState(h, i) ==
    /\ handler[h].pc = "idle"
    /\ intent[i].state # "none" /\ inst.there
    /\ handler' = [handler EXCEPT ![h] =
           [Idle EXCEPT !.pc = "lookup", !.intent = i, !.exec = intent[i].exec]]
    /\ UNCHANGED <<intent, expired, inst, book, world, day>>

ReconcileStart(h, i) ==
    /\ handler[h].pc = "idle"
    /\ intent[i].state \in OpenReconciliations
    /\ intent[i].exec # NULL
    /\ inst.there
    /\ handler' = [handler EXCEPT ![h] =
           [Idle EXCEPT !.pc = "lookup", !.intent = i, !.exec = intent[i].exec]]
    /\ UNCHANGED <<intent, expired, inst, book, world, day>>

\* Mutant: a charge still waiting for the bank counts as paid.
Found_PendingPaid(i, e) ==
    IF prov[e] \in {"succeeded", "pending"} THEN "succeeded" ELSE "failed"

\* The state lookup's answer stands for; an unknown key means nothing was charged.
Found(i, e) ==
    CASE prov[e] = "succeeded" -> "succeeded"
      [] prov[e] = "pending"   -> intent[i].state
      [] OTHER                 -> "failed"

ReconcileAnswer(h) ==
    LET i == handler[h].intent  e == handler[h].exec IN
    /\ handler[h].pc = "lookup"
    /\ PutState(i, Found(i, e))
    /\ IF prov[e] = "succeeded" THEN Book(i, e) ELSE UNCHANGED charged
    /\ Reply(h)
    /\ UNCHANGED <<expired, inst, refunds, world, day>>

\* Looking up failed: nothing is decided.
LookupFails(h) ==
    /\ handler[h].pc = "lookup"
    /\ Reply(h)
    /\ UNCHANGED <<intent, expired, inst, book, world, day>>

----------------------------------------------------------------------------
(* refund: only back, and only what was booked.                            *)

\* The amount that may still go back, by the book.
Open(i) == Total[i] - RefundsOf(refunds, i)

\* A refund runs under its own approval (own), or without one under a derived key.
RefundStart(h, i, wanted, own) ==
    /\ handler[h].pc = "idle"
    /\ intent[i].state \in {"succeeded", "part_refunded"}
    /\ inst.there
    /\ \E r \in charged : r.intent = i
    /\ wanted \in 1..Open(i)
    /\ own # NULL => /\ \A r \in provRefs : r.key.own # own
                     /\ \A g \in Handlers : handler[g].own # own
    /\ handler' = [handler EXCEPT ![h] =
           [pc |-> "refund", intent |-> i, exec |-> NULL, own |-> own,
            already |-> Total[i] - Open(i), wanted |-> wanted]]
    /\ UNCHANGED <<intent, expired, inst, book, world, day>>

\* Every approved refund has a key of its own; a derived one names what went back before.
KeyOf(op) == [intent |-> op.intent, own |-> op.own,
              already |-> IF op.own = NULL THEN op.already ELSE 0,
              wanted  |-> IF op.own = NULL THEN op.wanted ELSE 0]

\* The provider: a known key is the same refund again; no more than is open goes back.
ProviderRefunds(op) ==
    \/ /\ \E r \in provRefs : r.key = KeyOf(op)
       /\ UNCHANGED provRefs
    \/ /\ \A r \in provRefs : r.key # KeyOf(op)
       /\ op.wanted <= Total[op.intent] - RefundsOf(provRefs, op.intent)
       /\ provRefs' = provRefs \cup {[key |-> KeyOf(op), amount |-> op.wanted]}

RefundedState(op, amount) ==
    IF op.already + amount >= Total[op.intent] THEN "refunded" ELSE "part_refunded"

\* The refund is answered, and booked unless the book knows it.
RefundAnswer(h) ==
    LET op == handler[h]
        row == CHOOSE r \in provRefs' : r.key = KeyOf(op) IN
    /\ op.pc = "refund"
    /\ ProviderRefunds(op)
    /\ IF row \in refunds
       THEN UNCHANGED <<intent, refunds>>
       ELSE /\ PutState(op.intent, RefundedState(op, row.amount))
            /\ refunds' = refunds \cup {row}
    /\ Reply(h)
    /\ UNCHANGED <<expired, inst, charged, prov, day>>

\* Refused, or no answer although the provider may have refunded: nothing is booked.
RefundUnanswered(h) ==
    /\ handler[h].pc = "refund"
    /\ ProviderRefunds(handler[h]) \/ UNCHANGED provRefs
    /\ Reply(h)
    /\ UNCHANGED <<intent, expired, inst, book, prov, day>>

----------------------------------------------------------------------------
(* The instrument.                                                         *)

MethodAdd(single, daily) ==
    /\ ~inst.there
    /\ inst' = [there |-> TRUE, active |-> TRUE, single |-> single, daily |-> daily]
    /\ UNCHANGED <<intent, expired, book, handler, world, day>>

MethodRemove ==
    /\ inst.there
    /\ inst' = [inst EXCEPT !.there = FALSE]
    /\ UNCHANGED <<intent, expired, book, handler, world, day>>

SetStatus(active) ==
    /\ inst.there
    /\ inst' = [inst EXCEPT !.active = active]
    /\ UNCHANGED <<intent, expired, book, handler, world, day>>

\* _set_limits: a single limit of 0 keeps the old one.
NewLimits(single, daily) ==
    [inst EXCEPT !.single = IF single = 0 THEN @ ELSE single, !.daily = daily]

LimitLower(single, daily) ==
    /\ inst.there
    /\ ~Widens(inst, NewLimits(single, daily))
    /\ inst' = NewLimits(single, daily)
    /\ UNCHANGED <<intent, expired, book, handler, world, day>>

LimitRaise(single, daily) ==
    /\ inst.there
    /\ Widens(inst, NewLimits(single, daily))
    /\ inst' = NewLimits(single, daily)
    /\ UNCHANGED <<intent, expired, book, handler, world, day>>

----------------------------------------------------------------------------
(* The provider, the clock and the process.                                *)

ProviderCharges(e) ==
    /\ prov[e] = "flying"
    /\ prov' \in {[prov EXCEPT ![e] = s] : s \in {"succeeded", "pending", "declined"}}
    /\ UNCHANGED <<intent, expired, inst, book, handler, provRefs, day>>

WireLost(e) ==
    /\ prov[e] = "flying"
    /\ prov' = [prov EXCEPT ![e] = "none"]
    /\ UNCHANGED <<intent, expired, inst, book, handler, provRefs, day>>

\* The owner answers the bank.
BankAnswers(e) ==
    /\ prov[e] = "pending"
    /\ prov' \in {[prov EXCEPT ![e] = s] : s \in {"succeeded", "declined"}}
    /\ UNCHANGED <<intent, expired, inst, book, handler, provRefs, day>>

IntentExpires(i) ==
    /\ intent[i].state # "none" /\ i \notin expired
    /\ expired' = expired \cup {i}
    /\ UNCHANGED <<intent, inst, book, handler, world, day>>

Midnight ==
    /\ day < MaxDay
    /\ day' = day + 1
    /\ UNCHANGED <<intent, expired, inst, book, handler, world>>

\* The handlers are gone; what they had sent is not.
Crash ==
    /\ \E h \in Handlers : handler[h].pc # "idle"
    /\ handler' = [h \in Handlers |-> Idle]
    /\ UNCHANGED <<intent, expired, inst, book, world, day>>

\* The process dies between the two writes that follow an answer: the quote, the charge that
\* was answered or looked up, the refund.
CrashMidWrite(h) ==
    LET op == handler[h] IN
    /\ handler' = [g \in Handlers |-> Idle]
    /\ \/ /\ op.pc = "quote"
          /\ PutState(op.intent, "quoted")
          /\ UNCHANGED <<book, world>>
       \/ /\ op.pc \in {"wire", "lookup"} /\ prov[op.exec] = "succeeded"
          /\ Book(op.intent, op.exec)
          /\ UNCHANGED <<intent, refunds, world>>
       \/ /\ op.pc = "refund"
          /\ ProviderRefunds(op)
          /\ \A r \in refunds : r.key # KeyOf(op)
          /\ \E r \in provRefs' : /\ r.key = KeyOf(op)
                                  /\ PutState(op.intent, RefundedState(op, r.amount))
          /\ UNCHANGED <<book, prov>>
    /\ UNCHANGED <<expired, inst, day>>

----------------------------------------------------------------------------
Init ==
    /\ intent = [i \in Intents |-> [state |-> "none", exec |-> NULL]]
    /\ expired = {}
    /\ inst = [there |-> FALSE, active |-> FALSE, single |-> 0, daily |-> 0]
    /\ charged = {} /\ refunds = {}
    /\ handler = [h \in Handlers |-> Idle]
    /\ prov = [e \in Executions |-> "none"] /\ provRefs = {}
    /\ day = 0

Purchase ==
    \E i \in Intents, e \in Executions :
        \/ PurchaseDenied(i, e)
        \/ PurchaseStops(i)
        \/ \E h \in Handlers : PurchaseClaims(h, i, e)

Refund ==
    \E h \in Handlers, i \in Intents, own \in RefundIds \cup {NULL} :
        \E wanted \in 1..Total[i] : RefundStart(h, i, wanted, own)

Answer(h) ==
    \/ QuoteAnswer(h) \/ QuoteRefused(h)
    \/ NeverSent(h) \/ Ambiguous(h) \/ ChargeAnswer(h)
    \/ ReconcileAnswer(h) \/ LookupFails(h)
    \/ RefundAnswer(h) \/ RefundUnanswered(h)
    \/ CrashMidWrite(h)

Admin ==
    \/ MethodRemove
    \/ \E active \in BOOLEAN : SetStatus(active)
    \/ \E single \in Limits \ {0}, daily \in Limits : MethodAdd(single, daily)
    \/ \E single, daily \in Limits : LimitLower(single, daily) \/ LimitRaise(single, daily)

Outside ==
    \/ \E e \in Executions : ProviderCharges(e) \/ WireLost(e) \/ BankAnswers(e)
    \/ \E i \in Intents : IntentExpires(i)
    \/ Midnight
    \/ Crash

Next ==
    \/ \E h \in Handlers, i \in Intents : Prepare(h, i) \/ ReconcileStart(h, i)
    \/ \E i \in Intents : CancelIntent(i)
    \/ Purchase
    \/ Refund
    \/ \E h \in Handlers : Answer(h)
    \/ Admin
    \/ Outside

Spec == Init /\ [][Next]_vars

----------------------------------------------------------------------------
(* Properties.                                                             *)

ChargesOf(i) == {e \in Executions : intent[i].exec = e /\ prov[e] = "succeeded"}

\* No intent moves money twice: every execution that ever left the machine is
\* the one its intent names, so a second approval, a crash or a reconcile that
\* raced the charge cannot pay again (charge, purchase).
OneChargePerIntent ==
    \A e \in Executions : prov[e] # "none" => \E i \in Intents : intent[i].exec = e

\* The book never says more than the world: a charged row is a charge of the
\* provider, booked once, and no more went back by the book than in truth or than was paid.
BookedIsCharged ==
    /\ \A r \in charged : prov[r.exec] = "succeeded" /\ intent[r.intent].exec = r.exec
    /\ \A r, s \in charged : r.exec = s.exec => r = s

BookIsTrue ==
    /\ BookedIsCharged
    /\ \A i \in Intents : RefundsOf(refunds, i) <= RefundsOf(provRefs, i)
    /\ \A i \in Intents : RefundsOf(provRefs, i) <= Total[i]

\* An intent that says paid was paid, and one that says refunded went back in
\* full, through duplicated answers, lost answers and crashes between writes.
PaidIsPaid ==
    \A i \in Intents : intent[i].state \in {"succeeded", "part_refunded", "refunded"}
                         => ChargesOf(i) # {}

SettledIsTrue ==
    /\ PaidIsPaid
    /\ \A i \in Intents : intent[i].state = "refunded" => RefundsOf(provRefs, i) = Total[i]

\* Two handlers may wait for one charge, one on the wire and one that looks it up: neither closes
\* the intent as failed or cancelled once the provider knows the charge, made or waiting for the
\* bank.  A charge that reaches the provider after a lookup denied it finds its intent closed, and
\* is the one that is not seen (charge and reconcile of executor.py).
KnownChargeIsKept ==
    \A i \in Intents :
        LET e == intent[i].exec IN
        /\ e # NULL
        /\ intent'[i].state \in {"failed", "cancelled"} /\ intent'[i].state # intent[i].state
        => prov[e] \notin {"pending", "succeeded"}

\* Every stored state follows its predecessor on the map of payment/intent.py;
\* in particular nothing leaves a terminal state.
OnTheMap ==
    [][\A i \in Intents : intent'[i].state # intent[i].state
           => intent'[i].state \in TRANSITIONS[intent[i].state]]_vars

\* A booking never takes the day over the limit that stands (store.day_total_minor:
\* a daily limit bounds how much money may be moved on one day).
DailyLimitHolds ==
    [][charged' # charged /\ inst.daily # 0 => DayTotal(day)' <= inst.daily]_vars

\* The cheap way to change limits never lets a payment through that was
\* refused before (_set_limits, widens), 0 meaning no daily limit included.
LowerNeverWidens ==
    \A single, daily \in Limits : LimitLower(single, daily) =>
        \A amount \in 1..Ceiling, total \in 0..Ceiling :
            Evaluate(inst', amount, total) => Evaluate(inst, amount, total)
=============================================================================
