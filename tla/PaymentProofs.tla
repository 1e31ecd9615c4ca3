---------------------------- MODULE PaymentProofs ----------------------------
(***************************************************************************)
(* Money moves once per intent, for any number of intents, executions and  *)
(* concurrent calls, through crashes and charges that arrive late; the     *)
(* book and the intents say paid only of what was paid, and what the       *)
(* provider knows is not closed.                                           *)
(***************************************************************************)
EXTENDS Payment, TLAPS

\* Before its claim an intent has no execution.
Early == {"none", "draft", "quoted", "ready", "approved"}
Paid == {"succeeded", "part_refunded", "refunded"}
ProvStates == {"none", "flying", "pending", "succeeded", "declined"}

\* What a handler hd may rely on, given the tables.
Sound(hd, int, chg) ==
    /\ hd.pc = "quote" => /\ hd.intent \in Intents /\ int[hd.intent].exec = NULL
                          /\ int[hd.intent].state \in {"draft", "cancelled"}
    /\ hd.pc \in {"wire", "lookup"} => /\ hd.intent \in Intents /\ hd.exec \in Executions
                                       /\ int[hd.intent].exec = hd.exec
    /\ hd.pc = "refund" => hd.intent \in Intents /\ \E r \in chg : r.intent = hd.intent

Typed ==
    /\ intent \in [Intents -> [state : States, exec : Executions \cup {NULL}]]
    /\ prov \in [Executions -> ProvStates]
    /\ DOMAIN handler = Handlers
    /\ \A r \in charged : r.intent \in Intents /\ r.exec \in Executions

Backed(i) == intent[i].exec \in Executions /\ prov[intent[i].exec] = "succeeded"

IInv ==
    /\ Typed
    /\ \A i \in Intents : intent[i].state \in Early => intent[i].exec = NULL
    /\ \A i \in Intents : intent[i].state \in Paid => Backed(i)
    /\ OneChargePerIntent
    /\ BookedIsCharged
    /\ \A h \in Handlers : Sound(handler[h], intent, charged)
    /\ \A g, h \in Handlers : handler[g].pc = "quote" /\ handler[h].pc = "quote" /\ g # h
                                => handler[g].intent # handler[h].intent

-----------------------------------------------------------------------------
(* What a step may change.                                                 *)

\* The provider forgets no charge and makes none up; the book only grows by
\* charges the provider made, one row for each.
WorldGoesOn ==
    /\ prov' \in [Executions -> ProvStates]
    /\ \A e \in Executions : /\ prov'[e] # "none" => prov[e] # "none"
                             /\ prov[e] = "succeeded" => prov'[e] = "succeeded"

BookGoesOn ==
    \/ charged' = charged
    \/ \E i \in Intents, e \in Executions :
         /\ intent[i].exec = e /\ prov'[e] = "succeeded"
         /\ Book(i, e)

\* Handlers answer, or are gone; none begins.
HandlersEnd ==
    /\ DOMAIN handler' = Handlers
    /\ \A h \in Handlers : handler'[h] = handler[h] \/ handler'[h].pc = "idle"

\* A new state of intent i is true of its execution, and no other caller quotes it.
Becomes(i) ==
    LET s == intent'[i].state IN
    /\ s \in Early => intent[i].exec = NULL
    /\ s \in Paid => intent[i].exec \in Executions /\ prov'[intent[i].exec] = "succeeded"
    /\ \A h \in Handlers : handler'[h].pc = "quote" /\ handler'[h].intent = i
                             => s \in {"draft", "cancelled"}

SameExecutions ==
    /\ intent' \in [Intents -> [state : States, exec : Executions \cup {NULL}]]
    /\ \A i \in Intents : intent'[i].exec = intent[i].exec

LEMMA BookHolds ==
    ASSUME IInv, WorldGoesOn, BookGoesOn,
           SameExecutions
    PROVE  /\ BookedIsCharged' /\ charged \subseteq charged'
           /\ \A r \in charged' : r.intent \in Intents /\ r.exec \in Executions
<1>1. /\ \A r \in charged : /\ r.intent \in Intents /\ r.exec \in Executions
                            /\ prov'[r.exec] = "succeeded" /\ intent'[r.intent].exec = r.exec
      /\ \A r, s \in charged : r.exec = s.exec => r = s
  BY DEF IInv, Typed, BookedIsCharged, WorldGoesOn, SameExecutions
<1>2. CASE charged' = charged
  BY <1>1, <1>2 DEF BookedIsCharged
<1>3. ASSUME NEW i \in Intents, NEW e \in Executions, intent[i].exec = e,
             prov'[e] = "succeeded", Book(i, e)
      PROVE  /\ BookedIsCharged' /\ charged \subseteq charged'
             /\ \A r \in charged' : r.intent \in Intents /\ r.exec \in Executions
  <2>1. CASE Booked(e)
    BY <1>2, <1>3, <2>1 DEF Book
  <2>2. CASE ~Booked(e)
    <3> DEFINE row == [intent |-> i, exec |-> e, day |-> day]
    <3>1. charged' = charged \cup {row} /\ \A r \in charged : r.exec # e
      BY <1>3, <2>2 DEF Book, Booked
    <3>2. row.intent = i /\ row.exec = e
      OBVIOUS
    <3> HIDE DEF row
    <3> QED
      BY <1>1, <1>3, <3>1, <3>2 DEF BookedIsCharged, SameExecutions
  <2> QED
    BY <2>1, <2>2
<1> QED
  BY <1>2, <1>3 DEF BookGoesOn

\* What no step that only answers can break.
LEMMA AnswersKeep ==
    ASSUME IInv, WorldGoesOn, BookGoesOn, HandlersEnd, SameExecutions,
           \A i \in Intents : intent'[i].state = intent[i].state \/ Becomes(i)
    PROVE  IInv'
<1>1. /\ BookedIsCharged' /\ charged \subseteq charged'
      /\ \A r \in charged' : r.intent \in Intents /\ r.exec \in Executions
  BY BookHolds
<1>2. Typed'
  BY <1>1 DEF Typed, SameExecutions, WorldGoesOn, HandlersEnd
<1>3. \A i \in Intents : intent'[i].state \in Early => intent'[i].exec = NULL
  BY DEF IInv, SameExecutions, Becomes
<1>4. \A i \in Intents : intent'[i].state \in Paid => Backed(i)'
  <2> SUFFICES ASSUME NEW i \in Intents, intent'[i].state \in Paid
               PROVE  intent'[i].exec \in Executions /\ prov'[intent'[i].exec] = "succeeded"
    BY DEF Backed
  <2> QED
    BY DEF IInv, Backed, SameExecutions, WorldGoesOn, Becomes
<1>5. OneChargePerIntent'
  BY DEF IInv, OneChargePerIntent, SameExecutions, WorldGoesOn
<1>6. ASSUME NEW h \in Handlers PROVE Sound(handler'[h], intent', charged')
  <2>1. CASE handler'[h].pc = "idle"
    BY <2>1 DEF Sound
  <2>2. CASE handler'[h] = handler[h]
    BY <1>1, <2>2 DEF IInv, Sound, SameExecutions, Becomes
  <2> QED
    BY <2>1, <2>2 DEF HandlersEnd
<1>7. ASSUME NEW g \in Handlers, NEW h \in Handlers,
             handler'[g].pc = "quote", handler'[h].pc = "quote", g # h
      PROVE  handler'[g].intent # handler'[h].intent
  BY <1>7 DEF IInv, HandlersEnd
<1> QED
  BY <1>1, <1>2, <1>3, <1>4, <1>5, <1>6, <1>7 DEF IInv

-----------------------------------------------------------------------------
(* What the actions' helpers do.                                           *)

LEMMA PutIs ==
    ASSUME IInv, NEW i \in Intents, NEW s \in States, PutState(i, s)
    PROVE  /\ SameExecutions
           /\ intent'[i].state = s
           /\ \A j \in Intents \ {i} : intent'[j].state = intent[j].state
  BY DEF IInv, Typed, PutState, SameExecutions

LEMMA SameIs ==
    ASSUME IInv, UNCHANGED intent
    PROVE  SameExecutions
  BY DEF IInv, Typed, SameExecutions

LEMMA ReplyEnds ==
    ASSUME IInv, NEW h \in Handlers, Reply(h)
    PROVE  HandlersEnd /\ handler'[h].pc = "idle" /\ \A g \in Handlers \ {h} : handler'[g] = handler[g]
  BY DEF IInv, Typed, Reply, HandlersEnd, Idle

LEMMA NoneEnds ==
    ASSUME IInv
    PROVE  /\ UNCHANGED handler => HandlersEnd
           /\ handler' = [h \in Handlers |-> Idle]
                => HandlersEnd /\ \A h \in Handlers : handler'[h].pc = "idle"
  BY DEF IInv, Typed, HandlersEnd, Idle

LEMMA WorldStays ==
    ASSUME IInv, UNCHANGED prov
    PROVE  WorldGoesOn
  BY DEF IInv, Typed, WorldGoesOn

\* The intent somebody quotes has no execution, and the one somebody charges has.
LEMMA QuotedIs ==
    ASSUME IInv, NEW h \in Handlers, handler[h].pc = "quote"
    PROVE  LET i == handler[h].intent IN
           i \in Intents /\ intent[i].exec = NULL /\ intent[i].state \in {"draft", "cancelled"}
  BY DEF IInv, Sound

LEMMA ChargedIs ==
    ASSUME IInv, NEW h \in Handlers, handler[h].pc \in {"wire", "lookup"}
    PROVE  LET i == handler[h].intent  e == handler[h].exec IN
           i \in Intents /\ e \in Executions /\ intent[i].exec = e
  BY DEF IInv, Sound

LEMMA RefundedIs ==
    ASSUME IInv, NEW h \in Handlers, handler[h].pc = "refund"
    PROVE  LET i == handler[h].intent IN i \in Intents /\ Backed(i)
  BY DEF IInv, Sound, BookedIsCharged, Backed, Typed


\* Somebody quotes only drafts, without an execution.
LEMMA NotQuoted ==
    ASSUME IInv, HandlersEnd, NEW i \in Intents,
           intent[i].exec # NULL \/ intent[i].state \notin {"draft", "cancelled"}
    PROVE  \A h \in Handlers : ~(handler'[h].pc = "quote" /\ handler'[h].intent = i)
  BY QuotedIs DEF HandlersEnd

-----------------------------------------------------------------------------
(* Answers, cancellations and refusals.                                    *)

LEMMA InitHolds == Init => IInv
  BY DEF Init, IInv, Typed, States, ProvStates, Early, Paid, OneChargePerIntent,
         BookedIsCharged, Sound, Idle

LEMMA QuoteAnswerKeeps ==
    ASSUME IInv, NEW h \in Handlers, QuoteAnswer(h)
    PROVE  IInv'
<1> DEFINE i == handler[h].intent
           s == IF Total[i] > Ceiling THEN "cancelled" ELSE "ready"
<1>1. /\ handler[h].pc = "quote" /\ PutState(i, s) /\ Reply(h)
      /\ UNCHANGED charged /\ UNCHANGED prov
  BY DEF QuoteAnswer, book, world
<1>2. i \in Intents /\ intent[i].exec = NULL
  BY <1>1, QuotedIs
<1>3. s \in States /\ s \notin Paid
  BY DEF States, Paid
<1> HIDE DEF s, i
<1>4. /\ HandlersEnd
      /\ handler'[h].pc = "idle" /\ \A g \in Handlers \ {h} : handler'[g] = handler[g]
  BY <1>1, ReplyEnds
<1>5. /\ SameExecutions /\ intent'[i].state = s
      /\ \A j \in Intents \ {i} : intent'[j].state = intent[j].state
  BY <1>1, <1>2, <1>3, PutIs
<1>6. \A g \in Handlers : ~(handler'[g].pc = "quote" /\ handler'[g].intent = i)
  BY <1>1, <1>4 DEF IInv, i
<1>7. Becomes(i)
  BY <1>2, <1>3, <1>5, <1>6 DEF Becomes
<1> QED
  BY <1>1, <1>4, <1>5, <1>7, WorldStays, AnswersKeep DEF BookGoesOn

\* Before the claim an intent may be cancelled, denied or left approved.
LEMMA EarlyEndKeeps ==
    ASSUME IInv, NEW i \in Intents, NEW s \in {"cancelled", "failed", "approved"},
           intent[i].state \in Early,
           s = "cancelled" \/ intent[i].state \notin {"draft", "cancelled"},
           PutState(i, s), UNCHANGED handler, UNCHANGED charged, UNCHANGED prov
    PROVE  IInv'
<1>1. s \in States /\ s \notin Paid
  BY DEF States, Paid
<1>2. HandlersEnd
  BY NoneEnds
<1>3. /\ SameExecutions /\ intent'[i].state = s
      /\ \A j \in Intents \ {i} : intent'[j].state = intent[j].state
  BY <1>1, PutIs
<1>4. intent[i].exec = NULL
  BY DEF IInv
<1>5. s = "cancelled" \/ \A g \in Handlers : ~(handler'[g].pc = "quote" /\ handler'[g].intent = i)
  BY <1>2, NotQuoted
<1>6. Becomes(i)
  BY <1>1, <1>3, <1>4, <1>5 DEF Becomes
<1> QED
  BY <1>2, <1>3, <1>6, WorldStays, AnswersKeep DEF BookGoesOn

LEMMA CancelIntentKeeps ==
    ASSUME IInv, NEW i \in Intents, CancelIntent(i)
    PROVE  IInv'
  BY EarlyEndKeeps DEF CancelIntent, Early, book, world

LEMMA PurchaseDeniedKeeps ==
    ASSUME IInv, NEW i \in Intents, NEW e \in Executions, PurchaseDenied(i, e)
    PROVE  IInv'
<1>1. /\ intent[i].state \in {"ready", "approved"}
      /\ PutState(i, "failed") /\ UNCHANGED handler /\ UNCHANGED charged /\ UNCHANGED prov
  BY DEF PurchaseDenied, MayCharge, Payable, book, world
<1> QED
  BY <1>1, EarlyEndKeeps DEF Early

LEMMA PurchaseStopsKeeps ==
    ASSUME IInv, NEW i \in Intents, PurchaseStops(i)
    PROVE  IInv'
  BY EarlyEndKeeps DEF PurchaseStops, Payable, Early, book, world

\* Somebody who charged, or looked a charge up, writes what it knows and ends.
LEMMA OutcomeKeeps ==
    ASSUME IInv, ConstantsOK, NEW h \in Handlers, handler[h].pc \in {"wire", "lookup"}, Reply(h),
           NEW s \in States, PutState(handler[h].intent, s),
           \/ s = intent[handler[h].intent].state
           \/ s \notin Early \cup Paid
           \/ s = "succeeded" /\ prov'[handler[h].exec] = "succeeded",
           WorldGoesOn, BookGoesOn
    PROVE  IInv'
<1> DEFINE i == handler[h].intent
           e == handler[h].exec
<1>1. i \in Intents /\ e \in Executions /\ intent[i].exec = e
  BY ChargedIs
<1>2. HandlersEnd
  BY ReplyEnds
<1> HIDE DEF i
<1>3. /\ SameExecutions /\ intent'[i].state = s
      /\ \A j \in Intents \ {i} : intent'[j].state = intent[j].state
  BY <1>1, PutIs DEF i
<1>4. intent[i].exec # NULL
  BY <1>1 DEF ConstantsOK
<1>5. \A g \in Handlers : ~(handler'[g].pc = "quote" /\ handler'[g].intent = i)
  BY <1>1, <1>2, <1>4, NotQuoted
<1>6. intent'[i].state = intent[i].state \/ Becomes(i)
  BY <1>1, <1>3, <1>5 DEF Becomes, Early, Paid, i
<1> QED
  BY <1>2, <1>3, <1>6, AnswersKeep


LEMMA NeverSentKeeps ==
    ASSUME IInv, ConstantsOK, NEW h \in Handlers, NeverSent(h)
    PROVE  IInv'
<1>1. /\ handler[h].pc = "wire" /\ Reply(h) /\ PutState(handler[h].intent, "failed")
      /\ prov[handler[h].exec] = "flying"
      /\ prov' = [prov EXCEPT ![handler[h].exec] = "none"] /\ UNCHANGED charged
  BY DEF NeverSent, book
<1>2. WorldGoesOn
  BY <1>1, ChargedIs DEF IInv, Typed, WorldGoesOn, ProvStates
<1>3. BookGoesOn
  BY <1>1 DEF BookGoesOn
<1>4. "failed" \in States /\ "failed" \notin Early \cup Paid
  BY DEF States, Early, Paid
<1> QED
  BY <1>1, <1>2, <1>3, <1>4, OutcomeKeeps

LEMMA AmbiguousKeeps ==
    ASSUME IInv, ConstantsOK, NEW h \in Handlers, Ambiguous(h)
    PROVE  IInv'
<1>1. /\ handler[h].pc = "wire" /\ Reply(h) /\ PutState(handler[h].intent, "reconcile")
      /\ UNCHANGED prov /\ UNCHANGED charged
  BY DEF Ambiguous, book, world
<1>2. "reconcile" \in States /\ "reconcile" \notin Early \cup Paid
  BY DEF States, Early, Paid
<1> QED
  BY <1>1, <1>2, WorldStays, OutcomeKeeps DEF BookGoesOn

LEMMA ChargeAnswerKeeps ==
    ASSUME IInv, ConstantsOK, NEW h \in Handlers, ChargeAnswer(h)
    PROVE  IInv'
<1> DEFINE i == handler[h].intent
           e == handler[h].exec
<1>1. /\ handler[h].pc = "wire" /\ Reply(h) /\ UNCHANGED prov
      /\ \/ prov[e] = "succeeded" /\ Book(i, e) /\ PutState(i, Settled(i, e))
         \/ UNCHANGED charged /\ \E s \in {"awaiting_sca", "failed"} : PutState(i, s)
  BY DEF ChargeAnswer, world
<1>2. i \in Intents /\ e \in Executions /\ intent[i].exec = e
  BY <1>1, ChargedIs
<1>3. WorldGoesOn
  BY <1>1, WorldStays
<1>4. CASE prov[e] = "succeeded" /\ Book(i, e) /\ PutState(i, Settled(i, e))
  <2>1. BookGoesOn
    BY <1>1, <1>2, <1>4 DEF BookGoesOn
  <2>2. Settled(i, e) \in States /\ Settled(i, e) \in {intent[i].state, "succeeded"}
    BY <1>2 DEF Settled, IInv, Typed, States
  <2>3. prov'[e] = "succeeded"
    BY <1>1, <1>4
  <2> QED
    BY <1>1, <1>3, <1>4, <2>1, <2>2, <2>3, OutcomeKeeps
<1>5. CASE UNCHANGED charged /\ \E s \in {"awaiting_sca", "failed"} : PutState(i, s)
  <2>1. PICK s \in {"awaiting_sca", "failed"} : PutState(i, s)
    BY <1>5
  <2>2. s \in States /\ s \notin Early \cup Paid
    BY DEF States, Early, Paid
  <2> QED
    BY <1>1, <1>3, <1>5, <2>1, <2>2, OutcomeKeeps DEF BookGoesOn
<1> QED
  BY <1>1, <1>4, <1>5

LEMMA ReconcileAnswerKeeps ==
    ASSUME IInv, ConstantsOK, NEW h \in Handlers, ReconcileAnswer(h)
    PROVE  IInv'
<1> DEFINE i == handler[h].intent
           e == handler[h].exec
<1>1. /\ handler[h].pc = "lookup" /\ Reply(h) /\ UNCHANGED prov /\ PutState(i, Found(i, e))
      /\ IF prov[e] = "succeeded" THEN Book(i, e) ELSE UNCHANGED charged
  BY DEF ReconcileAnswer, world
<1>2. i \in Intents /\ e \in Executions /\ intent[i].exec = e
  BY <1>1, ChargedIs
<1>3. WorldGoesOn /\ BookGoesOn
  BY <1>1, <1>2, WorldStays DEF BookGoesOn
<1>4. /\ Found(i, e) \in States
      /\ \/ Found(i, e) = intent[i].state
         \/ Found(i, e) \notin Early \cup Paid
         \/ Found(i, e) = "succeeded" /\ prov'[e] = "succeeded"
  <2>1. intent[i].state \in States
    BY <1>2 DEF IInv, Typed
  <2> QED
    BY <1>1, <2>1 DEF Found, States, Early, Paid
<1> QED
  BY <1>1, <1>3, <1>4, OutcomeKeeps

\* A refund, answered or cut short, leaves the charge and its book alone.
LEMMA RefundedKeeps ==
    ASSUME IInv, ConstantsOK, NEW h \in Handlers, handler[h].pc = "refund", HandlersEnd,
           NEW s \in {"refunded", "part_refunded"}, PutState(handler[h].intent, s),
           UNCHANGED charged, UNCHANGED prov
    PROVE  IInv'
<1> DEFINE i == handler[h].intent
<1>1. i \in Intents /\ intent[i].exec \in Executions /\ prov'[intent[i].exec] = "succeeded"
  BY RefundedIs DEF Backed
<1> HIDE DEF i
<1>2. s \in States /\ s \notin Early
  BY DEF States, Early
<1>3. /\ SameExecutions /\ intent'[i].state = s
      /\ \A j \in Intents \ {i} : intent'[j].state = intent[j].state
  BY <1>1, <1>2, PutIs DEF i
<1>4. \A g \in Handlers : ~(handler'[g].pc = "quote" /\ handler'[g].intent = i)
  BY <1>1, NotQuoted DEF ConstantsOK
<1>5. Becomes(i)
  BY <1>1, <1>2, <1>3, <1>4 DEF Becomes
<1> QED
  BY <1>3, <1>5, WorldStays, AnswersKeep DEF BookGoesOn

LEMMA RefundAnswerKeeps ==
    ASSUME IInv, ConstantsOK, NEW h \in Handlers, RefundAnswer(h)
    PROVE  IInv'
<1>1. /\ handler[h].pc = "refund" /\ Reply(h) /\ UNCHANGED charged /\ UNCHANGED prov
      /\ UNCHANGED intent \/ \E a : PutState(handler[h].intent, RefundedState(handler[h], a))
  BY DEF RefundAnswer
<1>2. HandlersEnd
  BY <1>1, ReplyEnds
<1>3. CASE UNCHANGED intent
  BY <1>1, <1>2, <1>3, SameIs, WorldStays, AnswersKeep DEF BookGoesOn
<1>4. ASSUME NEW a, PutState(handler[h].intent, RefundedState(handler[h], a))
      PROVE  IInv'
  <2>1. RefundedState(handler[h], a) \in {"refunded", "part_refunded"}
    BY DEF RefundedState
  <2> QED
    BY <1>1, <1>2, <1>4, <2>1, RefundedKeeps
<1> QED
  BY <1>1, <1>3, <1>4


\* A step that leaves every intent and every charge of the book as they are, and
\* begins nothing.
LEMMA QuietKeeps ==
    ASSUME IInv, UNCHANGED intent, UNCHANGED charged, HandlersEnd, WorldGoesOn
    PROVE  IInv'
  BY SameIs, AnswersKeep DEF BookGoesOn

LEMMA UnansweredKeeps ==
    ASSUME IInv, NEW h \in Handlers, QuoteRefused(h) \/ LookupFails(h) \/ RefundUnanswered(h)
    PROVE  IInv'
<1>1. UNCHANGED intent /\ UNCHANGED charged /\ UNCHANGED prov /\ Reply(h)
  BY DEF QuoteRefused, LookupFails, RefundUnanswered, book, world
<1> QED
  BY <1>1, ReplyEnds, WorldStays, QuietKeeps

LEMMA CrashMidWriteKeeps ==
    ASSUME IInv, ConstantsOK, NEW h \in Handlers, CrashMidWrite(h)
    PROVE  IInv'
<1> DEFINE i == handler[h].intent
           e == handler[h].exec
<1>1. handler' = [g \in Handlers |-> Idle]
  BY DEF CrashMidWrite
<1>2. HandlersEnd /\ \A g \in Handlers : handler'[g].pc = "idle"
  BY <1>1, NoneEnds
<1>3. UNCHANGED prov
  BY DEF CrashMidWrite, world
<1>4. CASE handler[h].pc = "quote" /\ PutState(i, "quoted") /\ UNCHANGED charged
  <2>1. i \in Intents /\ intent[i].exec = NULL
    BY <1>4, QuotedIs
  <2> HIDE DEF i
  <2>2. "quoted" \in States /\ "quoted" \notin Paid
    BY DEF States, Paid
  <2>3. /\ SameExecutions /\ intent'[i].state = "quoted"
        /\ \A j \in Intents \ {i} : intent'[j].state = intent[j].state
    BY <1>4, <2>1, <2>2, PutIs
  <2>4. Becomes(i)
    BY <1>2, <2>1, <2>2, <2>3 DEF Becomes
  <2> QED
    BY <1>2, <1>3, <1>4, <2>3, <2>4, WorldStays, AnswersKeep DEF BookGoesOn
<1>5. CASE /\ handler[h].pc \in {"wire", "lookup"} /\ prov[e] = "succeeded"
           /\ Book(i, e) /\ UNCHANGED intent
  <2>1. i \in Intents /\ e \in Executions /\ intent[i].exec = e
    BY <1>5, ChargedIs
  <2>2. BookGoesOn
    BY <1>3, <1>5, <2>1 DEF BookGoesOn
  <2> QED
    BY <1>2, <1>3, <1>5, <2>2, SameIs, WorldStays, AnswersKeep
<1>6. ASSUME NEW a, handler[h].pc = "refund", UNCHANGED charged,
             PutState(handler[h].intent, RefundedState(handler[h], a))
      PROVE  IInv'
  <2>1. RefundedState(handler[h], a) \in {"refunded", "part_refunded"}
    BY DEF RefundedState
  <2> QED
    BY <1>2, <1>3, <1>6, <2>1, RefundedKeeps
<1> QED
  BY <1>4, <1>5, <1>6 DEF CrashMidWrite, book

-----------------------------------------------------------------------------
(* Calls that begin, and the claim.                                        *)

\* A call that begins, without a write of its own.
LEMMA BeginKeeps ==
    ASSUME IInv, NEW h \in Handlers, UNCHANGED intent, UNCHANGED charged, UNCHANGED prov,
           DOMAIN handler' = Handlers, \A g \in Handlers \ {h} : handler'[g] = handler[g],
           handler'[h].pc # "quote", Sound(handler'[h], intent, charged)
    PROVE  IInv'
<1>1. \A g \in Handlers : Sound(handler'[g], intent', charged')
  BY DEF IInv
<1>2. \A f, g \in Handlers : handler'[f].pc = "quote" /\ handler'[g].pc = "quote" /\ f # g
                               => handler'[f].intent # handler'[g].intent
  BY DEF IInv
<1>3. Typed'
  BY DEF IInv, Typed
<1> QED
  BY <1>1, <1>2, <1>3 DEF IInv, Backed, OneChargePerIntent, BookedIsCharged

LEMMA ReconcileStartKeeps ==
    ASSUME IInv, NEW h \in Handlers, NEW i \in Intents, ReconcileStart(h, i)
    PROVE  IInv'
<1>1. /\ handler' = [handler EXCEPT ![h] =
             [Idle EXCEPT !.pc = "lookup", !.intent = i, !.exec = intent[i].exec]]
      /\ intent[i].exec # NULL
      /\ UNCHANGED intent /\ UNCHANGED charged /\ UNCHANGED prov
  BY DEF ReconcileStart, book, world
<1>2. /\ DOMAIN handler' = Handlers /\ \A g \in Handlers \ {h} : handler'[g] = handler[g]
      /\ handler'[h].pc = "lookup" /\ handler'[h].intent = i /\ handler'[h].exec = intent[i].exec
  BY <1>1 DEF IInv, Typed, Idle
<1>3. intent[i].exec \in Executions
  BY <1>1 DEF IInv, Typed
<1>4. Sound(handler'[h], intent, charged)
  BY <1>2, <1>3 DEF Sound
<1> QED
  BY <1>1, <1>2, <1>4, BeginKeeps

LEMMA RefundStartKeeps ==
    ASSUME IInv, NEW h \in Handlers, NEW i \in Intents, NEW wanted, NEW own,
           RefundStart(h, i, wanted, own)
    PROVE  IInv'
<1>1. /\ handler' = [handler EXCEPT ![h] =
             [pc |-> "refund", intent |-> i, exec |-> NULL, own |-> own,
              already |-> Total[i] - Open(i), wanted |-> wanted]]
      /\ \E r \in charged : r.intent = i
      /\ UNCHANGED intent /\ UNCHANGED charged /\ UNCHANGED prov
  BY DEF RefundStart, book, world
<1>2. /\ DOMAIN handler' = Handlers /\ \A g \in Handlers \ {h} : handler'[g] = handler[g]
      /\ handler'[h].pc = "refund" /\ handler'[h].intent = i
  BY <1>1 DEF IInv, Typed
<1>3. Sound(handler'[h], intent, charged)
  BY <1>1, <1>2 DEF Sound
<1> QED
  BY <1>1, <1>2, <1>3, BeginKeeps

LEMMA PrepareKeeps ==
    ASSUME IInv, NEW h \in Handlers, NEW i \in Intents, Prepare(h, i)
    PROVE  IInv'
<1>1. /\ intent[i].state = "none" /\ PutState(i, "draft")
      /\ handler' = [handler EXCEPT ![h] = [Idle EXCEPT !.pc = "quote", !.intent = i]]
      /\ UNCHANGED charged /\ UNCHANGED prov
  BY DEF Prepare, book, world
<1>2. /\ DOMAIN handler' = Handlers /\ \A g \in Handlers \ {h} : handler'[g] = handler[g]
      /\ handler'[h].pc = "quote" /\ handler'[h].intent = i
  BY <1>1 DEF IInv, Typed, Idle
<1>3. intent[i].exec = NULL
  BY <1>1 DEF IInv, Early
<1>4. /\ SameExecutions /\ intent'[i].state = "draft"
      /\ \A j \in Intents \ {i} : intent'[j].state = intent[j].state
  BY <1>1, PutIs DEF States
<1>5. \A g \in Handlers : handler[g].pc = "quote" => handler[g].intent # i
  BY <1>1, QuotedIs
<1>6. Typed'
  BY <1>1, <1>2, <1>4 DEF IInv, Typed, SameExecutions
<1>7. \A j \in Intents : /\ intent'[j].state \in Early => intent'[j].exec = NULL
                         /\ intent'[j].state \in Paid => Backed(j)'
  BY <1>1, <1>3, <1>4 DEF IInv, SameExecutions, Backed, Paid
<1>8. OneChargePerIntent' /\ BookedIsCharged'
  BY <1>1, <1>4 DEF IInv, Typed, SameExecutions, OneChargePerIntent, BookedIsCharged
<1>9. \A g \in Handlers : Sound(handler'[g], intent', charged')
  BY <1>1, <1>2, <1>3, <1>4, <1>5 DEF IInv, SameExecutions, Sound
<1>10. \A f, g \in Handlers : handler'[f].pc = "quote" /\ handler'[g].pc = "quote" /\ f # g
                                => handler'[f].intent # handler'[g].intent
  BY <1>2, <1>5 DEF IInv
<1> QED
  BY <1>6, <1>7, <1>8, <1>9, <1>10 DEF IInv

\* The claim: the one step that sends a charge, under an execution nobody has used.
LEMMA PurchaseClaimsKeeps ==
    ASSUME IInv, ConstantsOK, NEW h \in Handlers, NEW i \in Intents, NEW e \in Executions,
           PurchaseClaims(h, i, e)
    PROVE  IInv'
<1>1. /\ intent[i].state \in {"ready", "approved"} /\ prov[e] = "none"
      /\ intent' = [intent EXCEPT ![i] = [state |-> "executing", exec |-> e]]
      /\ prov' = [prov EXCEPT ![e] = "flying"]
      /\ handler' = [handler EXCEPT ![h] =
             [Idle EXCEPT !.pc = "wire", !.intent = i, !.exec = e]]
      /\ UNCHANGED charged
  BY DEF PurchaseClaims, MayCharge, Payable, Fresh, book
<1>2. /\ DOMAIN handler' = Handlers /\ \A g \in Handlers \ {h} : handler'[g] = handler[g]
      /\ handler'[h].pc = "wire" /\ handler'[h].intent = i /\ handler'[h].exec = e
  BY <1>1 DEF IInv, Typed, Idle
<1>3. /\ intent' \in [Intents -> [state : States, exec : Executions \cup {NULL}]]
      /\ intent'[i].state = "executing" /\ intent'[i].exec = e
      /\ \A j \in Intents \ {i} : intent'[j] = intent[j]
  BY <1>1 DEF IInv, Typed, States
<1>4. /\ prov' \in [Executions -> ProvStates] /\ prov'[e] = "flying"
      /\ \A f \in Executions \ {e} : prov'[f] = prov[f]
  BY <1>1 DEF IInv, Typed, ProvStates
<1>5. intent[i].exec = NULL /\ NULL \notin Executions
  BY <1>1 DEF IInv, Early, ConstantsOK
<1>6. Typed'
  BY <1>1, <1>2, <1>3, <1>4 DEF IInv, Typed
<1>7. \A j \in Intents : /\ intent'[j].state \in Early => intent'[j].exec = NULL
                         /\ intent'[j].state \in Paid => Backed(j)'
  BY <1>1, <1>3, <1>4 DEF IInv, Backed, Paid, Early
<1>8. OneChargePerIntent'
  BY <1>3, <1>4, <1>5 DEF IInv, OneChargePerIntent
<1>9. BookedIsCharged'
  BY <1>1, <1>3, <1>4, <1>5 DEF IInv, Typed, BookedIsCharged
<1>10. ASSUME NEW g \in Handlers PROVE Sound(handler'[g], intent', charged')
  <2>1. CASE g = h
    BY <1>2, <1>3, <2>1 DEF Sound
  <2>2. CASE g # h
    BY <1>1, <1>2, <1>3, <1>5, <2>2 DEF IInv, Sound
  <2> QED
    BY <2>1, <2>2
<1>11. \A f, g \in Handlers : handler'[f].pc = "quote" /\ handler'[g].pc = "quote" /\ f # g
                                => handler'[f].intent # handler'[g].intent
  BY <1>2 DEF IInv
<1> QED
  BY <1>6, <1>7, <1>8, <1>9, <1>10, <1>11 DEF IInv


-----------------------------------------------------------------------------
(* The instrument, the provider, the clock and the process.                *)

LEMMA AdminKeeps ==
    ASSUME IInv, Admin
    PROVE  IInv'
<1>1. UNCHANGED intent /\ UNCHANGED charged /\ UNCHANGED handler /\ UNCHANGED prov
  BY DEF Admin, MethodRemove, SetStatus, MethodAdd, LimitLower, LimitRaise, book, world
<1> QED
  BY <1>1, NoneEnds, WorldStays, QuietKeeps

LEMMA OutsideKeeps ==
    ASSUME IInv, Outside
    PROVE  IInv'
<1>1. UNCHANGED intent /\ UNCHANGED charged
  BY DEF Outside, ProviderCharges, WireLost, BankAnswers, IntentExpires, Midnight, Crash, book
<1>2. HandlersEnd
  <2>1. UNCHANGED handler \/ handler' = [h \in Handlers |-> Idle]
    BY DEF Outside, ProviderCharges, WireLost, BankAnswers, IntentExpires, Midnight, Crash
  <2> QED
    BY <2>1, NoneEnds
<1>3. WorldGoesOn
  <2>1. ASSUME NEW e \in Executions, ProviderCharges(e) \/ WireLost(e) \/ BankAnswers(e)
        PROVE  WorldGoesOn
    BY <2>1 DEF IInv, Typed, ProvStates, WorldGoesOn, ProviderCharges, WireLost, BankAnswers
  <2>2. ASSUME Midnight \/ Crash \/ \E i \in Intents : IntentExpires(i)
        PROVE  WorldGoesOn
    BY <2>2, WorldStays DEF IntentExpires, Midnight, Crash, world
  <2> QED
    BY <2>1, <2>2 DEF Outside
<1> QED
  BY <1>1, <1>2, <1>3, QuietKeeps

-----------------------------------------------------------------------------

LEMMA StepKeeps ==
    ASSUME IInv, ConstantsOK, [Next]_vars
    PROVE  IInv'
<1>1. ASSUME NEW h \in Handlers, NEW i \in Intents, Prepare(h, i) \/ ReconcileStart(h, i)
      PROVE  IInv'
  BY <1>1, PrepareKeeps, ReconcileStartKeeps
<1>2. ASSUME NEW i \in Intents, CancelIntent(i)
      PROVE  IInv'
  BY <1>2, CancelIntentKeeps
<1>3. CASE Purchase
  BY <1>3, PurchaseDeniedKeeps, PurchaseStopsKeeps, PurchaseClaimsKeeps DEF Purchase
<1>4. CASE Refund
  BY <1>4, RefundStartKeeps DEF Refund
<1>5. ASSUME NEW h \in Handlers, Answer(h)
      PROVE  IInv'
  <2>1. CASE QuoteAnswer(h)
    BY <2>1, QuoteAnswerKeeps
  <2>2. CASE QuoteRefused(h) \/ LookupFails(h) \/ RefundUnanswered(h)
    BY <2>2, UnansweredKeeps
  <2>3. CASE NeverSent(h)
    BY <2>3, NeverSentKeeps
  <2>4. CASE Ambiguous(h)
    BY <2>4, AmbiguousKeeps
  <2>5. CASE ChargeAnswer(h)
    BY <2>5, ChargeAnswerKeeps
  <2>6. CASE ReconcileAnswer(h)
    BY <2>6, ReconcileAnswerKeeps
  <2>7. CASE RefundAnswer(h)
    BY <2>7, RefundAnswerKeeps
  <2>8. CASE CrashMidWrite(h)
    BY <2>8, CrashMidWriteKeeps
  <2> QED
    BY <1>5, <2>1, <2>2, <2>3, <2>4, <2>5, <2>6, <2>7, <2>8 DEF Answer
<1>6. CASE Admin
  BY <1>6, AdminKeeps
<1>7. CASE Outside
  BY <1>7, OutsideKeeps
<1>8. CASE UNCHANGED vars
  BY <1>8, NoneEnds, WorldStays, QuietKeeps DEF vars, book, world
<1> QED
  BY <1>1, <1>2, <1>3, <1>4, <1>5, <1>6, <1>7, <1>8 DEF Next

LEMMA Inductive == ASSUME ConstantsOK PROVE Spec => []IInv
<1>1. IInv /\ [Next]_vars => IInv'
  BY StepKeeps
<1> QED
  BY InitHolds, <1>1, PTL DEF Spec

\* No intent moves money twice, whatever its callers, crashes and late charges do
\* (charge, purchase).
THEOREM MoneyMovesOnce == ASSUME ConstantsOK PROVE Spec => []OneChargePerIntent
<1>1. IInv => OneChargePerIntent
  BY DEF IInv
<1> QED
  BY Inductive, <1>1, PTL

\* The book holds only charges the provider made, under the execution of their intent
\* and once each (_settle, store.record).
THEOREM BookHoldsCharges == ASSUME ConstantsOK PROVE Spec => []BookedIsCharged
<1>1. IInv => BookedIsCharged
  BY DEF IInv
<1> QED
  BY Inductive, <1>1, PTL

\* An intent that says paid, or refunded, was paid (_settle, reconcile, refund).
THEOREM PaidWasCharged == ASSUME ConstantsOK PROVE Spec => []PaidIsPaid
<1>1. ASSUME IInv, NEW i \in Intents, intent[i].state \in {"succeeded", "part_refunded", "refunded"}
      PROVE  ChargesOf(i) # {}
  BY <1>1 DEF IInv, Paid, Backed, ChargesOf
<1>2. IInv => PaidIsPaid
  BY <1>1 DEF PaidIsPaid
<1> QED
  BY Inductive, <1>2, PTL

-----------------------------------------------------------------------------
(* What the provider knows is not closed.                                  *)

Lost == {"failed", "cancelled"}

\* A state is lost only where nothing was sent yet or the provider knows of no charge.
MayBeLost(i) == intent[i].exec = NULL \/ prov[intent[i].exec] \notin {"pending", "succeeded"}

Loses(i) == intent'[i].state \in Lost /\ intent'[i].state # intent[i].state => MayBeLost(i)

\* A step that moves one intent to s.
LEMMA PutLoses ==
    ASSUME IInv, NEW i \in Intents, NEW s \in States, PutState(i, s),
           s = intent[i].state \/ s \notin Lost \/ MayBeLost(i)
    PROVE  \A j \in Intents : Loses(j)
<1>1. intent'[i].state = s /\ \A j \in Intents \ {i} : intent'[j].state = intent[j].state
  BY PutIs
<1> QED
  BY <1>1 DEF Loses

LEMMA SameLoses ==
    ASSUME UNCHANGED intent
    PROVE  \A j \in Intents : Loses(j)
  BY DEF Loses

LEMMA AnswerLoses ==
    ASSUME IInv, ConstantsOK, NEW h \in Handlers, Answer(h)
    PROVE  \A j \in Intents : Loses(j)
<1> DEFINE i == handler[h].intent
           e == handler[h].exec
<1>1. CASE QuoteAnswer(h)
  <2>1. handler[h].pc = "quote" /\ \E s \in {"cancelled", "ready"} : PutState(i, s)
    BY <1>1 DEF QuoteAnswer
  <2>2. i \in Intents /\ intent[i].exec = NULL
    BY <2>1, QuotedIs
  <2> HIDE DEF i
  <2> QED
    BY <2>1, <2>2, PutLoses DEF States, MayBeLost
<1>2. CASE QuoteRefused(h) \/ LookupFails(h) \/ RefundUnanswered(h)
  BY <1>2, SameLoses DEF QuoteRefused, LookupFails, RefundUnanswered
<1>3. CASE NeverSent(h)
  <2>1. handler[h].pc = "wire" /\ prov[e] = "flying" /\ PutState(i, "failed")
    BY <1>3 DEF NeverSent
  <2>2. i \in Intents /\ e \in Executions /\ intent[i].exec = e
    BY <2>1, ChargedIs
  <2> HIDE DEF i
  <2> QED
    BY <2>1, <2>2, PutLoses DEF States, MayBeLost
<1>4. CASE Ambiguous(h)
  <2>1. handler[h].pc = "wire" /\ PutState(i, "reconcile")
    BY <1>4 DEF Ambiguous
  <2>2. i \in Intents
    BY <2>1, ChargedIs
  <2> HIDE DEF i
  <2> QED
    BY <2>1, <2>2, PutLoses DEF States, Lost
<1>5. CASE ChargeAnswer(h)
  <2>1. handler[h].pc = "wire"
    BY <1>5 DEF ChargeAnswer
  <2>2. i \in Intents /\ e \in Executions /\ intent[i].exec = e
    BY <2>1, ChargedIs
  <2>3. PICK s \in States : /\ PutState(i, s)
                            /\ s = intent[i].state \/ s \notin Lost \/ prov[e] = "declined"
    BY <1>5, <2>1, <2>2 DEF ChargeAnswer, Settled, States, Lost, IInv, Typed
  <2>4. s = intent[i].state \/ s \notin Lost \/ MayBeLost(i)
    BY <2>2, <2>3 DEF MayBeLost
  <2> HIDE DEF i
  <2> QED
    BY <2>2, <2>3, <2>4, PutLoses
<1>6. CASE ReconcileAnswer(h)
  <2> DEFINE s == Found(i, e)
  <2>1. handler[h].pc = "lookup" /\ PutState(i, s)
    BY <1>6 DEF ReconcileAnswer
  <2>2. i \in Intents /\ e \in Executions /\ intent[i].exec = e
    BY <2>1, ChargedIs
  <2>3. s \in States /\ (s = intent[i].state \/ s \notin Lost \/ MayBeLost(i))
    BY <2>2 DEF Found, States, Lost, MayBeLost, IInv, Typed
  <2> HIDE DEF i, s
  <2> QED
    BY <2>1, <2>2, <2>3, PutLoses
<1>7. CASE RefundAnswer(h)
  <2>1. /\ handler[h].pc = "refund"
        /\ UNCHANGED intent \/ \E s \in {"refunded", "part_refunded"} : PutState(i, s)
    BY <1>7 DEF RefundAnswer, RefundedState
  <2>2. i \in Intents
    BY <2>1, RefundedIs
  <2> HIDE DEF i
  <2> QED
    BY <2>1, <2>2, PutLoses, SameLoses DEF States, Lost
<1>8. CASE CrashMidWrite(h)
  <2>1. \/ UNCHANGED intent
        \/ /\ handler[h].pc \in {"quote", "refund"}
           /\ \E s \in {"quoted", "refunded", "part_refunded"} : PutState(i, s)
    BY <1>8 DEF CrashMidWrite, RefundedState
  <2>2. handler[h].pc \in {"quote", "refund"} => i \in Intents
    BY QuotedIs, RefundedIs
  <2> HIDE DEF i
  <2> QED
    BY <2>1, <2>2, PutLoses, SameLoses DEF States, Lost
<1> QED
  BY <1>1, <1>2, <1>3, <1>4, <1>5, <1>6, <1>7, <1>8 DEF Answer

\* A call that begins, or an intent that ends before its claim.
LEMMA BeginLoses ==
    ASSUME IInv, ConstantsOK, NEW i \in Intents,
           \/ \E h \in Handlers : Prepare(h, i) \/ ReconcileStart(h, i)
           \/ \E h \in Handlers, own \in RefundIds \cup {NULL}, wanted \in 1..Total[i] :
                  RefundStart(h, i, wanted, own)
           \/ CancelIntent(i) \/ PurchaseStops(i)
           \/ \E e \in Executions : PurchaseDenied(i, e)
    PROVE  \A j \in Intents : Loses(j)
<1>1. \/ UNCHANGED intent \/ PutState(i, "draft")
      \/ intent[i].state \in Early /\ \E s \in {"cancelled", "failed", "approved"} : PutState(i, s)
  BY DEF Prepare, ReconcileStart, RefundStart, CancelIntent, PurchaseStops, PurchaseDenied,
         MayCharge, Payable, Early
<1>2. intent[i].state \in Early => MayBeLost(i)
  BY DEF IInv, MayBeLost
<1> QED
  BY <1>1, <1>2, PutLoses, SameLoses DEF States, Lost

LEMMA ClaimLoses ==
    ASSUME IInv, NEW h \in Handlers, NEW i \in Intents, NEW e \in Executions, PurchaseClaims(h, i, e)
    PROVE  \A j \in Intents : Loses(j)
<1>1. intent' = [intent EXCEPT ![i] = [state |-> "executing", exec |-> e]]
  BY DEF PurchaseClaims
<1>2. intent'[i].state = "executing" /\ \A j \in Intents \ {i} : intent'[j] = intent[j]
  BY <1>1 DEF IInv, Typed
<1> QED
  BY <1>2 DEF Loses, Lost

\* Neither of two handlers that wait for one charge closes its intent once the provider knows the
\* charge, through crashes and charges that outlive their caller (_settle, _record_ambiguous and
\* reconcile of executor.py).
THEOREM KnownChargesAreKept == ASSUME ConstantsOK PROVE Spec => [][KnownChargeIsKept]_vars
<1>1. ASSUME IInv, [Next]_vars
      PROVE  \A j \in Intents : Loses(j)
  <2>1. CASE Admin \/ Outside \/ UNCHANGED vars
    <3>1. UNCHANGED intent
      BY <2>1 DEF Admin, MethodRemove, SetStatus, MethodAdd, LimitLower, LimitRaise, Outside,
         ProviderCharges, WireLost, BankAnswers, IntentExpires, Midnight, Crash, vars
    <3> QED
      BY <3>1, SameLoses
  <2>2. CASE Purchase
    BY <1>1, <2>2, BeginLoses, ClaimLoses DEF Purchase
  <2>3. CASE Refund
    BY <1>1, <2>3, BeginLoses DEF Refund
  <2>4. CASE \/ \E h \in Handlers, i \in Intents : Prepare(h, i) \/ ReconcileStart(h, i)
             \/ \E i \in Intents : CancelIntent(i)
    BY <1>1, <2>4, BeginLoses
  <2>5. CASE \E h \in Handlers : Answer(h)
    BY <1>1, <2>5, AnswerLoses
  <2> QED
    BY <1>1, <2>1, <2>2, <2>3, <2>4, <2>5 DEF Next
<1>2. IInv /\ [Next]_vars => KnownChargeIsKept
  BY <1>1 DEF Loses, Lost, MayBeLost, KnownChargeIsKept
<1> QED
  BY <1>2, Inductive, PTL DEF Spec

-----------------------------------------------------------------------------
(* Limits.                                                                 *)

InstrumentTyped == inst \in [there : BOOLEAN, active : BOOLEAN, single : Nat, daily : Nat]

LEMMA InstrumentKeeps ==
    ASSUME InstrumentTyped, ConstantsOK, [Next]_vars
    PROVE  InstrumentTyped'
<1>1. CASE Admin
  <2>1. \A n \in Limits : n \in Nat
    BY DEF ConstantsOK
  <2>2. CASE MethodRemove \/ \E active \in BOOLEAN : SetStatus(active)
    BY <2>2 DEF MethodRemove, SetStatus, InstrumentTyped
  <2>3. ASSUME NEW single \in Limits, NEW daily \in Limits, MethodAdd(single, daily)
        PROVE  InstrumentTyped'
    BY <2>1, <2>3 DEF MethodAdd, InstrumentTyped
  <2>4. ASSUME NEW single \in Limits, NEW daily \in Limits,
               LimitLower(single, daily) \/ LimitRaise(single, daily)
        PROVE  InstrumentTyped'
    <3>1. inst' = NewLimits(single, daily)
      BY <2>4 DEF LimitLower, LimitRaise
    <3> QED
      BY <2>1, <3>1 DEF NewLimits, InstrumentTyped
  <2> QED
    BY <1>1, <2>2, <2>3, <2>4 DEF Admin
<1>2. CASE Outside
  BY <1>2 DEF Outside, ProviderCharges, WireLost, BankAnswers, IntentExpires, Midnight, Crash,
              InstrumentTyped
<1>3. CASE \E h \in Handlers : Answer(h)
  BY <1>3 DEF Answer, QuoteAnswer, QuoteRefused, NeverSent, Ambiguous, ChargeAnswer,
              ReconcileAnswer, LookupFails, RefundAnswer, RefundUnanswered, CrashMidWrite,
              InstrumentTyped
<1>4. CASE \/ \E h \in Handlers, i \in Intents : Prepare(h, i) \/ ReconcileStart(h, i)
           \/ \E i \in Intents : CancelIntent(i)
           \/ Purchase \/ Refund \/ UNCHANGED vars
  BY <1>4 DEF Prepare, ReconcileStart, CancelIntent, Purchase, PurchaseDenied, PurchaseStops,
              PurchaseClaims, Refund, RefundStart, vars, InstrumentTyped
<1> QED
  BY <1>1, <1>2, <1>3, <1>4 DEF Next

\* The way to change limits that asks nobody again lets nothing through that was refused
\* before, no daily limit (0) included (_set_limits, widens, evaluate).
THEOREM LoweringIsSafe == ASSUME ConstantsOK PROVE Spec => [][LowerNeverWidens]_vars
<1>1. ASSUME InstrumentTyped, NEW single \in Limits, NEW daily \in Limits,
             LimitLower(single, daily),
             NEW amount \in 1..Ceiling, NEW total \in 0..Ceiling, Evaluate(inst', amount, total)
      PROVE  Evaluate(inst, amount, total)
  <2> DEFINE new == NewLimits(single, daily)
  <2>1. inst' = new /\ ~Widens(inst, new)
    BY <1>1 DEF LimitLower
  <2>2. /\ new.active = inst.active /\ new.daily = daily /\ new.single \in Nat
        /\ daily \in Nat /\ amount \in Nat /\ total \in Nat
    BY <1>1 DEF NewLimits, InstrumentTyped, ConstantsOK
  <2> HIDE DEF new
  <2>3. amount <= new.single /\ new.active /\ (new.daily # 0 => total + amount <= new.daily)
    BY <1>1, <2>1 DEF Evaluate
  <2>4. /\ new.single <= inst.single /\ (inst.daily # 0 => new.daily # 0)
        /\ new.daily <= inst.daily
    BY <1>1, <2>1, <2>2 DEF Widens, InstrumentTyped
  <2> QED
    BY <1>1, <2>2, <2>3, <2>4 DEF Evaluate, InstrumentTyped
<1>2. InstrumentTyped => LowerNeverWidens
  BY <1>1 DEF LowerNeverWidens
<1>3. Init => InstrumentTyped
  BY DEF Init, InstrumentTyped
<1>4. InstrumentTyped /\ [Next]_vars => InstrumentTyped'
  BY InstrumentKeeps
<1> QED
  BY <1>2, <1>3, <1>4, PTL DEF Spec
=============================================================================
