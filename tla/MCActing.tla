----------------------------- MODULE MCActing -----------------------------
(***************************************************************************)
(* Small instances, for TLC, of what acts outside the house: calls of      *)
(* capabilities, payments, telephone calls, and the commissions that begin *)
(* them. The parts share no state, so one run takes them all: a behaviour  *)
(* is of one part, the others stay Off.                                    *)
(***************************************************************************)
EXTENDS Integers, FiniteSets, TLC

CONSTANTS i1, i2, e1, e2, h1, h2, r1, NULL, None, Off

VARIABLES
    part,
    cap, call, outstanding, closing, req, auto, world, effects, drifts, restarts,  \* CapabilityCall
    intent, expired, inst, charged, refunds, handler, prov, provRefs, day,         \* Payment
    book, written, phoneReq, described, op, rows, conv, core, crashes,  \* Telephony
    mindBook, job, works, memos, mode, paid, now, passes, mindRestarts  \* Cognition

callVars == <<cap, call, outstanding, closing, req, auto, world, effects, drifts, restarts>>
paymentVars == <<intent, expired, inst, charged, refunds, handler, prov, provRefs, day>>
phoneVars == <<book, written, phoneReq, described, op, rows, conv, core, crashes>>
mindVars == <<mindBook, job, works, memos, mode, paid, now, passes, mindRestarts>>
vars == <<part, callVars, paymentVars, phoneVars, mindVars>>

callOff == /\ cap = Off /\ call = Off /\ outstanding = Off /\ closing = Off /\ req = Off
           /\ auto = Off /\ world = Off /\ effects = Off /\ drifts = Off /\ restarts = Off
paymentOff == /\ intent = Off /\ expired = Off /\ inst = Off /\ charged = Off /\ refunds = Off
              /\ handler = Off /\ prov = Off /\ provRefs = Off /\ day = Off
phoneOff == /\ book = Off /\ written = Off /\ phoneReq = Off /\ described = Off /\ op = Off /\ rows = Off
            /\ conv = Off /\ core = Off /\ crashes = Off
mindOff == /\ mindBook = Off /\ job = Off /\ works = Off /\ memos = Off /\ mode = Off /\ paid = Off
           /\ now = Off /\ passes = Off /\ mindRestarts = Off

----------------------------------------------------------------------------
(* Calls.                                                                  *)

Of(class, risk, classifier, describer) ==
    [born |-> FALSE, reads |-> FALSE, registered |-> class, risk |-> risk,
     classifier |-> classifier, describer |-> describer]
From(origin, own) == [origin |-> origin, authority |-> TRUE, commanded |-> TRUE,
                       untrusted |-> FALSE, auto |-> own, named |-> FALSE]
Naming(i) == [i EXCEPT !.named = TRUE]

\* A lamp switched by name, and a login described before it is approved.
Switch == Of("ha_normal", 1, TRUE, FALSE)
Login == Of("critical", 2, FALSE, TRUE)
Room == {From("room_voice", FALSE)}
Night == {From("background_automation", TRUE)}

P == INSTANCE ActionPolicy

\* Every capability there could be, and every way to call it; only those of the
\* house are classified at the device, and one that reads may be registered all the same.
AllCaps == {k \in [born : BOOLEAN, reads : BOOLEAN, registered : P!Classes \ {"ha_security", "read_only"},
                   risk : P!Risks, classifier : BOOLEAN, describer : {FALSE}] :
              /\ k.classifier => k.registered = "ha_normal" /\ ~k.reads /\ ~k.born
              /\ k.reads => k.registered \in {"unclassified", "critical"}}
AllInputs == [origin : P!Origins, authority : BOOLEAN, commanded : BOOLEAN,
              untrusted : BOOLEAN, auto : {TRUE}, named : {FALSE}]

\* One call of everything there is.
Table == INSTANCE CapabilityCall WITH
    Calls <- {"c1"}, Caps <- AllCaps, Inputs <- AllInputs, Devices <- {"lamp"}, Locks <- {},
    MaxRequests <- 1, MaxInFlight <- 1, MaxDrift <- 0, MaxRestarts <- 0

\* Two calls at once, from the room and from an automation, over a restart.
Races == INSTANCE CapabilityCall WITH
    Calls <- {"c1", "c2"}, Caps <- {Switch, Login}, Inputs <- {Naming(i) : i \in Room} \cup Night,
    Devices <- {"lamp", "lock"}, Locks <- {"lock"},
    MaxRequests <- 2, MaxInFlight <- 2, MaxDrift <- 0, MaxRestarts <- 1

\* Calls one after the other while the page they describe changes.
Turns == INSTANCE CapabilityCall WITH
    Calls <- {"c1", "c2"}, Caps <- {Login}, Inputs <- Room, Devices <- {"lamp", "other"}, Locks <- {},
    MaxRequests <- 3, MaxInFlight <- 1, MaxDrift <- 1, MaxRestarts <- 0

\* Two calls of an automation whose grant is bound to a device, while the name moves on.
Grants == INSTANCE CapabilityCall WITH
    Calls <- {"c1", "c2"}, Caps <- {Switch}, Inputs <- Night, Devices <- {"lamp", "other"}, Locks <- {},
    MaxRequests <- 1, MaxInFlight <- 2, MaxDrift <- 1, MaxRestarts <- 0

ASSUME CallsAssumption ==
    /\ Table!ConstantsOK /\ Table!RegistryOK /\ Races!ConstantsOK /\ Races!RegistryOK
    /\ Turns!ConstantsOK /\ Turns!RegistryOK /\ Grants!ConstantsOK /\ Grants!RegistryOK

CallsInit == /\ paymentOff /\ phoneOff /\ mindOff
             /\ \/ part = "table" /\ Table!Init
                \/ part = "races" /\ Races!Init
                \/ part = "turns" /\ Turns!Init
                \/ part = "grants" /\ Grants!Init

----------------------------------------------------------------------------
(* Payments.                                                               *)

\* One intent with two callers.
Pay == INSTANCE Payment WITH
    Intents <- {i1}, Executions <- {e1, e2}, RefundIds <- {r1}, Handlers <- {h1, h2},
    Total <- (i1 :> 2), Limits <- {0, 2, 3}, Ceiling <- 3, MaxDay <- 1

\* Two intents, one caller.
Alone == INSTANCE Payment WITH
    Intents <- {i1, i2}, Executions <- {e1, e2}, RefundIds <- {r1}, Handlers <- {h1},
    Total <- (i1 :> 2 @@ i2 :> 2), Limits <- {0, 2}, Ceiling <- 3, MaxDay <- 1

ASSUME PaymentAssumption == Pay!ConstantsOK /\ Alone!ConstantsOK

PaymentInit == /\ callOff /\ phoneOff /\ mindOff
               /\ \/ part = "pay" /\ Pay!Init
                  \/ part = "alone" /\ Alone!Init

\* Executions and callers are interchangeable.
Symmetry == Permutations({e1, e2}) \cup Permutations({h1, h2})

----------------------------------------------------------------------------
(* Calls to people.                                                        *)

CallG == [kind |-> "call", alias |-> "g", msg |-> "m"]
BindG(n) == [kind |-> "bind", alias |-> "g", name |-> "G", num |-> n]
OneContact == "g" :> [name |-> "G", num |-> "n1", version |-> 1]

\* A call while its contact changes; two calls over a restart of the core.
Contact == INSTANCE Telephony WITH
    Wishes <- {CallG, BindG("n2"), BindG(NULL)}, Book <- OneContact, Dialogues <- {"d1", "d2"},
    MaxRequests <- 2, MaxRings <- 1, MaxCrashes <- 0, NONE <- NULL, req <- phoneReq
Redial == INSTANCE Telephony WITH
    Wishes <- {CallG}, Book <- OneContact, Dialogues <- {"d1"}, MaxRequests <- 2, MaxRings <- 2,
    MaxCrashes <- 1, NONE <- NULL, req <- phoneReq

PhoneInit == /\ callOff /\ paymentOff /\ mindOff
             /\ \/ part = "contact" /\ Contact!Init
                \/ part = "redial" /\ Redial!Init
Phones == /\ UNCHANGED <<part, callVars, paymentVars, mindVars>>
          /\ \/ part = "contact" /\ Contact!Next
             \/ part = "redial" /\ Redial!Next

----------------------------------------------------------------------------
(* Commissions: who thinks, and what is begun. *)

Said(words) == [conv |-> "c", words |-> words, shadow |-> FALSE]
Heard(words) == [conv |-> "c", words |-> words, shadow |-> TRUE]
Plain(way) == [why |-> "", weg |-> way, sure |-> TRUE, hard |-> FALSE, own |-> TRUE, names |-> FALSE]
Garbage == Plain("garbage")
NoAnswer(why) == [Garbage EXCEPT !.why = why]
Hard(way) == [Plain(way) EXCEPT !.hard = TRUE]
Unsure(way) == [Plain(way) EXCEPT !.sure = FALSE]
AllAnswers == {NoAnswer("down"), NoAnswer("raised"), NoAnswer("quota"), Garbage, Plain("reason"), Hard("reason"),
               Unsure("agent_build"), [Unsure("agent_research") EXCEPT !.hard = TRUE], Hard("hand_back"), Plain("consult")}
AllResults == {"task", "approval", "done", "failed", "unavailable", "refused"}

\* One commission with everything a model may answer.
Assessed == INSTANCE Cognition WITH
    Asks <- <<Said("w")>>, Answers <- AllAnswers, Results <- AllResults,
    Targets <- {"consult", "research_quick", "agent_research"}, REGISTER_MAX <- 2,
    LOOP_FAILED <- 2, DAY <- 9, Breaks <- {"write"}, MaxOpen <- 1, MaxPasses <- 0,
    MaxRestarts <- 0, LOOP_WINDOW <- 4, SHADOW_MAX <- 1, NONE <- NULL, book <- mindBook,
    restarts <- mindRestarts
\* The same words again and again, and once a window later.
Repeated == INSTANCE Cognition WITH
    Asks <- [j \in 1..4 |-> Said("w")], Answers <- {NoAnswer("down"), Plain("consult")},
    Results <- {"failed"}, Targets <- {"consult"}, REGISTER_MAX <- 2, LOOP_FAILED <- 1, DAY <- 9,
    Breaks <- {}, MaxOpen <- 2, MaxPasses <- 1, MaxRestarts <- 0, LOOP_WINDOW <- 4,
    SHADOW_MAX <- 1, NONE <- NULL, book <- mindBook, restarts <- mindRestarts
\* Work that is asked for twice, with another conversation in between.
Resumed == INSTANCE Cognition WITH
    Asks <- <<Said("w"), [Said("w") EXCEPT !.conv = "d"], Said("w")>>,
    Answers <- {[Plain("agent_research") EXCEPT !.own = FALSE, !.names = TRUE]},
    Results <- {"task", "failed", "approval"}, Targets <- {"agent_research"}, REGISTER_MAX <- 3,
    LOOP_FAILED <- 2, DAY <- 9, Breaks <- {}, MaxOpen <- 2, MaxPasses <- 1, MaxRestarts <- 0,
    LOOP_WINDOW <- 4, SHADOW_MAX <- 1, NONE <- NULL, book <- mindBook, restarts <- mindRestarts
\* A question and its answers.
Questioned == INSTANCE Cognition WITH
    Asks <- <<Said("v"), Said("w"), Said("x")>>,
    Answers <- {Plain("clarify"), [Plain("agent_build") EXCEPT !.own = FALSE]},
    Results <- {"task"}, Targets <- {"agent_build"}, REGISTER_MAX <- 3, LOOP_FAILED <- 2, DAY <- 9,
    Breaks <- {"write", "read", "memo"}, MaxOpen <- 2, MaxPasses <- 0, MaxRestarts <- 1,
    LOOP_WINDOW <- 4, SHADOW_MAX <- 1, NONE <- NULL, book <- mindBook, restarts <- mindRestarts
\* Measurements, and a commission after a restart in the other mode.
Measured == INSTANCE Cognition WITH
    Asks <- <<Heard("v"), Heard("w"), Heard("x"), Said("v")>>,
    Answers <- {Garbage, NoAnswer("raised"), Plain("consult")}, Results <- {"done"},
    Targets <- {"consult"}, REGISTER_MAX <- 2, LOOP_FAILED <- 2, DAY <- 6, Breaks <- {},
    MaxOpen <- 2, MaxPasses <- 1, MaxRestarts <- 1, LOOP_WINDOW <- 4, SHADOW_MAX <- 1,
    NONE <- NULL, book <- mindBook, restarts <- mindRestarts

MindInit == /\ callOff /\ paymentOff /\ phoneOff
            /\ \/ part = "assessed" /\ Assessed!Init
               \/ part = "repeated" /\ Repeated!Init
               \/ part = "resumed" /\ Resumed!Init
               \/ part = "questioned" /\ Questioned!Init
               \/ part = "measured" /\ Measured!Init
Minds == /\ UNCHANGED <<part, callVars, paymentVars, phoneVars>>
         /\ \/ part = "assessed" /\ Assessed!Next
            \/ part = "repeated" /\ Repeated!Next
            \/ part = "resumed" /\ Resumed!Next
            \/ part = "questioned" /\ Questioned!Next
            \/ part = "measured" /\ Measured!Next

----------------------------------------------------------------------------
Init == CallsInit \/ PaymentInit \/ PhoneInit \/ MindInit

Calling == /\ UNCHANGED <<part, paymentVars, phoneVars, mindVars>>
           /\ \/ part = "table" /\ Table!Next
              \/ part = "races" /\ Races!Next
              \/ part = "turns" /\ Turns!Next
              \/ part = "grants" /\ Grants!Next
Paying == /\ UNCHANGED <<part, callVars, phoneVars, mindVars>>
          /\ \/ part = "pay" /\ Pay!Next
             \/ part = "alone" /\ Alone!Next
Next == Calling \/ Paying \/ Phones \/ Minds

Spec == Init /\ [][Next]_vars

----------------------------------------------------------------------------
(* Properties, each a conjunction over the parts it is about.              *)

\* What happens without a human was commanded, by somebody of the house, and is small; what a
\* human approved carries one effect, the one that was shown; a grant is measured on the very
\* device it was given for.  Nobody's telephone rings twice for one approval or with a message
\* that was not shown, nor with another number than the one shown, unless the alias was described
\* again between the look and the wire (telephony.py:189); the ledger knows no end of a call that
\* the provider does not.  A commission is assessed by one large call at most and begins the work
\* its own turn asks for; as long as the book can be read, equal words fail only within the fence,
\* give or take what was under way with the last, and work the register shows as running is not
\* begun again; a row books the tokens its model calls reported, measurements excepted.
CallsAreApproved ==
    /\ part = "table" => Table!NothingActsAlone
    /\ part = "races" => Races!TypeOK /\ Races!EffectsAreApproved
    /\ part = "grants" => Grants!GrantIsBound
    /\ part = "contact" => Contact!TypeOK /\ Contact!RingsAsShown /\ Contact!BoundAsShown
    /\ part = "redial" => Redial!RingIsOnRecord /\ Redial!OutcomeIsTrue
    /\ part = "assessed" => Assessed!TypeOK /\ Assessed!OneLargeLook /\ Assessed!TrailIsBooked /\ Assessed!TokensAreBooked
    /\ part = "repeated" => Repeated!LoopIsFenced
    /\ part = "resumed" => Resumed!SameWorkRunsOnce /\ Resumed!ContinuationIsOwn
    /\ part = "questioned" => Questioned!TypeOK /\ Questioned!GoalIsTheUsers /\ Questioned!QuestionIsAnsweredOnce
    /\ part = "measured" => Measured!ShadowIsCapped /\ Measured!TokensAreBooked

\* No intent moves money twice, the book never says more than the world, an intent that says
\* paid was paid, and one that says refunded went back in full: with two handlers, charges that
\* reach the provider late, and crashes between any two writes.
PaymentsAreTrue ==
    /\ part = "pay" => Pay!TypeOK /\ Pay!OneChargePerIntent /\ Pay!BookIsTrue /\ Pay!SettledIsTrue
    /\ part = "alone" => Alone!BookIsTrue /\ Alone!SettledIsTrue

\* A call never throws away an approval that fits what it would show; no entry is put up while
\* the one it replaces waits, and an entry that waits is followed until it is settled, unless a
\* call names an approval or meets the note of another one (router.py:518).  The cheap way to
\* change limits never lets a payment through that was refused before, and a charge the provider
\* knows, made or waiting for the bank, is never closed as failed or cancelled.  What this does
\* not say: a charge that reaches the provider after a lookup denied it finds its intent closed
\* (executor.py:602).
ApprovalsAndLimitsHold ==
    [][/\ part = "turns" => Turns!ApprovalIsUsed /\ Turns!EntriesAreFollowed
       /\ part = "races" => Races!EntriesAreFollowed
       /\ part = "pay" => Pay!LowerNeverWidens /\ Pay!KnownChargeIsKept
       /\ part = "alone" => Alone!KnownChargeIsKept]_vars
=============================================================================
