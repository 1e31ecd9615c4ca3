------------------------------ MODULE Cognition ------------------------------
(***************************************************************************)
(* The cognitive router (cognition/router.py): a commission reads what the *)
(* decision book says of its conversation, is fenced against repetition    *)
(* before any model is asked, is assessed by at most three model calls of  *)
(* which one may be large, and then is handed back, asked about, thought   *)
(* over or given to the one capability its route names.  Every way out     *)
(* books one row (ledger.py).  Between the awaits other commissions of the *)
(* same conversation take their steps; a shadow measurement does the first *)
(* half of it and changes nothing but the book.                            *)
(* A row is ordered by the moment its commission BEGAN (`at`), although it *)
(* is written when the commission ends.  Every begin has its own moment.   *)
(***************************************************************************)
EXTENDS Integers, Sequences, FiniteSets, FiniteSetsExt, TLC

CONSTANTS
    Asks,           \* the turns in the order they are spoken: [conv, words, shadow]
    Answers,        \* what a model call may come to: [why, weg, sure, hard, own, names]
    Results,        \* what the capability may come to
    Targets,        \* the capabilities that are registered
    REGISTER_MAX, LOOP_WINDOW, LOOP_FAILED, SHADOW_MAX, DAY,
    Breaks,         \* what may fail: reading the book, writing it, the agent's states, the memo
    MaxOpen, MaxPasses, MaxRestarts,
    NONE

VARIABLES
    book,           \* cognition.sqlite3: routing_decisions
    job,            \* the commissions and measurements
    works,          \* tasks of the agent runtime: [conv, words, by, pred, from, active, twins]
    memos,          \* pending starts, to be repeated when the approval is given
    mode,           \* CognitiveRouter.mode, read from the configuration
    paid,           \* the tokens the model calls of each reported
    now, passes, restarts

vars == <<book, job, works, memos, mode, paid, now, passes, restarts>>
clock == <<now, passes, restarts>>

Jobs == DOMAIN Asks
Rows == DOMAIN book
Works == DOMAIN works
Conv(j) == Asks[j].conv
Routes == {"hand_back", "clarify", "reason", "research_quick", "consult", "diagnose", "agent_research", "agent_build"}
CREATION_TARGETS == {"agent_research", "agent_build"}
Outcomes == {"dispatched", "handed_back", "clarification", "refused", "failed", "shadow"}
May(b) == IF b \in Breaks THEN BOOLEAN ELSE {FALSE}

Fresh == [pc |-> "waiting", at |-> 0, seen |-> {}, from |-> 0, known |-> {}, clar |-> NONE, tier |-> "none",
          event |-> "none", looks |-> 0, large |-> 0, spent |-> 0, plan |-> NONE, thinks |-> FALSE, made |-> NONE, res |-> NONE]
Open == {j \in Jobs : job[j].pc \notin {"waiting", "over"}}

TypeOK ==
    /\ \A i \in Rows : /\ book[i].out \in Outcomes /\ book[i].route \in Routes \cup {"none"}
                       /\ book[i].made \in Works \cup {NONE}
    /\ \A j \in Jobs : job[j].pc \in {"waiting", "look", "ask", "shadow", "reason", "run", "back", "over"}
    /\ \A w \in Works : works[w].conv = Conv(works[w].by)
    /\ mode \in {"active", "shadow"} /\ memos \subseteq Jobs

----------------------------------------------------------------------------
(* The book.                                                               *)

\* A row as the commission began it: nothing proposed, no model asked.
Row(j) == [job |-> j, at |-> job[j].at, conv |-> Conv(j), words |-> Asks[j].words, out |-> "failed", why |-> "",
           route |-> "none", tier |-> "none", event |-> "none", tokens |-> 0, made |-> NONE, cont |-> NONE]

\* _record: an error of the book never stops work.  The commission is over.
Record(j, row) ==
    /\ \E lost \in May("write") : book' = IF lost THEN book ELSE Append(book, row)
    /\ job' = [job EXCEPT ![j].pc = "over"]
Drop(j) == job' = [job EXCEPT ![j].pc = "over"] /\ UNCHANGED book

\* The newest n rows of a conversation; a conversation without a name has none.
recent(c, n) == {i \in Rows : /\ c # NONE /\ book[i].conv = c
                              /\ Cardinality({k \in Rows : book[k].conv = c /\ book[k].at > book[i].at}) < n}
with_digest_Now(j) == {i \in Rows : book[i].conv = Conv(j) /\ book[i].words = Asks[j].words /\ book[i].at >= job[j].at}
with_digest(j) == {i \in Rows : /\ Conv(j) # NONE /\ book[i].conv = Conv(j) /\ book[i].words = Asks[j].words
                                /\ book[i].at >= job[j].at - LOOP_WINDOW}
Newest(rows) == CHOOSE i \in rows : \A k \in rows : book[k].at <= book[i].at

\* The question still open: asked by the newest decision that is not a measurement.
Pending_Any(rows) ==
    LET asked == {i \in rows : book[i].out = "clarification"} IN IF asked = {} THEN NONE ELSE book[Newest(asked)].job
Pending(rows) ==
    LET firm == {i \in rows : book[i].out # "shadow"}
    IN IF firm # {} /\ book[Newest(firm)].out = "clarification" THEN book[Newest(firm)].job ELSE NONE

\* The register: the works the newest of these decisions produced.
Register(rows) ==
    LET made == {book[i].made : i \in rows} \ {NONE}
        last(p) == Max({book[i].at : i \in {k \in rows : book[k].made = p}})
    IN {p \in made : Cardinality({q \in made : last(q) > last(p)}) < REGISTER_MAX}

----------------------------------------------------------------------------
(* Reading: continuity.build, and the fences before any model is asked.    *)

Init ==
    /\ book = <<>> /\ works = <<>> /\ memos = {} /\ now = 0 /\ passes = 0 /\ restarts = 0
    /\ job = [j \in Jobs |-> Fresh] /\ paid = [j \in Jobs |-> 0] /\ mode \in {"active", "shadow"}

\* build up to the await of the deep executor's tasks.
Build(j) ==
    \E broken \in May("read") :
        LET rows == IF broken THEN {} ELSE recent(Conv(j), 2 * REGISTER_MAX)
        IN job' = [job EXCEPT ![j] = [Fresh EXCEPT !.pc = "look", !.at = now, !.seen = rows, !.from = Len(book),
                                                   !.clar = Pending(rows)]]

\* The measurements since midnight.
Capped_Late(shadows) == Cardinality(shadows) > SHADOW_MAX
Capped(shadows) == Cardinality(shadows) >= SHADOW_MAX

Begin(j) ==
    /\ job[j].pc = "waiting" /\ (j > 1 => job[j - 1].pc # "waiting") /\ Cardinality(Open) < MaxOpen
    /\ now' = now + 1
    /\ UNCHANGED <<book, works, memos, mode, paid, passes, restarts>>
    /\ IF \/ mode # (IF Asks[j].shadow THEN "shadow" ELSE "active")
          \/ Asks[j].shadow /\ Capped({i \in Rows : book[i].out = "shadow" /\ book[i].at >= now - (now % DAY)})
       THEN job' = [job EXCEPT ![j].pc = "over"]
       ELSE Build(j)

\* A model call is noted before it is made.
Ask(m, tier, event) == [m EXCEPT !.pc = "ask", !.tier = tier, !.event = event, !.looks = @ + 1,
                                 !.large = IF tier = "large" THEN @ + 1 ELSE @]

Fence(j, active, broken) ==
    LET history == IF broken THEN {} ELSE with_digest(j)
        failed == {i \in history : book[i].out \in {"failed", "refused"}}
        running == {i \in history : book[i].made \in active}
    IN IF Cardinality(failed) >= LOOP_FAILED
       THEN Record(j, [Row(j) EXCEPT !.out = "refused", !.why = "loop_detected"])
       ELSE IF running # {}
       THEN LET w == book[Newest(running)].made
            IN Record(j, [Row(j) EXCEPT !.out = "handed_back", !.route = "hand_back", !.made = w, !.cont = w])
       ELSE job' = [job EXCEPT ![j] = Ask([@ EXCEPT !.known = Register(job[j].seen)], "mini", "none")] /\ UNCHANGED book

\* The states of the works are read after that await, then the book again.
Running_Ended(j) == {w \in Register(job[j].seen) : ~works[w].active}
Running(j) == {w \in Register(job[j].seen) : works[w].active}
Look(j) ==
    /\ job[j].pc = "look"
    /\ UNCHANGED <<works, memos, mode, paid, clock>>
    /\ IF Asks[j].shadow
       THEN /\ job' = [job EXCEPT ![j] = [Ask([@ EXCEPT !.known = Register(job[j].seen)], "mini", "none") EXCEPT !.pc = "shadow"]]
            /\ UNCHANGED book
       ELSE \E broken \in May("read"), blind \in May("states") :
                Fence(j, IF blind THEN {} ELSE Running(j), broken)

----------------------------------------------------------------------------
(* Assessing.                                                              *)

Kind(a) == IF a.why = "quota" THEN "assessment_quota" ELSE "assessment_unavailable"
Spent(a) == IF a.why = "" THEN 1 ELSE 0

\* The goal is the user's words; what the model made up is replaced by the turn,
\* and by the turn that was asked about.
Goal_AsIs(a, j) == IF a.own THEN {j} ELSE {NONE}
Goal(a, j) == IF a.own THEN {j} ELSE {j} \cup ({job[j].clar} \ {NONE})
Named(a) == IF a.names THEN {NONE, 0} \cup Works ELSE {NONE}
Continued_AsIs(von, m) == von
Continued(von, m) == IF von \in m.known THEN von ELSE NONE
validate(a, von, j) == [route |-> a.weg, goal |-> Goal(a, j), cont |-> Continued(von, job[j]), sure |-> a.sure,
                        hard |-> a.hard, tier |-> job[j].tier]

low_confidence(p) == ~p.sure \/ (p.route = "hand_back" /\ p.hard)
downgrade(p) == [p EXCEPT !.route = CASE @ = "agent_research" -> "research_quick"
                                      [] @ = "agent_build" -> "clarify" [] OTHER -> @]

\* _fail: one row, with the trail the caller hands in.
Fail_Untold(j, why, tier, event, tokens) == Record(j, [Row(j) EXCEPT !.why = why, !.tokens = tokens])
Fail_Free(j, why, tier, event, tokens) == Record(j, [Row(j) EXCEPT !.why = why, !.tier = tier, !.event = event])
Fail(j, why, tier, event, tokens) ==
    Record(j, [Row(j) EXCEPT !.why = why, !.tier = tier, !.event = event, !.tokens = tokens])

Planned(j, p, tokens) == [Row(j) EXCEPT !.tier = p.tier, !.event = job[j].event, !.tokens = tokens]
Go(j, p, tokens, pc) == job' = [job EXCEPT ![j].pc = pc, ![j].plan = p, ![j].spent = tokens, ![j].thinks = (pc = "reason"),
                                           ![j].tier = IF pc = "reason" THEN (IF p.hard THEN "large" ELSE "mini") ELSE @]

\* What the assessment leads to, up to the next await.
Decide(j, p, tokens) ==
    CASE p.route = "hand_back" -> Record(j, [Planned(j, p, tokens) EXCEPT !.out = "handed_back", !.route = p.route])
      [] p.route = "clarify" -> Record(j, [Planned(j, p, tokens) EXCEPT !.out = "clarification", !.route = p.route,
                                                                       !.why = "clarification_required"])
      [] p.route = "reason" -> Go(j, p, tokens, "reason") /\ UNCHANGED book
      [] OTHER -> IF p.route \notin Targets THEN Fail(j, "route_unavailable", "none", "none", tokens)
                  ELSE Go(j, p, tokens, "run") /\ UNCHANGED book

Again(j, tier, event, tokens, p) ==
    job' = [job EXCEPT ![j] = Ask([@ EXCEPT !.spent = tokens, !.plan = p], tier, event)] /\ UNCHANGED book

\* E1: twice useless; E2: valid but unsure.  They share the one large call.
Escalates_Twice(m) == m.large < 2
Escalates(m) == m.event = "none"
Valid(j, p, tokens) ==
    LET m == job[j] IN
    IF ~low_confidence(p) \/ m.event = "invalid" THEN Decide(j, p, tokens)
    ELSE IF Escalates(m) THEN Again(j, "large", "low", tokens, p)
    ELSE Decide(j, downgrade(p), tokens)
Useless(j, tokens) ==
    LET m == job[j] IN
    CASE m.tier = "mini" /\ m.looks = 1 -> Again(j, "mini", "none", tokens, NONE)
      [] m.tier = "mini" /\ m.looks > 1 -> Again(j, "large", "invalid", tokens, NONE)
      [] m.event = "invalid" -> Fail(j, "assessment_unavailable", "large", "invalid", tokens)
      [] OTHER -> Decide(j, downgrade(m.plan), tokens)

Assess(j) ==
    /\ job[j].pc = "ask"
    /\ \E a \in Answers : \E von \in Named(a) :
        LET tokens == job[j].spent + Spent(a)
        IN  /\ paid' = [paid EXCEPT ![j] = @ + Spent(a)]
            /\ CASE a.why = "raised" -> Drop(j)
                 [] a.why \in {"quota", "down"} -> Fail(j, Kind(a), job[j].tier, job[j].event, tokens)
                 [] a.weg = "garbage" -> Useless(j, tokens)
                 [] OTHER -> Valid(j, validate(a, von, j), tokens)
    /\ UNCHANGED <<works, memos, mode, clock>>

\* The whole phase has twelve seconds and one call ten: only a later call is cut.
TimesOut(j) ==
    /\ job[j].pc = "ask" /\ job[j].looks > 1
    /\ Fail(j, "assessment_unavailable", job[j].tier, job[j].event, job[j].spent)
    /\ UNCHANGED <<works, memos, mode, paid, clock>>

\* _reason: a large call that fails is made up for by a small one, with a caveat.
Reason(j) ==
    LET m == job[j]
        event == IF m.plan.hard THEN "hard" ELSE "none"
    IN  /\ m.pc = "reason"
        /\ \E a \in Answers :
            /\ paid' = [paid EXCEPT ![j] = @ + Spent(a)]
            /\ CASE a.why = "raised" -> Drop(j)
                 [] a.why = "" -> Record(j, [Row(j) EXCEPT !.out = "dispatched", !.route = "reason", !.tier = m.tier,
                                                           !.event = event, !.tokens = m.spent + Spent(a)])
                 [] a.why # "" /\ m.tier = "large" -> job' = [job EXCEPT ![j].tier = "mini"] /\ UNCHANGED book
                 [] OTHER -> Fail(j, Kind(a), "mini", event, m.spent)
        /\ UNCHANGED <<works, memos, mode, clock>>

----------------------------------------------------------------------------
(* The one channel: capabilities.execute, and what it came to.             *)

\* Works of the same words that were booked when the commission began and still run.
Twins(j) == {w \in Works : /\ works[w].active
                           /\ \E i \in 1..job[j].from : /\ book[i].made = w /\ i \in with_digest(j)
                                                        /\ Cardinality(recent(Conv(j), Len(book))) <= REGISTER_MAX}
Work(j, pred) == [conv |-> Conv(j), words |-> Asks[j].words, by |-> j, pred |-> pred, goal |-> job[j].plan.goal,
                  active |-> TRUE, twins |-> Twins(j)]

Execute(j) ==
    /\ job[j].pc = "run"
    /\ \E r \in Results :
        /\ r \in {"task", "approval"} => job[j].plan.route \in CREATION_TARGETS
        /\ r = "done" => job[j].plan.route \notin CREATION_TARGETS
        /\ works' = IF r = "task" THEN Append(works, Work(j, job[j].plan.cont)) ELSE works
        /\ job' = [job EXCEPT ![j].pc = "back", ![j].res = r, ![j].made = IF r = "task" THEN Len(works') ELSE NONE]
    /\ UNCHANGED <<book, memos, mode, paid, clock>>

\* The memo is written before the row, and neither stops the other.
Return(j) ==
    LET m == job[j] IN
    /\ m.pc = "back"
    /\ \E forgot \in May("memo") : memos' = IF m.res = "approval" /\ ~forgot THEN memos \cup {j} ELSE memos
    /\ LET row == [Planned(j, m.plan, m.spent) EXCEPT !.route = m.plan.route, !.made = m.made, !.cont = m.plan.cont]
       IN Record(j, CASE m.res \in {"task", "done", "approval"} -> [row EXCEPT !.out = "dispatched"]
                      [] m.res = "unavailable" -> [row EXCEPT !.why = "route_unavailable"]
                      [] m.res = "refused" -> [row EXCEPT !.why = "refused_policy"]
                      [] OTHER -> [row EXCEPT !.why = "not_routable"])
    /\ UNCHANGED <<works, mode, paid, clock>>

\* The agent runtime repeats an approved start; no row learns of its task.
Granted(j) ==
    /\ j \in memos /\ memos' = memos \ {j}
    /\ works' = Append(works, [Work(j, job[j].plan.cont) EXCEPT !.twins = {}])
    /\ UNCHANGED <<book, job, mode, paid, clock>>

Ends(w) ==
    /\ works[w].active /\ works' = [works EXCEPT ![w].active = FALSE]
    /\ UNCHANGED <<book, job, memos, mode, paid, clock>>

\* observe_turn, after the view: one small call, one row, or none after an exception.
Shadow(j) ==
    LET row == [Row(j) EXCEPT !.out = "shadow", !.tier = "mini"] IN
    /\ job[j].pc = "shadow"
    /\ \E a \in Answers :
        /\ paid' = [paid EXCEPT ![j] = @ + Spent(a)]
        /\ CASE a.why = "raised" -> Drop(j)
             [] a.why \in {"quota", "down"} -> Record(j, [row EXCEPT !.why = Kind(a)])
             [] a.weg = "garbage" -> Record(j, [row EXCEPT !.why = "not_routable"])
             [] OTHER -> Record(j, [row EXCEPT !.route = a.weg, !.tokens = Spent(a)])
    /\ UNCHANGED <<works, memos, mode, clock>>

\* A window passes.
Pass ==
    /\ passes < MaxPasses /\ passes' = passes + 1 /\ now' = now + LOOP_WINDOW
    /\ UNCHANGED <<book, job, works, memos, mode, paid, restarts>>

\* The process ends and comes back, in the mode its configuration names: what was under
\* way leaves no row.
Restart ==
    /\ restarts < MaxRestarts /\ restarts' = restarts + 1
    /\ mode' \in {"active", "shadow"}
    /\ job' = [j \in Jobs |-> IF j \in Open THEN [job[j] EXCEPT !.pc = "over"] ELSE job[j]]
    /\ UNCHANGED <<book, works, memos, paid, now, passes>>

Next ==
    \/ \E j \in Jobs : \/ Begin(j) \/ Look(j) \/ Assess(j) \/ TimesOut(j) \/ Reason(j)
                       \/ Execute(j) \/ Return(j) \/ Granted(j) \/ Shadow(j)
    \/ \E w \in Works : Ends(w)
    \/ Pass \/ Restart

Spec == Init /\ [][Next]_vars

----------------------------------------------------------------------------
(* What holds.                                                             *)

Measured(i) == book[i].out = "shadow"

\* A row books the tokens that the model calls of its commission reported, whichever way it
\* ended (router.py, commission: what the broker booked the decision book must not deny).  A
\* shadow row whose one answer was useless does not: observe_turn leaves its tokens out.
TokensAreBooked == \A i \in Rows : ~Measured(i) => book[i].tokens = paid[book[i].job]

\* A commission is assessed by at most three calls, at most one of them large (_assess).
OneLargeLook == \A j \in Jobs : job[j].looks <= 3 /\ job[j].large <= 1

\* An assessment that ends in a failure or is cut books the tier and the reason it had
\* reached: a large call that was made is not denied (`fortschritt`).
TrailIsBooked ==
    \A i \in Rows : LET m == job[book[i].job] IN
        book[i].why \in {"assessment_unavailable", "assessment_quota"} /\ ~Measured(i) /\ ~m.thinks
            => /\ (book[i].tier = "large") = (m.large > 0)
               /\ (book[i].event # "none") = (m.large > 0)

\* Of the commissions of the same words in one conversation, begun within one window, only so
\* many fail after having asked a model: those that fill the fence, and those that were under
\* way together with the last of them (_guard).
LoopIsFenced ==
    "read" \notin Breaks =>
    \A i \in Rows : LET same == {k \in Rows : /\ book[k].out = "failed" /\ job[book[k].job].looks > 0
                                              /\ book[k].conv = book[i].conv /\ book[k].words = book[i].words
                                              /\ book[k].at \in (book[i].at - LOOP_WINDOW)..book[i].at}
                    IN book[i].conv # NONE => Cardinality(same) <= LOOP_FAILED - 1 + MaxOpen

\* Work that was booked in this conversation when a commission of the same words began, and that
\* still runs, is not begun a second time, as long as the register shows all of it (_guard).
SameWorkRunsOnce == Breaks \cap {"read", "states"} = {} => \A w \in Works : works[w].twins = {}

\* What a task continues, and what a row says it continues, is an earlier work of the same
\* conversation: an id that came from anywhere else is dropped (validate, _arguments).
ContinuationIsOwn ==
    /\ \A w \in Works : works[w].pred # NONE => /\ works[w].pred \in 1..(w - 1)
                                               /\ works[works[w].pred].conv = works[w].conv
    /\ \A i \in Rows : book[i].cont # NONE => book[i].cont \in Works /\ works[book[i].cont].conv = book[i].conv

\* What a task is given to do are words of its own turn and of the turn of the same conversation
\* that a question was still open about (the overlap rule of validate).
GoalIsTheUsers ==
    \A w \in Works : works[w].goal \subseteq {works[w].by} \cup {j \in Jobs : Conv(j) = works[w].conv /\ j # works[w].by
                                                                /\ \E i \in Rows : book[i].job = j /\ book[i].out = "clarification"}

\* An open question is answered by one commission: none that began after the answer was booked
\* takes the question up again (build).
QuestionIsAnsweredOnce ==
    \A i \in Rows, k \in Jobs :
        LET j == book[i].job IN
        j # k /\ ~Measured(i) /\ job[k].from >= i /\ job[j].clar # NONE => job[k].clar # job[j].clar

\* Of the measurements of one day no more are booked than the cap, and those that were under way
\* together with the last that passed it (observe_turn).
ShadowIsCapped ==
    \A d \in {book[i].at \div DAY : i \in Rows} :
        Cardinality({i \in Rows : Measured(i) /\ book[i].at \div DAY = d}) <= SHADOW_MAX - 1 + MaxOpen

----------------------------------------------------------------------------
(* What the code does not keep.                                            *)

\* The decision book denies no large call ("zwei Wahrheiten"): _reason and the failures of
\* _dispatch overwrite the tier and the event of the assessment.
EscalationIsBooked ==
    \A i \in Rows : job[book[i].job].large > 0 => book[i].tier = "large" /\ book[i].event # "none"

\* The same words of one conversation have one running task: two commissions under way together
\* both pass the guard, and a task begun by an approval is in no row.
OneTaskPerWords ==
    \A v, w \in Works : /\ works[v].active /\ works[w].active /\ works[v].conv # NONE
                        /\ works[v].conv = works[w].conv /\ works[v].words = works[w].words => v = w

=============================================================================
