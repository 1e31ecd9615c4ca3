------------------------------- MODULE Doctor -------------------------------
(***************************************************************************)
(* Watching and repairing one component (doctor/doctor.py, playbooks.py,   *)
(* store.py, supervisor.py) as the health board sees it                    *)
(* (control_center/health.py).  Several visits go on at once: the          *)
(* supervisor's round, an owner who asks for everything to be repaired,    *)
(* one who taps the component, one who only asks.  Only incidents and      *)
(* notices are kept over a restart.  Time is a clock of ticks.             *)
(***************************************************************************)
EXTENDS Integers, FiniteSets, TLC

CONSTANTS
    Visits,         \* who may look after the component: visit -> "round", "heal", "tap" or "ask"
    HasBook,        \* there is a playbook for it, and it is not on the forbidden list
    Persist, Telling, Cooldown, Stable, Window, Quiet,  \* the spans, in ticks
    MaxAttempts, MaxClock, MaxTurns, MaxCrashes, MaxWishes,
    NONE

VARIABLES
    clock, health, turns,   \* the world: time, how the component is, how often that changed
    board, running,         \* HealthBoard: the last state; a probe is marked as in flight
    obj, cur,               \* the incidents in memory, by first_seen, and the current one
    loaded, working,        \* Doctor._loaded, Doctor._working
    disk,                   \* doctor.sqlite3, by first_seen
    visit,                  \* where each visit is
    told, items,            \* Supervisor._told; the notices in proactive.sqlite3
    wishes,                 \* visits of people; since when a round may come again
    slept,
    ran, lost, crashes      \* actions begun for an incident, and those a crash kept from being booked

vars == <<clock, health, turns, board, running, obj, cur, loaded, working, disk, visit, told, items,
          wishes, slept, ran, lost, crashes>>
world == <<clock, health, turns, crashes, lost>>
notices == <<told, items>>
will == <<wishes, slept>>

Visitors == DOMAIN Visits
State == {"healthy", "unavailable", "auth_required"}
Times == 0..MaxClock
Incident == [last : Times, attempts : 0..MaxAttempts, next : 0..MaxClock + Cooldown,
             resolved : Times \cup {NONE}]
\* then: where it goes on after a wait; rec: the incident of its own attempt, until that is
\* booked; due: the incident to write; long: the outage is worth telling, as the round took it.
Away == [pc |-> "away", then |-> NONE, found |-> NONE, rec |-> NONE, due |-> NONE,
         long |-> FALSE, well |-> FALSE]
Busy == {"restore", "flight", "off", "ask", "judge", "planned", "acting",
         "settle", "verified", "book", "write", "tell"}

TypeOK ==
    /\ clock \in Times /\ health \in State /\ board \in State
    /\ \A f \in DOMAIN obj : f \in Times /\ obj[f] \in Incident
    /\ \A f \in DOMAIN disk : f \in Times /\ disk[f] \in Incident
    /\ cur # NONE => cur \in DOMAIN obj
    /\ \A v \in Visitors : visit[v].pc \in Busy \cup {"away"}

Goes(v, pc) == visit' = [visit EXCEPT ![v].pc = pc, ![v].then = NONE]
Leaves(v) == visit' = [visit EXCEPT ![v] = Away]
ByUser(v) == Visits[v] # "round"

----------------------------------------------------------------------------
(* The board.                                                              *)

\* refresh: nothing in flight, so a probe is made; else the last state has to do.
refresh(v, then) ==
    /\ running' = TRUE
    /\ visit' = [visit EXCEPT ![v].pc = IF running THEN then ELSE "flight",
                              ![v].then = IF running THEN NONE ELSE then]

\* What a probe may find: how the component is; nothing in time; an exception.  The last two,
\* and a component that is unavailable, are treated alike.
check == {health, "unavailable"}

_one(v) ==
    /\ visit[v].pc = "flight"
    /\ board' \in check
    /\ running' = FALSE
    /\ Goes(v, visit[v].then)
    /\ UNCHANGED <<world, obj, cur, loaded, working, disk, notices, ran, will>>

----------------------------------------------------------------------------
(* The incidents.                                                          *)

Fresh == [last |-> clock, attempts |-> 0, next |-> 0, resolved |-> NONE]

\* Too long ago, or well for long enough: what comes now is a new one.
IsOver(i) == \/ clock - i.last > Window
             \/ i.resolved # NONE /\ clock - i.resolved >= Stable

_touch == IF cur = NONE \/ IsOver(obj[cur])
          THEN [cur |-> clock, obj |-> clock :> Fresh @@ obj]
          ELSE [cur |-> cur, obj |-> [obj EXCEPT ![cur].last = clock, ![cur].resolved = NONE]]

\* Only the first to come reads the row, and is marked as having done so before it has.
_restore(v, then) ==
    /\ loaded' = TRUE
    /\ visit' = [visit EXCEPT ![v].pc = IF loaded THEN then ELSE "restore",
                              ![v].then = IF loaded THEN NONE ELSE then]

\* The store's rows are not read.
open_incident_None == {}

open_incident == {f \in DOMAIN disk : disk[f].resolved = NONE
                      /\ \A g \in DOMAIN disk : disk[g].resolved = NONE => disk[g].last <= disk[f].last}

Read(v) ==
    /\ visit[v].pc = "restore"
    /\ \/ /\ \/ open_incident = {}
             \/ \E f \in open_incident : clock - disk[f].last > Window
          /\ UNCHANGED <<obj, cur>>
       \/ \E f \in open_incident :
            /\ clock - disk[f].last <= Window
            /\ obj' = f :> disk[f] @@ obj
            /\ cur' = f
    /\ Goes(v, visit[v].then)
    /\ UNCHANGED <<world, board, running, loaded, working, disk, notices, ran, will>>

\* _resolve closes the current incident if it is open, and has it written.
_resolve(v, then, found) ==
    IF cur # NONE /\ obj[cur].resolved = NONE
    THEN /\ obj' = [obj EXCEPT ![cur].resolved = clock]
         /\ visit' = [visit EXCEPT ![v].pc = "write", ![v].then = then, ![v].due = cur,
                                   ![v].found = found, ![v].well = TRUE]
    ELSE /\ IF then = "away" THEN Leaves(v)
            ELSE visit' = [visit EXCEPT ![v].pc = then, ![v].found = found, ![v].well = TRUE]
         /\ UNCHANGED obj

\* _put writes the incident as it is when it comes to it.
_persist(v) ==
    /\ visit[v].pc = "write"
    /\ disk' = visit[v].due :> obj[visit[v].due] @@ disk
    /\ IF visit[v].then = "away" THEN Leaves(v)
       ELSE visit' = [visit EXCEPT ![v].pc = visit[v].then, ![v].then = NONE, ![v].due = NONE,
                                   ![v].rec = IF visit[v].then = "tell" THEN NONE ELSE @]
    /\ UNCHANGED <<world, board, running, obj, cur, loaded, working, notices, ran, will>>

----------------------------------------------------------------------------
(* A visit: look, judge, act, look again.                                  *)

\* The round sleeps a tick before each of its visits, the others come as they like.
Comes(v) ==
    IF ByUser(v) THEN wishes < MaxWishes /\ wishes' = wishes + 1 /\ UNCHANGED slept
    ELSE slept < clock /\ slept' = clock /\ UNCHANGED wishes

\* diagnose_all asks the probes whose state is stale (how long that takes is left out): what is
\* well is only ticked off, what is not is looked at on its own.
diagnose_all(v) ==
    \/ /\ visit[v].pc = "away" /\ Visits[v] \in {"round", "heal"} /\ Comes(v)
       /\ board' \in IF running THEN {board} ELSE {board} \cup check
       /\ _restore(v, IF board' = "healthy" THEN "off" ELSE "ask")
       /\ UNCHANGED <<world, running, obj, cur, working, disk, notices, ran>>
    \/ /\ visit[v].pc = "off"
       /\ _resolve(v, "away", "healthy")
       /\ UNCHANGED <<world, board, running, cur, loaded, working, disk, notices, ran, will>>

\* A tap and a question go to diagnose at once.
Come(v) ==
    /\ visit[v].pc = "away" /\ Visits[v] \in {"tap", "ask"} /\ Comes(v)
    /\ _restore(v, "ask")
    /\ UNCHANGED <<world, board, running, obj, cur, working, disk, notices, ran>>

Ask(v) ==
    /\ visit[v].pc = "ask"
    /\ refresh(v, "judge")
    /\ UNCHANGED <<world, board, obj, cur, loaded, working, disk, notices, ran, will>>

\* What diagnose concludes of a component that is not well.
Conclusion(v, i) ==
    IF board = "auth_required" THEN "human"
    ELSE IF HasBook /\ (ByUser(v) \/ clock - i >= Persist) THEN "repair"
    ELSE "none"

\* The owner's wish lifts the limit too.
_may_attempt_Wish(v, i) == ByUser(v) \/ (i.attempts < MaxAttempts /\ i.next <= clock)

_may_attempt(v, i) == i.attempts < MaxAttempts /\ (ByUser(v) \/ i.next <= clock)

\* The playbook runs for whoever comes.
Try_Together(v, i) ==
    IF _may_attempt(v, i.obj[i.cur])
    THEN /\ working' = TRUE
         /\ obj' = [i.obj EXCEPT ![i.cur].attempts = @ + 1]
         /\ ran' = [ran EXCEPT ![i.cur] = @ + 1]
         /\ visit' = [visit EXCEPT ![v].pc = "acting", ![v].rec = i.cur, ![v].found = "repair",
                                   ![v].long = ~ByUser(v) /\ clock - i.cur >= Telling]
    ELSE /\ obj' = i.obj
         /\ IF ByUser(v) THEN Leaves(v) ELSE Goes(v, "tell")
         /\ UNCHANGED <<working, ran>>

\* repair, up to its action: it reopens the incident, and then may not, or must wait its turn.
Try(v, i) ==
    IF _may_attempt(v, i.obj[i.cur]) /\ ~working
    THEN /\ working' = TRUE
         /\ obj' = [i.obj EXCEPT ![i.cur].attempts = @ + 1]
         /\ ran' = [ran EXCEPT ![i.cur] = @ + 1]
         /\ visit' = [visit EXCEPT ![v].pc = "acting", ![v].rec = i.cur, ![v].found = "repair",
                                   ![v].long = ~ByUser(v) /\ clock - i.cur >= Telling]
    ELSE /\ obj' = i.obj
         /\ IF ByUser(v) THEN Leaves(v) ELSE Goes(v, "tell")
         /\ UNCHANGED <<working, ran>>

\* One tap diagnoses and repairs without a pause; a list is diagnosed first as a whole.
diagnose(v) ==
    /\ visit[v].pc = "judge"
    /\ IF board = "healthy"
       THEN /\ _resolve(v, IF ByUser(v) THEN "away" ELSE "planned", "healthy")
            /\ UNCHANGED <<cur, working, ran>>
       ELSE LET i == _touch
                found == Conclusion(v, i.cur) IN
            /\ cur' = i.cur
            /\ IF Visits[v] = "tap" /\ found = "repair" THEN Try(v, i)
               ELSE /\ obj' = i.obj
                    /\ IF ~ByUser(v) \/ (Visits[v] = "heal" /\ found = "repair")
                       THEN visit' = [visit EXCEPT ![v].pc = "planned", ![v].found = found]
                       ELSE Leaves(v)
                    /\ UNCHANGED <<working, ran>>
    /\ UNCHANGED <<world, board, running, loaded, disk, notices, will>>

Outage == IF cur = NONE THEN 0 ELSE clock - cur

\* The list is gone through: repaired, or worth a word, or nothing.
heal_all(v) ==
    /\ visit[v].pc = "planned"
    /\ IF visit[v].found = "repair"
       THEN LET i == _touch IN Try(v, i) /\ cur' = i.cur
       ELSE /\ IF visit[v].found = "human" \/ Outage >= Telling THEN Goes(v, "tell") ELSE Leaves(v)
            /\ UNCHANGED <<obj, cur, working, ran>>
    /\ UNCHANGED <<world, board, running, loaded, disk, notices, will>>

\* The action ends, fails or takes too long; the component may be well for it.
Acted(v) ==
    /\ visit[v].pc = "acting"
    /\ working' = FALSE
    /\ health' \in {health, "healthy"}
    /\ Goes(v, "settle")
    /\ UNCHANGED <<clock, turns, crashes, lost, board, running, obj, cur, loaded, disk, notices, ran, will>>

\* verify waits some seconds, longer than reading a row takes, and asks the board.
verify(v) ==
    /\ visit[v].pc = "settle"
    /\ \A w \in Visitors : visit[w].pc # "restore"
    /\ refresh(v, "verified")
    /\ UNCHANGED <<world, board, obj, cur, loaded, working, disk, notices, ran, will>>

Verified(v) ==
    /\ visit[v].pc = "verified"
    /\ IF board = "healthy" THEN _resolve(v, "book", "repair")
       ELSE Goes(v, "book") /\ UNCHANGED obj
    /\ UNCHANGED <<world, board, running, cur, loaded, working, disk, notices, ran, will>>

\* The result and the rest until the next attempt, and then they are written.
Booked(v) ==
    LET well == visit[v].well IN
    /\ visit[v].pc = "book"
    /\ obj' = [obj EXCEPT ![visit[v].rec].next = clock + Cooldown]
    /\ visit' = [visit EXCEPT ![v].pc = "write", ![v].due = visit[v].rec,
                    ![v].then = IF ByUser(v) \/ (well /\ ~visit[v].long) THEN "away" ELSE "tell"]
    /\ UNCHANGED <<world, board, running, cur, loaded, working, disk, notices, ran, will>>

\* The supervisor speaks: what may be said once in a while, and once in a window.
SaidLately == told # NONE /\ clock - told < Quiet
Kind(v) == CASE visit[v].found = "repair" -> IF visit[v].well THEN "recovered" ELSE "failed"
             [] visit[v].found = "human" -> "human"
             [] OTHER -> "helpless"
\* NULL is different from NULL: nothing holds two notices apart but the memory.
add_item_Both(n) == items \cup {n}

add_item(n) == IF \E o \in items : o.window = n.window THEN items ELSE items \cup {n}

_tell(v) ==
    /\ visit[v].pc = "tell"
    /\ IF SaidLately THEN UNCHANGED notices
       ELSE /\ items' = add_item([window |-> clock \div Quiet, at |-> clock, life |-> crashes,
                                  kind |-> Kind(v), found |-> visit[v].found])
            /\ told' = clock
    /\ Leaves(v)
    /\ UNCHANGED <<world, board, running, obj, cur, loaded, working, disk, ran, will>>

----------------------------------------------------------------------------
(* The world.                                                              *)

\* Time goes on; a row is read or written within a tick.
Tick ==
    /\ clock < MaxClock
    /\ \A v \in Visitors : visit[v].pc \notin {"restore", "write"}
    /\ clock' = clock + 1
    /\ UNCHANGED <<health, turns, crashes, lost, board, running, obj, cur, loaded, working, disk, visit, notices, ran, will>>

Turn ==
    /\ turns < MaxTurns
    /\ turns' = turns + 1
    /\ health' \in State \ {health}
    /\ UNCHANGED <<clock, crashes, lost, board, running, obj, cur, loaded, working, disk, visit, notices, ran, will>>

\* The core ends and comes up again, a tick later.
Crash ==
    /\ crashes < MaxCrashes /\ clock < MaxClock
    /\ crashes' = crashes + 1
    /\ clock' = clock + 1
    /\ lost' = [f \in Times |-> lost[f] + Cardinality({v \in Visitors : visit[v].rec = f})]
    /\ board' = "unavailable" /\ running' = FALSE /\ obj' = <<>> /\ cur' = NONE
    /\ loaded' = FALSE /\ working' = FALSE /\ told' = NONE /\ slept' = clock + 1
    /\ visit' = [v \in Visitors |-> Away]
    /\ UNCHANGED <<health, turns, disk, items, ran, wishes>>

Init ==
    /\ clock = 0 /\ health \in State /\ turns = 0 /\ board = "unavailable" /\ running = FALSE
    /\ obj = <<>> /\ cur = NONE /\ loaded = FALSE /\ working = FALSE /\ disk = <<>>
    /\ visit = [v \in Visitors |-> Away] /\ told = NONE /\ items = {}
    /\ ran = [f \in Times |-> 0] /\ lost = ran /\ crashes = 0
    /\ wishes = 0 /\ slept = 0

Pass(v) == \/ _one(v) \/ Read(v) \/ _persist(v) \/ diagnose_all(v) \/ Ask(v) \/ diagnose(v)
           \/ heal_all(v) \/ Acted(v) \/ verify(v) \/ Verified(v) \/ Booked(v) \/ _tell(v)
Next == (\E v \in Visitors : Come(v) \/ Pass(v)) \/ Tick \/ Turn \/ Crash
Spec == Init /\ [][Next]_vars

----------------------------------------------------------------------------
\* Whoever comes together, the playbook runs once at a time: repair asks and marks without a
\* pause between.
OneRepairAtATime == \A v, w \in Visitors : visit[v].pc = "acting" /\ visit[w].pc = "acting" => v = w

\* An incident is touched MAX_ATTEMPTS times at most, over restarts too, except for the attempts
\* a crash caught between their action and their line in the store.
AttemptsAreBounded == \A f \in Times : ran[f] <= MaxAttempts + lost[f]

\* A single visitor counts on from what was open and recent when the core ended, unless the
\* component is well.
AttemptsSurvive ==
    Cardinality(Visitors) = 1 =>
    LET open == {f \in DOMAIN disk : disk[f].resolved = NONE /\ clock - disk[f].last <= Window} IN
    loaded /\ open # {} /\ (\A v \in Visitors : visit[v].pc # "restore")
      => /\ cur # NONE
         /\ cur \in open => obj[cur].attempts >= disk[cur].attempts
         /\ cur \in open \/ obj[cur].resolved # NONE

\* Two notices are never of one window, whatever was forgotten by a restart, and within a life
\* the second keeps the distance.
NoticesAreApart ==
    \A n, m \in items : n # m => /\ n.window # m.window
                                 /\ n.life = m.life => n.at - m.at >= Quiet \/ m.at - n.at >= Quiet

----------------------------------------------------------------------------
(* Not so.                                                                 *)

\* supervisor.py:8 names four cases; but a component found well on the second look is none of
\* them and its incident still counts: it is told as out of reach and without a remedy.
OnlyTroubleIsTold == \A n \in items : n.found # "healthy"

\* doctor.py:15 wants a fresh measurement after a repair; while another's probe is in flight the
\* board's last state is taken for one.
WellIsMeasured == [][\A v \in Visitors : visit[v].pc = "settle" => visit'[v].pc # "verified"]_vars

\* doctor.py:8 wants a diagnosis before a repair; the list is old when its turn comes, and what
\* got well meanwhile is restarted.
OnlyTheSickAreTouched == [][working' /\ ~working => board # "healthy"]_vars

\* doctor.py:57 wants flapping to be one incident; a closed row is not read back after a restart,
\* and what is seen while the row is read is a new one.
FlappingIsOneIncident ==
    [][\A f \in DOMAIN obj' \ DOMAIN obj : f \notin DOMAIN disk =>
         \A g \in DOMAIN disk : IsOver(disk[g])]_vars

\* doctor.py:20 wants rest after an attempt; it is set after the look that follows, and a round
\* in between does not see it.
RestIsKept == [][\A v \in Visitors : ~ByUser(v) /\ visit[v].pc # "acting" /\ visit'[v].pc = "acting" =>
                   \A w \in Visitors \ {v} : visit[w].rec # visit'[v].rec]_vars

\* supervisor.py:10 tells what needs the owner; a notice of another kind in the same window hides it.
NeedIsTold == [][\A v \in Visitors : visit[v].pc = "tell" /\ visit'[v].pc = "away" /\ Kind(v) = "human"
                   => \E n \in items' : n.kind = "human"]_vars

=============================================================================
