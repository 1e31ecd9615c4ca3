------------------------------- MODULE Voice --------------------------------
(***************************************************************************)
(* The life of a conversation on one connection of an endpoint             *)
(* (src/solvio/realtime/core_server.py, preroll.py): Session.open, close,  *)
(* begin_open, _on_provider_lost, _reconnect, and the tasks they start and *)
(* cancel.  The tasks share one event loop: what stands between two awaits *)
(* is one step.  What is said in a conversation is VoiceTurns.             *)
(***************************************************************************)
EXTENDS Integers, FiniteSets

CONSTANTS
    RECONNECT_ATTEMPTS,   \* tries to get a lost provider back
    MaxStarts,            \* bound: session_start messages of the endpoint
    MaxDrops,             \* bound: connections the provider loses
    Ages,                 \* bound: the audio that may be held, of "fresh", "between"
    NONE

VARIABLES
    active, closing, stopping,    \* Session.active, _closing, _stopping
    told,           \* _told_satellite
    attempted,      \* open_attempts > 0
    oa,             \* the attempt whose connection Session.oa is, 0 for None
    reader,         \* Session.reader, 0 for None
    crew,           \* timer, _tool_worker and _persist_worker, 0 for None
    opener,         \* _open_task, NONE or the attempt it was started with
    again,          \* _reconnect_task: NONE or its number
    tasks,          \* the tasks that live
    dying,          \* those of them that have been cancelled
    draining,       \* _draining
    opening,        \* the runs of open(), each under the task that makes it
    closer,         \* the run of close() past its early returns, and its caller
    preroll,        \* the audio held: of now, or of a conversation that ended
    link,           \* the endpoint: "up", "ending" while its handler closes, "gone"
    live,           \* connections to the provider
    count,          \* starts, drops, numbers given to tasks
    waits,          \* history: the endpoint was promised an answer
    heard           \* history: the ages of the audio a provider got out of the preroll

vars == <<active, closing, stopping, told, attempted, oa, reader, crew, opener, again, tasks, dying, draining,
          opening, closer, preroll, link, live, count, waits, heard>>

Numbers == 1..(MaxStarts + MaxDrops)
Kinds == {"reader", "timer", "worker", "opener", "again"}
Pump == <<"pump", 0>>
Alive(t) == t \in tasks \ dying
Idle == [by |-> NONE, pc |-> "idle"]
Inner == <<count, live, link, heard>>

TypeOK ==
    /\ {active, closing, stopping, told, attempted} \subseteq BOOLEAN
    /\ {oa, reader, crew} \subseteq {0} \cup Numbers /\ {opener, again} \subseteq {NONE} \cup Numbers
    /\ tasks \subseteq Kinds \X Numbers /\ dying \subseteq tasks /\ live \subseteq Numbers
    /\ DOMAIN opening \subseteq tasks /\ preroll \subseteq {"fresh", "between", "stale"}
    /\ closer.pc \in {"idle", "persist", "told"} /\ link \in {"up", "ending", "gone"}

----------------------------------------------------------------------------
(* Audio held until a provider can hear it: preroll.py.                    *)

\* Mutant: what is held outlives the conversation.
Cleared_Keeps == {"stale" : f \in preroll}

\* clear, first thing in close.
Cleared == {}

\* Said while a conversation closes, or not.
Age == IF closing THEN "between" ELSE "fresh"

\* feed_audio before the provider is there.
Feed ==
    /\ link = "up" /\ closer.by # Pump /\ (~active \/ oa = 0)
    /\ Age \in Ages /\ preroll' = preroll \cup {Age}
    /\ UNCHANGED <<active, closing, stopping, told, attempted, oa, reader, crew, opener, again, tasks, dying,
                   draining, opening, closer, waits, Inner>>

----------------------------------------------------------------------------
(* close.                                                                  *)

NothingOpen == reader = 0 /\ oa = 0 /\ ~active

\* Mutant: with nothing open there is nobody to tell.
Tells_OnlyOpen == FALSE

\* The shortcut tells an endpoint that waits for an open that failed, once.
Tells == attempted /\ ~told

\* The part of close before its first await: audio gone; nothing to do while it runs already;
\* the shortcut when nothing is open; or the long way, with the caller in it.
CloseBegins(by) ==
    /\ preroll' = Cleared
    /\ IF closing THEN UNCHANGED <<told, closing, active, closer, waits>>
       ELSE IF NothingOpen
       THEN /\ told' = (told \/ Tells) /\ waits' = (waits /\ ~Tells)
            /\ UNCHANGED <<closing, active, closer>>
       ELSE /\ closing' = TRUE /\ active' = FALSE /\ closer' = [by |-> by, pc |-> "persist"]
            /\ UNCHANGED <<told, waits>>

\* Messages are written (for five seconds at most), the gates emptied, the endpoint told.
CloseTells ==
    /\ closer.pc = "persist"
    /\ closer' = [closer EXCEPT !.pc = "told"] /\ told' = TRUE /\ waits' = FALSE
    /\ UNCHANGED <<active, closing, stopping, attempted, oa, reader, crew, opener, again, tasks, dying, draining,
                   opening, preroll, Inner>>

\* Mutant: the worker waits on.
Named_NoWorker == {<<"reader", reader>>, <<"timer", crew>>, <<"opener", opener>>, <<"again", again>>}

\* The tasks the fields name.
Named == {<<"reader", reader>>, <<"timer", crew>>, <<"worker", crew>>, <<"opener", opener>>, <<"again", again>>}

\* The connection closed, all tasks cancelled, the caller too; a caller that no field names
\* comes back to its own end.
CloseEnds ==
    /\ closer.pc = "told"
    /\ live' = live \ {oa} /\ oa' = 0
    /\ draining' = Named \cap tasks
    /\ dying' = dying \cup (Named \cap tasks) \cup {t \in tasks : t = closer.by /\ t[1] # "worker"}
    /\ reader' = 0 /\ crew' = 0 /\ opener' = NONE /\ again' = NONE
    /\ active' = FALSE /\ closing' = FALSE /\ closer' = Idle
    /\ link' = IF closer.by = Pump /\ link = "ending" THEN "gone" ELSE link
    /\ UNCHANGED <<stopping, told, attempted, tasks, opening, preroll, count, waits, heard>>

----------------------------------------------------------------------------
(* Tasks that end.                                                         *)

Ended(t) ==
    /\ tasks' = tasks \ {t} /\ dying' = dying \ {t}
    /\ opening' = [x \in DOMAIN opening \ {t} |-> opening[x]]

\* A cancelled task gets out of its await.
Unwinds(t) ==
    /\ t \in dying /\ closer.by # t /\ Ended(t)
    /\ UNCHANGED <<active, closing, stopping, told, attempted, oa, reader, crew, opener, again, draining, closer,
                   preroll, waits, Inner>>

\* A task that called close has come back from it at once.
Returns(t) ==
    /\ Alive(t) /\ t \in DOMAIN opening /\ opening[t].pc = "closed" /\ closer.by # t
    /\ Ended(t)
    /\ UNCHANGED <<active, closing, stopping, told, attempted, oa, reader, crew, opener, again, draining, closer,
                   preroll, waits, Inner>>

----------------------------------------------------------------------------
(* open, from begin_open and from _reconnect.                              *)

At(t, pc) == Alive(t) /\ t \in DOMAIN opening /\ opening[t].pc = pc /\ closer.by # t
Goes(t, pc) == opening' = [opening EXCEPT ![t].pc = pc]
Begun(t) == tasks' = tasks \cup {t} /\ opening' = [x \in DOMAIN opening \cup {t} |->
                IF x = t THEN [pc |-> "enter", try |-> 1, waits |-> {}, n |-> t[2]] ELSE opening[x]]

\* session_start: a task of its own, one at a time.
Start ==
    /\ link = "up" /\ closer.by # Pump /\ count.starts < MaxStarts
    /\ waits' = (link = "up")
    /\ IF opener # NONE /\ <<"opener", opener>> \in tasks
       THEN count' = [count EXCEPT !.starts = @ + 1] /\ UNCHANGED <<opener, tasks, opening>>
       ELSE /\ opener' = count.given + 1 /\ Begun(<<"opener", count.given + 1>>)
            /\ count' = [count EXCEPT !.starts = @ + 1, !.given = @ + 1]
    /\ UNCHANGED <<active, closing, stopping, told, attempted, oa, reader, crew, again, dying, draining, closer,
                   preroll, link, live, heard>>

\* The run of open is over, without or with an exception: of _open_guarded, of _reconnect.
Succeeds(t) == Ended(t) /\ UNCHANGED <<told, closing, active, closer, preroll>>
Fails(t) ==
    IF t[1] = "again" /\ opening[t].try < RECONNECT_ATTEMPTS
    THEN /\ opening' = [opening EXCEPT ![t].try = @ + 1, ![t].pc = "enter"]
         /\ UNCHANGED <<tasks, dying, told, closing, active, closer, waits, preroll>>
    ELSE /\ CloseBegins(t) /\ Goes(t, "closed") /\ UNCHANGED <<tasks, dying>>

\* Not while it closes, not twice; then the tasks of the last conversation are waited for.
Enter(t) ==
    /\ At(t, "enter")
    /\ IF closing \/ reader # 0
       THEN Succeeds(t) /\ UNCHANGED draining
       ELSE /\ opening' = [opening EXCEPT ![t].pc = "drain", ![t].waits = draining \ {t}]
            /\ draining' = {}
            /\ UNCHANGED <<tasks, dying, told, closing, active, closer, preroll>>
    /\ UNCHANGED <<stopping, attempted, oa, reader, crew, opener, again, waits, Inner>>

\* Mutant: nothing is waited for.
Drained_AtOnce(t) == TRUE

Drained(t) == opening[t].waits \cap tasks = {}

Drain(t) ==
    /\ At(t, "drain") /\ Drained(t)
    /\ stopping' = FALSE /\ attempted' = TRUE /\ Goes(t, "connect")
    /\ UNCHANGED <<active, closing, told, oa, reader, crew, opener, again, tasks, dying, draining, closer, preroll,
                   waits, Inner>>

\* ws_connect answers, or the attempt fails.
Connect(t) ==
    /\ At(t, "connect")
    /\ oa' = opening[t].n /\ live' = live \cup {opening[t].n} /\ Goes(t, "setup")
    /\ UNCHANGED <<active, closing, stopping, told, attempted, reader, crew, opener, again, tasks, dying, draining,
                   closer, preroll, link, count, waits, heard>>
ConnectFails(t) ==
    /\ At(t, "connect") /\ Fails(t)
    /\ UNCHANGED <<stopping, attempted, oa, reader, crew, opener, again, draining, Inner>>

\* Handshake, configuration and context are through: the tasks start, the held audio goes
\* out; then session_ready.
Setup(t) ==
    /\ At(t, "setup") /\ oa # 0
    /\ reader' = opening[t].n /\ crew' = opening[t].n /\ active' = TRUE
    /\ tasks' = tasks \cup {<<k, opening[t].n>> : k \in {"reader", "timer", "worker"}}
    /\ heard' = heard \cup preroll /\ preroll' = {}
    /\ Goes(t, "ready")
    /\ UNCHANGED <<closing, stopping, told, attempted, oa, opener, again, dying, draining, closer, link, live,
                   count, waits>>
SetupFails(t) ==
    /\ At(t, "setup") /\ Fails(t)
    /\ UNCHANGED <<stopping, attempted, oa, reader, crew, opener, again, draining, Inner>>

\* An endpoint that has gone makes the message fail; a reconnect sends none.
Ready(t) ==
    /\ At(t, "ready")
    /\ IF t[1] = "again" \/ link = "up"
       THEN Succeeds(t) /\ waits' = FALSE
       ELSE Fails(t)
    /\ UNCHANGED <<stopping, attempted, oa, reader, crew, opener, again, draining, Inner>>

Opens(t) == Enter(t) \/ Drain(t) \/ Connect(t) \/ ConnectFails(t) \/ Setup(t) \/ SetupFails(t) \/ Ready(t)

----------------------------------------------------------------------------
(* What ends a conversation.                                               *)

\* The endpoint: session_end, and the end of its connection.
End ==
    /\ link = "up" /\ closer.by # Pump /\ count.starts > 0
    /\ CloseBegins(Pump)
    /\ UNCHANGED <<stopping, attempted, oa, reader, crew, opener, again, tasks, dying, draining, opening, Inner>>
Disconnect ==
    /\ link = "up" /\ closer.by # Pump
    /\ CloseBegins(Pump)
    /\ link' = IF closer'.by = Pump THEN "ending" ELSE "gone"
    /\ UNCHANGED <<stopping, attempted, oa, reader, crew, opener, again, tasks, dying, draining, opening, live,
                   count, heard>>

\* The tasks of the conversation: the reader hears a stop word, the worker runs
\* end_conversation (_silent_stop), the timer finds nobody there.  A task of before, that no
\* field names, does the same.
Stop(t) ==
    /\ Alive(t) /\ closer.by # t /\ t[1] \in {"reader", "worker"} /\ (t[1] = "reader" => t[2] \in live)
    /\ ~stopping /\ ~closing /\ stopping' = TRUE
    /\ CloseBegins(t)
    /\ IF closer'.by = t \/ t[1] = "worker" THEN UNCHANGED <<tasks, dying, opening>> ELSE Ended(t)
    /\ UNCHANGED <<attempted, oa, reader, crew, opener, again, draining, Inner>>
Timeout(t) ==
    /\ Alive(t) /\ closer.by # t /\ t[1] = "timer"
    /\ CloseBegins(t)
    /\ IF closer'.by = t THEN UNCHANGED <<tasks, dying, opening>> ELSE Ended(t)
    /\ UNCHANGED <<stopping, attempted, oa, reader, crew, opener, again, draining, Inner>>

\* The provider drops a connection; the reader of it comes to its end.
Drop ==
    /\ count.drops < MaxDrops /\ count' = [count EXCEPT !.drops = @ + 1]
    /\ \E g \in live : live' = live \ {g}
    /\ UNCHANGED <<active, closing, stopping, told, attempted, oa, reader, crew, opener, again, tasks, dying,
                   draining, opening, closer, preroll, link, waits, heard>>

\* Mutant: the reader that has ended is still called the reader.
NoReader_Kept == reader

\* _on_provider_lost: the ended reader is no reader any more.
NoReader == 0

ReaderEnds(g) ==
    /\ Alive(<<"reader", g>>) /\ closer.by # <<"reader", g>> /\ g \notin live
    /\ IF closing \/ stopping \/ ~active \/ (again # NONE /\ <<"again", again>> \in tasks)
       THEN Ended(<<"reader", g>>) /\ UNCHANGED <<reader, again, active, oa, live, draining, count, waits>>
       ELSE /\ again' = count.given + 1 /\ count' = [count EXCEPT !.given = @ + 1]
            /\ reader' = NoReader /\ draining' = draining \ {<<"reader", reader>>}
            /\ active' = FALSE /\ oa' = 0 /\ live' = live \ {oa} /\ waits' = (link = "up")
            /\ tasks' = (tasks \ {<<"reader", g>>}) \cup {<<"again", count.given + 1>>}
            /\ opening' = [x \in DOMAIN opening \cup {<<"again", count.given + 1>>} |->
                    IF x \in DOMAIN opening THEN opening[x]
                    ELSE [pc |-> "enter", try |-> 1, waits |-> {}, n |-> count.given + 1]]
            /\ UNCHANGED dying
    /\ UNCHANGED <<closing, stopping, told, attempted, crew, opener, closer, preroll, link, heard>>

----------------------------------------------------------------------------
Init ==
    /\ active = FALSE /\ closing = FALSE /\ stopping = FALSE /\ told = FALSE /\ attempted = FALSE
    /\ oa = 0 /\ reader = 0 /\ crew = 0 /\ opener = NONE /\ again = NONE
    /\ tasks = {} /\ dying = {} /\ draining = {} /\ opening = [t \in {} |-> NONE] /\ closer = Idle
    /\ preroll = {} /\ link = "up" /\ live = {} /\ count = [starts |-> 0, drops |-> 0, given |-> 0]
    /\ waits = FALSE /\ heard = {}

Continues(t) == Opens(t) \/ Returns(t) \/ Unwinds(t)
Closes == CloseTells \/ CloseEnds

Next ==
    \/ Feed \/ Start \/ End \/ Disconnect \/ Drop \/ Closes
    \/ \E t \in tasks : Continues(t) \/ Stop(t) \/ Timeout(t)
    \/ \E g \in Numbers : ReaderEnds(g)

Spec == Init /\ [][Next]_vars

\* Every await comes back: connections and handshakes within twenty seconds, writing within
\* five; the reader hears the end of its connection; with nobody there the timer runs out.
Step ==
    \/ Closes \/ \E t \in tasks : Continues(t)
    \/ \E g \in Numbers : ReaderEnds(g) \/ (link = "gone" /\ Timeout(<<"timer", g>>))

FairSpec == Spec /\ WF_vars(Step)

----------------------------------------------------------------------------
(* Properties.                                                             *)

\* What nobody will cancel or wait for any more, of a conversation.
LeftBehind == {t \in tasks \ (Named \cup draining \cup UNION {opening[x].waits : x \in DOMAIN opening}) :
                  t[1] \in {"reader", "timer", "worker"}}

\* One reader, one timer and one worker at a time: none starts beside another that is named, waited
\* for or has still to unwind, and none is left behind, over ends, starts and drops in any order.
\* Only a conversation that has lost its provider and is being reconnected, or was, does both: the
\* timer and the worker of before are not cancelled (core_server.py:628, _on_provider_lost).
OneGeneration ==
    again = NONE /\ again' = NONE =>
        /\ \A t \in tasks' \ tasks, u \in tasks :
               t[1] = u[1] /\ t[1] \in {"reader", "timer", "worker"} => u \in LeftBehind
        /\ LeftBehind' \subseteq LeftBehind

\* No provider hears what was said before the last conversation began to close.
NoStaleAudio == "stale" \notin heard

\* Who asked for the first conversation, or lost it, and has not been told of an end, gets
\* it, or is told, unless a second start takes its place first.
Answered == (waits /\ ~told /\ count.starts = 1) ~> (~waits \/ link # "up" \/ count.starts > 1)

\* After the endpoint has gone nothing of it is left, where no provider was lost.
Nothing == tasks = {} /\ live = {} /\ oa = 0 /\ ~active
NothingLeft == (link = "gone") ~> (count.drops > 0 \/ Nothing)

\* What comments say and the code does not do.

\* There is exactly one worker.
OneWorker == Cardinality({t \in tasks : t[1] = "worker"}) <= 1

\* Every start is answered, or the endpoint is told.
AlwaysAnswered == waits ~> (~waits \/ link # "up")

\* A conversation begins only for an endpoint that waits for one.
OpensWhenAsked == [][~active /\ active' => waits]_vars

\* Held audio ends with the conversation.
HeldEndsWithIt == "between" \notin heard
=============================================================================
