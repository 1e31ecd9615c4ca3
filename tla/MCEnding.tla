----------------------------- MODULE MCEnding ------------------------------
(***************************************************************************)
(* Small instances, for TLC, of what must come to an end: calls, runs of   *)
(* agents, proactive tasks, rounds of the autopilot, streams of the        *)
(* broker, the lock of the backup, research in depth, conversations and    *)
(* their sockets. A behaviour is of one part and the others never leave    *)
(* their initial states; fair are the steps the code takes by itself and    *)
(* the passing of time, never those of a human, a provider or the world.   *)
(***************************************************************************)
EXTENDS Integers, Sequences, FiniteSets, TLC

CONSTANTS NULL, None

VARIABLES
    part,
    cap, call, outstanding, closing, req, auto, world, effects, drifts, restarts,  \* CapabilityCall
    run, rows, start, ctx, holder, loop, crashes,                                  \* AgentRun
    clock, tasks, runs, items, dueJobs, dueLoop, cmd, spent, seen,                 \* Proactive
    ms, crit, evid, blocking, asked, phases, tree, drv, cli,                       \* Autopilot
    reg, minted, file, jobs, request, book, buffered, day, starts,                 \* ProviderBroker
    source, blocks, sets, state, lock, job, plugged, count,                        \* Backup
    task, paused, pump, results, leases, remote, caller, reader, svc, deepCrashes,  \* Deep
    active, voiceClosing, stopping, told, attempted, oa, voiceReader, crew, opener,
    again, voiceTasks, dying, draining, opening, closer, preroll, link, live,
    voiceCount, waits, heard,                                                   \* Voice
    wire, out, prov, turn, answering, turn_no, text, responding, audio, resp, dead,
    queue, worker, gate, session, mine, cut, played, kept, judged,              \* VoiceTurns
    conn, busy, nonces, doorSpent, revoked, context, round, turns              \* VoiceDoor

callVars == <<cap, call, outstanding, closing, req, auto, world, effects, drifts, restarts>>
agentVars == <<run, rows, start, ctx, holder, loop, crashes>>
dueVars == <<clock, tasks, runs, items, dueJobs, dueLoop, cmd, spent, seen>>
pilotVars == <<ms, crit, evid, blocking, asked, phases, tree, drv, cli>>
brokerVars == <<reg, minted, file, jobs, request, book, buffered, day, starts>>
backupVars == <<source, blocks, sets, state, lock, job, plugged, count>>
deepVars == <<task, paused, pump, results, leases, remote, caller, reader, svc, deepCrashes>>
voiceVars == <<active, voiceClosing, stopping, told, attempted, oa, voiceReader, crew, opener, again,
        voiceTasks, dying, draining, opening, closer, preroll, link, live, voiceCount, waits, heard>>
talkVars == <<wire, out, prov, turn, answering, turn_no, text, responding, audio, resp, dead, queue,
        worker, gate, session, mine, cut, played, kept, judged>>
doorVars == <<conn, busy, nonces, doorSpent, revoked, context, round, turns>>
vars == <<part, callVars, agentVars, dueVars, pilotVars, brokerVars, backupVars, deepVars, voiceVars,
        talkVars, doorVars>>

----------------------------------------------------------------------------
\* Two calls of an automation, with a grant bound to a device.
Switch == [born |-> FALSE, reads |-> FALSE, registered |-> "ha_normal", risk |-> 1,
           classifier |-> TRUE, describer |-> FALSE]
Night == [origin |-> "background_automation", authority |-> TRUE, commanded |-> TRUE,
          untrusted |-> FALSE, auto |-> TRUE, named |-> FALSE]
Calls == INSTANCE CapabilityCall WITH
    Calls <- {"c1", "c2"}, Caps <- {Switch}, Inputs <- {Night}, Devices <- {"lamp", "other"}, Locks <- {},
    MaxRequests <- 1, MaxInFlight <- 2, MaxDrift <- 0, MaxRestarts <- 0

\* One run over a restart.
S(kind) == [kind |-> kind, optional |-> FALSE]
O(kind) == [kind |-> kind, optional |-> TRUE]
Agent == INSTANCE AgentRun WITH
    Runs <- {1}, Plans <- {<<S("specialist"), S("capability")>>, <<O("capability"), S("verify")>>},
    MaxRevisions <- 1, MaxAsks <- 1, MaxConcurrent <- 1, MaxCrashes <- 1

\* A daily task over a crash.
Daily == "a" :> [schedule |-> [kind |-> "daily"], notify |-> "bei_aenderung", cond |-> FALSE]
Chores == INSTANCE Proactive WITH
    Tasks <- {"a"}, Plans <- Daily, Values <- {"v", "w"}, Matching <- {"w"}, FailKinds <- {"failed", "approval_pending"},
    Day <- 2, Grace <- 1, MAX_FAILURES <- 2, BackoffCeiling <- 2, MAX_CONCURRENT <- 1, Horizon <- 3,
    MaxCrashes <- 1, MaxCommands <- 1, jobs <- dueJobs, loop <- dueLoop

\* Rounds that run out of quota.
Rounds == INSTANCE Autopilot WITH
    Deterministic <- {"gate"}, Semantic <- {}, MAX_ROUNDS <- 2, LOOP_THRESHOLD <- 2, MaxStarts <- 1,
    MaxCommits <- 1, MaxQuestions <- 1, MaxFindings <- 1, MaxTasks <- 1, Events <- {"quota"}

\* Two streams of a cage whose leases lapse.
Streams == INSTANCE ProviderBroker WITH
    Jobs <- {"a", "b"}, Principals <- {"deep"}, Owner <- [j \in {"a", "b"} |-> "deep"], Cages <- {"deep"},
    Anthropic <- {}, MaxLeases <- 2, MaxInflight <- 2, RequestsPerDay <- 2, TokensPerDay <- 4, MAX_BODY_BYTES <- 2,
    MAX_TOTAL_BUFFERED_BYTES <- 4, Sizes <- {1}, Estimates <- {2}, Usages <- {1}, MaxStarts <- 0,
    Events <- {"lapse", "writeFails"}, req <- request

\* Two processes and the lock of the volume.
Lock == INSTANCE Backup WITH
    Procs <- {1, 2}, Items <- <<"file", "bundle">>, Kind <- [file |-> "file", bundle |-> "bundle"],
    MaxVersions <- 1, MaxSets <- 2, MaxFaults <- 2, Faults <- {"crash", "unplug"},
    KEEP_DAILY <- 1, KEEP_WEEKLY <- 1, KEEP_MONTHLY <- 2, DaysPerWeek <- 2, WeeksPerMonth <- 1

\* A task of deep research whose deadline may come.
Research == INSTANCE Deep WITH
    Tasks <- {1}, Callers <- {1}, MaxEvents <- 1, MAX_SCHEMA_RETRIES <- 0, MaxCrashes <- 0,
    Faults <- {"deadline"}, crashes <- deepCrashes

\* A conversation whose provider may be lost.
Talk == INSTANCE Voice WITH
    RECONNECT_ATTEMPTS <- 1, MaxStarts <- 2, MaxDrops <- 1, Ages <- {}, NONE <- NULL,
    closing <- voiceClosing, reader <- voiceReader, tasks <- voiceTasks, count <- voiceCount

\* Its turns, with a tool that is called.
Said == INSTANCE VoiceTurns WITH
    MaxTurns <- 1, MaxResponses <- 2, MaxRounds <- 1, MaxCloses <- 0, Interrupts <- TRUE

\* The door, with a phone that is revoked.
Door == INSTANCE VoiceDoor WITH
    Satellites <- {"s1"}, Phones <- {"p1"}, Devices <- {"x"}, MaxTurns <- 0, MaxCalls <- 0,
    NONE <- NULL, spent <- doorSpent

----------------------------------------------------------------------------
Init == /\ part \in {"calls", "agent", "tasks", "rounds", "streams", "lock", "research", "voice", "turns", "door"}
        /\ Calls!Init /\ Agent!Init /\ Chores!Init /\ Rounds!Init /\ Streams!Init /\ Lock!Init
        /\ Research!Init /\ Talk!Init /\ Said!Init /\ Door!Init
        /\ part # "calls" => world = "lamp"

\* Everything that is not of a part.
OnlyCalls == part = "calls" /\ UNCHANGED <<part, agentVars, dueVars, pilotVars, brokerVars, backupVars,
                              deepVars, voiceVars, talkVars, doorVars>>
OnlyAgent == part = "agent" /\ UNCHANGED <<part, callVars, dueVars, pilotVars, brokerVars, backupVars,
                              deepVars, voiceVars, talkVars, doorVars>>
OnlyChores == part = "tasks" /\ UNCHANGED <<part, callVars, agentVars, pilotVars, brokerVars, backupVars,
                               deepVars, voiceVars, talkVars, doorVars>>
OnlyRounds == part = "rounds" /\ UNCHANGED <<part, callVars, agentVars, dueVars, brokerVars, backupVars,
                               deepVars, voiceVars, talkVars, doorVars>>
OnlyStreams == part = "streams" /\ UNCHANGED <<part, callVars, agentVars, dueVars, pilotVars, backupVars,
                                deepVars, voiceVars, talkVars, doorVars>>
OnlyLock == part = "lock" /\ UNCHANGED <<part, callVars, agentVars, dueVars, pilotVars, brokerVars,
                             deepVars, voiceVars, talkVars, doorVars>>
OnlyResearch == part = "research" /\ UNCHANGED <<part, callVars, agentVars, dueVars, pilotVars, brokerVars,
                                 backupVars, voiceVars, talkVars, doorVars>>
OnlyTalk == part = "voice" /\ UNCHANGED <<part, callVars, agentVars, dueVars, pilotVars, brokerVars,
                             backupVars, deepVars, talkVars, doorVars>>
OnlySaid == part = "turns" /\ UNCHANGED <<part, callVars, agentVars, dueVars, pilotVars, brokerVars,
                             backupVars, deepVars, voiceVars, doorVars>>
OnlyDoor == part = "door" /\ UNCHANGED <<part, callVars, agentVars, dueVars, pilotVars, brokerVars,
                             backupVars, deepVars, voiceVars, talkVars>>

Next ==
    \/ (OnlyCalls /\ Calls!Next) \/ (OnlyAgent /\ Agent!Next) \/ (OnlyChores /\ Chores!Next)
    \/ (OnlyRounds /\ Rounds!Next) \/ (OnlyStreams /\ Streams!Next) \/ (OnlyLock /\ Lock!Next)
    \/ (OnlyResearch /\ Research!Next) \/ (OnlyTalk /\ Talk!Next) \/ (OnlySaid /\ Said!Next)
    \/ (OnlyDoor /\ Door!Next)

Fairness ==
    /\ \A c \in {"c1", "c2"} : WF_callVars(part = "calls" /\ Calls!Advance(c))
    /\ WF_callVars(part = "calls" /\ Calls!Close)
    /\ WF_agentVars(part = "agent" /\ (Agent!Tick \/ Agent!Advance(1)))
    /\ WF_agentVars(part = "agent" /\ Agent!Expire(1))
    /\ WF_dueVars(part = "tasks" /\ Chores!Scheduler) /\ WF_dueVars(part = "tasks" /\ Chores!Job("a"))
    /\ WF_pilotVars(part = "rounds" /\ Rounds!Drive)
    /\ \A j \in {"a", "b"} : WF_brokerVars(part = "streams" /\ Streams!Cut(j))
    /\ \A p \in {1, 2} : WF_backupVars(part = "lock" /\ Lock!Run(p))
    /\ WF_deepVars(part = "research" /\ (Research!Attempt(1) \/ Research!Ending(1)))
    /\ WF_deepVars(part = "research" /\ Research!Deadline(1))
    /\ WF_deepVars(part = "research" /\ Research!Turn(1)) /\ WF_deepVars(part = "research" /\ Research!Read)
    /\ WF_voiceVars(part = "voice" /\ Talk!Step)
    /\ WF_talkVars(part = "turns" /\ Said!Step)
    /\ WF_doorVars(part = "door" /\ Door!Step)

Spec == Init /\ [][Next]_vars /\ Fairness

----------------------------------------------------------------------------
(* Properties.                                                             *)

\* What is owed in a part and when it is paid: the two sides of CallsEnd, RunsEnd, RunEnds,
\* DueMovesOn, CutStreamsEnd, LockIsReleased, PumpsEnd, Answered, IdleComesBack and
\* RevokedLeaves, then of the other call, StartResolves, JobsEnd, the other stream and
\* process, ReadersEnd and NothingLeft.  A behaviour is of one part.
Owed(i) ==
    CASE part = "calls" -> call[<<"c1", "c2">>[i]].pc \in Calls!Steps
      [] part = "agent" -> IF i = 1 THEN 1 \in Agent!open_runs ELSE start[1].note = "WAITING"
      [] part = "rounds" -> drv.pc # "idle"
      [] part = "tasks" -> IF i = 1 THEN Chores!Due("a") ELSE dueJobs["a"] # NULL
      [] part = "streams" -> request[<<"a", "b">>[i]].aborted
      [] part = "lock" -> lock = i
      [] part = "research" -> IF i = 1 THEN pump[1].pc = "starting" ELSE reader.pc \in {"replay", "look", "live"}
      [] part = "voice" -> IF i = 1 THEN waits /\ ~told /\ voiceCount.starts = 1 ELSE link = "gone"
      [] part = "turns" -> responding
      [] part = "door" -> conn["p1"].pc = "in" /\ conn["p1"].device \in revoked
Paid(i) ==
    CASE part = "calls" -> call[<<"c1", "c2">>[i]].pc = "done"
      [] part = "agent" -> IF i = 1 THEN Agent!Ended(1) \/ run[1].state = "WAITING_USER"
                           ELSE start[1].note \in {"TAKEN", "CLOSED"}
      [] part = "rounds" -> drv.pc = "idle"
      [] part = "tasks" -> IF i = 1 THEN ~Chores!Due("a") \/ dueLoop.pc = "down" ELSE dueJobs["a"] = NULL
      [] part = "streams" -> request[<<"a", "b">>[i]].pc \in {"answered", "none"}
      [] part = "lock" -> lock # i
      [] part = "research" -> IF i = 1 THEN pump[1].pc \in {"none", "done"} ELSE reader.pc \in {"off", "ended"}
      [] part = "voice" -> IF i = 1 THEN ~waits \/ link # "up" \/ voiceCount.starts > 1 ELSE voiceCount.drops > 0 \/ Talk!Nothing
      [] part = "turns" -> ~responding \/ Said!Awaited
      [] part = "door" -> conn["p1"].pc = "gone" \/ Door!Unwatched("p1")

\* Every call comes back however its approval goes; a run ends or waits for a human, and what
\* waits for the start of a run is taken up or closed; the driver of a milestone stops; a
\* task that is due does not stay due and what has been claimed is finished; a stream whose
\* lease lapsed is answered; the lock of the backup does not outlive its run; a task of
\* research in depth that was started comes to its end, and who follows it learns of it; who
\* waits for the first conversation of a connection gets it or is told, until a second start
\* takes its place; nothing is left of one whose endpoint has gone and whose provider was never
\* lost; none is taken to be answering for ever while the provider has nothing to say; and a
\* phone that is revoked has to go, unless the look of its watch has raised.
EverythingEnds == (Owed(1) ~> Paid(1)) /\ (Owed(2) ~> Paid(2))
=============================================================================
