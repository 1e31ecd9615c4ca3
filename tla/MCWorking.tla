----------------------------- MODULE MCWorking -----------------------------
(***************************************************************************)
(* Small instances, for TLC, of the work that goes on without a dialogue:  *)
(* runs of agents, milestones of the autopilot, proactive tasks, the       *)
(* broker that buys their inference, research in depth, jobs of remote     *)
(* nodes, the doctor; and of conversations, with what is learned from      *)
(* them. A behaviour is of one part, the others stay Off.                  *)
(***************************************************************************)
EXTENDS Integers, Sequences, FiniteSets, TLC

CONSTANTS NULL, Off

VARIABLES
    part,
    run, rows, start, ctx, holder, loop, crashes,                      \* AgentRun
    ms, crit, evid, blocking, asked, phases, tree, drv, cli,           \* Autopilot
    clock, tasks, runs, items, dueJobs, dueLoop, cmd, spent, seen,     \* Proactive
    reg, minted, file, jobs, req, book, buffered, day, starts,         \* ProviderBroker
    task, paused, pump, results, leases, remote, caller, reader, svc, deepCrashes, \* Deep
    core, jailLock, env, exec, wide, port, launches,                    \* DeepService
    active, closing, stopping, told, attempted, oa, voiceReader, crew, opener, again,
    voiceTasks, dying, draining, opening, closer, preroll, link, live, count, waits,
    heard,                                                              \* Voice
    wire, out, prov, turn, answering, turn_no, text, responding, audio, resp, dead,
    queue, worker, gate, session, mine, cut, played, kept, judged,      \* VoiceTurns
    conn, busy, nonces, doorSpent, revoked, context, round, turns,      \* VoiceDoor
    recs, cands, supp, learnQueue, w, app, said, learnCrashes,          \* Learning
    docClock, health, docTurns, board, running, obj, cur, loaded, working, disk, visit,
    docTold, docItems, wishes, slept, ran, lost, docCrashes,            \* Doctor
    row, farSeen, farRemote, call, given, res, mem, calls, losses, farCrashes  \* Remote

agentVars == <<run, rows, start, ctx, holder, loop, crashes>>
pilotVars == <<ms, crit, evid, blocking, asked, phases, tree, drv, cli>>
dueVars == <<clock, tasks, runs, items, dueJobs, dueLoop, cmd, spent, seen>>
brokerVars == <<reg, minted, file, jobs, req, book, buffered, day, starts>>
deepVars == <<task, paused, pump, results, leases, remote, caller, reader, svc, deepCrashes>>
jailVars == <<core, jailLock, env, exec, wide, port, launches>>
voiceVars == <<active, closing, stopping, told, attempted, oa, voiceReader, crew, opener, again,
        voiceTasks, dying, draining, opening, closer, preroll, link, live, count, waits, heard>>
talkVars == <<wire, out, prov, turn, answering, turn_no, text, responding, audio, resp, dead, queue,
        worker, gate, session, mine, cut, played, kept, judged>>
doorVars == <<conn, busy, nonces, doorSpent, revoked, context, round, turns>>
learnVars == <<recs, cands, supp, learnQueue, w, app, said, learnCrashes>>
docVars == <<docClock, health, docTurns, board, running, obj, cur, loaded, working, disk, visit, docTold,
        docItems, wishes, slept, ran, lost, docCrashes>>
farVars == <<row, farSeen, farRemote, call, given, res, mem, calls, losses, farCrashes>>
vars == <<part, agentVars, pilotVars, dueVars, brokerVars, deepVars, jailVars, voiceVars, talkVars,
        doorVars, learnVars, docVars, farVars>>

agentOff == /\ run = Off /\ rows = Off /\ start = Off /\ ctx = Off /\ holder = Off /\ loop = Off /\ crashes = Off
pilotOff == /\ ms = Off /\ crit = Off /\ evid = Off /\ blocking = Off /\ asked = Off /\ phases = Off
            /\ tree = Off /\ drv = Off /\ cli = Off
dueOff == /\ clock = Off /\ tasks = Off /\ runs = Off /\ items = Off /\ dueJobs = Off /\ dueLoop = Off
          /\ cmd = Off /\ spent = Off /\ seen = Off
brokerOff == /\ reg = Off /\ minted = Off /\ file = Off /\ jobs = Off /\ req = Off /\ book = Off
             /\ buffered = Off /\ day = Off /\ starts = Off
deepOff == /\ task = Off /\ paused = Off /\ pump = Off /\ results = Off /\ leases = Off /\ remote = Off
           /\ caller = Off /\ reader = Off /\ svc = Off /\ deepCrashes = Off
jailOff == /\ core = Off /\ jailLock = Off /\ env = Off /\ exec = Off /\ wide = Off /\ port = Off
           /\ launches = Off
voiceOff == /\ active = Off /\ closing = Off /\ stopping = Off /\ told = Off /\ attempted = Off /\ oa = Off
            /\ voiceReader = Off /\ crew = Off /\ opener = Off /\ again = Off /\ voiceTasks = Off
            /\ dying = Off /\ draining = Off /\ opening = Off /\ closer = Off /\ preroll = Off
            /\ link = Off /\ live = Off /\ count = Off /\ waits = Off /\ heard = Off
talkOff == /\ wire = Off /\ out = Off /\ prov = Off /\ turn = Off /\ answering = Off /\ turn_no = Off
           /\ text = Off /\ responding = Off /\ audio = Off /\ resp = Off /\ dead = Off /\ queue = Off
           /\ worker = Off /\ gate = Off /\ session = Off /\ mine = Off /\ cut = Off /\ played = Off
           /\ kept = Off /\ judged = Off
doorOff == /\ conn = Off /\ busy = Off /\ nonces = Off /\ doorSpent = Off /\ revoked = Off
           /\ context = Off /\ round = Off /\ turns = Off
learnOff == /\ recs = Off /\ cands = Off /\ supp = Off /\ learnQueue = Off /\ w = Off /\ app = Off
            /\ said = Off /\ learnCrashes = Off
docOff == /\ docClock = Off /\ health = Off /\ docTurns = Off /\ board = Off /\ running = Off
          /\ obj = Off /\ cur = Off /\ loaded = Off /\ working = Off /\ disk = Off /\ visit = Off
          /\ docTold = Off /\ docItems = Off /\ wishes = Off /\ slept = Off /\ ran = Off /\ lost = Off
          /\ docCrashes = Off
farOff == /\ row = Off /\ farSeen = Off /\ farRemote = Off /\ call = Off /\ given = Off /\ res = Off
          /\ mem = Off /\ calls = Off /\ losses = Off /\ farCrashes = Off

----------------------------------------------------------------------------
(* Runs of agents.                                                         *)

S(kind) == [kind |-> kind, optional |-> FALSE]
O(kind) == [kind |-> kind, optional |-> TRUE]

\* A specialist before a call, an optional call and a hint, a step without its argument.
Mixed == {<<S("specialist"), S("capability")>>,
          <<O("capability"), S("verify")>>,
          <<S("flawed")>>, <<O("flawed"), O("specialist"), S("knowledge_proposal")>>}

\* One run over two restarts; two runs that want the one slot.
Agent == INSTANCE AgentRun WITH
    Runs <- {1}, Plans <- Mixed, MaxRevisions <- 1, MaxAsks <- 1, MaxConcurrent <- 1, MaxCrashes <- 2
Queue == INSTANCE AgentRun WITH
    Runs <- {1, 2}, Plans <- {<<S("capability")>>}, MaxRevisions <- 0, MaxAsks <- 1, MaxConcurrent <- 1, MaxCrashes <- 0
ASSUME AgentAssumption == Agent!ConstantsOK /\ Queue!ConstantsOK

AgentInit == /\ pilotOff /\ dueOff /\ brokerOff /\ deepOff /\ jailOff /\ voiceOff /\ talkOff /\ doorOff
             /\ learnOff /\ docOff /\ farOff
             /\ \/ part = "agent" /\ Agent!Init
                \/ part = "queue" /\ Queue!Init
Agents == /\ UNCHANGED <<part, pilotVars, dueVars, brokerVars, deepVars, jailVars, voiceVars, talkVars,
                          doorVars, learnVars, docVars, farVars>>
          /\ \/ part = "agent" /\ Agent!Next
             \/ part = "queue" /\ Queue!Next

----------------------------------------------------------------------------
(* Milestones.                                                             *)

\* Rounds that crash and lack a credential; an owner who stops, asks and is asked; a quota.
Milestone == INSTANCE Autopilot WITH
    Deterministic <- {"gate"}, Semantic <- {"review"}, MAX_ROUNDS <- 1, LOOP_THRESHOLD <- 2, MaxStarts <- 2,
    MaxCommits <- 1, MaxQuestions <- 1, MaxFindings <- 1, MaxTasks <- 1, Events <- {"crash"}
Asking == INSTANCE Autopilot WITH
    Deterministic <- {"gate"}, Semantic <- {}, MAX_ROUNDS <- 1, LOOP_THRESHOLD <- 2, MaxStarts <- 2,
    MaxCommits <- 1, MaxQuestions <- 1, MaxFindings <- 1, MaxTasks <- 1,
    Events <- {"stop", "cliCrash", "proposal", "env", "credential"}
Quota == INSTANCE Autopilot WITH
    Deterministic <- {"gate"}, Semantic <- {"review"}, MAX_ROUNDS <- 2, LOOP_THRESHOLD <- 2, MaxStarts <- 1,
    MaxCommits <- 1, MaxQuestions <- 1, MaxFindings <- 0, MaxTasks <- 1, Events <- {"quota"}

PilotInit == /\ agentOff /\ dueOff /\ brokerOff /\ deepOff /\ jailOff /\ voiceOff /\ talkOff /\ doorOff
             /\ learnOff /\ docOff /\ farOff
             /\ \/ part = "milestone" /\ Milestone!Init
                \/ part = "asking" /\ Asking!Init
                \/ part = "quota" /\ Quota!Init
Pilots == /\ UNCHANGED <<part, agentVars, dueVars, brokerVars, deepVars, jailVars, voiceVars, talkVars,
                          doorVars, learnVars, docVars, farVars>>
          /\ \/ part = "milestone" /\ Milestone!Next
             \/ part = "asking" /\ Asking!Next
             \/ part = "quota" /\ Quota!Next

----------------------------------------------------------------------------
(* Proactive tasks.                                                        *)

Plan(schedule, notify) == [schedule |-> schedule, notify |-> notify, cond |-> FALSE]
Daily == ("a" :> Plan([kind |-> "daily"], "bei_aenderung"))
Mix == ("a" :> Plan([kind |-> "interval", every |-> 2], "bei_aenderung")
        @@ "b" :> Plan([kind |-> "one_shot", at |-> 1], "immer"))

\* An interval and a timer over a crash; a daily task after a long sleep.
Two == INSTANCE Proactive WITH
    Tasks <- {"a", "b"}, Plans <- Mix, Values <- {"v"}, Matching <- {"v"}, FailKinds <- {"failed"}, Day <- 2, Grace <- 1,
    MAX_FAILURES <- 2, BackoffCeiling <- 2, MAX_CONCURRENT <- 1, Horizon <- 2, MaxCrashes <- 1, MaxCommands <- 1,
    jobs <- dueJobs, loop <- dueLoop
CatchUp == INSTANCE Proactive WITH
    Tasks <- {"a"}, Plans <- Daily, Values <- {"v"}, Matching <- {"v"}, FailKinds <- {"failed"}, Day <- 2, Grace <- 1,
    MAX_FAILURES <- 2, BackoffCeiling <- 2, MAX_CONCURRENT <- 1, Horizon <- 4, MaxCrashes <- 1, MaxCommands <- 1,
    jobs <- dueJobs, loop <- dueLoop

DueInit == /\ agentOff /\ pilotOff /\ brokerOff /\ deepOff /\ jailOff /\ voiceOff /\ talkOff /\ doorOff
           /\ learnOff /\ docOff /\ farOff
           /\ \/ part = "two" /\ Two!Init
              \/ part = "catch up" /\ CatchUp!Init
Dues == /\ UNCHANGED <<part, agentVars, pilotVars, brokerVars, deepVars, jailVars, voiceVars, talkVars,
                        doorVars, learnVars, docVars, farVars>>
        /\ \/ part = "two" /\ Two!Next
           \/ part = "catch up" /\ CatchUp!Next

----------------------------------------------------------------------------
(* The broker.                                                             *)

\* Tasks of a cage that come and go over a restart; calls of the core with leases that lapse.
Cage == INSTANCE ProviderBroker WITH
    Jobs <- {"a", "b"}, Principals <- {"deep"}, Owner <- [j \in {"a", "b"} |-> "deep"], Cages <- {"deep"},
    Anthropic <- {}, MaxLeases <- 2, MaxInflight <- 2, RequestsPerDay <- 2, TokensPerDay <- 4, MAX_BODY_BYTES <- 2,
    MAX_TOTAL_BUFFERED_BYTES <- 4, Sizes <- {1, 3}, Estimates <- {2}, Usages <- {1}, MaxStarts <- 1,
    Events <- {"restart", "midnight"}
CoreCalls == INSTANCE ProviderBroker WITH
    Jobs <- {"a", "b"}, Principals <- {"core"}, Owner <- [j \in {"a", "b"} |-> "core"], Cages <- {},
    Anthropic <- {"core"}, MaxLeases <- 2, MaxInflight <- 2, RequestsPerDay <- 2, TokensPerDay <- 4, MAX_BODY_BYTES <- 2,
    MAX_TOTAL_BUFFERED_BYTES <- 4, Sizes <- {1, 3}, Estimates <- {2}, Usages <- {1}, MaxStarts <- 1,
    Events <- {"credential", "lapse", "midnight", "restart"}

BrokerInit == /\ agentOff /\ pilotOff /\ dueOff /\ deepOff /\ jailOff /\ voiceOff /\ talkOff /\ doorOff
              /\ learnOff /\ docOff /\ farOff
              /\ \/ part = "cage" /\ Cage!Init
                 \/ part = "core" /\ CoreCalls!Init
Brokers == /\ UNCHANGED <<part, agentVars, pilotVars, dueVars, deepVars, jailVars, voiceVars, talkVars,
                           doorVars, learnVars, docVars, farVars>>
           /\ \/ part = "cage" /\ Cage!Next
              \/ part = "core" /\ CoreCalls!Next

----------------------------------------------------------------------------
(* Deep research. *)

\* A task with a run that may be cut off or lost; a crash of the core and an executor that is gone.
Cut == INSTANCE Deep WITH
    Tasks <- {1}, Callers <- {1}, MaxEvents <- 2, MAX_SCHEMA_RETRIES <- 1, MaxCrashes <- 0,
    Faults <- {"cut", "lost", "deadline"}, crashes <- deepCrashes
Crashed == INSTANCE Deep WITH
    Tasks <- {1}, Callers <- {1}, MaxEvents <- 3, MAX_SCHEMA_RETRIES <- 0, MaxCrashes <- 1,
    Faults <- {"unreachable", "crash"}, crashes <- deepCrashes

ASSUME DeepAssumption == Cut!ConstantsOK /\ Crashed!ConstantsOK

DeepInit == /\ agentOff /\ pilotOff /\ dueOff /\ brokerOff /\ jailOff /\ voiceOff /\ talkOff /\ doorOff
            /\ learnOff /\ docOff /\ farOff
            /\ \/ part = "cut" /\ Cut!Init
               \/ part = "deep crash" /\ Crashed!Init
Deeps == /\ UNCHANGED <<part, agentVars, pilotVars, dueVars, brokerVars, jailVars, voiceVars, talkVars,
                         doorVars, learnVars, docVars, farVars>>
         /\ \/ part = "cut" /\ Cut!Next
            \/ part = "deep crash" /\ Crashed!Next

----------------------------------------------------------------------------
(* The jail of deep research. *)

\* Three processes of the core that come and go.
Jail == INSTANCE DeepService WITH
    Cores <- {1, 2, 3}, NONE <- NULL, MaxStarts <- 4, lock <- jailLock

ASSUME JailAssumption == Jail!CoresOK

JailInit == /\ agentOff /\ pilotOff /\ dueOff /\ brokerOff /\ deepOff /\ voiceOff /\ talkOff /\ doorOff
            /\ learnOff /\ docOff /\ farOff
            /\ part = "jail" /\ Jail!Init
Jails == /\ UNCHANGED <<part, agentVars, pilotVars, dueVars, brokerVars, deepVars, voiceVars, talkVars,
                         doorVars, learnVars, docVars, farVars>>
         /\ part = "jail" /\ Jail!Next

----------------------------------------------------------------------------
(* The life of conversations. *)

\* Two conversations on one connection; two while the provider is lost; one that gets it back.
TwoTalks == INSTANCE Voice WITH
    RECONNECT_ATTEMPTS <- 2, MaxStarts <- 2, MaxDrops <- 0, Ages <- {"fresh", "between"},
    NONE <- NULL, reader <- voiceReader, tasks <- voiceTasks
LostTalks == INSTANCE Voice WITH
    RECONNECT_ATTEMPTS <- 1, MaxStarts <- 2, MaxDrops <- 1, Ages <- {},
    NONE <- NULL, reader <- voiceReader, tasks <- voiceTasks
Regained == INSTANCE Voice WITH
    RECONNECT_ATTEMPTS <- 2, MaxStarts <- 1, MaxDrops <- 1, Ages <- {"fresh", "between"},
    NONE <- NULL, reader <- voiceReader, tasks <- voiceTasks

VoiceInit == /\ agentOff /\ pilotOff /\ dueOff /\ brokerOff /\ deepOff /\ jailOff /\ talkOff /\ doorOff
             /\ learnOff /\ docOff /\ farOff
             /\ \/ part = "voice" /\ TwoTalks!Init
                \/ part = "lost" /\ LostTalks!Init
                \/ part = "regained" /\ Regained!Init
Voices == /\ UNCHANGED <<part, agentVars, pilotVars, dueVars, brokerVars, deepVars, jailVars, talkVars,
                          doorVars, learnVars, docVars, farVars>>
          /\ \/ part = "voice" /\ TwoTalks!Next
             \/ part = "lost" /\ LostTalks!Next
             \/ part = "regained" /\ Regained!Next

----------------------------------------------------------------------------
(* What is said in them. *)

\* Somebody interrupts; two rounds of one turn, and a conversation that ends over them.
Interrupted == INSTANCE VoiceTurns WITH
    MaxTurns <- 2, MaxResponses <- 2, MaxRounds <- 1, MaxCloses <- 0, Interrupts <- TRUE
Remembering == INSTANCE VoiceTurns WITH
    MaxTurns <- 1, MaxResponses <- 3, MaxRounds <- 2, MaxCloses <- 1, Interrupts <- FALSE

TalkInit == /\ agentOff /\ pilotOff /\ dueOff /\ brokerOff /\ deepOff /\ jailOff /\ voiceOff /\ doorOff
            /\ learnOff /\ docOff /\ farOff
            /\ \/ part = "interrupted" /\ Interrupted!Init
               \/ part = "remembering" /\ Remembering!Init
Talks == /\ UNCHANGED <<part, agentVars, pilotVars, dueVars, brokerVars, deepVars, jailVars, voiceVars,
                         doorVars, learnVars, docVars, farVars>>
         /\ \/ part = "interrupted" /\ Interrupted!Next
            \/ part = "remembering" /\ Remembering!Next

----------------------------------------------------------------------------
(* Who talks, and as whom. *)

\* Two phones at the door with a satellite inside; calls of a phone, a satellite and the socket.
Door == INSTANCE VoiceDoor WITH
    Satellites <- {"s1"}, Phones <- {"p1", "p2"}, Devices <- {"x"}, MaxTurns <- 0, MaxCalls <- 0,
    NONE <- NULL, spent <- doorSpent
Callers == INSTANCE VoiceDoor WITH
    Satellites <- {"s1"}, Phones <- {"p1"}, Devices <- {"x"}, MaxTurns <- 2, MaxCalls <- 2,
    NONE <- NULL, spent <- doorSpent

DoorInit == /\ agentOff /\ pilotOff /\ dueOff /\ brokerOff /\ deepOff /\ jailOff /\ voiceOff /\ talkOff
            /\ learnOff /\ docOff /\ farOff
            /\ \/ part = "door" /\ Door!Init
               \/ part = "callers" /\ Callers!Init
Doors == /\ UNCHANGED <<part, agentVars, pilotVars, dueVars, brokerVars, deepVars, jailVars, voiceVars,
                         talkVars, learnVars, docVars, farVars>>
         /\ \/ part = "door" /\ Door!Next
            \/ part = "callers" /\ Callers!Next

----------------------------------------------------------------------------
(* What is learned from them. *)

Says(key, kind, type, marks) == [key |-> key, kind |-> kind, type |-> type, marks |-> marks]
Turn(conv, at, props) == [owner |-> TRUE, conv |-> conv, day |-> at, props |-> props]
Fact(key, source) == [key |-> key, source |-> source, kind |-> "", cand |-> 0, over |-> 0, on |-> "active"]
Again == Says("k", "inferred", "habit", {})
Mentions == {Turn("c1", 1, <<Again>>), Turn("c2", 1, <<Again>>),
             Turn("c2", 2, <<Again, Says("k", "stated", "fact", {"sensitive"})>>),
             Turn("c1", 1, <<Says("k", "stated", "fact", {"secret"})>>)}
Contradictions == {Turn("c1", 1, <<Says("k", "stated", "fact", {"instead"})>>),
                   Turn("c2", 2, <<Says("l", "stated", "rule", {}), Says("l", "inferred", "habit", {"instead"})>>)}

\* A habit heard again and again, while the owner decides in the app; a known fact contradicted.
Habit == INSTANCE Learning WITH
    Turns <- Mentions, Known <- <<>>, Told <- {},
    Taps <- {"confirm", "decline", "forget"}, Owners <- {"a"}, QUEUE_MAX <- 1,
    MAX_OPEN <- 2, MaxTurns <- 3, MaxCrashes <- 1, NONE <- NULL, queue <- learnQueue,
    crashes <- learnCrashes
Truth == INSTANCE Learning WITH
    Turns <- Contradictions,
    Known <- <<Fact("l", "explicit"), Fact("m", "learned"), Fact("n", "recorded")>>, Told <- {},
    Taps <- {"confirm", "decline", "correct", "purge", "expire"}, Owners <- {"a"}, QUEUE_MAX <- 1,
    MAX_OPEN <- 2, MaxTurns <- 2, MaxCrashes <- 0, NONE <- NULL, queue <- learnQueue,
    crashes <- learnCrashes

LearnInit == /\ agentOff /\ pilotOff /\ dueOff /\ brokerOff /\ deepOff /\ jailOff /\ voiceOff
             /\ talkOff /\ doorOff /\ docOff /\ farOff
             /\ \/ part = "habit" /\ Habit!Init
                \/ part = "truth" /\ Truth!Init
Learns == /\ UNCHANGED <<part, agentVars, pilotVars, dueVars, brokerVars, deepVars, jailVars, voiceVars,
                          talkVars, doorVars, docVars, farVars>>
          /\ \/ part = "habit" /\ Habit!Next
             \/ part = "truth" /\ Truth!Next

----------------------------------------------------------------------------
(* The doctor. *)

\* The supervisor and a tap of the owner at once; the supervisor alone over a restart.
Tapped == INSTANCE Doctor WITH
    Visits <- "r" :> "round" @@ "t" :> "tap", HasBook <- TRUE, Persist <- 0, Telling <- 1,
    Cooldown <- 1, Stable <- 1, Window <- 2, Quiet <- 4, MaxAttempts <- 2, MaxClock <- 2,
    MaxTurns <- 0, MaxCrashes <- 1, MaxWishes <- 1, NONE <- NULL, clock <- docClock,
    turns <- docTurns, told <- docTold, items <- docItems, crashes <- docCrashes
Round == INSTANCE Doctor WITH
    Visits <- "r" :> "round", HasBook <- TRUE, Persist <- 1, Telling <- 1, Cooldown <- 1,
    Stable <- 1, Window <- 2, Quiet <- 4, MaxAttempts <- 1, MaxClock <- 4, MaxTurns <- 1,
    MaxCrashes <- 1, MaxWishes <- 0, NONE <- NULL, clock <- docClock, turns <- docTurns,
    told <- docTold, items <- docItems, crashes <- docCrashes

DoctorInit == /\ agentOff /\ pilotOff /\ dueOff /\ brokerOff /\ deepOff /\ jailOff /\ voiceOff
              /\ talkOff /\ doorOff /\ learnOff /\ farOff
              /\ \/ part = "doctor" /\ Tapped!Init
                 \/ part = "notices" /\ Round!Init
Doctors == /\ UNCHANGED <<part, agentVars, pilotVars, dueVars, brokerVars, deepVars, jailVars, voiceVars,
                           talkVars, doorVars, learnVars, farVars>>
          /\ \/ part = "doctor" /\ Tapped!Next
             \/ part = "notices" /\ Round!Next

----------------------------------------------------------------------------
(* Work given to nodes outside the house. *)

\* One job, asked for by two; a node that forgets; two nodes of different zones; a run of research.
OneJob == INSTANCE Remote WITH
    Nodes <- "n" :> [zone |-> 2, rank |-> 0, offers |-> {"a"}], Class <- "a" :> 2,
    Users <- {"c1", "c2"},
    Wants <- {"submit", "refresh", "cancel", "result", "reconcile", "refuse"}, Runners <- {},
    Policies <- {}, Hits <- {}, MaxFetches <- 0, MaxJobs <- 1, MaxCalls <- 4, MaxRuns <- 0,
    MaxLosses <- 1, MaxCrashes <- 1, Forgets <- FALSE, NONE <- NULL, seen <- farSeen,
    remote <- farRemote, crashes <- farCrashes
Forgetting == INSTANCE Remote WITH
    Nodes <- "n" :> [zone |-> 2, rank |-> 0, offers |-> {"a"}], Class <- "a" :> 2,
    Users <- {"c1"}, Wants <- {"submit", "refresh", "result", "reconcile"}, Runners <- {},
    Policies <- {}, Hits <- {}, MaxFetches <- 0, MaxJobs <- 1, MaxCalls <- 3, MaxRuns <- 0,
    MaxLosses <- 1, MaxCrashes <- 0, Forgets <- TRUE, NONE <- NULL, seen <- farSeen,
    remote <- farRemote, crashes <- farCrashes
Zones == INSTANCE Remote WITH
    Nodes <- "n" :> [zone |-> 2, rank |-> 0, offers |-> {"a", "b"}]
             @@ "h" :> [zone |-> 0, rank |-> 1, offers |-> {"a", "b"}],
    Class <- "a" :> 2 @@ "b" :> 0, Users <- {"c1", "c2"},
    Wants <- {"submit", "health", "reconcile"}, Runners <- {}, Policies <- {}, Hits <- {},
    MaxFetches <- 0, MaxJobs <- 2, MaxCalls <- 2, MaxRuns <- 0, MaxLosses <- 1, MaxCrashes <- 0,
    Forgets <- FALSE, NONE <- NULL, seen <- farSeen, remote <- farRemote, crashes <- farCrashes
Study == INSTANCE Remote WITH
    Nodes <- "n" :> [zone |-> 2, rank |-> 0, offers |-> {"search", "u1", "u2"}],
    Class <- "search" :> 2 @@ "u1" :> 2 @@ "u2" :> 2, Users <- {}, Wants <- {"refuse"},
    Runners <- {"r"},
    Policies <- [policy : {"query", "no external egress"}, privacy : {"remote", "home"}],
    Hits <- {<<"u1", "u1", "u2">>, <<>>}, MaxFetches <- 2, MaxJobs <- 3, MaxCalls <- 0,
    MaxRuns <- 1, MaxLosses <- 1, MaxCrashes <- 1, Forgets <- FALSE, NONE <- NULL, seen <- farSeen,
    remote <- farRemote, crashes <- farCrashes

FarInit == /\ agentOff /\ pilotOff /\ dueOff /\ brokerOff /\ deepOff /\ jailOff /\ voiceOff /\ talkOff
           /\ doorOff /\ learnOff /\ docOff
           /\ \/ part = "job" /\ OneJob!Init
              \/ part = "forgetting" /\ Forgetting!Init
              \/ part = "zones" /\ Zones!Init
              \/ part = "study" /\ Study!Init
Fars == /\ UNCHANGED <<part, agentVars, pilotVars, dueVars, brokerVars, deepVars, jailVars, voiceVars,
                        talkVars, doorVars, learnVars, docVars>>
        /\ \/ part = "job" /\ OneJob!Next
           \/ part = "forgetting" /\ Forgetting!Next
           \/ part = "zones" /\ Zones!Next
           \/ part = "study" /\ Study!Next

----------------------------------------------------------------------------
Init == AgentInit \/ PilotInit \/ DueInit \/ BrokerInit \/ DeepInit \/ JailInit \/ VoiceInit \/ TalkInit
        \/ DoorInit \/ LearnInit \/ DoctorInit \/ FarInit
Next == Agents \/ Pilots \/ Dues \/ Brokers \/ Deeps \/ Jails \/ Voices \/ Talks \/ Doors \/ Learns
        \/ Doctors \/ Fars
Spec == Init /\ [][Next]_vars

(* Properties, each a conjunction over the parts it is about.              *)

\* A run succeeds only when every step it started is shown to be done, and the one approval
\* slot is held exactly by the run that waits for a human or calls.
RunsAreSettled ==
    /\ part = "agent" => Agent!TypeOK /\ Agent!SuccessIsSettled
    /\ part = "queue" => Queue!SlotIsTheWaiters

\* From the moment a human refuses a request of a run it acts no more, and an effect that
\* no row shows is never repeated or built upon, but for that of a call without an approval
\* that came back as failed (router.py:745).  The counters the caps of the broker are
\* measured against and the book of the day part by nothing but a request that arrived before
\* midnight and rolls them back to its own day (session.py:345).  No task of a conversation
\* starts beside one of an earlier conversation, or is left behind, but for a conversation that
\* lost its provider (core_server.py:628); and a turn is ended by an answer that began in it.
NoForbiddenStep ==
    [][/\ part = "agent" => Agent!NoWayAroundDenial /\ Agent!NothingUncertainRepeated
       /\ part = "cage" => Cage!BookIsTheCap
       /\ part = "core" => CoreCalls!BookIsTheCap
       /\ part = "voice" => TwoTalks!OneGeneration
       /\ part = "lost" => LostTalks!OneGeneration
       /\ part = "interrupted" => Interrupted!EndedByItsAnswer]_vars

\* A milestone that is READY was measured green at its last commit, what has to be measured
\* is proven by a measurement, no round begins while a phase of an earlier one is booked as
\* running, and the owner is asked about a loop only after the same attempt failed that often.
MilestonesAreMeasured ==
    /\ part = "milestone" => /\ Milestone!ReadyIsMeasured /\ Milestone!DeterministicIsMeasured
                             /\ Milestone!PhasesAreClosed
    /\ part = "asking" => Asking!TypeOK /\ Asking!ReadyIsMeasured
    /\ part = "quota" => Quota!LoopIsReal

\* An occurrence of a task reaches its executor at most once, and after a start at most one
\* missed occurrence of a task is run.  A running task of a cage holds the token of its principal
\* while its lease lives, and when no request holds a body nothing is counted as buffered (while
\* bodies are held less may be counted than they weigh).  A component is repaired by one at a time
\* and touched so many times at most, attempts whose line a crash swallowed aside; one supervisor
\* alone counts on over a restart; and two notices are never of one window.
WorkIsCounted ==
    /\ part = "two" => Two!TypeOK /\ Two!AtMostOncePerOccurrence
    /\ part = "catch up" => CatchUp!OneCatchUp
    /\ part = "cage" => Cage!TypeOK /\ Cage!CageTokenIsGood /\ Cage!BuffersComeBack
    /\ part = "core" => CoreCalls!BuffersComeBack
    /\ part = "doctor" => Tapped!TypeOK /\ Tapped!OneRepairAtATime /\ Tapped!AttemptsAreBounded
    /\ part = "notices" => Round!TypeOK /\ Round!AttemptsSurvive /\ Round!NoticesAreApart

\* A task of deep research ends once, while it is open somebody drives it, and of a task that
\* was cancelled no run is left behind, unless the core crashed.  A core that serves holds the
\* jail and the file in it carries its token; what answers it offers no more than allowed, be it
\* its own executor or one that an earlier core left behind.  A node runs a job again only when
\* it has forgotten it, and none its data may not go to; the job is booked as failed or succeeded
\* only as it ended there, a cancellation may be booked over an end.  No query leaves the house
\* against its policy, and a run of research counts as evidence only what was fetched.
ResearchIsDriven ==
    /\ part = "cut" => Cut!TypeOK /\ Cut!OneEnd /\ Cut!OpenIsDriven /\ Cut!CancelledIsStopped
    /\ part = "deep crash" => Crashed!TypeOK /\ Crashed!OneEnd /\ Crashed!OpenIsDriven /\ Crashed!CancelledIsStopped
    /\ part = "jail" => Jail!TypeOK /\ Jail!JailIsItsOwn /\ Jail!PostureWasAsked
    /\ part = "job" => OneJob!TypeOK /\ OneJob!OneRemotePerJob /\ OneJob!EndIsTrue /\ OneJob!VerifiedIsIntact
    /\ part = "forgetting" => Forgetting!TypeOK /\ Forgetting!OneRemotePerJob /\ Forgetting!EndIsTrue
    /\ part = "zones" => Zones!WithinZone /\ Zones!OneRemotePerJob
    /\ part = "study" => /\ Study!TypeOK /\ Study!QueryStaysIn /\ Study!EvidenceWasFetched
                         /\ Study!ReadyHasItsReport

\* No provider hears what was said before the last conversation began to close, and a worker
\* handles only rounds of its own conversation.  Of a response that an interruption cut off nothing
\* more is heard; the next response of the same turn may still come, after a round of tools.  What
\* was said once is remembered once.  The door is shut only with somebody inside, a proof is of its
\* own session, and the local socket calls as nobody else.  What is learned never stands over what
\* the owner said, was heard twice where it is inferred, and is stored before it is called adopted.
ConversationsHold ==
    /\ part = "voice" => TwoTalks!TypeOK /\ TwoTalks!NoStaleAudio
    /\ part = "regained" => Regained!TypeOK /\ Regained!NoStaleAudio
    /\ part = "interrupted" => Interrupted!TypeOK /\ Interrupted!SilentAfterBargeIn
    /\ part = "remembering" => Remembering!TypeOK /\ Remembering!RememberedOnce /\ Remembering!RoundsStayInside
    /\ part \in {"door", "callers"} => Door!BusyIsSomebody
    /\ part = "door" => Door!TypeOK /\ Door!ProvenByItself
    /\ part = "callers" => Callers!TypeOK /\ Callers!SocketIsOwner /\ Callers!OriginIsHonest
    /\ part = "habit" => Habit!TypeOK /\ Habit!InferredNeedsTwo /\ Habit!AdoptedIsStored
    /\ part = "truth" => Truth!TypeOK /\ Truth!NeverOverUserTruth /\ Truth!AdoptedIsStored
=============================================================================
