----------------------------- MODULE Autopilot -----------------------------
(***************************************************************************)
(* The development autopilot (autopilot/) and its command line             *)
(* (scripts/autopilot.py): one milestone, built, measured and judged in    *)
(* rounds by one driver (the flock admits no second), while the owner      *)
(* answers or stops it from another process.                               *)
(*                                                                         *)
(* Each statement of the ledger commits by itself, so a transition is a    *)
(* check with its set_fields and, later, a set_state; a crash or the       *)
(* command line may come between.  Writes of the driver that no one else   *)
(* reads meanwhile are one step.  A commit is its number; the technical    *)
(* lead, the builders, the gate and the publisher answer as they like.     *)
(***************************************************************************)
EXTENDS Integers, Sequences, FiniteSets

CONSTANTS
    Deterministic,   \* the criteria only a measurement may prove
    Semantic,        \* the criteria the lead may prove with a reference
    MAX_ROUNDS, LOOP_THRESHOLD,
    MaxStarts,       \* bound: runs of the driver
    MaxCommits,      \* bound: commits of the workspace
    MaxQuestions,    \* bound: boundaries ever opened
    MaxFindings,     \* bound: findings open at a time
    MaxTasks,        \* bound: different tasks the lead gives
    Events           \* which of crash, cliCrash, stop, proposal, credential, quota, env may happen

ConstantsOK ==
    /\ Deterministic \cap Semantic = {} /\ Deterministic \cup Semantic # {}
    /\ {MAX_ROUNDS, LOOP_THRESHOLD, MaxStarts, MaxCommits, MaxQuestions, MaxFindings, MaxTasks} \subseteq Nat \ {0}

VARIABLES
    ms,       \* the row of the milestone
    crit,     \* criterion |-> the evidence that proves it, 0 while open
    evid,     \* the evidence, in order
    blocking, \* open findings of severity blocker or major
    asked,    \* the boundaries: open ones, and how many there were
    phases,   \* the running phase, the last attempt, and how attempts ended
    tree,     \* the workspace: HEAD, a proposal lying there, credentials, the environment
    drv,      \* the driver
    cli       \* the command line

vars == <<ms, crit, evid, blocking, asked, phases, tree, drv, cli>>

States == {"PLANNING", "BUILDING", "TESTING", "REVIEWING", "FIXING", "READY", "HUMAN_REQUIRED",
           "BLOCKED", "STOPPED"}
Terminal == {"READY", "STOPPED"}
Parked == {"HUMAN_REQUIRED", "BLOCKED"}
Unpark == {"PLANNING", "BUILDING", "TESTING", "REVIEWING", "FIXING"}

Edges == [PLANNING |-> {"BUILDING", "HUMAN_REQUIRED", "BLOCKED", "STOPPED"},
          BUILDING |-> {"TESTING", "HUMAN_REQUIRED", "BLOCKED", "STOPPED"},
          TESTING |-> {"REVIEWING", "BLOCKED", "STOPPED"},
          REVIEWING |-> {"READY", "FIXING", "BUILDING", "HUMAN_REQUIRED", "BLOCKED", "STOPPED"},
          FIXING |-> {"TESTING", "HUMAN_REQUIRED", "BLOCKED", "STOPPED"},
          BLOCKED |-> {"PLANNING", "BUILDING", "FIXING", "STOPPED"},
          HUMAN_REQUIRED |-> {"PLANNING", "BUILDING", "TESTING", "REVIEWING", "FIXING", "STOPPED"},
          READY |-> {}, STOPPED |-> {}]

Builders == {"claude", "codex"}
Tasks == 1..MaxTasks
Attempts == Builders \X Tasks
Criteria == Deterministic \cup Semantic
Kinds == {"loop", "decision", "proposal", "credential"}

NoMove == [to |-> "", gate |-> 0]
Idle == [pc |-> "idle", round |-> 0, tried |-> {}, builder |-> "", move |-> NoMove, next |-> "",
         outcome |-> "", loop |-> FALSE]

TypeOK ==
    /\ ms \in [state : States, before : Unpark \cup {""}, resume : BOOLEAN, commit : 0..MaxCommits,
               task : Tasks, builder : Builders \cup {""}]
    /\ crit \in [Criteria -> 0..Len(evid)]
    /\ \A e \in DOMAIN evid : evid[e] \in [kind : {"test_report", "git_commit"}, commit : 0..MaxCommits,
                                           env : 1..2, ok : BOOLEAN]
    /\ blocking \in 0..MaxFindings
    /\ asked.open \subseteq (1..asked.count) \X Kinds /\ asked.count \in 0..MaxQuestions
    /\ phases.running \in {"", "build", "test", "review"}
    /\ tree.head \in 0..MaxCommits /\ tree.proposal \in BOOLEAN
    /\ drv.round \in 0..MAX_ROUNDS /\ drv.tried \subseteq Builders

----------------------------------------------------------------------------
(* The machine: what may follow what, and on which conditions.             *)

\* Mutant: open findings do not matter.
ReadyCheck_NoFindings(gate) ==
    gate # 0 /\ evid[gate].kind = "test_report" /\ evid[gate].ok /\ \A k \in Criteria : crit[k] # 0

\* ready_check, but for the verdict: a green gate, every criterion proven, nothing blocking.
ReadyCheck(gate) == /\ gate # 0 /\ evid[gate].kind = "test_report" /\ evid[gate].ok
                    /\ \A k \in Criteria : crit[k] # 0
                    /\ blocking = 0

\* transition: why it does not happen.
Refused(move) ==
    LET unparks == ms.state \in Parked /\ move.to # "STOPPED" IN
    \/ ms.state \in Terminal
    \/ unparks /\ (\/ ms.state = "HUMAN_REQUIRED" /\ asked.open # {}
                   \/ move.to # ms.before \/ move.to \notin Unpark)
    \/ ~unparks /\ move.to \notin Edges[ms.state]
    \/ move.to = "READY" /\ ~ReadyCheck(move.gate)
    \/ move.to = "REVIEWING" /\ ms.state = "TESTING"
       /\ (move.gate = 0 \/ evid[move.gate].kind # "test_report" \/ evid[move.gate].commit # ms.commit)
    \/ move.to = "HUMAN_REQUIRED" /\ asked.open = {}

\* Mutant: a stop remembers the state as a parking does.
Fields_Stops(to) ==
    [ms EXCEPT !.before = IF to \in Parked \cup {"STOPPED"} THEN ms.state ELSE IF ms.state \in Parked THEN "" ELSE @,
               !.resume = IF to = "BLOCKED" THEN TRUE ELSE IF ms.state = "BLOCKED" THEN FALSE ELSE @]

\* The fields a transition writes before the state.
Fields(to) ==
    [ms EXCEPT !.before = IF to \in Parked THEN ms.state ELSE IF ms.state \in Parked THEN "" ELSE @,
               !.resume = IF to = "BLOCKED" THEN TRUE ELSE IF ms.state = "BLOCKED" THEN FALSE ELSE @]

Moves(to, gate, next) == [drv EXCEPT !.pc = "move", !.move = [to |-> to, gate |-> gate], !.next = next]

\* transition, first half: the checks and set_fields.  A refusal ends the run, except
\* that of READY, which _act takes for an order to fix.
Move ==
    /\ drv.pc = "move"
    /\ IF Refused(drv.move)
       THEN /\ drv' = IF drv.move.to = "READY" THEN [drv EXCEPT !.pc = "act", !.outcome = "FIX"] ELSE Idle
            /\ UNCHANGED ms
       ELSE drv' = [drv EXCEPT !.pc = "write"] /\ ms' = Fields(drv.move.to)
    /\ UNCHANGED <<crit, evid, blocking, asked, phases, tree, cli>>

\* transition, second half: set_state.
Write ==
    /\ drv.pc = "write"
    /\ ms' = [ms EXCEPT !.state = drv.move.to]
    /\ drv' = [drv EXCEPT !.pc = drv.next, !.move = NoMove, !.next = ""]
    /\ UNCHANGED <<crit, evid, blocking, asked, phases, tree, cli>>

\* open_finding.
Finds == blocking < MaxFindings /\ blocking' = blocking + 1

\* open_boundary: the question, before the state.
Asks(kind) == /\ asked.count < MaxQuestions
              /\ asked' = [open |-> asked.open \cup {<<asked.count + 1, kind>>}, count |-> asked.count + 1]

----------------------------------------------------------------------------
(* The driver.                                                             *)

\* Mutant: what a crash left running stays so.
Reconcile_Nothing == phases' = phases

\* reconcile: the phase a crash left open is interrupted.
Reconcile == phases' = [phases EXCEPT !.running = ""]

Start ==
    /\ drv.pc = "idle" /\ phases.starts < MaxStarts /\ ms.state \notin Terminal
    /\ drv' = [Idle EXCEPT !.pc = "reconcile"]
    /\ phases' = [phases EXCEPT !.starts = @ + 1]
    /\ UNCHANGED <<ms, crit, evid, blocking, asked, tree, cli>>

Recover ==
    /\ drv.pc = "reconcile"
    /\ Reconcile
    /\ drv' = [drv EXCEPT !.pc = "round"]
    /\ UNCHANGED <<ms, crit, evid, blocking, asked, tree, cli>>

\* run: the state decides; a milestone that is parked is left alone unless it is
\* blocked and its time has come.
RoundEnds ==
    /\ drv.pc = "round"
    /\ drv.round = MAX_ROUNDS \/ ms.state \in Terminal \cup Parked
    /\ drv' = Idle
    /\ UNCHANGED <<ms, crit, evid, blocking, asked, phases, tree, cli>>

Unblock ==
    /\ drv.pc = "round" /\ drv.round < MAX_ROUNDS /\ ms.state = "BLOCKED" /\ ms.resume
    /\ drv' = [Moves(IF ms.before = "" THEN "BUILDING" ELSE ms.before, 0, "round")
                   EXCEPT !.round = @ + 1]
    /\ UNCHANGED <<ms, crit, evid, blocking, asked, phases, tree, cli>>

Round ==
    /\ drv.pc = "round" /\ drv.round < MAX_ROUNDS /\ ms.state \in Unpark /\ ~tree.proposal
    /\ drv' = [drv EXCEPT !.pc = "step", !.round = @ + 1]
    /\ UNCHANGED <<ms, crit, evid, blocking, asked, phases, tree, cli>>

\* A proposal in the workspace is a question; asked at the start of a round.
Proposal ==
    /\ drv.pc = "round" /\ drv.round < MAX_ROUNDS /\ ms.state \in Unpark /\ tree.proposal
    /\ Asks("proposal")
    /\ drv' = [Moves("HUMAN_REQUIRED", 0, "idle") EXCEPT !.round = @ + 1]
    /\ UNCHANGED <<ms, crit, evid, blocking, phases, tree, cli>>

\* _one_round: build, test and judge, as far as the state reaches.
Step ==
    /\ drv.pc = "step"
    /\ drv' = CASE ms.state = "PLANNING" -> Moves("BUILDING", 0, "route")
                [] ms.state \in {"BUILDING", "FIXING"} -> [drv EXCEPT !.pc = "route"]
                [] ms.state = "TESTING" -> [drv EXCEPT !.pc = "test"]
                [] ms.state = "REVIEWING" -> [drv EXCEPT !.pc = "review"]
                [] OTHER -> Idle
    /\ UNCHANGED <<ms, crit, evid, blocking, asked, phases, tree, cli>>

Preference(state) == IF state = "FIXING" THEN <<"codex", "claude">> ELSE <<"claude", "codex">>

\* preflight: what the signals and the book of usage say of each builder.
Preflight == {options \in [Builders -> {"AVAILABLE", "LIMITED", "NONE"}] :
                 "quota" \notin Events => \A b \in Builders : options[b] = "AVAILABLE"}

\* decide: who of the preference is there and takes the task, the best first.
Decide(options) == SelectSeq(Preference(ms.state), LAMBDA b : options[b] = "AVAILABLE")

\* Mutant: a builder that was tried is taken again.
Pick_Again(options) ==
    LET can(s) == {b \in Builders : options[b] = s}
        route == Decide(options)
    IN  IF route # <<>> THEN {Head(route)}
        ELSE IF can("LIMITED") # {} THEN {IF "claude" \in can("LIMITED") THEN "claude" ELSE "codex"}
        ELSE {}

\* The route while it is untried, then choose_builder: who is available, then who is
\* limited, by name; nobody twice.
Pick(options) ==
    LET can(s) == {b \in Builders \ drv.tried : options[b] = s}
        route == SelectSeq(Decide(options), LAMBDA b : b \notin drv.tried)
    IN  IF route # <<>> THEN {Head(route)}
        ELSE IF can("LIMITED") # {} THEN {IF "claude" \in can("LIMITED") THEN "claude" ELSE "codex"}
        ELSE {}

\* preflight measures; none left: blocked for a while.
Route ==
    /\ drv.pc = "route"
    /\ \E options \in Preflight :
          IF Pick(options) = {}
          THEN drv' = Moves("BLOCKED", 0, "idle") /\ UNCHANGED <<phases, ms>>
          ELSE \E b \in Pick(options) :
                 /\ drv' = [drv EXCEPT !.pc = "build", !.builder = b, !.tried = @ \cup {b}]
                 /\ phases' = [phases EXCEPT !.running = "build", !.attempt = <<b, ms.task>>]
                 /\ ms' = [ms EXCEPT !.builder = b]
    /\ UNCHANGED <<crit, evid, blocking, asked, tree, cli>>

Ends(attempt, how) == [phases EXCEPT !.running = "", ![how][attempt] = IF @ < LOOP_THRESHOLD THEN @ + 1 ELSE @]

\* The builder answers that it cannot: the next one.  Its quota is gone: a checkpoint of
\* what it left, and the next one.
BuilderGivesUp ==
    /\ drv.pc = "build" /\ "quota" \in Events
    /\ \/ drv' = [drv EXCEPT !.pc = "route", !.builder = ""] /\ phases' = [phases EXCEPT !.running = ""]
       \/ drv' = [drv EXCEPT !.pc = "checkpoint", !.outcome = "quota"] /\ phases' = Ends(phases.attempt, "quota")
    /\ UNCHANGED <<ms, crit, evid, blocking, asked, tree, cli>>

\* It has built, well or badly; a proposal or a credential may lie there.
BuilderBuilds ==
    /\ drv.pc = "build"
    /\ \E how \in {"ok", "failed"} : drv' = [drv EXCEPT !.pc = "checkpoint", !.outcome = how]
    /\ tree' \in {[tree EXCEPT !.proposal = p \/ @, !.credential = c \/ @] :
                     p \in IF "proposal" \in Events THEN BOOLEAN ELSE {FALSE},
                     c \in IF "credential" \in Events THEN BOOLEAN ELSE {FALSE}}
    /\ UNCHANGED <<ms, crit, evid, blocking, asked, phases, cli>>

\* _scan_staged: what the change adds looks like a credential.
Scanned == tree.credential

\* safe_checkpoint: a credential stops everything: a finding, a question.
Credential ==
    /\ drv.pc = "checkpoint" /\ Scanned
    /\ Asks("credential")
    /\ Finds
    /\ phases' = [phases EXCEPT !.running = ""]
    /\ drv' = Moves("HUMAN_REQUIRED", 0, "idle")
    /\ UNCHANGED <<ms, crit, evid, tree, cli>>

Commit ==
    /\ drv.pc = "checkpoint" /\ ~Scanned
    /\ \/ tree.head < MaxCommits /\ tree' = [tree EXCEPT !.head = @ + 1]
       \/ UNCHANGED tree
    /\ drv' = IF drv.outcome = "quota" THEN [drv EXCEPT !.pc = "route", !.builder = "", !.outcome = ""]
              ELSE [drv EXCEPT !.pc = "built"]
    /\ UNCHANGED <<ms, crit, evid, blocking, asked, phases, cli>>

\* The phase ends, last_commit and its evidence are written, the checkpoint is published
\* (or refused, which is a finding).
Built ==
    /\ drv.pc = "built"
    /\ phases' = IF drv.outcome = "ok" THEN [phases EXCEPT !.running = ""] ELSE Ends(phases.attempt, "failed")
    /\ ms' = [ms EXCEPT !.commit = tree.head]
    /\ evid' = Append(evid, [kind |-> "git_commit", commit |-> tree.head, env |-> 1, ok |-> TRUE])
    /\ (UNCHANGED blocking \/ Finds)
    /\ drv' = [Moves("TESTING", 0, "test") EXCEPT !.outcome = "", !.tried = {}, !.builder = ""]
    /\ UNCHANGED <<crit, asked, tree, cli>>

\* fresh_evidence: the newest measurement of this commit in this environment, or 0.
Fresh(commit) ==
    LET same == {e \in DOMAIN evid : /\ evid[e].kind = "test_report" /\ evid[e].commit = commit
                                     /\ evid[e].env = tree.env}
    IN  IF same = {} THEN 0 ELSE CHOOSE e \in same : \A f \in same : f <= e

TestBegins ==
    /\ drv.pc = "test"
    /\ drv' = [drv EXCEPT !.pc = "measure"]
    /\ phases' = [phases EXCEPT !.running = "test"]
    /\ UNCHANGED <<ms, crit, evid, blocking, asked, tree, cli>>

\* _test_phase: a measurement of HEAD, an old one when nothing has changed.
Test ==
    /\ drv.pc = "measure"
    /\ phases' = [phases EXCEPT !.running = ""]
    /\ \/ Fresh(tree.head) # 0 /\ UNCHANGED evid
          /\ drv' = Moves("REVIEWING", Fresh(tree.head), "review")
       \/ Fresh(tree.head) = 0
          /\ \E ok \in BOOLEAN :
                evid' = Append(evid, [kind |-> "test_report", commit |-> tree.head, env |-> tree.env, ok |-> ok])
          /\ drv' = Moves("REVIEWING", Len(evid'), "review")
    /\ UNCHANGED <<ms, crit, blocking, asked, tree, cli>>

ReviewBegins ==
    /\ drv.pc = "review"
    /\ drv' = [drv EXCEPT !.pc = "judge"]
    /\ phases' = [phases EXCEPT !.running = "review"]
    /\ UNCHANGED <<ms, crit, evid, blocking, asked, tree, cli>>

\* Mutant: an exhausted quota counts as a failed repair, whichever builder's it was.
FailedAttempts_Quota(a) == phases.failed[a] + Cardinality({b \in Attempts : phases.quota[b] > 0})

FailedAttempts(a) == phases.failed[a]

\* Mutant: the lead may prove what has to be measured.
Provable_All == Criteria

\* validate: what the lead says of a deterministic criterion is dropped.
Provable == Semantic

\* judge of the lead: without a token, a lease or an answer it cannot be asked; else it
\* says something, a verdict or not.
Refusals == {"no_broker", "lead_unreachable", "invalid"}

\* The lead is not there, or what it says is not a verdict.
LeadRefused ==
    /\ drv.pc = "judge"
    /\ phases' = [phases EXCEPT !.running = ""]
    /\ \E reason \in Refusals :
          IF reason = "invalid" THEN drv' = Moves("FIXING", 0, "round") /\ Finds
          ELSE drv' = Moves("BLOCKED", 0, "idle") /\ UNCHANGED blocking
    /\ UNCHANGED <<ms, crit, evid, asked, tree, cli>>

\* judge and _apply: findings opened and closed, criteria proven by what was cited, and
\* the deterministic one by the gate when it is green.
Judge ==
    LET gate == Fresh(ms.commit) IN
    /\ drv.pc = "judge"
    /\ phases' = [phases EXCEPT !.running = ""]
    /\ \E verdict \in {"READY", "FIX", "BUILD", "ESCALATE", "NEEDS_HUMAN"}, opens \in 0..1, closes \in 0..blocking,
          proves \in SUBSET Provable, task \in Tasks :
       \E cited \in DOMAIN evid :
          /\ blocking' = blocking - closes + opens /\ blocking' <= MaxFindings
          /\ crit' = [k \in Criteria |->
                IF k \in proves THEN cited
                ELSE IF k \in Deterministic /\ gate # 0 /\ evid[gate].ok /\ crit[k] = 0 THEN gate
                ELSE crit[k]]
          /\ drv' = [drv EXCEPT !.pc = "act", !.move.gate = gate,
                !.outcome = IF verdict \in {"FIX", "BUILD"} /\ opens = 0 /\ gate # 0 /\ evid[gate].ok
                               /\ (\A k \in Criteria : crit'[k] # 0) /\ blocking' = 0
                            THEN "READY" ELSE verdict,
                !.loop = FailedAttempts(phases.attempt) >= LOOP_THRESHOLD]
          /\ ms' = [ms EXCEPT !.task = IF verdict \in {"FIX", "BUILD", "ESCALATE"} THEN task ELSE @]
    /\ UNCHANGED <<evid, asked, tree, cli>>

\* _act.
ActReady ==
    /\ drv.pc = "act" /\ drv.outcome = "READY"
    /\ drv' = [Moves("READY", drv.move.gate, "round") EXCEPT !.outcome = ""]
    /\ UNCHANGED <<ms, crit, evid, blocking, asked, phases, tree, cli>>

ActAsk ==
    /\ drv.pc = "act"
    /\ \/ drv.outcome = "NEEDS_HUMAN" /\ Asks("decision")
       \/ drv.outcome = "FIX" /\ drv.loop /\ Asks("loop")
    /\ drv' = [Moves("HUMAN_REQUIRED", 0, "idle") EXCEPT !.outcome = "", !.loop = FALSE]
    /\ UNCHANGED <<ms, crit, evid, blocking, phases, tree, cli>>

\* A FIX in a loop whose next_action is not "fix" (a root cause, another builder) goes on.
ActGoOn ==
    /\ drv.pc = "act" /\ drv.outcome \in {"FIX", "BUILD", "ESCALATE"}
    /\ drv' = [Moves(IF drv.outcome = "BUILD" THEN "BUILDING" ELSE "FIXING", 0, "round")
                  EXCEPT !.outcome = "", !.loop = FALSE]
    /\ UNCHANGED <<ms, crit, evid, blocking, asked, phases, tree, cli>>

Crash ==
    /\ "crash" \in Events /\ drv.pc # "idle"
    /\ drv' = Idle
    /\ UNCHANGED <<ms, crit, evid, blocking, asked, phases, tree, cli>>

----------------------------------------------------------------------------
(* The command line, in a process of its own.                              *)

Answer ==
    /\ cli.pc = "idle"
    /\ \E q \in asked.open : asked' = [asked EXCEPT !.open = @ \ {q}]
    /\ cli' = [pc |-> "answered", to |-> ""]
    /\ tree' = [tree EXCEPT !.proposal = FALSE, !.credential = FALSE]
    /\ UNCHANGED <<ms, crit, evid, blocking, phases, drv>>

AnswerMoves ==
    /\ cli.pc = "answered"
    /\ IF ms.state = "HUMAN_REQUIRED" /\ asked.open = {} /\ ~Refused([to |-> ms.before, gate |-> 0])
       THEN cli' = [pc |-> "write", to |-> ms.before] /\ ms' = Fields(ms.before)
       ELSE cli' = [pc |-> "idle", to |-> ""] /\ UNCHANGED ms
    /\ UNCHANGED <<crit, evid, blocking, asked, phases, tree, drv>>

Stop ==
    /\ cli.pc = "idle" /\ "stop" \in Events /\ ms.state \notin Terminal
    /\ cli' = [pc |-> "write", to |-> "STOPPED"]
    /\ ms' = Fields("STOPPED")
    /\ UNCHANGED <<crit, evid, blocking, asked, phases, tree, drv>>

CliWrites ==
    /\ cli.pc = "write"
    /\ ms' = [ms EXCEPT !.state = cli.to]
    /\ cli' = [pc |-> "idle", to |-> ""]
    /\ UNCHANGED <<crit, evid, blocking, asked, phases, tree, drv>>

CliCrash ==
    /\ "cliCrash" \in Events /\ cli.pc # "idle"
    /\ cli' = [pc |-> "idle", to |-> ""]
    /\ UNCHANGED <<ms, crit, evid, blocking, asked, phases, tree, drv>>

\* The environment of the gate changes: a module is installed or gone.
EnvChanges ==
    /\ "env" \in Events /\ tree.env = 1
    /\ tree' = [tree EXCEPT !.env = 2]
    /\ UNCHANGED <<ms, crit, evid, blocking, asked, phases, drv, cli>>

Init ==
    /\ ms = [state |-> "PLANNING", before |-> "", resume |-> FALSE, commit |-> 0, task |-> 1, builder |-> ""]
    /\ crit = [k \in Criteria |-> 0]
    /\ evid = <<>> /\ blocking = 0
    /\ asked = [open |-> {}, count |-> 0]
    /\ phases = [running |-> "", attempt |-> <<"claude", 1>>, starts |-> 0,
                 failed |-> [a \in Attempts |-> 0], quota |-> [a \in Attempts |-> 0]]
    /\ tree = [head |-> 0, proposal |-> FALSE, credential |-> FALSE, env |-> 1]
    /\ drv = Idle
    /\ cli = [pc |-> "idle", to |-> ""]

Drive == \/ Recover \/ RoundEnds \/ Unblock \/ Round \/ Proposal \/ Step \/ Route \/ BuilderGivesUp
         \/ BuilderBuilds \/ Credential \/ Commit \/ Built \/ TestBegins \/ Test \/ ReviewBegins \/ LeadRefused \/ Judge
         \/ ActReady \/ ActAsk \/ ActGoOn \/ Move \/ Write
Owner == Answer \/ AnswerMoves \/ Stop \/ CliWrites \/ CliCrash

Next == Start \/ Drive \/ Crash \/ Owner \/ EnvChanges

\* A driver that runs goes on; nobody has to start it or to answer.
Spec == Init /\ [][Next]_vars /\ WF_vars(Drive)

----------------------------------------------------------------------------
(* Properties.                                                             *)

\* A milestone that is READY was measured green at its last commit, which is what lies in
\* the workspace; every criterion has evidence and no finding blocks, whatever the lead
\* said in whichever round, and whatever crashed before.
ReadyIsMeasured == ms.state = "READY" =>
    /\ \E e \in DOMAIN evid : evid[e].kind = "test_report" /\ evid[e].ok /\ evid[e].commit = ms.commit
    /\ ms.commit = tree.head
    /\ \A k \in Criteria : crit[k] # 0
    /\ blocking = 0

\* What has to be measured is proven by a green measurement, never by an opinion.
DeterministicIsMeasured == \A k \in Deterministic : crit[k] # 0 =>
    evid[crit[k]].kind = "test_report" /\ evid[crit[k]].ok

\* The owner is asked about a loop only after the same attempt has failed that often;
\* an exhausted quota is no attempt.
LoopIsReal == \A q \in asked.open : q[2] = "loop" =>
    \E a \in Attempts : phases.failed[a] >= LOOP_THRESHOLD

\* No round begins while the ledger says that a phase of an earlier one is running.
PhasesAreClosed == drv.pc = "round" => phases.running = ""

\* Every run of the driver ends, whichever builders give up.
RunEnds == (drv.pc # "idle") ~> (drv.pc = "idle")

\* What the documents say and the code does not do.

\* What the owner has stopped stays stopped.
StopIsFinal == [][ms.state = "STOPPED" => ms'.state = "STOPPED"]_ms

\* A milestone that waits for its owner has a question for them.
WaitingHasAQuestion == ms.state = "HUMAN_REQUIRED" /\ drv.pc = "idle" /\ cli.pc = "idle" => asked.open # {}

\* What is blocked knows where to go on.
BlockedCanWake == ms.state = "BLOCKED" /\ drv.pc = "idle" => ms.before # "" /\ ms.resume

\* A proposal in the workspace is asked about before the milestone is done.
ProposalIsAsked == ms.state = "READY" => ~tree.proposal

\* What is proven is proven of the commit that is READY.
ProofIsOfTheCommit == ms.state = "READY" => \A k \in Criteria : evid[crit[k]].commit = ms.commit
=============================================================================
