------------------------------ MODULE AgentRun ------------------------------
(***************************************************************************)
(* The runs of agent_runtime/: a run is created by a command or by an      *)
(* approved start, planned by a model, carried step by step by the one     *)
(* loop of the orchestrator, and verified at the end.                      *)
(*                                                                         *)
(* The ledger (run, rows, start) is durable; the contexts, the approval    *)
(* queue and the loop die with the process.  What the loop does between    *)
(* two awaits is one action; a cancellation, a human or the clock act      *)
(* while it waits for a planner, a specialist or the router.  The rows of  *)
(* the kinds verify and harvest, which nothing reads back, are left out;   *)
(* so are notices, findings and reports.                                   *)
(***************************************************************************)
EXTENDS Integers, Sequences, FiniteSets, SequencesExt

CONSTANTS
    Runs,            \* the runs that may be commanded, in that order
    Plans,           \* plans the planner may answer with: non-empty sequences of steps
    MaxRevisions,    \* MAX_PLAN_REVISIONS
    MaxAsks,         \* MAX_APPROVAL_REQUESTS
    MaxConcurrent,   \* max_concurrent
    MaxCrashes,      \* bound: the number of restarts
    NULL

VARIABLES
    run,       \* agent_runs: state and plan_revision
    rows,      \* agent_steps: one row per attempt of a step, in order
    start,     \* pending_starts: the note and the request it waits for
    ctx,       \* RunContext of each run, or NULL
    holder,    \* ApprovalQueue: the run holding the one slot, 0 when free
    loop,      \* where the loop is and what its tick still has to do
    crashes

durable == <<run, rows, start>>
vars == <<run, rows, start, ctx, holder, loop, crashes>>

TERMINAL_STATES == {"SUCCEEDED", "FAILED", "CANCELLED"}
PARKED_STATES == {"WAITING_APPROVAL", "WAITING_USER"}
RunStates == {"none", "CREATED", "PLANNING", "RUNNING", "WAITING_SPECIALIST", "VERIFYING",
              "INTERRUPTED"} \cup PARKED_STATES \cup TERMINAL_STATES
Asks == {"none", "pending", "approved", "denied", "expired", "used"}
Kinds == {"specialist", "capability", "flawed", "knowledge_proposal", "verify"}
SETTLED_OK == {"succeeded", "skipped"}
StepStates == SETTLED_OK \cup {"running", "waiting", "failed", "denied", "unknown"}
Step == [kind : Kinds, optional : BOOLEAN]

\* agent_steps and RunContext
StepRow == [seq : Nat, attempt : 1..MaxRevisions + 1, kind : Kinds, state : StepStates, ask : Asks,
            did : BOOLEAN]
Context == [plan : Seq(Step) \cup {NULL}, cursor : Nat, asks : Nat, invalid : BOOLEAN]

ConstantsOK ==
    /\ IsFiniteSet(Runs) /\ Runs \subseteq Nat /\ 0 \notin Runs
    /\ \A p \in Plans : p \in Seq(Step) /\ p # <<>>
    /\ MaxRevisions \in Nat /\ MaxAsks \in Nat \ {0} /\ MaxConcurrent \in Nat \ {0}
    /\ MaxCrashes \in Nat /\ NULL \notin Context

open_runs == {r \in Runs : run[r].state \notin TERMINAL_STATES \cup {"none"}}
active_runs == {r \in open_runs : run[r].state \notin PARKED_STATES}
Ended(r) == run[r].state \in TERMINAL_STATES

NewContext == [plan |-> NULL, cursor |-> 0, asks |-> 0, invalid |-> FALSE]
IdleLoop == [pc |-> "idle", r |-> 0, todo |-> <<>>, notes |-> {}, had |-> FALSE]

TypeOK ==
    /\ run \in [Runs -> [state : RunStates, revs : 0..MaxRevisions]]
    /\ rows \in [Runs -> Seq(StepRow)]
    /\ start \in [Runs -> [note : {"none", "WAITING", "TAKEN", "CLOSED"}, ask : Asks]]
    /\ ctx \in [Runs -> Context \cup {NULL}]
    /\ holder \in Runs \cup {0}
    /\ loop.pc \in {"idle", "starts", "starting", "runs", "plan", "replan", "pollreplan",
                    "specialist", "capability", "poll", "exec"}
    /\ loop.r \in Runs \cup {0} /\ loop.notes \subseteq Runs

----------------------------------------------------------------------------
(* The ledger and the queue.                                               *)

Goto(r, s) == run' = [run EXCEPT ![r].state = s]
Last_(r) == Len(rows[r])
SetRow(r, s) == rows' = [rows EXCEPT ![r][Last_(r)].state = s]

\* UNIQUE(run_id, seq, attempt)
Taken(r, seq, attempt) == \E i \in DOMAIN rows[r] :
    rows[r][i].seq = seq /\ rows[r][i].attempt = attempt

\* Mutant: a release frees the slot whoever holds it.
Release_Anyone(r) == holder' = 0

\* ApprovalQueue.release: only the holder gives the slot back.
Release(r) == holder' = IF holder = r THEN 0 ELSE holder

\* The loop goes on with the next run of its tick; a raise out of tick drops the rest.
NextRun == loop' = [loop EXCEPT !.pc = "runs", !.r = 0, !.todo = Tail(@), !.had = FALSE]
AbortTick == loop' = IdleLoop
Await(pc, r) == loop' = [loop EXCEPT !.pc = pc, !.r = r, !.had = ctx[r] # NULL]

\* _finish: the state, the slot and the context in one step; a run ends once.
Finish(r, s) ==
    /\ Goto(r, s)
    /\ Release(r)
    /\ ctx' = [ctx EXCEPT ![r] = NULL]

\* _open_boundary
OpenBoundary(r) == Goto(r, "WAITING_USER")

\* _rebuild_context: the plan is not in the ledger.
Rebuild(r) == IF ctx[r] = NULL THEN [NewContext EXCEPT !.cursor = Len(rows[r])] ELSE ctx[r]

----------------------------------------------------------------------------
(* Creation, and starts that wait for their approval.                      *)

\* create_task: the second check of the origin lets a human's command through.
CreateTask(r) ==
    /\ run' = [run EXCEPT ![r].state = "CREATED"]
    /\ ctx' = [ctx EXCEPT ![r] = NewContext]

Unused(r) == run[r].state = "none" /\ start[r].note = "none"

\* A command whose policy asks nobody.
Command(r) ==
    /\ Unused(r)
    /\ \A q \in Runs : q < r => ~Unused(q)
    /\ CreateTask(r)
    /\ UNCHANGED <<rows, start, holder, loop, crashes>>

\* A command that needs an approval first: the note keeps what repeats the call.
RememberPendingStart(r) ==
    /\ Unused(r)
    /\ \A q \in Runs : q < r => ~Unused(q)
    /\ start' = [start EXCEPT ![r] = [note |-> "WAITING", ask |-> "pending"]]
    /\ UNCHANGED <<run, rows, ctx, holder, loop, crashes>>

\* tick, first part: the notes still waiting are read once.
TickStart ==
    /\ loop.pc = "idle"
    /\ loop' = [IdleLoop EXCEPT !.pc = "starts",
                                !.notes = {r \in Runs : start[r].note = "WAITING"}]
    /\ UNCHANGED <<durable, ctx, holder, crashes>>

\* Mutant: a refused or expired request is waited for like an open one.
PollPendingStart_WaitsOn(r) ==
    /\ loop.pc = "starts" /\ r \in loop.notes
    /\ IF start[r].ask = "approved"
       THEN /\ start' = [start EXCEPT ![r].note = "TAKEN"]
            /\ loop' = [loop EXCEPT !.pc = "starting", !.r = r, !.notes = @ \ {r}]
       ELSE loop' = [loop EXCEPT !.notes = @ \ {r}] /\ UNCHANGED start
    /\ UNCHANGED <<run, rows, ctx, holder, crashes>>

\* _poll_pending_starts: the note is taken before the call is repeated.
PollPendingStart(r) ==
    /\ loop.pc = "starts" /\ r \in loop.notes
    /\ \/ /\ start[r].ask = "pending"
          /\ loop' = [loop EXCEPT !.notes = @ \ {r}]
          /\ UNCHANGED start
       \/ /\ start[r].ask \notin {"pending", "approved"}
          /\ start' = [start EXCEPT ![r].note = "CLOSED"]
          /\ loop' = [loop EXCEPT !.notes = @ \ {r}]
       \/ /\ start[r].ask = "approved"
          /\ start' = [start EXCEPT ![r].note = "TAKEN"]
          /\ loop' = [loop EXCEPT !.pc = "starting", !.r = r, !.notes = @ \ {r}]
    /\ UNCHANGED <<run, rows, ctx, holder, crashes>>

\* _start_approved: the call is repeated once; it creates the run or it fails.
StartAnswer(r) ==
    /\ loop.pc = "starting" /\ loop.r = r
    /\ loop' = [loop EXCEPT !.pc = "starts", !.r = 0]
    /\ \/ /\ start[r].ask = "approved"
          /\ start' = [start EXCEPT ![r].ask = "used"]
          /\ CreateTask(r)
       \/ UNCHANGED <<run, ctx, start>>
    /\ UNCHANGED <<rows, holder, crashes>>

\* tick, second part: the open runs, by time of creation, as they are now.
TickRuns ==
    /\ loop.pc = "starts" /\ loop.notes = {}
    /\ \E order \in SetToSeqs(open_runs) :
          loop' = [loop EXCEPT !.pc = "runs", !.todo =
                      [i \in DOMAIN order |-> [r |-> order[i], state |-> run[order[i]].state]]]
    /\ UNCHANGED <<durable, ctx, holder, crashes>>

TickEnd ==
    /\ loop.pc = "runs" /\ loop.todo = <<>>
    /\ loop' = IdleLoop
    /\ UNCHANGED <<durable, ctx, holder, crashes>>

----------------------------------------------------------------------------
(* tick and _advance.                                                      *)

\* The run the tick looks at, in the state it had when the tick began.
At(r, states) ==
    /\ loop.pc = "runs" /\ loop.todo # <<>>
    /\ Head(loop.todo).r = r /\ Head(loop.todo).state \in states

TooMany == Cardinality(active_runs) > MaxConcurrent

\* A run at a boundary, one that has to queue, and one cancelled since the tick began,
\* whose every transition is refused.
SkipRun(r) ==
    /\ \/ At(r, {"WAITING_USER"})
       \/ At(r, {"CREATED"}) /\ TooMany
       \/ At(r, RunStates \ {"WAITING_APPROVAL"}) /\ Ended(r)
    /\ NextRun
    /\ UNCHANGED <<durable, ctx, holder, crashes>>

\* _prepare_workspace may find no clone.
AdvanceCreated(r) ==
    /\ At(r, {"CREATED"}) /\ ~TooMany /\ ~Ended(r)
    /\ \/ /\ Goto(r, "PLANNING")
          /\ ctx' = [ctx EXCEPT ![r] = Rebuild(r)]
          /\ UNCHANGED holder
       \/ Finish(r, "FAILED")
    /\ NextRun
    /\ UNCHANGED <<rows, start, crashes>>

\* _do_plan up to the planner
AdvancePlanning(r) ==
    /\ At(r, {"PLANNING"}) /\ ~Ended(r)
    /\ Await("plan", r)
    /\ UNCHANGED <<durable, ctx, holder, crashes>>

\* plan: no plan when the provider or its cap refuses, or when two answers in a row are
\* none of the schema.
PlannerAnswers == Plans \cup {NULL}

\* The planner answers; a replan stays in the state it came from.  Without a usable plan
\* the run fails, except after a poll: there the error leaves the tick.
PlanAnswer(r) ==
    /\ loop.pc \in {"plan", "replan", "pollreplan"} /\ loop.r = r
    /\ \E p \in PlannerAnswers :
       \/ /\ p # NULL
          /\ ctx' = [ctx EXCEPT ![r] = IF @ = NULL THEN NULL
                                       ELSE [@ EXCEPT !.plan = p, !.cursor = 0]]
          /\ run' = IF run[r].state = "PLANNING" THEN [run EXCEPT ![r].state = "RUNNING"] ELSE run
          /\ NextRun
          /\ UNCHANGED holder
       \/ /\ p = NULL /\ loop.pc # "pollreplan"
          /\ IF Ended(r) THEN UNCHANGED <<run, ctx, holder>> ELSE Finish(r, "FAILED")
          /\ NextRun
       \/ /\ p = NULL /\ loop.pc = "pollreplan"
          /\ AbortTick
          /\ UNCHANGED <<run, ctx, holder>>
    /\ UNCHANGED <<rows, start, crashes>>

\* Mutant: replanning has no end.
Replan_NoCap(r, pc) ==
    /\ run' = [run EXCEPT ![r] = [state |-> "RUNNING", revs |-> @.revs + 1]]
    /\ Await(pc, r)
    /\ Release(r)
    /\ UNCHANGED ctx

\* _replan: at most MaxRevisions times; the planner is asked in the state RUNNING, and
\* the slot is given back by then.
Replan(r, pc) ==
    IF run[r].revs = MaxRevisions
    THEN Finish(r, "FAILED") /\ NextRun
    ELSE /\ run' = [run EXCEPT ![r] = [state |-> "RUNNING", revs |-> @.revs + 1]]
         /\ Await(pc, r)
         /\ Release(r)
         /\ UNCHANGED ctx

Planned(r) == ctx[r].plan[ctx[r].cursor + 1]
Attempt(r) == run[r].revs + 1
HasStep(r) == ctx[r] # NULL /\ ctx[r].plan # NULL /\ ctx[r].cursor < Len(ctx[r].plan)
StepDone(r) == ctx' = [ctx EXCEPT ![r].cursor = @ + 1]

\* create_step and its first update
NewRow(r, s) == rows' = [rows EXCEPT ![r] = Append(@,
    [seq |-> ctx[r].cursor + 1, attempt |-> Attempt(r), kind |-> Planned(r).kind,
     state |-> s, ask |-> "none", did |-> FALSE])]

\* Mutant: an interrupted run plans anew and goes on.
ToVerify_Replans(r) ==
    /\ At(r, {"RUNNING", "INTERRUPTED"}) /\ ~Ended(r) /\ ~HasStep(r)
    /\ IF run[r].state = "INTERRUPTED" /\ run[r].revs < MaxRevisions
       THEN /\ run' = [run EXCEPT ![r] = [state |-> "RUNNING", revs |-> @.revs + 1]]
            /\ ctx' = [ctx EXCEPT ![r] = NewContext]
            /\ Await("replan", r)
       ELSE /\ Goto(r, "VERIFYING")
            /\ ctx' = [ctx EXCEPT ![r] = Rebuild(r)]
            /\ NextRun
    /\ UNCHANGED <<rows, start, holder, crashes>>

\* Nothing planned is left, or nothing is planned: what there is gets verified.
ToVerify(r) ==
    /\ At(r, {"RUNNING", "INTERRUPTED"}) /\ ~Ended(r) /\ ~HasStep(r)
    /\ Goto(r, "VERIFYING")
    /\ ctx' = [ctx EXCEPT ![r] = Rebuild(r)]
    /\ NextRun
    /\ UNCHANGED <<rows, start, holder, crashes>>

AtStep(r, kinds) ==
    /\ At(r, {"RUNNING"}) /\ ~Ended(r)
    /\ HasStep(r) /\ Planned(r).kind \in kinds

Fresh(r) == ~Taken(r, ctx[r].cursor + 1, Attempt(r))

\* A budget, the wall clock or the brake on loops ends the run, and so does a step whose
\* key is in the ledger already.
StepRefused(r) ==
    /\ AtStep(r, Kinds)
    /\ Finish(r, "FAILED")
    /\ NextRun
    /\ UNCHANGED <<rows, start, crashes>>

\* A hint to verify is skipped; a proposal is an artifact.
StepInline(r) ==
    /\ AtStep(r, {"verify", "knowledge_proposal"}) /\ Fresh(r)
    /\ NewRow(r, IF Planned(r).kind = "verify" THEN "skipped" ELSE "succeeded")
    /\ StepDone(r)
    /\ NextRun
    /\ UNCHANGED <<run, start, holder, crashes>>

----------------------------------------------------------------------------
(* A specialist.                                                           *)

StepSpecialist(r) ==
    /\ AtStep(r, {"specialist"}) /\ Fresh(r)
    /\ NewRow(r, "running")
    /\ Goto(r, "WAITING_SPECIALIST")
    /\ Await("specialist", r)
    /\ UNCHANGED <<start, ctx, holder, crashes>>

\* _maybe_complete: a step that meets the goal ends the plan behind it.
Truncate(r) == ctx' = [ctx EXCEPT ![r].cursor = @ + 1, ![r].plan = SubSeq(@, 1, ctx[r].cursor + 1)]

\* The row is booked first; the transition of a run cancelled meanwhile is refused.
SpecialistAnswer(r, answer) ==
    /\ loop.pc = "specialist" /\ loop.r = r
    /\ SetRow(r, IF answer \in {"ok", "goal"} THEN "succeeded" ELSE "failed")
    /\ \/ /\ Ended(r)
          /\ NextRun
          /\ UNCHANGED <<run, ctx, holder>>
       \/ /\ ~Ended(r) /\ answer = "quota"
          /\ Finish(r, "FAILED")
          /\ NextRun
       \/ /\ ~Ended(r)
          /\ \/ answer = "ok" /\ StepDone(r)
             \/ answer = "goal" /\ Truncate(r)
             \/ answer = "bad" /\ Planned(r).optional /\ StepDone(r)
          /\ Goto(r, "RUNNING")
          /\ NextRun
          /\ UNCHANGED holder
       \/ /\ ~Ended(r) /\ answer = "bad" /\ ~Planned(r).optional
          /\ Replan(r, "replan")
    /\ UNCHANGED <<start, crashes>>

----------------------------------------------------------------------------
(* A capability.                                                           *)

\* _refuse_invalid_step: the same flaw twice ends the run.
StepFlawed(r) ==
    /\ AtStep(r, {"flawed"}) /\ Fresh(r)
    /\ NewRow(r, "failed")
    /\ \/ /\ ctx[r].invalid
          /\ Finish(r, "FAILED")
          /\ NextRun
       \/ /\ ~ctx[r].invalid /\ Planned(r).optional
          /\ ctx' = [ctx EXCEPT ![r].invalid = TRUE, ![r].cursor = @ + 1]
          /\ NextRun
          /\ UNCHANGED <<run, holder>>
       \/ /\ ~ctx[r].invalid /\ ~Planned(r).optional /\ run[r].revs < MaxRevisions
          /\ ctx' = [ctx EXCEPT ![r].invalid = TRUE]
          /\ run' = [run EXCEPT ![r].revs = @ + 1]
          /\ Await("replan", r)
          /\ UNCHANGED holder
       \/ /\ ~ctx[r].invalid /\ ~Planned(r).optional /\ run[r].revs = MaxRevisions
          /\ Finish(r, "FAILED")
          /\ NextRun
    /\ UNCHANGED <<start, crashes>>

\* The slot is another run's: the row waits and the cursor stays.
StepQueues(r) ==
    /\ AtStep(r, {"capability"}) /\ Fresh(r)
    /\ holder \notin {0, r}
    /\ NewRow(r, "waiting")
    /\ NextRun
    /\ UNCHANGED <<run, start, ctx, holder, crashes>>

\* The slot is free or held already: the router is called.
StepCapability(r) ==
    /\ AtStep(r, {"capability"}) /\ Fresh(r)
    /\ holder \in {0, r}
    /\ holder' = r
    /\ NewRow(r, "running")
    /\ Await("capability", r)
    /\ UNCHANGED <<run, start, ctx, crashes>>

\* _settle_capability, with the release of the slot before it.
Settle(r, answer, pc) ==
    \/ /\ answer = "ok"
       /\ SetRow(r, "succeeded")
       /\ StepDone(r) /\ Goto(r, "RUNNING") /\ NextRun /\ Release(r)
    \/ /\ answer = "denied"
       /\ SetRow(r, "denied")
       /\ IF Planned(r).optional
          THEN StepDone(r) /\ Goto(r, "RUNNING") /\ Release(r)
          ELSE Finish(r, "FAILED")
       /\ NextRun
    \/ /\ answer = "unknown"
       /\ SetRow(r, "unknown")
       /\ Finish(r, "FAILED") /\ NextRun
    \/ /\ answer = "policy"
       /\ SetRow(r, "failed")
       /\ OpenBoundary(r) /\ NextRun /\ Release(r)
       /\ UNCHANGED ctx
    \/ /\ answer = "failed"
       /\ SetRow(r, "failed")
       /\ IF Planned(r).optional
          THEN StepDone(r) /\ Goto(r, "RUNNING") /\ NextRun /\ Release(r)
          ELSE Replan(r, pc)

\* The call reaches the world: directly (system_heal, whose arguments no policy refuses,
\* and the reads), by spending a request approved earlier that the router finds for the
\* same call (_resume_if_approved), or by spending the row's own under the arguments the
\* context still holds.
Effect(r) ==
    /\ loop.r = r /\ loop.pc \in {"capability", "exec"}
    /\ ~Last(rows[r]).did
    /\ \/ /\ loop.pc = "capability"
          /\ \/ rows' = [rows EXCEPT ![r][Last_(r)].did = TRUE]
             \/ rows' = [rows EXCEPT ![r][Last_(r)].did = TRUE, ![r][Last_(r)].ask = "used"]
       \/ /\ loop.pc = "exec" /\ loop.had /\ Last(rows[r]).ask = "approved"
          /\ rows' = [rows EXCEPT ![r][Last_(r)].did = TRUE, ![r][Last_(r)].ask = "used"]
    /\ UNCHANGED <<run, start, ctx, holder, loop, crashes>>

\* What the router may answer.  Under an approval the journal stands in: an effect that
\* nothing confirms is RECOVERY_REQUIRED.  A direct call that raised or timed out after
\* its effect is CAPABILITY_FAILED or TIMEOUT (router.py:745-753, 794-811).
Answers(r) ==
    {"unknown"} \cup IF ~Last(rows[r]).did THEN {"failed", "denied", "policy"}
                    ELSE {"ok"} \cup (IF Last(rows[r]).ask = "used" THEN {} ELSE {"failed"})

\* A run cancelled meanwhile gets its row booked and nothing else.
Booked(answer) == IF answer = "ok" THEN "succeeded"
                  ELSE IF answer \in {"failed", "policy"} THEN "failed" ELSE answer

CapabilityAnswer(r, answer) ==
    /\ loop.pc = "capability" /\ loop.r = r
    /\ answer \in Answers(r)
    /\ \/ /\ Ended(r)
          /\ SetRow(r, Booked(answer))
          /\ NextRun
          /\ UNCHANGED <<run, ctx, holder>>
       \/ /\ ~Ended(r)
          /\ Settle(r, answer, "replan")
    /\ UNCHANGED <<start, crashes>>

\* The policy wants a human: the run parks and keeps the slot.
CapabilityAsks(r) ==
    /\ loop.pc = "capability" /\ loop.r = r
    /\ ~Last(rows[r]).did
    /\ rows' = [rows EXCEPT ![r][Last_(r)].state = "waiting", ![r][Last_(r)].ask = "pending"]
    /\ IF Ended(r) THEN UNCHANGED <<run, ctx>>
       ELSE /\ Goto(r, "WAITING_APPROVAL")
            /\ ctx' = [ctx EXCEPT ![r].asks = @ + 1]
    /\ NextRun
    /\ UNCHANGED <<start, holder, crashes>>

----------------------------------------------------------------------------
(* _poll_approval.                                                         *)

PollStart(r) ==
    /\ At(r, {"WAITING_APPROVAL"})
    /\ Await("poll", r)
    /\ UNCHANGED <<durable, ctx, holder, crashes>>

\* Mutant: get_request sweeps nothing, so a request past its time still reads as pending.
Classify_NoSweep(ask) == IF ask = "expired" THEN "pending" ELSE ask

\* read_approval_state and classify_approval
Classify(ask) == ask

Polled(r, asks) ==
    /\ loop.pc = "poll" /\ loop.r = r
    /\ Classify(Last(rows[r]).ask) \in asks

PollPending(r) ==
    /\ Polled(r, {"pending"})
    /\ NextRun
    /\ UNCHANGED <<durable, ctx, holder, crashes>>

\* The same call again, with the request it was approved under.
PollApproved(r) ==
    /\ Polled(r, {"approved"})
    /\ loop' = [loop EXCEPT !.pc = "exec"]
    /\ UNCHANGED <<durable, ctx, holder, crashes>>

\* Only after the call comes the transition; a run cancelled meanwhile refuses it, and
\* the error leaves the tick with the row as it was.
ExecAnswer(r, answer) ==
    /\ loop.pc = "exec" /\ loop.r = r
    /\ answer \in Answers(r)
    /\ \/ /\ Ended(r)
          /\ AbortTick
          /\ UNCHANGED <<run, rows, ctx, holder>>
       \/ /\ ~Ended(r)
          /\ Settle(r, answer, "pollreplan")
    /\ UNCHANGED <<start, crashes>>

\* Mutant: a refusal read by the poll sends the run back to planning.
PollDenied_Replans(r) ==
    /\ Polled(r, {"denied"})
    /\ SetRow(r, "failed")
    /\ IF Ended(r) THEN AbortTick /\ UNCHANGED <<run, ctx, holder>>
       ELSE Replan(r, "pollreplan")
    /\ UNCHANGED <<start, crashes>>

PollDenied(r) ==
    /\ Polled(r, {"denied"})
    /\ SetRow(r, "denied")
    /\ IF Ended(r) THEN AbortTick /\ UNCHANGED <<run, ctx, holder>>
       ELSE Finish(r, "FAILED") /\ NextRun
    /\ UNCHANGED <<start, crashes>>

\* Expired or used elsewhere: the run goes on and asks again, or parks at a boundary.
PollExpired(r) ==
    /\ Polled(r, {"expired", "used"})
    /\ \/ /\ Ended(r)
          /\ AbortTick
          /\ UNCHANGED <<run, holder>>
       \/ /\ ~Ended(r)
          /\ IF ctx[r].asks >= MaxAsks THEN OpenBoundary(r) ELSE Goto(r, "RUNNING")
          /\ Release(r)
          /\ NextRun
    /\ UNCHANGED <<rows, start, ctx, crashes>>

----------------------------------------------------------------------------
(* Verification, people, the clock and restarts.                           *)

\* Mutant: a block list, as it once was: only failures and refusals stand in the way.
Settled_Blocklist(r) == \A i \in DOMAIN rows[r] : rows[r][i].state \notin {"failed", "denied"}

Settled(r) == \A i \in DOMAIN rows[r] : rows[r][i].state \in SETTLED_OK

\* _do_verify and _harvest: success has to be shown; a build may leave no result.
DoVerify(r) ==
    /\ At(r, {"VERIFYING"}) /\ ~Ended(r)
    /\ \/ Settled(r) /\ Finish(r, "SUCCEEDED")
       \/ Finish(r, "FAILED")
    /\ NextRun
    /\ UNCHANGED <<rows, start, crashes>>

Cancel(r) ==
    /\ r \in open_runs
    /\ Finish(r, "CANCELLED")
    /\ UNCHANGED <<rows, start, loop, crashes>>

Resume(r) ==
    /\ run[r].state = "WAITING_USER"
    /\ Goto(r, "RUNNING")
    /\ ctx' = [ctx EXCEPT ![r] = [Rebuild(r) EXCEPT !.asks = 0]]
    /\ UNCHANGED <<rows, start, holder, loop, crashes>>

\* The phone answers, or nobody does until the request is over.
RunDecision(r, d) ==
    /\ rows[r] # <<>>
    /\ \/ Last(rows[r]).ask = "pending"
       \/ Last(rows[r]).ask = "approved" /\ d = "expired"
    /\ rows' = [rows EXCEPT ![r][Last_(r)].ask = d]
    /\ UNCHANGED <<run, start, ctx, holder, loop, crashes>>

StartDecision(r, d) ==
    /\ \/ start[r].ask = "pending"
       \/ start[r].ask = "approved" /\ d = "expired"
    /\ start' = [start EXCEPT ![r].ask = d]
    /\ UNCHANGED <<run, rows, ctx, holder, loop, crashes>>

\* The process dies and reconciles before its first tick: what was open is interrupted,
\* a boundary stays, and no request that was pending survives.  No row changes: a row
\* carries the process group of a child only once the child has answered.
Crash ==
    /\ crashes < MaxCrashes
    /\ crashes' = crashes + 1
    /\ run' = [r \in Runs |-> IF r \in open_runs /\ run[r].state # "WAITING_USER"
                              THEN [run[r] EXCEPT !.state = "INTERRUPTED"] ELSE run[r]]
    /\ rows' = [r \in Runs |-> [i \in DOMAIN rows[r] |->
                   IF rows[r][i].ask = "pending" THEN [rows[r][i] EXCEPT !.ask = "expired"]
                   ELSE rows[r][i]]]
    /\ start' = [r \in Runs |-> IF start[r].ask = "pending"
                                THEN [start[r] EXCEPT !.ask = "expired"] ELSE start[r]]
    /\ ctx' = [r \in Runs |-> NULL]
    /\ holder' = 0
    /\ loop' = IdleLoop

Init ==
    /\ run = [r \in Runs |-> [state |-> "none", revs |-> 0]]
    /\ rows = [r \in Runs |-> <<>>]
    /\ start = [r \in Runs |-> [note |-> "none", ask |-> "none"]]
    /\ ctx = [r \in Runs |-> NULL]
    /\ holder = 0
    /\ loop = IdleLoop
    /\ crashes = 0

Tick == TickStart \/ TickRuns \/ TickEnd

Advance(r) ==
    \/ PollPendingStart(r) \/ StartAnswer(r)
    \/ SkipRun(r) \/ AdvanceCreated(r) \/ AdvancePlanning(r) \/ PlanAnswer(r)
    \/ ToVerify(r) \/ StepRefused(r) \/ StepInline(r) \/ StepSpecialist(r) \/ StepFlawed(r)
    \/ StepQueues(r) \/ StepCapability(r) \/ CapabilityAsks(r)
    \/ \E a \in {"ok", "goal", "bad", "quota"} : SpecialistAnswer(r, a)
    \/ \E a \in {"ok", "failed", "denied", "unknown", "policy"} :
          CapabilityAnswer(r, a) \/ ExecAnswer(r, a)
    \/ PollStart(r) \/ PollPending(r) \/ PollApproved(r) \/ PollDenied(r) \/ PollExpired(r)
    \/ DoVerify(r)

Expire(r) == RunDecision(r, "expired") \/ StartDecision(r, "expired")

People(r) ==
    \/ Command(r) \/ RememberPendingStart(r) \/ Cancel(r) \/ Resume(r)
    \/ \E d \in {"approved", "denied"} : RunDecision(r, d) \/ StartDecision(r, d)

Next ==
    \/ Tick
    \/ \E r \in Runs : Advance(r) \/ Effect(r) \/ Expire(r) \/ People(r)
    \/ Crash

\* The loop ticks for as long as the process lives, every call it waits for has a
\* timeout, and a request has an end; people owe nothing.
Spec == Init /\ [][Next]_vars
             /\ WF_vars(Tick \/ \E r \in Runs : Advance(r)) /\ \A r \in Runs : WF_vars(Expire(r))

----------------------------------------------------------------------------
(* Properties.                                                             *)

\* The one approval slot of the queue is held exactly by the run that waits for a human,
\* or by the run whose call is under way: no two requests cannibalise each other at the
\* router, and no ended run keeps the slot from the rest.
SlotIsTheWaiters ==
    /\ \A r \in Runs : run[r].state = "WAITING_APPROVAL" => holder = r
    /\ holder # 0 => \/ run[holder].state = "WAITING_APPROVAL"
                     \/ loop.r = holder /\ loop.pc = "capability"

\* _do_verify: a run succeeds only when every step it started is shown to be done, so a
\* step left running or waiting by a restart, or of unclear outcome, rules success out.
SuccessIsSettled == \A r \in Runs : run[r].state = "SUCCEEDED" =>
    \A i \in DOMAIN rows[r] : rows[r][i].state \in SETTLED_OK

Acts(r) == \/ Len(rows'[r]) > Len(rows[r])
           \/ \E i \in DOMAIN rows[r] : rows'[r][i].did /\ ~rows[r][i].did

\* "Er sucht keinen Weg um eine Ablehnung herum": from the moment a human refuses a
\* request of a run, the run takes no further step and reaches the world no more.
NoWayAroundDenial == \A r \in Runs :
    rows[r] # <<>> /\ Last(rows[r]).ask = "denied" => ~Acts(r)

\* An effect no row tells of.  What a direct call did before it came back as failed is
\* beyond the run's knowledge: it plans anew and may do it again.
Unbooked(r) == \E i \in DOMAIN rows[r] :
    /\ rows[r][i].did /\ rows[r][i].state # "succeeded"
    /\ ~(rows[r][i].state = "failed" /\ rows[r][i].ask # "used")
    /\ ~(i = Last_(r) /\ loop.r = r /\ loop.pc \in {"capability", "exec"})

\* An effect that happened without its row saying so (a restart, a cancellation or an
\* unclear answer in between) is never repeated or built upon: the run acts no more.
\* A direct call answered with a failure is not of these, see Unbooked.
NothingUncertainRepeated == \A r \in Runs : Unbooked(r) => ~Acts(r)

\* A run comes to an end, or to a boundary where a human has to act: nothing it waits for
\* (planner, specialist, router, a request nobody answers) holds it for good.
RunsEnd == \A r \in Runs :
    (r \in open_runs) ~> (Ended(r) \/ run[r].state = "WAITING_USER")

\* A note of a start that waits for its approval is taken or closed in the end, also when
\* the process dies while the call is being repeated.
StartResolves == \A r \in Runs :
    (start[r].note = "WAITING") ~> (start[r].note \in {"TAKEN", "CLOSED"})

\* The module's promise "Er verbucht nach einem Neustart nichts still als Erfolg": a run
\* that succeeded has at least one step to show.
SuccessHasWork == \A r \in Runs : run[r].state = "SUCCEEDED" => rows[r] # <<>>

\* A run that goes on may try its next step: the key of the attempt is not in the ledger
\* yet, so waiting for the slot, asking again and resuming really continue the run.
StepsAreFresh == \A r \in Runs :
    (loop.pc = "idle" /\ run[r].state = "RUNNING" /\ HasStep(r)) => Fresh(r)

\* A run that was created is taken up: only runs at work count against the limit.
EveryRunStarts == \A r \in Runs : (run[r].state = "CREATED") ~> (run[r].state # "CREATED")
=============================================================================
