----------------------------- MODULE Proactive -----------------------------
(***************************************************************************)
(* The background tasks of proactive/: what a human set up runs when it is *)
(* due, once for every occurrence, over restarts; its news are kept as     *)
(* items.                                                                  *)
(*                                                                         *)
(* A row is read whole and written back whole (put_task): the scheduler    *)
(* between a poll and the end of a run, a human's command and the doctor   *)
(* between two awaits.  Each database call is an action; what lies between *)
(* two of them belongs to the action before.  Time is a bounded clock;     *)
(* schedules keep the law of next_after and leave the calendar to the      *)
(* multiples of a day.                                                     *)
(***************************************************************************)
EXTENDS Integers, FiniteSets

CONSTANTS
    Tasks,           \* the tasks a human may set up
    Plans,           \* what each is: [schedule, notify, cond]
    Values,          \* what an executor may answer
    Matching,        \* the answers that meet a task's condition
    FailKinds,       \* what else a run may come to: subset of {"failed", "approval_pending"}
    Day,             \* distance between two occurrences of a daily task
    Grace,           \* grace_seconds
    MAX_FAILURES,
    BackoffCeiling,
    MAX_CONCURRENT,
    Horizon,         \* bound: the last moment of the clock
    MaxCrashes,      \* bound: the number of crashes
    MaxCommands,     \* bound: the number of human and doctor commands
    NULL

ConstantsOK ==
    /\ Day \in Nat \ {0} /\ Grace \in Nat /\ MAX_FAILURES \in Nat \ {0}
    /\ BackoffCeiling \in Nat \ {0} /\ MAX_CONCURRENT \in Nat \ {0}
    /\ Horizon \in Nat /\ MaxCrashes \in Nat /\ MaxCommands \in Nat
    /\ Matching \subseteq Values

VARIABLES
    clock,
    tasks,       \* the rows of tasks, NULL where there is none
    runs,        \* task_runs: the state of each claimed occurrence
    items,       \* proactive: the (task, fingerprint) pairs reported
    jobs,        \* the _guarded coroutines, one per task of _running
    loop,        \* the scheduler: down, recovering or polling
    cmd,         \* the command of a human or the doctor, between its read and its write
    spent,       \* crashes and commands so far
    seen         \* what happened, for the properties only

vars == <<clock, tasks, runs, items, jobs, loop, cmd, spent, seen>>

Moments == 1..Horizon
RowStates == {"active", "paused", "expired", "completed"}
RunStates == {"claimed", "done", "failed", "interrupted", "no_change", "approval_pending"}
Row == [state : RowStates, enabled : BOOLEAN, next : Nat \cup {NULL}, fails : 0..MAX_FAILURES,
        retry : Nat, fp : Values \cup {NULL}]
Pcs == {"queued", "claim", "execute", "finish", "item", "put"}

TypeOK ==
    /\ clock \in 0..Horizon
    /\ tasks \in [Tasks -> Row \cup {NULL}]
    /\ \A t \in Tasks : \A o \in DOMAIN runs[t] : o \in 0..Horizon /\ runs[t][o] \in RunStates
    /\ items \subseteq Tasks \X Values
    /\ \A t \in Tasks : jobs[t] # NULL =>
          jobs[t].pc \in Pcs /\ jobs[t].snap \in Row /\ jobs[t].occ \in 0..Horizon
    /\ Cardinality({t \in Tasks : jobs[t] # NULL /\ jobs[t].pc # "queued"}) <= MAX_CONCURRENT
    /\ loop.pc \in {"down", "recover", "poll"}
    /\ spent.crashes \in 0..MaxCrashes /\ spent.commands \in 0..MaxCommands

----------------------------------------------------------------------------
(* Schedules and rows.                                                     *)

NextMultiple(after) == Day * (after \div Day + 1)

\* next_after: strictly after; a one-shot has no second occurrence.
next_after(t, after) ==
    LET s == Plans[t].schedule IN
    CASE s.kind = "one_shot" -> IF s.at > after THEN s.at ELSE NULL
      [] s.kind = "interval" -> after + s.every
      [] s.kind = "daily"    -> NextMultiple(after)

\* The occurrences missed from the first one on, until now.
Missed(t, first, now) ==
    LET s == Plans[t].schedule IN
    CASE s.kind = "one_shot" -> {first}
      [] s.kind = "interval" -> {o \in first..now : (o - first) % s.every = 0}
      [] s.kind = "daily"    -> {first} \cup {o \in first..now : o % Day = 0}

\* catch_up: whether the last of them still means something.
StillMeans(t, first, now) ==
    \E o \in Missed(t, first, now) : (\A p \in Missed(t, first, now) : p <= o) /\ now - o <= Grace

Running(row) == row # NULL /\ row.enabled /\ row.state = "active"

\* due_tasks: also used by the properties.
Due(t) == Running(tasks[t]) /\ tasks[t].next # NULL /\ tasks[t].next <= clock
          /\ tasks[t].retry <= clock

\* put_task: an upsert of the whole row, whatever became of the row meanwhile.
put_task(t, row) == tasks' = [tasks EXCEPT ![t] = row]

Backoff(fails) == LET wait == 2 ^ (fails - 1) IN IF wait < BackoffCeiling THEN wait ELSE BackoffCeiling

\* _advance: the row with its next occurrence, or closed.
Advance_FromOccurrence(t, row, occ) ==
    LET following == next_after(t, occ) IN
    IF following # NULL THEN [row EXCEPT !.next = following]
    ELSE [row EXCEPT !.next = NULL, !.state = "completed"]

\* The next occurrence lies after now, however late this one was.
Advance(t, row, occ) ==
    LET following == next_after(t, IF occ > clock THEN occ ELSE clock) IN
    IF following # NULL THEN [row EXCEPT !.next = following]
    ELSE [row EXCEPT !.next = NULL, !.state = "completed"]

\* _after_failure: a longer wait each time, in the end a pause.
AfterFailure(row) ==
    LET n == row.fails + 1 IN
    IF n >= MAX_FAILURES
    THEN [row EXCEPT !.fails = MAX_FAILURES, !.retry = clock + Backoff(n),
                     !.enabled = FALSE, !.state = "paused"]
    ELSE [row EXCEPT !.fails = n, !.retry = clock + Backoff(n)]

\* A run that did not fail: its fingerprint becomes the one to compare with.
Succeeded(row, fp) == [row EXCEPT !.fails = 0, !.retry = 0, !.fp = fp]

----------------------------------------------------------------------------
(* The clock, and what humans and the doctor do.                           *)

Tick ==
    /\ clock < Horizon
    /\ clock' = clock + 1
    /\ UNCHANGED <<tasks, runs, items, jobs, loop, cmd, spent, seen>>

\* create: one row; the identity holds the moment, so a deleted task is not set up again.
Create(t) ==
    /\ loop.pc # "down" /\ tasks[t] = NULL /\ t \notin seen.created
    /\ put_task(t, [state |-> "active", enabled |-> TRUE, next |-> next_after(t, clock),
                    fails |-> 0, retry |-> 0, fp |-> NULL])
    /\ seen' = [seen EXCEPT !.created = @ \cup {t}]
    /\ UNCHANGED <<clock, runs, items, jobs, loop, cmd, spent>>

\* _task: a command begins by reading the row.
CommandReads(op, t) ==
    /\ loop.pc # "down" /\ cmd = NULL /\ spent.commands < MaxCommands
    /\ tasks[t] # NULL
    /\ op = "reset_backoff" => tasks[t].retry # 0 \/ tasks[t].fails # 0
    /\ cmd' = [op |-> op, task |-> t, snap |-> tasks[t]]
    /\ spent' = [spent EXCEPT !.commands = @ + 1]
    /\ UNCHANGED <<clock, tasks, runs, items, jobs, loop, seen>>

\* pause, resume, run_now and the doctor's _reset_backoff write what they read, changed.
Changed(c) ==
    CASE c.op = "pause"   -> [c.snap EXCEPT !.enabled = FALSE, !.state = "paused"]
      [] c.op = "resume"  -> [c.snap EXCEPT !.enabled = TRUE, !.state = "active", !.fails = 0,
                                            !.retry = 0, !.next = next_after(c.task, clock)]
      [] c.op = "run_now" -> [c.snap EXCEPT !.next = clock, !.retry = 0]
      [] c.op = "reset_backoff" -> [c.snap EXCEPT !.fails = 0, !.retry = 0]

CommandWrites ==
    /\ cmd # NULL /\ cmd.op # "delete"
    /\ cmd.op = "run_now" => clock \notin DOMAIN runs[cmd.task]     \* instants differ
    /\ put_task(cmd.task, Changed(cmd))
    /\ cmd' = NULL
    /\ seen' = CASE cmd.op = "pause" -> [seen EXCEPT !.paused = @ \cup {cmd.task}]
                 [] cmd.op = "resume" -> [seen EXCEPT !.paused = @ \ {cmd.task}]
                 [] OTHER -> seen
    /\ UNCHANGED <<clock, runs, items, jobs, loop, spent>>

\* delete: the runs go with the row (ON DELETE CASCADE), the items stay.
Delete ==
    /\ cmd # NULL /\ cmd.op = "delete"
    /\ tasks' = [tasks EXCEPT ![cmd.task] = NULL]
    /\ runs' = [runs EXCEPT ![cmd.task] = <<>>]
    /\ seen' = [seen EXCEPT !.deleted = @ \cup {cmd.task}]
    /\ cmd' = NULL
    /\ UNCHANGED <<clock, items, jobs, loop, spent>>

Ops == {"pause", "resume", "run_now", "reset_backoff", "delete"}

----------------------------------------------------------------------------
(* The scheduler: a start, its recovery, and a poll.                       *)

Live(t, o) == jobs[t] # NULL /\ jobs[t].occ = o /\ jobs[t].pc \in {"execute", "finish"}

\* recover, the runs: whatever is unfinished was interrupted.
Interrupted(t) == [o \in DOMAIN runs[t] |-> IF runs[t][o] = "claimed" THEN "interrupted" ELSE runs[t][o]]

\* recover, the tasks: list_tasks(only_active) is read once; the overdue ones that mean
\* nothing any more are moved on or expire.
Stale == {t \in Tasks : Running(tasks[t]) /\ tasks[t].next # NULL /\ tasks[t].next <= clock
                        /\ ~StillMeans(t, tasks[t].next, clock)}
MovedOn(t, row) ==
    LET following == next_after(t, clock) IN
    IF following = NULL THEN [row EXCEPT !.next = NULL, !.state = "expired"]
    ELSE [row EXCEPT !.next = following]

RecoverRuns ==
    /\ runs' = [t \in Tasks |-> Interrupted(t)]
    /\ loop' = [pc |-> "recover", todo |-> [t \in Stale |-> MovedOn(t, tasks[t])], since |-> clock]
    /\ seen' = [seen EXCEPT !.late = [t \in Tasks |-> 0]]

Start ==
    /\ loop.pc = "down"
    /\ RecoverRuns
    /\ UNCHANGED <<clock, tasks, items, jobs, cmd, spent>>

\* The doctor's _restart_scheduler: stop cancels the loop, the runs under way go on.
RestartScheduler ==
    /\ loop.pc = "poll" /\ spent.commands < MaxCommands
    /\ RecoverRuns
    /\ spent' = [spent EXCEPT !.commands = @ + 1]
    /\ UNCHANGED <<clock, tasks, items, jobs, cmd>>

RecoverPut(t) ==
    /\ loop.pc = "recover" /\ t \in DOMAIN loop.todo
    /\ put_task(t, loop.todo[t])
    /\ loop' = [loop EXCEPT !.todo = [u \in DOMAIN loop.todo \ {t} |-> loop.todo[u]]]
    /\ UNCHANGED <<clock, runs, items, jobs, cmd, spent, seen>>

Recovered ==
    /\ loop.pc = "recover" /\ DOMAIN loop.todo = {}
    /\ loop' = [loop EXCEPT !.pc = "poll"]
    /\ UNCHANGED <<clock, tasks, runs, items, jobs, cmd, spent, seen>>

\* poll: every due task that has no run under way.
Poll ==
    /\ loop.pc = "poll"
    /\ \E t \in Tasks : Due(t) /\ jobs[t] = NULL
    /\ jobs' = [t \in Tasks |-> IF Due(t) /\ jobs[t] = NULL
                                THEN [pc |-> "queued", snap |-> tasks[t], occ |-> tasks[t].next,
                                      out |-> NULL]
                                ELSE jobs[t]]
    /\ UNCHANGED <<clock, tasks, runs, items, loop, cmd, spent, seen>>

----------------------------------------------------------------------------
(* One run: _guarded and run_once.                                         *)

At(t, pc) == jobs[t] # NULL /\ jobs[t].pc = pc
Step(t, pc) == jobs' = [jobs EXCEPT ![t].pc = pc]
Write(t, row) == jobs' = [jobs EXCEPT ![t].pc = "put", ![t].snap = row]

\* Mutant: the gate is left again once the occurrence is claimed.
Inside_Claiming == {u \in Tasks : At(u, "claim")}
\* Mutant: who waits counts like one who runs.
Inside_Waiting == {u \in Tasks : jobs[u] # NULL}

\* _gate: the runs inside the semaphore.
Inside == {u \in Tasks : jobs[u] # NULL /\ jobs[u].pc # "queued"}

Enter(t) ==
    /\ At(t, "queued")
    /\ Cardinality(Inside) < MAX_CONCURRENT
    /\ Step(t, "claim")
    /\ UNCHANGED <<clock, tasks, runs, items, loop, cmd, spent, seen>>

\* Mutant: whoever failed or was interrupted may have the occurrence again.
Claimable_Again(t, o) ==
    tasks[t] # NULL /\ (o \in DOMAIN runs[t] => runs[t][o] \in {"failed", "interrupted"})

\* The key (task_id, occurrence) is unique and refers to the task.
Claimable(t, o) == tasks[t] # NULL /\ o \notin DOMAIN runs[t]

WithRun(t, o, s) == [p \in DOMAIN runs[t] \cup {o} |-> IF p = o THEN s ELSE runs[t][p]]

Claim(t) ==
    /\ At(t, "claim")
    /\ Claimable(t, jobs[t].occ)
    /\ runs' = [runs EXCEPT ![t] = WithRun(t, jobs[t].occ, "claimed")]
    /\ Step(t, "execute")
    /\ UNCHANGED <<clock, tasks, items, loop, cmd, spent, seen>>

\* Mutant: a refused claim ends the run and nothing else.
ClaimRefused_NoAdvance(t) ==
    /\ At(t, "claim")
    /\ ~Claimable(t, jobs[t].occ)
    /\ jobs' = [jobs EXCEPT ![t] = NULL]
    /\ UNCHANGED <<clock, tasks, runs, items, loop, cmd, spent, seen>>

\* "run_already_claimed": the next occurrence is set all the same.
ClaimRefused(t) ==
    /\ At(t, "claim")
    /\ ~Claimable(t, jobs[t].occ)
    /\ Write(t, Advance(t, jobs[t].snap, jobs[t].occ))
    /\ UNCHANGED <<clock, tasks, runs, items, loop, cmd, spent, seen>>

\* _judge: whether an answer is worth an item.
Reports(t, fp, previous) ==
    IF Plans[t].cond
    THEN fp \in Matching /\ (Plans[t].notify = "wenn_zutrifft" => fp # previous)
    ELSE Plans[t].notify = "bei_aenderung" => fp # previous

Ran(t, o) == seen' = [seen EXCEPT !.ran[t] = [p \in DOMAIN @ \cup {o} |->
                 (IF p \in DOMAIN @ THEN @[p] ELSE 0) + (IF p = o THEN 1 ELSE 0)],
                                  !.late[t] = IF o < loop.since THEN @ + 1 ELSE @]

\* execute: the executor acts and answers, or fails, or asks a human first.
Execute(t) ==
    /\ At(t, "execute")
    /\ Ran(t, jobs[t].occ)
    /\ \/ \E v \in Values : jobs' = [jobs EXCEPT ![t].pc = "finish", ![t].out =
              [state |-> IF Reports(t, v, jobs[t].snap.fp) THEN "done" ELSE "no_change", fp |-> v]]
       \/ \E s \in FailKinds : jobs' = [jobs EXCEPT ![t].pc = "finish",
                                                   ![t].out = [state |-> s, fp |-> NULL]]
    /\ UNCHANGED <<clock, tasks, runs, items, loop, cmd, spent>>

\* RUN_TIMEOUT: whether the executor acted is not known; the row of the run stays claimed.
TimeOut(t) ==
    /\ At(t, "execute") /\ "failed" \in FailKinds
    /\ \/ Ran(t, jobs[t].occ)
       \/ UNCHANGED seen
    /\ Write(t, AfterFailure(jobs[t].snap))
    /\ UNCHANGED <<clock, tasks, runs, items, loop, cmd, spent>>

\* finish_run, and the row run_once goes on with.
FinishRun(t) ==
    /\ At(t, "finish")
    /\ runs' = [runs EXCEPT ![t] = IF jobs[t].occ \in DOMAIN @ THEN [@ EXCEPT ![jobs[t].occ] = jobs[t].out.state]
                                   ELSE @]
    /\ CASE jobs[t].out.state = "done" -> Step(t, "item")
         [] jobs[t].out.state = "failed" -> Write(t, AfterFailure(jobs[t].snap))
         [] OTHER -> Write(t, Advance(t, Succeeded(jobs[t].snap, jobs[t].out.fp), jobs[t].occ))
    /\ UNCHANGED <<clock, tasks, items, loop, cmd, spent, seen>>

\* add_item: the pair (task_id, fingerprint) is unique for ever.
AddItem(t) ==
    /\ At(t, "item")
    /\ items' = items \cup {<<t, jobs[t].out.fp>>}
    /\ seen' = IF <<t, jobs[t].out.fp>> \in items
               THEN [seen EXCEPT !.suppressed = @ \cup {<<t, jobs[t].snap.fp, jobs[t].out.fp>>}] ELSE seen
    /\ Write(t, Advance(t, Succeeded(jobs[t].snap, jobs[t].out.fp), jobs[t].occ))
    /\ UNCHANGED <<clock, tasks, runs, loop, cmd, spent>>

\* The last step of a run, however it went: the row as the run knows it.
PutBack(t) ==
    /\ At(t, "put")
    /\ put_task(t, jobs[t].snap)
    /\ jobs' = [jobs EXCEPT ![t] = NULL]
    /\ UNCHANGED <<clock, runs, items, loop, cmd, spent, seen>>

----------------------------------------------------------------------------
(* prune, mark_read and the inbox touch items nobody else reads.           *)

\* prune: what was read or expired long ago goes, and its fingerprint with it.
Prune(t, fp) ==
    /\ spent.commands < MaxCommands
    /\ <<t, fp>> \in items
    /\ items' = items \ {<<t, fp>>}
    /\ spent' = [spent EXCEPT !.commands = @ + 1]
    /\ UNCHANGED <<clock, tasks, runs, jobs, loop, cmd, seen>>

Crash ==
    /\ loop.pc # "down" /\ spent.crashes < MaxCrashes
    /\ loop' = [pc |-> "down", todo |-> <<>>, since |-> 0]
    /\ jobs' = [t \in Tasks |-> NULL]
    /\ cmd' = NULL
    /\ spent' = [spent EXCEPT !.crashes = @ + 1]
    /\ UNCHANGED <<clock, tasks, runs, items, seen>>

Init ==
    /\ clock = 0
    /\ tasks = [t \in Tasks |-> NULL]
    /\ runs = [t \in Tasks |-> <<>>]
    /\ items = {}
    /\ jobs = [t \in Tasks |-> NULL]
    /\ loop = [pc |-> "down", todo |-> <<>>, since |-> 0]
    /\ cmd = NULL
    /\ spent = [crashes |-> 0, commands |-> 0]
    /\ seen = [created |-> {}, paused |-> {}, deleted |-> {}, ran |-> [t \in Tasks |-> <<>>],
               late |-> [t \in Tasks |-> 0], suppressed |-> {}]

Scheduler == Start \/ Recovered \/ Poll \/ (\E t \in Tasks : RecoverPut(t))
Job(t) == \/ Enter(t) \/ Claim(t) \/ ClaimRefused(t) \/ Execute(t) \/ TimeOut(t)
          \/ FinishRun(t) \/ AddItem(t) \/ PutBack(t)
People == \/ \E t \in Tasks : Create(t) \/ \E op \in Ops : CommandReads(op, t)
          \/ CommandWrites \/ Delete \/ RestartScheduler
          \/ \E t \in Tasks, fp \in Values : Prune(t, fp)

Next == Tick \/ Scheduler \/ (\E t \in Tasks : Job(t)) \/ People \/ Crash

\* The loop polls for ever, a coroutine that is not waiting goes on (an executor that does
\* not answer is cut off by RUN_TIMEOUT), and a started process recovers.
Spec == Init /\ [][Next]_vars /\ WF_vars(Scheduler) /\ \A t \in Tasks : WF_vars(Job(t))

----------------------------------------------------------------------------
(* Properties.                                                             *)

\* The promise of the store: over polls, retries, commands, timeouts and crashes an
\* occurrence of a task reaches its executor at most once.
AtMostOncePerOccurrence ==
    \A t \in Tasks : \A o \in DOMAIN seen.ran[t] : t \notin seen.deleted => seen.ran[t][o] <= 1

\* After a start, however long the process was down, at most one missed occurrence of a
\* task is run.
OneCatchUp == \A t \in Tasks \ seen.deleted : seen.late[t] <= 1

\* No due task is due for ever: it is run, moved on, put off or stopped.
DueMovesOn == \A t \in Tasks : Due(t) ~> (~Due(t) \/ loop.pc = "down")

\* A job that begins comes to its end.
JobsEnd == \A t \in Tasks : (jobs[t] # NULL) ~> (jobs[t] = NULL)

\* What the documents say and the code does not do.

\* A paused task stays paused until it is resumed.
PauseHolds == \A t \in seen.paused : tasks[t] # NULL => ~Running(tasks[t])

\* A deleted task does not come back.
DeletedStays == \A t \in seen.deleted : tasks[t] = NULL

\* A task is completed by a run that did not fail.
CompletedDid == \A t \in Tasks : (tasks[t] # NULL /\ tasks[t].state = "completed") =>
    \E o \in DOMAIN runs[t] : runs[t][o] \in {"claimed", "done", "no_change", "approval_pending"}

\* Of a change that a task is to report, the item is kept.
ChangeIsReported == seen.suppressed = {}

\* What is marked as interrupted is not under way.
InterruptedIsOver == \A t \in Tasks : \A o \in DOMAIN runs[t] :
    runs[t][o] = "interrupted" => ~Live(t, o)
=============================================================================
