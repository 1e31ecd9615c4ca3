-------------------------------- MODULE Deep --------------------------------
(***************************************************************************)
(* Deep tasks: the journal (deep_tasks, deep_events), the pump of each     *)
(* task against an executor that is not believed, cancelling and the       *)
(* pause, a reader that follows a task, and the service that comes back    *)
(* after a crash of the core.                                              *)
(*                                                                         *)
(* The executor is a list of runs; what its stream says is any event it    *)
(* may send.  The journal has one worker, so a write is one step; its      *)
(* event reaches the readers in the order of the writes.  A deadline may   *)
(* hit a pump between two steps or while the worker writes: then the write *)
(* stays and nobody is told.                                               *)
(***************************************************************************)
EXTENDS Integers, Sequences, FiniteSets, SequencesExt

CONSTANTS
    Tasks,          \* the tasks that may be asked for
    Callers,        \* turns of the dialogue that ask, cancel or pause
    MaxEvents,      \* bound: events of a task beyond which the executor is silent
    MAX_SCHEMA_RETRIES,
    MaxCrashes,     \* bound: crashes of the core
    Faults          \* which of deadline, cut, lost, unreachable, crash may happen

\* 0 is no task.
ConstantsOK ==
    /\ Tasks \subseteq Nat \ {0} /\ IsFiniteSet(Tasks)
    /\ {MaxEvents, MAX_SCHEMA_RETRIES, MaxCrashes} \subseteq Nat

VARIABLES
    task,       \* the rows of deep_tasks, and the events of each
    paused,     \* the flag deep_paused
    pump,       \* _pumps: where each is, and what it holds
    results,    \* _results, in memory
    leases,     \* _leases: the tasks the broker serves
    remote,     \* the runs of the executor
    caller,
    reader,     \* stream: the task, how far it has read, what waits in its queue
    svc,        \* the service: up, or recovering with rows still to close
    crashes

vars == <<task, paused, pump, results, leases, remote, caller, reader, svc, crashes>>

TERMINAL == {"succeeded", "failed", "cancelled", "timed_out"}
TERMINAL_KINDS == {"succeeded", "failed", "cancelled"}
StatusFor == [created |-> "queued", starting |-> "queued", running |-> "running",
              waiting |-> "waiting_for_user", resumed |-> "running"]

NoRow == [status |-> "none", run |-> 0, events |-> <<>>]
NoPump == [pc |-> "none", run |-> 0, tries |-> 0, why |-> ""]
NoCaller == [pc |-> "idle", task |-> 0, todo |-> <<>>]
NoReader == [pc |-> "off", task |-> 0, seen |-> 0, queue |-> <<>>]

Open(t) == task[t].status \notin TERMINAL \cup {"none"}
OpenTasks == SetToSeq({t \in Tasks : Open(t)})
InMemory == <<pump, results, leases, caller, reader>>

TypeOK ==
    /\ \A t \in Tasks : /\ task[t].status \in TERMINAL \cup {"none", "queued", "running", "waiting_for_user"}
                        /\ task[t].run \in 0..Len(remote)
                        /\ task[t].status = "none" <=> task[t].events = <<>>
    /\ \A t \in Tasks : pump[t].tries \in 0..MAX_SCHEMA_RETRIES
    /\ paused \in BOOLEAN /\ leases \subseteq Tasks
    /\ \A t \in Tasks : t \in leases <=> pump[t].pc \notin {"none", "done"}
    /\ svc.pc \in {"up", "recovering"} /\ crashes \in 0..MaxCrashes

----------------------------------------------------------------------------
(* The journal.                                                            *)

\* _publish, of the event written last: to the reader that follows the task.
Publish(t, row) ==
    reader' = IF reader.pc # "off" /\ reader.task = t
              THEN [reader EXCEPT !.queue = Append(@, <<Len(row.events), Last(row.events)>>)] ELSE reader

\* _record: what comes after the end changes nothing.
Recorded(row, kind) ==
    [row EXCEPT !.events = Append(@, kind),
                !.status = IF @ \in TERMINAL \/ kind \notin DOMAIN StatusFor THEN @ ELSE StatusFor[kind]]

\* Mutant: an end is written over an end.
Finished_Overwrites(row, kind, status) ==
    [row EXCEPT !.events = Append(@, kind), !.status = status]

\* _finish: a second end is an observation.
Finished(row, kind, status) ==
    IF row.status \in TERMINAL THEN [row EXCEPT !.events = Append(@, "observation")]
    ELSE [row EXCEPT !.events = Append(@, kind), !.status = status]

\* The pump writes; a deadline may cut it off while the worker does.  What is recorded
\* after the end is told to nobody.
Write(t, row, next) ==
    /\ task' = [task EXCEPT ![t] = row]
    /\ \/ /\ pump' = [pump EXCEPT ![t] = next]
          /\ IF task[t].status \in TERMINAL THEN UNCHANGED reader ELSE Publish(t, row)
       \/ /\ "cut" \in Faults
          /\ pump' = [pump EXCEPT ![t].pc = "late"]
          /\ UNCHANGED reader

----------------------------------------------------------------------------
(* run_task.                                                               *)

AskedFor(c, t) ==
    /\ svc.pc = "up" /\ caller[c] = NoCaller /\ task[t].status = "none"
    /\ \A d \in Callers : caller[d].task # t
    /\ ~paused
    /\ caller' = [caller EXCEPT ![c] = [pc |-> "create", task |-> t, todo |-> <<>>]]
    /\ UNCHANGED <<task, paused, pump, results, leases, remote, reader, svc, crashes>>

Create(c) ==
    /\ caller[c].pc = "create"
    /\ LET t == caller[c].task IN
       /\ task' = [task EXCEPT ![t] = [status |-> "queued", run |-> 0, events |-> <<"created">>]]
       /\ leases' = leases \cup {t}
       /\ pump' = [pump EXCEPT ![t] = [NoPump EXCEPT !.pc = "starting"]]
    /\ caller' = [caller EXCEPT ![c] = NoCaller]
    /\ UNCHANGED <<paused, results, remote, reader, svc, crashes>>

----------------------------------------------------------------------------
(* The pump: _one_run.                                                     *)

At(t, pc) == pump[t].pc = pc
Goes(t, pc) == pump' = [pump EXCEPT ![t].pc = pc]
Fails(t, why) == pump' = [pump EXCEPT ![t].pc = "fail", ![t].why = why]

Starting(t) ==
    /\ At(t, "starting")
    /\ Write(t, Recorded(task[t], "starting"), [pump[t] EXCEPT !.pc = "submit"])
    /\ UNCHANGED <<paused, results, leases, remote, caller, svc, crashes>>

NewRun(t) == Append(remote, [task |-> t, live |-> TRUE, told |-> FALSE])

Submit(t) ==
    /\ At(t, "submit") /\ remote' = NewRun(t)
    /\ pump' = [pump EXCEPT ![t].pc = "attach", ![t].run = Len(remote')]
    /\ UNCHANGED <<task, paused, results, leases, caller, reader, svc, crashes>>

\* No answer, or one that is lost although the run was begun.
SubmitFails(t) ==
    /\ At(t, "submit") /\ Faults \cap {"unreachable", "lost"} # {}
    /\ remote' \in {remote} \cup {NewRun(t) : x \in Faults \cap {"lost"}}
    /\ Fails(t, "executor_unavailable")
    /\ UNCHANGED <<task, paused, results, leases, caller, reader, svc, crashes>>

\* Mutant: attach_run always says that the run is still wanted.
Unwanted_Never(t) == FALSE

\* attach_run: not wanted any more when the task has ended meanwhile.
Unwanted(t) == task[t].status \in TERMINAL

\* The run is noted in any case.
Attach(t) ==
    /\ At(t, "attach")
    /\ task' = [task EXCEPT ![t].run = pump[t].run]
    /\ Goes(t, IF Unwanted(t) THEN "stop" ELSE "events")
    /\ UNCHANGED <<paused, results, leases, remote, caller, reader, svc, crashes>>

Told(r) == IF r = 0 THEN remote ELSE [remote EXCEPT ![r].told = TRUE]

\* client.stop: asked for, whether or not it arrives.
StopOwn(t) ==
    /\ At(t, "stop") /\ remote' = Told(pump[t].run) /\ Goes(t, "close")
    /\ UNCHANGED <<task, paused, results, leases, caller, reader, svc, crashes>>

\* An event of the stream.  Once the task is not the pump's any more it leaves.
Event(t, kind, next) ==
    /\ At(t, "events") /\ remote[pump[t].run].live
    /\ kind = "observation" /\ next = "events" => Len(task[t].events) < MaxEvents
    /\ kind \in {"running", "waiting"} => Len(task[t].events) < MaxEvents
    /\ Write(t, Recorded(task[t], kind),
             [pump[t] EXCEPT !.pc = IF task[t].status \in TERMINAL THEN "close" ELSE next,
                             !.why = IF next = "fail" THEN "executor_failure" ELSE @])
    /\ remote' = IF next \in {"shape", "fail", "aborted"} THEN [remote EXCEPT ![pump[t].run].live = FALSE] ELSE remote
    /\ UNCHANGED <<paused, results, leases, caller, svc, crashes>>

ReadEvent(t) ==
    \/ Event(t, "running", "events")            \* run.started
    \/ Event(t, "observation", "events")        \* tool.started and the rest
    \/ Event(t, "waiting", "answer")            \* approval.request
    \/ Event(t, "observation", "shape")         \* run.completed
    \/ Event(t, "observation", "fail")          \* run.failed
    \/ Event(t, "observation", "aborted")       \* run.cancelled

\* The stream breaks or ends without a word, and the run goes on.
StreamEnds(t) ==
    /\ At(t, "events") /\ "unreachable" \in Faults
    /\ Goes(t, "shape") \/ Fails(t, "executor_unavailable")
    /\ UNCHANGED <<task, paused, results, leases, remote, caller, reader, svc, crashes>>

\* The answer is no, always.
Answer(t) ==
    /\ At(t, "answer")
    /\ Write(t, Recorded(task[t], "resumed"), [pump[t] EXCEPT !.pc = "events"])
    /\ UNCHANGED <<paused, results, leases, remote, caller, svc, crashes>>

Aborted(t) ==
    /\ At(t, "aborted")
    /\ Write(t, Finished(task[t], "cancelled", "cancelled"), [pump[t] EXCEPT !.pc = "close"])
    /\ UNCHANGED <<paused, results, leases, remote, caller, svc, crashes>>

----------------------------------------------------------------------------
(* _attempt, _succeed, _fail, _drive.                                      *)

\* The answer has the form: the result is put into memory, then the task is finished.
Shaped(t) ==
    /\ At(t, "shape")
    /\ results' = [results EXCEPT ![t] = "success"] /\ Goes(t, "succeed")
    /\ UNCHANGED <<task, paused, leases, remote, caller, reader, svc, crashes>>

Retry(t) ==
    /\ At(t, "shape") /\ pump[t].tries < MAX_SCHEMA_RETRIES
    /\ Write(t, Recorded(task[t], "observation"), [pump[t] EXCEPT !.pc = "starting", !.tries = @ + 1])
    /\ UNCHANGED <<paused, results, leases, remote, caller, svc, crashes>>

Unshaped(t) ==
    /\ At(t, "shape") /\ pump[t].tries = MAX_SCHEMA_RETRIES /\ Fails(t, "schema_invalid")
    /\ UNCHANGED <<task, paused, results, leases, remote, caller, reader, svc, crashes>>

Succeed(t) ==
    /\ At(t, "succeed")
    /\ Write(t, Finished(task[t], "succeeded", "succeeded"), [pump[t] EXCEPT !.pc = "close"])
    /\ UNCHANGED <<paused, results, leases, remote, caller, svc, crashes>>

\* The deadline of the task, anywhere in its attempt; a request on its way may arrive.
Deadline(t) ==
    /\ "deadline" \in Faults
    /\ pump[t].pc \in {"starting", "submit", "attach", "stop", "events", "answer", "aborted", "shape", "succeed"}
    /\ remote' \in {remote} \cup {NewRun(t) : x \in {y \in {"lost"} \cap Faults : At(t, "submit")}}
    /\ Goes(t, "late")
    /\ UNCHANGED <<task, paused, results, leases, caller, reader, svc, crashes>>

Late(t) ==
    /\ At(t, "late") /\ remote' = Told(task[t].run) /\ Fails(t, "timeout")
    /\ UNCHANGED <<task, paused, results, leases, caller, reader, svc, crashes>>

\* _fail looks first.
Fail(t) ==
    /\ At(t, "fail") /\ Goes(t, IF task[t].status \in TERMINAL THEN "close" ELSE "failing")
    /\ UNCHANGED <<task, paused, results, leases, remote, caller, reader, svc, crashes>>

Failing(t) ==
    /\ At(t, "failing")
    /\ LET row == Finished(task[t], "failed", IF pump[t].why = "timeout" THEN "timed_out" ELSE "failed") IN
       task' = [task EXCEPT ![t] = row] /\ Publish(t, row)
    /\ results' = [results EXCEPT ![t] = "failure"] /\ Goes(t, "close")
    /\ UNCHANGED <<paused, leases, remote, caller, svc, crashes>>

\* finally: the one place every end passes.
Close(t) ==
    /\ At(t, "close") /\ leases' = leases \ {t} /\ Goes(t, "done")
    /\ UNCHANGED <<task, paused, results, remote, caller, reader, svc, crashes>>

Attempt(t) == \/ Starting(t) \/ Submit(t) \/ SubmitFails(t) \/ Attach(t) \/ StopOwn(t) \/ Answer(t) \/ Aborted(t)
              \/ Shaped(t) \/ Retry(t) \/ Unshaped(t) \/ Succeed(t)
Ending(t) == Late(t) \/ Fail(t) \/ Failing(t) \/ Close(t)

----------------------------------------------------------------------------
(* cancel_task and pause.                                                  *)

\* cancel: valid here before anybody out there is told.
Cancelled(t) == LET row == [task[t] EXCEPT !.events = Append(@, "cancelled"), !.status = "cancelled"]
                IN  IF Open(t) THEN task' = [task EXCEPT ![t] = row] /\ Publish(t, row)
                    ELSE UNCHANGED <<task, reader>>

Cancel(c, t) ==
    /\ svc.pc = "up" /\ caller[c] = NoCaller /\ Open(t) /\ Cancelled(t)
    /\ caller' = [caller EXCEPT ![c] = [pc |-> "stop", task |-> t, todo |-> <<>>]]
    /\ UNCHANGED <<paused, pump, results, leases, remote, svc, crashes>>

\* The run of now, if one is noted.
Stop(c) ==
    /\ caller[c].pc = "stop" /\ remote' = Told(task[caller[c].task].run)
    /\ caller' = [caller EXCEPT ![c] = IF @.todo = <<>> THEN NoCaller ELSE [@ EXCEPT !.pc = "next"]]
    /\ UNCHANGED <<task, paused, pump, results, leases, reader, svc, crashes>>

Pause(c) ==
    /\ svc.pc = "up" /\ caller[c] = NoCaller /\ ~paused /\ paused' = TRUE
    /\ caller' = [caller EXCEPT ![c].pc = "list"]
    /\ UNCHANGED <<task, pump, results, leases, remote, reader, svc, crashes>>

PauseLists(c) ==
    /\ caller[c].pc = "list"
    /\ caller' = [caller EXCEPT ![c] = IF OpenTasks = <<>> THEN NoCaller ELSE [@ EXCEPT !.pc = "next", !.todo = OpenTasks]]
    /\ UNCHANGED <<task, paused, pump, results, leases, remote, reader, svc, crashes>>

PauseCancels(c) ==
    /\ caller[c].pc = "next" /\ Cancelled(Head(caller[c].todo))
    /\ caller' = [caller EXCEPT ![c] = [pc |-> "stop", task |-> Head(@.todo), todo |-> Tail(@.todo)]]
    /\ UNCHANGED <<paused, pump, results, leases, remote, svc, crashes>>

----------------------------------------------------------------------------
(* stream.                                                                 *)

\* First it hangs in, then it reads what was written before.
Follow(t) ==
    /\ reader.pc = "off" /\ task[t].status # "none" /\ svc.pc = "up"
    /\ reader' = [NoReader EXCEPT !.pc = "replay", !.task = t]
    /\ UNCHANGED <<task, paused, pump, results, leases, remote, caller, svc, crashes>>

Replay ==
    /\ reader.pc = "replay"
    /\ reader' = [reader EXCEPT !.pc = "look", !.seen = Len(task[reader.task].events)]
    /\ UNCHANGED <<task, paused, pump, results, leases, remote, caller, svc, crashes>>

\* A task that has ended is left, whatever waits in the queue.
LookAtTask ==
    /\ reader.pc = "look"
    /\ reader' = IF Open(reader.task) THEN [reader EXCEPT !.pc = "live"] ELSE [reader EXCEPT !.pc = "ended"]
    /\ UNCHANGED <<task, paused, pump, results, leases, remote, caller, svc, crashes>>

\* Mutant: the sequence is not compared with what was replayed but has to follow it.
Fresh_Next(e) == e[1] = reader.seen + 2

\* What the replay has shown already is skipped.
Fresh(e) == e[1] > reader.seen

Receive ==
    /\ reader.pc = "live" /\ reader.queue # <<>>
    /\ LET e == Head(reader.queue) IN
       reader' = IF ~Fresh(e) THEN [reader EXCEPT !.queue = Tail(@)]
                 ELSE [reader EXCEPT !.queue = Tail(@), !.seen = e[1],
                                     !.pc = IF e[2] \in TERMINAL_KINDS THEN "ended" ELSE "live"]
    /\ UNCHANGED <<task, paused, pump, results, leases, remote, caller, svc, crashes>>

Read == Replay \/ LookAtTask \/ Receive

----------------------------------------------------------------------------
(* The service.                                                            *)

\* The core dies; what it started at the executor goes on or dies with it.
Crash ==
    /\ "crash" \in Faults /\ crashes < MaxCrashes /\ crashes' = crashes + 1
    /\ pump' = [t \in Tasks |-> NoPump] /\ results' = [t \in Tasks |-> "none"] /\ leases' = {}
    /\ caller' = [c \in Callers |-> NoCaller] /\ reader' = NoReader
    /\ svc' = [pc |-> "recovering", todo |-> OpenTasks, stop |-> 0]
    /\ UNCHANGED <<task, paused, remote>>

\* start: what was open is cancelled, nothing is gone on with.
Recover ==
    /\ svc.pc = "recovering"
    /\ \/ /\ svc.todo # <<>> /\ svc.stop = 0
          /\ Cancelled(Head(svc.todo))
          /\ svc' = [svc EXCEPT !.stop = Head(svc.todo)]
          /\ UNCHANGED remote
       \/ /\ svc.stop # 0 /\ remote' = Told(task[svc.stop].run)
          /\ svc' = [svc EXCEPT !.todo = Tail(@), !.stop = 0]
          /\ UNCHANGED <<task, reader>>
       \/ /\ svc.todo = <<>> /\ svc' = [svc EXCEPT !.pc = "up"]
          /\ UNCHANGED <<task, reader, remote>>
    /\ UNCHANGED <<paused, pump, results, leases, caller, crashes>>

----------------------------------------------------------------------------
Init ==
    /\ task = [t \in Tasks |-> NoRow] /\ paused = FALSE
    /\ pump = [t \in Tasks |-> NoPump] /\ results = [t \in Tasks |-> "none"] /\ leases = {}
    /\ remote = <<>> /\ caller = [c \in Callers |-> NoCaller] /\ reader = NoReader
    /\ svc = [pc |-> "up", todo |-> <<>>, stop |-> 0] /\ crashes = 0

Turn(c) == Create(c) \/ Stop(c) \/ PauseLists(c) \/ PauseCancels(c)

Next ==
    \/ \E t \in Tasks : Attempt(t) \/ ReadEvent(t) \/ StreamEnds(t) \/ Deadline(t) \/ Ending(t) \/ Follow(t)
    \/ \E c \in Callers : Turn(c) \/ Pause(c) \/ \E t \in Tasks : AskedFor(c, t) \/ Cancel(c, t)
    \/ Read \/ Crash \/ Recover

\* The loop goes on, the deadline strikes, turns and readers are served.
Spec == /\ Init /\ [][Next]_vars
        /\ \A t \in Tasks : WF_vars(Attempt(t) \/ Ending(t)) /\ WF_vars(Deadline(t))
        /\ \A c \in Callers : WF_vars(Turn(c))
        /\ WF_vars(Read) /\ WF_vars(Recover)

----------------------------------------------------------------------------
(* Properties.                                                             *)

Ends(row) == {i \in DOMAIN row.events : row.events[i] \in TERMINAL_KINDS}
EndedAs(row) == IF row.status = "timed_out" THEN "failed" ELSE row.status

\* A task has one end, the one its row says, whatever arrives after it and whoever else
\* wanted to end it at the same time.
OneEnd == \A t \in Tasks :
    IF task[t].status \notin TERMINAL THEN Ends(task[t]) = {}
    ELSE \E i \in DOMAIN task[t].events :
             Ends(task[t]) = {i} /\ task[t].events[i] = EndedAs(task[t])

\* Nothing falls over unsettled: while the service is up a task that has not ended has
\* its pump.
OpenIsDriven == svc.pc = "up" => \A t \in Tasks : Open(t) => pump[t].pc \notin {"none", "done", "close"}

\* When a cancelled task is at rest the run its row names has ended or was told to.  (A
\* crash between the two writes of a cancel is not made good by the next start.)
CancelledIsStopped == crashes = 0 => \A t \in Tasks :
    LET r == task[t].run IN
    /\ task[t].status = "cancelled" /\ r # 0 /\ pump[t].pc \in {"none", "done"}
    /\ \A c \in Callers : caller[c].task # t
    /\ svc.stop # t
    => remote[r].told \/ ~remote[r].live

\* A pump comes to its end.
PumpsEnd == \A t \in Tasks : pump[t].pc = "starting" ~> pump[t].pc \in {"none", "done"}

\* Who follows a task learns that it has ended.
ReadersEnd == reader.pc \in {"replay", "look", "live"} ~> reader.pc \in {"off", "ended"}

\* What the documents say and the code does not do.

\* Once the pause is done nothing deep runs.
PauseHolds == paused /\ (\A c \in Callers : caller[c].pc = "idle") => \A t \in Tasks : ~Open(t)

\* What get_result says of a task agrees with its row.
ResultAgrees == \A t \in Tasks : task[t].status \in TERMINAL /\ pump[t].pc = "done"
    => (results[t] = "success" <=> task[t].status = "succeeded")

\* A reader that has been left has seen the end.
NoHole == reader.pc = "ended" => reader.seen >= Len(task[reader.task].events)
=============================================================================
