----------------------------- MODULE WorkingProofs ---------------------------
(***************************************************************************)
(* A deep task has one end, is driven until it has it, and a run nobody    *)
(* wants any more has ended or was told to stop: for any number of tasks,  *)
(* callers and runs, through deadlines, writes cut off, lost answers and   *)
(* crashes of the core.  And of the cores that start the executor, one at  *)
(* a time holds the jail (DeepService).  And of the runs of agents: who    *)
(* holds the slot, what a refusal and an unclear effect end (AgentRun).    *)
(***************************************************************************)
EXTENDS Deep, SequenceTheorems, FiniteSetTheorems, TLAPS

Statuses == TERMINAL \cup {"none", "queued", "running", "waiting_for_user"}
Kinds == TERMINAL_KINDS \cup {"created", "starting", "running", "waiting", "resumed", "observation"}

RowRec == [status : Statuses, run : Nat, events : Seq(Kinds)]
PumpRec == [pc : {"none", "starting", "submit", "attach", "stop", "events", "answer", "aborted", "shape",
                  "succeed", "late", "fail", "failing", "close", "done"},
            run : Nat, tries : 0..MAX_SCHEMA_RETRIES,
            why : {"", "executor_unavailable", "executor_failure", "schema_invalid", "timeout"}]
RunRec == [task : Tasks, live : BOOLEAN, told : BOOLEAN]
CallerRec == [pc : {"idle", "create", "stop", "list", "next"}, task : Tasks \cup {0}, todo : Seq(Tasks)]

Typed ==
    /\ task \in [Tasks -> RowRec] /\ pump \in [Tasks -> PumpRec] /\ remote \in Seq(RunRec)
    /\ caller \in [Callers -> CallerRec]
    /\ svc \in [pc : {"up", "recovering"}, todo : Seq(Tasks), stop : Tasks \cup {0}]
    /\ paused \in BOOLEAN /\ leases \subseteq Tasks /\ crashes \in 0..MaxCrashes

\* What OneEnd says of one row.
EndsOnce(row) ==
    IF row.status \notin TERMINAL THEN Ends(row) = {}
    ELSE \E i \in DOMAIN row.events : Ends(row) = {i} /\ row.events[i] = EndedAs(row)

RowSound(row, runs) ==
    /\ row.run \in 0..Len(runs)
    /\ row.status = "none" <=> row.events = <<>>
    /\ EndsOnce(row)

\* What a pump may rely on where it stands, and what it has left behind when it is through.
PumpSound(row, p, runs) ==
    /\ p.run \in 0..Len(runs)
    /\ row.status = "none" => p.pc = "none"
    /\ p.pc \in {"stop", "close", "done"} => row.status \in TERMINAL
    /\ p.pc \in {"attach", "stop", "events", "answer", "aborted"} => p.run # 0
    /\ p.pc \in {"stop", "events", "answer", "aborted"} => row.run = p.run
    /\ p.pc = "aborted" => ~runs[p.run].live

\* The run of a cancelled row is at its end, or its pump is about to tell it.
Halted(row, p, runs) ==
    row.status = "cancelled" /\ row.run # 0 =>
        p.pc \in {"stop", "late"} \/ runs[row.run].told \/ ~runs[row.run].live

Sound(t) == RowSound(task[t], remote) /\ PumpSound(task[t], pump[t], remote)
Leased(t) == t \in leases <=> pump[t].pc \notin {"none", "done"}

\* A turn goes on only while the service is up; who creates a task is alone with it.
TurnSound(c) ==
    /\ caller[c].pc # "idle" => svc.pc = "up"
    /\ caller[c].pc \in {"create", "stop"} => caller[c].task \in Tasks
    /\ caller[c].pc = "next" => caller[c].todo # <<>>
    /\ caller[c].pc = "create" =>
         /\ task[caller[c].task].status = "none"
         /\ \A d \in Callers : d # c /\ caller[d].pc = "create" => caller[d].task # caller[c].task

Listed(t, list) == \E i \in DOMAIN list : list[i] = t

\* After a crash no pump is left, and what is open is on the list.
Recovers ==
    /\ svc.pc = "recovering" =>
         /\ crashes # 0
         /\ \A t \in Tasks : pump[t].pc = "none" /\ (Open(t) => Listed(t, svc.todo))
         /\ svc.stop # 0 => svc.todo # <<>> /\ svc.stop = Head(svc.todo) /\ ~Open(svc.stop)
    /\ svc.pc = "up" => \A t \in Tasks : Open(t) => pump[t].pc # "none"

Heeded(t) == \E c \in Callers : caller[c].pc = "stop" /\ caller[c].task = t

IInv ==
    /\ Typed /\ Recovers
    /\ \A t \in Tasks : Sound(t) /\ Leased(t)
    /\ \A c \in Callers : TurnSound(c)
    /\ crashes = 0 => \A t \in Tasks : Heeded(t) \/ Halted(task[t], pump[t], remote)

-----------------------------------------------------------------------------
(* The helpers.                                                            *)

\* The list of the open tasks names tasks, and each of them.
LEMMA EveryOpenOneListed ==
    ASSUME ConstantsOK
    PROVE  /\ OpenTasks \in Seq(Tasks)
           /\ \A t \in Tasks : Open(t) => Listed(t, OpenTasks)
<1> DEFINE S == {t \in Tasks : Open(t)}
           N == 1..Cardinality(S)
<1>1. IsFiniteSet(S) /\ Cardinality(S) \in Nat /\ ExistsBijection(N, S)
  BY FS_Subset, FS_CardinalityType DEF ConstantsOK
<1>2. \E f \in [N -> S] : IsInjective(f)
  BY <1>1 DEF ExistsBijection, Bijection, Injection
<1>3. OpenTasks \in [N -> S] /\ IsInjective(OpenTasks)
  BY <1>2 DEF OpenTasks, SetToSeq
<1> HIDE DEF S
<1>4. Cardinality(N) = Cardinality(S)
  BY <1>1, FS_Interval
<1>5. OpenTasks \in Surjection(N, S)
  BY <1>1, <1>3, <1>4, FS_Injection DEF Injection
<1>6. S \subseteq Tasks
  BY DEF S
<1>7. OpenTasks \in Seq(Tasks)
  BY <1>1, <1>3, <1>6
<1> QED
  BY <1>3, <1>5, <1>7 DEF Surjection, Listed, S

Adds(row, kind, status) == [row EXCEPT !.events = Append(@, kind), !.status = status]

\* What an event adds to the ends of a row.
LEMMA AppendedEnds ==
    ASSUME NEW row \in RowRec, NEW kind \in Kinds, NEW status \in Statuses
    PROVE  LET new == Adds(row, kind, status) IN
           /\ new \in RowRec /\ new.run = row.run /\ new.status = status /\ new.events # <<>>
           /\ new.events = Append(row.events, kind)
           /\ kind \notin TERMINAL_KINDS => Ends(new) = Ends(row)
           /\ kind \in TERMINAL_KINDS => Ends(new) = Ends(row) \cup {Len(new.events)}
<1> DEFINE new == Adds(row, kind, status)
           list == Append(row.events, kind)
<1>0. row.events \in Seq(Kinds) /\ list \in Seq(Kinds) /\ list # <<>>
  BY AppendProperties DEF RowRec
<1> HIDE DEF list
<1>1. /\ new \in RowRec /\ new.run = row.run /\ new.status = status /\ new.events = list
      /\ new = [row EXCEPT !.events = list, !.status = status]
  <2>1. new = [row EXCEPT !.events = list, !.status = status]
    BY DEF list, Adds
  <2> HIDE DEF new
  <2> QED
    BY <1>0, <2>1 DEF RowRec
<1>2. /\ DOMAIN new.events = 1..(Len(row.events) + 1) /\ DOMAIN row.events = 1..Len(row.events)
      /\ Len(new.events) = Len(row.events) + 1
      /\ new.events[Len(row.events) + 1] = kind
      /\ \A i \in 1..Len(row.events) : new.events[i] = row.events[i]
  BY <1>0, <1>1, AppendProperties DEF list
<1> HIDE DEF new
<1>3. /\ kind \notin TERMINAL_KINDS => Ends(new) = Ends(row)
      /\ kind \in TERMINAL_KINDS => Ends(new) = Ends(row) \cup {Len(new.events)}
  BY <1>0, <1>1, <1>2 DEF Ends, list
<1> QED
  BY <1>0, <1>1, <1>3 DEF list, new

\* An observation, or the start of anything, leaves the end as it is.
LEMMA ObservingKeeps ==
    ASSUME NEW row \in RowRec, EndsOnce(row), NEW kind \in Kinds \ TERMINAL_KINDS, NEW status \in Statuses,
           row.status \in TERMINAL => status = row.status, row.status \notin TERMINAL => status \notin TERMINAL
    PROVE  EndsOnce(Adds(row, kind, status))
<1> DEFINE new == Adds(row, kind, status)
<1>0. row.events \in Seq(Kinds)
  BY DEF RowRec
<1> HIDE DEF new
<1>1. /\ new.status = status /\ Ends(new) = Ends(row)
      /\ new.events = Append(row.events, kind)
  BY AppendedEnds DEF new
<1>2. \A i \in DOMAIN row.events : i \in DOMAIN new.events /\ new.events[i] = row.events[i]
  BY <1>0, <1>1, AppendProperties
<1> QED
  BY <1>1, <1>2 DEF EndsOnce, EndedAs, new

\* An end is written to a row that has none.
LEMMA EndingKeeps ==
    ASSUME NEW row \in RowRec, EndsOnce(row), row.status \notin TERMINAL, NEW status \in TERMINAL,
           NEW kind, kind = (IF status = "timed_out" THEN "failed" ELSE status)
    PROVE  EndsOnce(Adds(row, kind, status))
<1>1. kind \in TERMINAL_KINDS /\ kind \in Kinds /\ status \in Statuses
  BY DEF TERMINAL, TERMINAL_KINDS, Kinds, Statuses
<1> DEFINE new == Adds(row, kind, status)
<1>0. row.events \in Seq(Kinds)
  BY DEF RowRec
<1> HIDE DEF new
<1>2. /\ new.status = status /\ Ends(new) = Ends(row) \cup {Len(new.events)}
      /\ new.events = Append(row.events, kind)
  BY <1>1, AppendedEnds DEF new
<1>3. Len(new.events) \in DOMAIN new.events /\ new.events[Len(new.events)] = kind
  BY <1>0, <1>1, <1>2, AppendProperties
<1>4. Ends(row) = {}
  BY DEF EndsOnce
<1> QED
  BY <1>2, <1>3, <1>4 DEF EndsOnce, EndedAs, new

\* _record: the row goes on, its run stays, and an end stays the end.
LEMMA RecordedIsSound ==
    ASSUME NEW row \in RowRec, EndsOnce(row), row.status # "none",
           NEW kind \in {"starting", "running", "waiting", "resumed", "observation"}
    PROVE  /\ Recorded(row, kind) \in RowRec /\ EndsOnce(Recorded(row, kind))
           /\ Recorded(row, kind).run = row.run /\ Recorded(row, kind).events # <<>>
           /\ Recorded(row, kind).status # "none" /\ (Recorded(row, kind).status \in TERMINAL <=> row.status \in TERMINAL)
           /\ row.status \in TERMINAL => Recorded(row, kind).status = row.status
<1> DEFINE status == IF row.status \in TERMINAL \/ kind \notin DOMAIN StatusFor THEN row.status ELSE StatusFor[kind]
<1>1. kind \in Kinds \ TERMINAL_KINDS /\ row.status \in Statuses
  BY DEF Kinds, TERMINAL_KINDS, RowRec
<1>2. status \in Statuses /\ status # "none" /\ (status \in TERMINAL <=> row.status \in TERMINAL)
      /\ (row.status \in TERMINAL => status = row.status)
  BY <1>1 DEF StatusFor, TERMINAL, Statuses
<1>3. Recorded(row, kind) = Adds(row, kind, status)
  BY DEF Recorded, RowRec, Adds
<1> HIDE DEF status
<1>4. EndsOnce(Recorded(row, kind))
  BY <1>1, <1>2, <1>3, ObservingKeeps
<1> QED
  BY <1>1, <1>2, <1>3, <1>4, AppendedEnds

\* _finish: the row has an end afterwards, the one it had or this one.
LEMMA FinishedIsSound ==
    ASSUME NEW row \in RowRec, EndsOnce(row), row.status # "none", NEW status \in TERMINAL,
           NEW kind, kind = (IF status = "timed_out" THEN "failed" ELSE status)
    PROVE  /\ Finished(row, kind, status) \in RowRec /\ EndsOnce(Finished(row, kind, status))
           /\ Finished(row, kind, status).run = row.run /\ Finished(row, kind, status).events # <<>>
           /\ Finished(row, kind, status).status = (IF row.status \in TERMINAL THEN row.status ELSE status)
<1>1. row.status \in Statuses /\ kind \in Kinds /\ status \in Statuses /\ "observation" \in Kinds \ TERMINAL_KINDS
  BY DEF Kinds, TERMINAL_KINDS, RowRec, TERMINAL, Statuses
<1>2. CASE row.status \in TERMINAL
  <2>1. Finished(row, kind, status) = Adds(row, "observation", row.status)
    BY <1>2 DEF Finished, RowRec, Adds
  <2>2. EndsOnce(Finished(row, kind, status))
    BY <1>1, <1>2, <2>1, ObservingKeeps
  <2> QED
    BY <1>1, <1>2, <2>1, <2>2, AppendedEnds
<1>3. CASE row.status \notin TERMINAL
  <2>1. Finished(row, kind, status) = Adds(row, kind, status)
    BY <1>3 DEF Finished, Adds
  <2>2. EndsOnce(Finished(row, kind, status))
    BY <1>3, <2>1, EndingKeeps
  <2> QED
    BY <1>1, <1>3, <2>1, <2>2, AppendedEnds
<1> QED
  BY <1>2, <1>3

\* No run of the executor is forgotten, none comes to life again, and what it was told it was told.
Grown(old, new) ==
    /\ new \in Seq(RunRec) /\ Len(new) >= Len(old)
    /\ \A r \in 1..Len(old) : (old[r].told => new[r].told) /\ (~old[r].live => ~new[r].live)

LEMMA OneRunChanges ==
    ASSUME remote \in Seq(RunRec), NEW r \in 1..Len(remote), NEW run \in RunRec,
           remote[r].told => run.told, ~remote[r].live => ~run.live
    PROVE  LET new == [remote EXCEPT ![r] = run] IN
           Grown(remote, new) /\ Len(new) = Len(remote) /\ new[r] = run
  BY DEF Grown

LEMMA RunsGrow ==
    ASSUME remote \in Seq(RunRec)
    PROVE  /\ Grown(remote, remote)
           /\ \A r \in 0..Len(remote) : /\ Grown(remote, Told(r)) /\ Len(Told(r)) = Len(remote)
                                        /\ r # 0 => Told(r)[r].told
           /\ \A t \in Tasks : Grown(remote, NewRun(t)) /\ Len(NewRun(t)) = Len(remote) + 1
           /\ \A r \in 1..Len(remote) : LET new == [remote EXCEPT ![r].live = FALSE] IN
                  Grown(remote, new) /\ Len(new) = Len(remote) /\ ~new[r].live
<1>1. Grown(remote, remote)
  BY DEF Grown
<1>2. ASSUME NEW r \in 0..Len(remote)
      PROVE  Grown(remote, Told(r)) /\ Len(Told(r)) = Len(remote) /\ (r # 0 => Told(r)[r].told)
  <2>1. CASE r = 0
    BY <1>1, <2>1 DEF Told
  <2>2. CASE r # 0
    <3> DEFINE run == [remote[r] EXCEPT !.told = TRUE]
    <3>1. r \in 1..Len(remote) /\ remote[r] \in RunRec
      BY <2>2
    <3>2. Told(r) = [remote EXCEPT ![r] = run]
      BY <2>2, <3>1 DEF Told
    <3>3. run \in RunRec /\ run.told /\ (~remote[r].live => ~run.live)
      BY <3>1 DEF RunRec
    <3> HIDE DEF run
    <3>4. /\ Grown(remote, [remote EXCEPT ![r] = run]) /\ Len([remote EXCEPT ![r] = run]) = Len(remote)
          /\ [remote EXCEPT ![r] = run][r] = run
      BY <3>1, <3>3, OneRunChanges
    <3> QED
      BY <3>2, <3>3, <3>4
  <2> QED
    BY <2>1, <2>2
<1>3. ASSUME NEW t \in Tasks PROVE Grown(remote, NewRun(t)) /\ Len(NewRun(t)) = Len(remote) + 1
  <2> DEFINE run == [task |-> t, live |-> TRUE, told |-> FALSE]
  <2>1. run \in RunRec
    BY DEF RunRec
  <2>2. NewRun(t) = Append(remote, run)
    BY DEF NewRun
  <2> HIDE DEF run
  <2> QED
    BY <2>1, <2>2, AppendProperties DEF Grown
<1>4. ASSUME NEW r \in 1..Len(remote)
      PROVE  LET new == [remote EXCEPT ![r].live = FALSE] IN
                 Grown(remote, new) /\ Len(new) = Len(remote) /\ ~new[r].live
  <2> DEFINE run == [remote[r] EXCEPT !.live = FALSE]
  <2>0. remote[r] \in RunRec
    OBVIOUS
  <2>1. run \in RunRec /\ ~run.live /\ (remote[r].told => run.told)
    BY <2>0 DEF RunRec
  <2>2. [remote EXCEPT ![r].live = FALSE] = [remote EXCEPT ![r] = run]
    OBVIOUS
  <2> HIDE DEF run
  <2> QED
    BY <2>1, <2>2, OneRunChanges
<1> QED
  BY <1>1, <1>2, <1>3, <1>4

\* What is sound stays so while the runs grow.
LEMMA SoundGrows ==
    ASSUME NEW row \in RowRec, NEW p \in PumpRec, NEW old \in Seq(RunRec), NEW new, Grown(old, new),
           RowSound(row, old), PumpSound(row, p, old)
    PROVE  /\ RowSound(row, new) /\ PumpSound(row, p, new)
           /\ Halted(row, p, old) => Halted(row, p, new)
<1>1. row.run \in 0..Len(new) /\ p.run \in 0..Len(new)
  BY DEF RowSound, PumpSound, Grown
<1>2. p.pc = "aborted" => ~new[p.run].live
  <2>1. p.pc = "aborted" => p.run \in 1..Len(old)
    BY DEF PumpSound
  <2> QED
    BY <2>1 DEF PumpSound, Grown
<1>3. Halted(row, p, old) => Halted(row, p, new)
  BY DEF Halted, RowSound, Grown
<1> QED
  BY <1>1, <1>2, <1>3 DEF RowSound, PumpSound

-----------------------------------------------------------------------------
(* The pumps.                                                              *)

\* A pump moves: it is enough to look at its row, its runs and itself.
LEMMA PumpMoves ==
    ASSUME IInv, NEW t \in Tasks, NEW row \in RowRec, NEW p \in PumpRec,
           task' = [task EXCEPT ![t] = row], pump' = [pump EXCEPT ![t] = p],
           Grown(remote, remote'), RowSound(row, remote'), PumpSound(row, p, remote'),
           pump[t].pc \notin {"none", "done"}, p.pc # "none",
           task[t].status \in TERMINAL => row.status \in TERMINAL,
           Halted(task[t], pump[t], remote) => Halted(row, p, remote'),
           leases' = (IF p.pc = "done" THEN leases \ {t} ELSE leases),
           UNCHANGED <<paused, caller, svc, crashes>>
    PROVE  IInv'
<1>1. /\ task \in [Tasks -> RowRec] /\ pump \in [Tasks -> PumpRec] /\ remote \in Seq(RunRec) /\ leases \subseteq Tasks
      /\ svc.pc = "up" /\ row.status # "none" /\ task[t].status # "none"
      /\ Sound(t) /\ Leased(t)
  BY DEF IInv, Typed, Recovers, Sound, PumpSound
<1>2. /\ task'[t] = row /\ pump'[t] = p
      /\ \A u \in Tasks \ {t} : task'[u] = task[u] /\ pump'[u] = pump[u]
  BY <1>1
<1>3. Typed'
  BY <1>1 DEF IInv, Typed, Grown
<1>4. ASSUME NEW u \in Tasks PROVE Sound(u)' /\ Leased(u)'
  <2>1. CASE u = t
    BY <1>1, <1>2, <2>1 DEF Sound, Leased
  <2>2. CASE u # t
    <3>1. Sound(u)'
      BY <1>1, <1>2, <2>2, SoundGrows DEF IInv, Sound
    <3> QED
      BY <1>1, <1>2, <2>2, <3>1 DEF IInv, Leased
  <2> QED
    BY <2>1, <2>2
<1>5. Recovers'
  BY <1>1, <1>2 DEF IInv, Recovers, Open
<1>6. ASSUME NEW c \in Callers PROVE TurnSound(c)'
  <2>1. TurnSound(c)
    BY DEF IInv
  <2>2. caller[c].pc = "create" => caller[c].task \in Tasks \ {t}
    BY <1>1, <2>1 DEF TurnSound
  <2> QED
    BY <1>2, <2>1, <2>2 DEF TurnSound
<1>7. ASSUME crashes = 0, NEW u \in Tasks PROVE Heeded(u)' \/ Halted(task[u], pump[u], remote)'
  <2>1. Heeded(u) <=> Heeded(u)'
    BY DEF Heeded
  <2>2. Heeded(u) \/ Halted(task[u], pump[u], remote)
    BY <1>7 DEF IInv
  <2>3. CASE u = t
    BY <1>2, <2>1, <2>2, <2>3
  <2>4. CASE u # t
    BY <1>1, <1>2, <2>1, <2>2, <2>4, SoundGrows DEF IInv, Sound
  <2> QED
    BY <2>3, <2>4
<1> QED
  BY <1>3, <1>4, <1>5, <1>6, <1>7 DEF IInv

\* A pump goes on without its row; what it was sent for it keeps.
LEMMA PumpGoes ==
    ASSUME IInv, NEW t \in Tasks, NEW p \in PumpRec, pump' = [pump EXCEPT ![t] = p],
           Grown(remote, remote'), PumpSound(task[t], p, remote'),
           pump[t].pc \notin {"none", "done"}, p.pc # "none",
           Halted(task[t], pump[t], remote) => Halted(task[t], p, remote'),
           leases' = (IF p.pc = "done" THEN leases \ {t} ELSE leases),
           UNCHANGED <<task, paused, caller, svc, crashes>>
    PROVE  IInv'
<1>1. task \in [Tasks -> RowRec] /\ pump \in [Tasks -> PumpRec] /\ remote \in Seq(RunRec) /\ Sound(t)
  BY DEF IInv, Typed
<1>2. task' = [task EXCEPT ![t] = task[t]] /\ task[t] \in RowRec
  BY <1>1
<1>3. RowSound(task[t], remote')
  BY <1>1, <1>2, SoundGrows DEF Sound
<1> QED
  BY <1>2, <1>3, PumpMoves

\* A pump writes; when the deadline cuts the write off it is late.
LEMMA PumpWrites ==
    ASSUME IInv, NEW t \in Tasks, NEW row \in RowRec, NEW p \in PumpRec, Write(t, row, p),
           Grown(remote, remote'), RowSound(row, remote'), PumpSound(row, p, remote'),
           pump[t].pc \notin {"none", "done"}, p.pc \notin {"none", "done"},
           task[t].status \in TERMINAL => row.status \in TERMINAL,
           Halted(task[t], pump[t], remote) => Halted(row, p, remote'),
           UNCHANGED <<leases, paused, caller, svc, crashes>>
    PROVE  IInv'
<1>1. pump \in [Tasks -> PumpRec] /\ task' = [task EXCEPT ![t] = row] /\ Sound(t)
  BY DEF IInv, Typed, Write
<1>2. CASE pump' = [pump EXCEPT ![t] = p]
  BY <1>1, <1>2, PumpMoves
<1>3. CASE pump' = [pump EXCEPT ![t].pc = "late"]
  <2> DEFINE late == [pump[t] EXCEPT !.pc = "late"]
  <2>1. pump' = [pump EXCEPT ![t] = late]
    BY <1>1, <1>3
  <2>2. late \in PumpRec /\ late.pc = "late" /\ late.run = pump[t].run
    BY <1>1 DEF PumpRec
  <2> HIDE DEF late
  <2>3. PumpSound(row, late, remote')
    BY <1>1, <2>2 DEF Sound, PumpSound, Grown, Typed, IInv
  <2>4. Halted(row, late, remote')
    BY <2>2 DEF Halted
  <2> QED
    BY <1>1, <2>1, <2>2, <2>3, <2>4, PumpMoves
<1> QED
  BY <1>2, <1>3 DEF Write

To(t, pc) == [pump[t] EXCEPT !.pc = pc]
FailedBy(t, why) == [pump[t] EXCEPT !.pc = "fail", !.why = why]
PumpPcs == {"none", "starting", "submit", "attach", "stop", "events", "answer", "aborted", "shape",
            "succeed", "late", "fail", "failing", "close", "done"}

LEMMA ToIs ==
    ASSUME Typed, NEW t \in Tasks, NEW pc \in PumpPcs
    PROVE  /\ To(t, pc) \in PumpRec /\ To(t, pc).pc = pc /\ To(t, pc).run = pump[t].run
           /\ Goes(t, pc) => pump' = [pump EXCEPT ![t] = To(t, pc)]
<1>1. pump \in [Tasks -> PumpRec] /\ pump[t] \in PumpRec
  BY DEF Typed
<1> QED
  BY <1>1 DEF To, PumpRec, PumpPcs, Goes

LEMMA FailedByIs ==
    ASSUME Typed, NEW t \in Tasks,
           NEW why \in {"executor_unavailable", "executor_failure", "schema_invalid", "timeout"}
    PROVE  /\ FailedBy(t, why) \in PumpRec /\ FailedBy(t, why).pc = "fail" /\ FailedBy(t, why).run = pump[t].run
           /\ Fails(t, why) => pump' = [pump EXCEPT ![t] = FailedBy(t, why)]
<1>1. pump \in [Tasks -> PumpRec] /\ pump[t] \in PumpRec
  BY DEF Typed
<1> QED
  BY <1>1 DEF FailedBy, PumpRec, Fails

\* Where a pump stands.
LEMMA Here ==
    ASSUME IInv, NEW t \in Tasks
    PROVE  /\ Typed /\ task[t] \in RowRec /\ pump[t] \in PumpRec /\ remote \in Seq(RunRec)
           /\ RowSound(task[t], remote) /\ PumpSound(task[t], pump[t], remote) /\ EndsOnce(task[t])
           /\ task[t].run \in 0..Len(remote) /\ pump[t].run \in 0..Len(remote)
  BY DEF IInv, Typed, Sound, RowSound, PumpSound

\* A pump that steps on from where it was cut loose of the executor or has not met it yet.
Loose == {"starting", "submit", "shape", "succeed", "late", "fail", "failing"}

\* Away from the executor a pump relies on nothing but that its task exists.
LEMMA GoesLoose ==
    ASSUME IInv, NEW t \in Tasks, NEW p \in PumpRec, pump' = [pump EXCEPT ![t] = p],
           p.pc \in Loose, p.run = pump[t].run \/ p.run = 0, Grown(remote, remote'),
           pump[t].pc \notin {"none", "done"}, pump[t].pc \in {"stop", "late"} => p.pc = "late",
           UNCHANGED <<task, leases, paused, caller, svc, crashes>>
    PROVE  IInv'
<1>1. PumpSound(task[t], p, remote')
  BY Here DEF PumpSound, Loose, Grown
<1>2. ASSUME Halted(task[t], pump[t], remote) PROVE Halted(task[t], p, remote')
  BY <1>2, Here DEF Halted, Grown
<1> QED
  BY <1>1, <1>2, Here, PumpGoes DEF Loose

\* A pump records an event.
LEMMA WriteRecords ==
    ASSUME IInv, NEW t \in Tasks, NEW kind \in {"starting", "running", "waiting", "resumed", "observation"},
           NEW p \in PumpRec, Write(t, Recorded(task[t], kind), p), Grown(remote, remote'),
           PumpSound(task[t], p, remote'), pump[t].pc \notin {"none", "done", "stop", "late"},
           p.pc \notin {"none", "done"}, UNCHANGED <<leases, paused, caller, svc, crashes>>
    PROVE  IInv'
<1> DEFINE row == Recorded(task[t], kind)
<1>1. task[t].status # "none"
  BY Here DEF PumpSound
<1>2. /\ row \in RowRec /\ EndsOnce(row) /\ row.run = task[t].run /\ row.events # <<>> /\ row.status # "none"
      /\ row.status \in TERMINAL <=> task[t].status \in TERMINAL
      /\ task[t].status \in TERMINAL => row.status = task[t].status
  BY <1>1, Here, RecordedIsSound
<1> HIDE DEF row
<1>3. RowSound(row, remote')
  BY <1>2, Here DEF RowSound, Grown
<1>4. PumpSound(row, p, remote')
  BY <1>1, <1>2 DEF PumpSound
<1>5. ASSUME Halted(task[t], pump[t], remote) PROVE Halted(row, p, remote')
  <2>1. row.status = "cancelled" => task[t].status = "cancelled"
    BY <1>2 DEF TERMINAL
  <2> QED
    BY <1>2, <1>5, <2>1, Here DEF Halted, Grown
<1>6. Write(t, row, p)
  BY DEF row
<1> QED
  BY <1>2, <1>3, <1>4, <1>5, <1>6, PumpWrites

\* A pump finishes its task.
LEMMA WriteFinishes ==
    ASSUME IInv, NEW t \in Tasks, NEW status \in {"succeeded", "cancelled"},
           Write(t, Finished(task[t], status, status), To(t, "close")),
           pump[t].pc \in {"succeed", "aborted"}, status = "cancelled" => pump[t].pc = "aborted",
           UNCHANGED <<remote, leases, paused, caller, svc, crashes>>
    PROVE  IInv'
<1> DEFINE row == Finished(task[t], status, status)
<1>1. task[t].status # "none" /\ status \in TERMINAL /\ status # "timed_out"
  BY Here DEF PumpSound, TERMINAL
<1>2. /\ row \in RowRec /\ EndsOnce(row) /\ row.run = task[t].run /\ row.events # <<>>
      /\ row.status = (IF task[t].status \in TERMINAL THEN task[t].status ELSE status)
  BY <1>1, Here, FinishedIsSound
<1>3. Write(t, row, To(t, "close"))
  BY DEF row
<1> HIDE DEF row
<1>4. RowSound(row, remote)
  BY <1>1, <1>2, Here DEF RowSound, TERMINAL
<1>5. To(t, "close") \in PumpRec /\ To(t, "close").pc = "close" /\ To(t, "close").run = pump[t].run
  BY Here, ToIs DEF PumpPcs
<1>6. PumpSound(row, To(t, "close"), remote)
  BY <1>1, <1>2, <1>5, Here DEF PumpSound
<1>7. ASSUME Halted(task[t], pump[t], remote) PROVE Halted(row, To(t, "close"), remote)
  <2>1. CASE task[t].status \in TERMINAL
    BY <1>2, <1>7, <2>1 DEF Halted
  <2>2. CASE task[t].status \notin TERMINAL /\ status = "cancelled"
    <3>1. row.run = pump[t].run /\ ~remote[pump[t].run].live
      BY <1>2, <2>2, Here DEF PumpSound
    <3> QED
      BY <3>1 DEF Halted
  <2>3. CASE task[t].status \notin TERMINAL /\ status # "cancelled"
    BY <1>2, <2>3 DEF Halted
  <2> QED
    BY <2>1, <2>2, <2>3
<1>8. Grown(remote, remote')
  BY Here, RunsGrow
<1> QED
  BY <1>1, <1>2, <1>3, <1>4, <1>5, <1>6, <1>7, <1>8, PumpWrites

LEMMA StartingKeeps == ASSUME IInv, NEW t \in Tasks, Starting(t) PROVE IInv'
<1>1. /\ pump[t].pc = "starting" /\ remote' = remote /\ UNCHANGED <<leases, paused, caller, svc, crashes>>
      /\ Write(t, Recorded(task[t], "starting"), To(t, "submit"))
  BY DEF Starting, At, To
<1>2. To(t, "submit") \in PumpRec /\ To(t, "submit").pc = "submit" /\ To(t, "submit").run = pump[t].run
  BY Here, ToIs DEF PumpPcs
<1>3. PumpSound(task[t], To(t, "submit"), remote') /\ Grown(remote, remote')
  BY <1>1, <1>2, Here, RunsGrow DEF PumpSound
<1> QED
  BY <1>1, <1>2, <1>3, WriteRecords

LEMMA SubmitKeeps == ASSUME IInv, NEW t \in Tasks, Submit(t) PROVE IInv'
<1> DEFINE n == Len(remote')
           p == [pump[t] EXCEPT !.pc = "attach", !.run = n]
<1>1. /\ pump[t].pc = "submit" /\ remote' = NewRun(t) /\ pump' = [pump EXCEPT ![t] = p]
      /\ UNCHANGED <<task, leases, paused, caller, svc, crashes>>
  BY DEF Submit, At, IInv, Typed
<1>2. Grown(remote, remote') /\ Len(remote') = Len(remote) + 1 /\ Len(remote) \in Nat
  BY <1>1, Here, RunsGrow
<1>n. n \in Nat /\ n = Len(remote) + 1
  BY <1>2
<1> HIDE DEF n
<1>3. p \in PumpRec /\ p.pc = "attach" /\ p.run = n
  BY <1>n, Here DEF PumpRec
<1> HIDE DEF p
<1>4. PumpSound(task[t], p, remote')
  BY <1>1, <1>2, <1>n, <1>3, Here DEF PumpSound
<1>5. ASSUME Halted(task[t], pump[t], remote) PROVE Halted(task[t], p, remote')
  BY <1>1, <1>2, <1>5, Here DEF Halted, Grown
<1> QED
  BY <1>1, <1>2, <1>3, <1>4, <1>5, PumpGoes

LEMMA SubmitFailsKeeps == ASSUME IInv, NEW t \in Tasks, SubmitFails(t) PROVE IInv'
<1>1. /\ pump[t].pc = "submit" /\ Fails(t, "executor_unavailable") /\ UNCHANGED <<task, leases, paused, caller, svc, crashes>>
      /\ remote' = remote \/ remote' = NewRun(t)
  BY DEF SubmitFails, At
<1>2. Grown(remote, remote')
  BY <1>1, Here, RunsGrow
<1> QED
  BY <1>1, <1>2, Here, FailedByIs, GoesLoose DEF Loose

\* The run is noted before anybody asks whether it is still wanted.
LEMMA AttachKeeps == ASSUME IInv, NEW t \in Tasks, Attach(t) PROVE IInv'
<1> DEFINE pc == IF Unwanted(t) THEN "stop" ELSE "events"
           row == [task[t] EXCEPT !.run = pump[t].run]
<1>1. /\ pump[t].pc = "attach" /\ Goes(t, pc) /\ remote' = remote
      /\ task' = [task EXCEPT ![t] = row] /\ UNCHANGED <<leases, paused, caller, svc, crashes>>
  BY DEF Attach, At, IInv, Typed
<1>2. /\ To(t, pc) \in PumpRec /\ To(t, pc).pc = pc /\ To(t, pc).run = pump[t].run
      /\ pump' = [pump EXCEPT ![t] = To(t, pc)]
  BY <1>1, Here, ToIs DEF PumpPcs
<1>3. row \in RowRec /\ row.status = task[t].status /\ row.events = task[t].events /\ row.run = pump[t].run
  BY Here DEF RowRec, PumpRec
<1> HIDE DEF row
<1>4. RowSound(row, remote)
  BY <1>3, Here DEF RowSound, EndsOnce, Ends, EndedAs
<1>5. PumpSound(row, To(t, pc), remote)
  BY <1>1, <1>2, <1>3, Here DEF PumpSound, Unwanted
<1>6. Halted(row, To(t, pc), remote)
  BY <1>2, <1>3 DEF Halted, Unwanted, TERMINAL
<1>7. Grown(remote, remote') /\ pc # "none" /\ pc # "done"
  BY <1>1, Here, RunsGrow
<1> HIDE DEF pc
<1> QED
  BY <1>1, <1>2, <1>3, <1>4, <1>5, <1>6, <1>7, PumpMoves

LEMMA StopOwnKeeps == ASSUME IInv, NEW t \in Tasks, StopOwn(t) PROVE IInv'
<1>1. /\ pump[t].pc = "stop" /\ remote' = Told(pump[t].run) /\ Goes(t, "close")
      /\ UNCHANGED <<task, leases, paused, caller, svc, crashes>>
  BY DEF StopOwn, At
<1>2. /\ To(t, "close") \in PumpRec /\ To(t, "close").pc = "close" /\ To(t, "close").run = pump[t].run
      /\ pump' = [pump EXCEPT ![t] = To(t, "close")]
  BY <1>1, Here, ToIs DEF PumpPcs
<1>3. Grown(remote, remote') /\ Len(remote') = Len(remote) /\ (pump[t].run # 0 => remote'[pump[t].run].told)
  BY <1>1, Here, RunsGrow
<1>4. PumpSound(task[t], To(t, "close"), remote')
  BY <1>1, <1>2, <1>3, Here DEF PumpSound
<1>5. Halted(task[t], To(t, "close"), remote')
  BY <1>1, <1>3, Here DEF Halted, PumpSound
<1> QED
  BY <1>1, <1>2, <1>3, <1>4, <1>5, PumpGoes

LEMMA StreamKeeps == ASSUME IInv, NEW t \in Tasks, StreamEnds(t) PROVE IInv'
<1>1. /\ pump[t].pc = "events" /\ (Goes(t, "shape") \/ Fails(t, "executor_unavailable")) /\ remote' = remote
      /\ UNCHANGED <<task, leases, paused, caller, svc, crashes>>
  BY DEF StreamEnds, At
<1>2. Grown(remote, remote')
  BY <1>1, Here, RunsGrow
<1>3. CASE Goes(t, "shape")
  BY <1>1, <1>2, <1>3, Here, ToIs, GoesLoose DEF Loose, PumpPcs
<1>4. CASE Fails(t, "executor_unavailable")
  BY <1>1, <1>2, <1>4, Here, FailedByIs, GoesLoose DEF Loose
<1> QED
  BY <1>1, <1>3, <1>4

LEMMA AnswerKeeps == ASSUME IInv, NEW t \in Tasks, Answer(t) PROVE IInv'
<1>1. /\ pump[t].pc = "answer" /\ remote' = remote /\ UNCHANGED <<leases, paused, caller, svc, crashes>>
      /\ Write(t, Recorded(task[t], "resumed"), To(t, "events"))
  BY DEF Answer, At, To
<1>2. To(t, "events") \in PumpRec /\ To(t, "events").pc = "events" /\ To(t, "events").run = pump[t].run
  BY Here, ToIs DEF PumpPcs
<1>3. PumpSound(task[t], To(t, "events"), remote') /\ Grown(remote, remote')
  BY <1>1, <1>2, Here, RunsGrow DEF PumpSound
<1> QED
  BY <1>1, <1>2, <1>3, WriteRecords

\* What the stream says is recorded, and the pump stays at its run, or leaves it when the task has ended.
LEMMA EventKeeps ==
    ASSUME IInv, NEW t \in Tasks, NEW kind \in {"running", "waiting", "observation"},
           NEW next \in {"events", "answer", "shape", "fail", "aborted"}, Event(t, kind, next)
    PROVE  IInv'
<1> DEFINE pc == IF task[t].status \in TERMINAL THEN "close" ELSE next
           why == IF next = "fail" THEN "executor_failure" ELSE pump[t].why
           p == [pump[t] EXCEPT !.pc = pc, !.why = why]
           r == pump[t].run
<1>1. /\ pump[t].pc = "events" /\ Write(t, Recorded(task[t], kind), p)
      /\ remote' = IF next \in {"shape", "fail", "aborted"} THEN [remote EXCEPT ![r].live = FALSE] ELSE remote
      /\ UNCHANGED <<leases, paused, caller, svc, crashes>>
  BY DEF Event, At
<1>2. r \in 1..Len(remote)
  BY <1>1, Here DEF PumpSound
<1>3. p \in PumpRec /\ p.pc = pc /\ p.run = r
  BY Here DEF PumpRec
<1> HIDE DEF p
<1>4. Grown(remote, remote') /\ Len(remote') = Len(remote) /\ (next = "aborted" => ~remote'[r].live)
  BY <1>1, <1>2, Here, RunsGrow
<1>5. PumpSound(task[t], p, remote')
  BY <1>1, <1>2, <1>3, <1>4, Here DEF PumpSound
<1>6. pc \notin {"none", "done"}
  OBVIOUS
<1> QED
  BY <1>1, <1>3, <1>4, <1>5, <1>6, WriteRecords

LEMMA ReadKeeps == ASSUME IInv, NEW t \in Tasks, ReadEvent(t) PROVE IInv'
  BY EventKeeps DEF ReadEvent

LEMMA AbortedKeeps == ASSUME IInv, NEW t \in Tasks, Aborted(t) PROVE IInv'
<1>1. /\ pump[t].pc = "aborted" /\ Write(t, Finished(task[t], "cancelled", "cancelled"), To(t, "close"))
      /\ UNCHANGED <<remote, leases, paused, caller, svc, crashes>>
  BY DEF Aborted, At, To
<1> QED
  BY <1>1, WriteFinishes

LEMMA SucceedKeeps == ASSUME IInv, NEW t \in Tasks, Succeed(t) PROVE IInv'
<1>1. /\ pump[t].pc = "succeed" /\ Write(t, Finished(task[t], "succeeded", "succeeded"), To(t, "close"))
      /\ UNCHANGED <<remote, leases, paused, caller, svc, crashes>>
  BY DEF Succeed, At, To
<1> QED
  BY <1>1, WriteFinishes

LEMMA ShapedKeeps == ASSUME IInv, NEW t \in Tasks, Shaped(t) PROVE IInv'
<1>1. /\ pump[t].pc = "shape" /\ Goes(t, "succeed") /\ remote' = remote
      /\ UNCHANGED <<task, leases, paused, caller, svc, crashes>>
  BY DEF Shaped, At
<1> QED
  BY <1>1, Here, RunsGrow, ToIs, GoesLoose DEF Loose, PumpPcs

LEMMA RetryKeeps == ASSUME ConstantsOK, IInv, NEW t \in Tasks, Retry(t) PROVE IInv'
<1> DEFINE n == pump[t].tries + 1
           p == [pump[t] EXCEPT !.pc = "starting", !.tries = n]
<1>1. /\ pump[t].pc = "shape" /\ pump[t].tries < MAX_SCHEMA_RETRIES /\ remote' = remote
      /\ Write(t, Recorded(task[t], "observation"), p) /\ UNCHANGED <<leases, paused, caller, svc, crashes>>
  BY DEF Retry, At
<1>m. MAX_SCHEMA_RETRIES \in Nat
  BY DEF ConstantsOK
<1>k. pump[t].tries \in 0..MAX_SCHEMA_RETRIES
  BY Here DEF PumpRec
<1>n. n \in 0..MAX_SCHEMA_RETRIES
  BY <1>1, <1>m, <1>k
<1> HIDE DEF n
<1>2. p \in PumpRec /\ p.pc = "starting" /\ p.run = pump[t].run
  BY <1>n, Here DEF PumpRec
<1> HIDE DEF p
<1>3. PumpSound(task[t], p, remote') /\ Grown(remote, remote')
  BY <1>1, <1>2, Here, RunsGrow DEF PumpSound
<1> QED
  BY <1>1, <1>2, <1>3, WriteRecords

LEMMA UnshapedKeeps == ASSUME IInv, NEW t \in Tasks, Unshaped(t) PROVE IInv'
<1>1. /\ pump[t].pc = "shape" /\ Fails(t, "schema_invalid") /\ remote' = remote
      /\ UNCHANGED <<task, leases, paused, caller, svc, crashes>>
  BY DEF Unshaped, At
<1> QED
  BY <1>1, Here, RunsGrow, FailedByIs, GoesLoose DEF Loose

LEMMA DeadlineKeeps == ASSUME IInv, NEW t \in Tasks, Deadline(t) PROVE IInv'
<1>1. /\ pump[t].pc \notin {"none", "done"} /\ Goes(t, "late") /\ (remote' = remote \/ remote' = NewRun(t))
      /\ UNCHANGED <<task, leases, paused, caller, svc, crashes>>
  BY DEF Deadline
<1> QED
  BY <1>1, Here, RunsGrow, ToIs, GoesLoose DEF Loose, PumpPcs

\* Who is late tells the run that is noted, and only then fails.
LEMMA LateKeeps == ASSUME IInv, NEW t \in Tasks, Late(t) PROVE IInv'
<1> DEFINE p == FailedBy(t, "timeout")
<1>1. /\ pump[t].pc = "late" /\ remote' = Told(task[t].run) /\ Fails(t, "timeout")
      /\ UNCHANGED <<task, leases, paused, caller, svc, crashes>>
  BY DEF Late, At
<1>2. p \in PumpRec /\ p.pc = "fail" /\ p.run = pump[t].run /\ pump' = [pump EXCEPT ![t] = p]
  BY <1>1, Here, FailedByIs
<1> HIDE DEF p
<1>3. Grown(remote, remote') /\ Len(remote') = Len(remote) /\ (task[t].run # 0 => remote'[task[t].run].told)
  BY <1>1, Here, RunsGrow
<1>4. PumpSound(task[t], p, remote')
  BY <1>1, <1>2, <1>3, Here DEF PumpSound
<1>5. Halted(task[t], p, remote')
  BY <1>3 DEF Halted
<1> QED
  BY <1>1, <1>2, <1>3, <1>4, <1>5, PumpGoes

LEMMA FailKeeps == ASSUME IInv, NEW t \in Tasks, Fail(t) PROVE IInv'
<1> DEFINE pc == IF task[t].status \in TERMINAL THEN "close" ELSE "failing"
<1>1. /\ pump[t].pc = "fail" /\ Goes(t, pc) /\ remote' = remote
      /\ UNCHANGED <<task, leases, paused, caller, svc, crashes>>
  BY DEF Fail, At
<1>2. To(t, pc) \in PumpRec /\ To(t, pc).pc = pc /\ To(t, pc).run = pump[t].run /\ pump' = [pump EXCEPT ![t] = To(t, pc)]
  BY <1>1, Here, ToIs DEF PumpPcs
<1>3. PumpSound(task[t], To(t, pc), remote)
  BY <1>1, <1>2, Here DEF PumpSound
<1>4. ASSUME Halted(task[t], pump[t], remote) PROVE Halted(task[t], To(t, pc), remote)
  BY <1>1, <1>4 DEF Halted
<1>5. Grown(remote, remote') /\ pc # "none" /\ pc # "done"
  BY <1>1, Here, RunsGrow
<1> QED
  BY <1>1, <1>2, <1>3, <1>4, <1>5, PumpGoes

LEMMA FailingKeeps == ASSUME IInv, NEW t \in Tasks, Failing(t) PROVE IInv'
<1> DEFINE status == IF pump[t].why = "timeout" THEN "timed_out" ELSE "failed"
           row == Finished(task[t], "failed", status)
<1>1. /\ pump[t].pc = "failing" /\ Goes(t, "close") /\ remote' = remote /\ task' = [task EXCEPT ![t] = row]
      /\ UNCHANGED <<leases, paused, caller, svc, crashes>>
  BY DEF Failing, At
<1>2. task[t].status # "none" /\ status \in TERMINAL /\ status # "cancelled"
      /\ "failed" = (IF status = "timed_out" THEN "failed" ELSE status)
  BY <1>1, Here DEF PumpSound, TERMINAL
<1> HIDE DEF status
<1>3. /\ row \in RowRec /\ EndsOnce(row) /\ row.run = task[t].run /\ row.events # <<>>
      /\ row.status = (IF task[t].status \in TERMINAL THEN task[t].status ELSE status)
  BY <1>2, Here, FinishedIsSound
<1> HIDE DEF row
<1>4. /\ To(t, "close") \in PumpRec /\ To(t, "close").pc = "close" /\ To(t, "close").run = pump[t].run
      /\ pump' = [pump EXCEPT ![t] = To(t, "close")]
  BY <1>1, Here, ToIs DEF PumpPcs
<1>5. RowSound(row, remote) /\ PumpSound(row, To(t, "close"), remote)
  BY <1>1, <1>2, <1>3, <1>4, Here DEF RowSound, PumpSound, TERMINAL
<1>6. ASSUME Halted(task[t], pump[t], remote) PROVE Halted(row, To(t, "close"), remote)
  BY <1>1, <1>2, <1>3, <1>6 DEF Halted
<1>7. Grown(remote, remote') /\ (task[t].status \in TERMINAL => row.status \in TERMINAL)
  BY <1>1, <1>3, Here, RunsGrow
<1> QED
  BY <1>1, <1>3, <1>4, <1>5, <1>6, <1>7, PumpMoves

LEMMA CloseKeeps == ASSUME IInv, NEW t \in Tasks, Close(t) PROVE IInv'
<1>1. /\ pump[t].pc = "close" /\ Goes(t, "done") /\ remote' = remote /\ leases' = leases \ {t}
      /\ UNCHANGED <<task, paused, caller, svc, crashes>>
  BY DEF Close, At
<1>2. /\ To(t, "done") \in PumpRec /\ To(t, "done").pc = "done" /\ To(t, "done").run = pump[t].run
      /\ pump' = [pump EXCEPT ![t] = To(t, "done")]
  BY <1>1, Here, ToIs DEF PumpPcs
<1>3. PumpSound(task[t], To(t, "done"), remote)
  BY <1>1, <1>2, Here DEF PumpSound
<1>4. ASSUME Halted(task[t], pump[t], remote) PROVE Halted(task[t], To(t, "done"), remote)
  BY <1>1, <1>4 DEF Halted
<1>5. Grown(remote, remote')
  BY <1>1, Here, RunsGrow
<1> QED
  BY <1>1, <1>2, <1>3, <1>4, <1>5, PumpGoes

\* Whatever a pump does.
LEMMA PumpKeeps ==
    ASSUME ConstantsOK, IInv, NEW t \in Tasks,
           Attempt(t) \/ ReadEvent(t) \/ StreamEnds(t) \/ Deadline(t) \/ Ending(t)
    PROVE  IInv'
<1>1. CASE Attempt(t)
  BY <1>1, StartingKeeps, SubmitKeeps, SubmitFailsKeeps, AttachKeeps, StopOwnKeeps, AnswerKeeps,
     AbortedKeeps, ShapedKeeps, RetryKeeps, UnshapedKeeps, SucceedKeeps DEF Attempt
<1>2. CASE Ending(t)
  BY <1>2, LateKeeps, FailKeeps, FailingKeeps, CloseKeeps DEF Ending
<1> QED
  BY <1>1, <1>2, ReadKeeps, StreamKeeps, DeadlineKeeps

-----------------------------------------------------------------------------
(* The turns of the dialogue and the service.                              *)

\* A turn that changes no task.
LEMMA TurnMoves ==
    ASSUME IInv, NEW c \in Callers, NEW who \in CallerRec, caller' = [caller EXCEPT ![c] = who],
           UNCHANGED <<task, pump, remote, leases, svc, crashes>>, paused' \in BOOLEAN,
           svc.pc = "up", caller[c].pc # "stop", who.pc \in {"idle", "create", "list", "next"},
           who.pc = "next" => who.todo # <<>>,
           who.pc = "create" => /\ who.task \in Tasks /\ task[who.task].status = "none"
                                /\ \A d \in Callers : caller[d].task # who.task
    PROVE  IInv'
<1>1. /\ caller \in [Callers -> CallerRec] /\ caller' \in [Callers -> CallerRec]
      /\ caller'[c] = who /\ \A d \in Callers \ {c} : caller'[d] = caller[d]
  BY DEF IInv, Typed
<1>2. Typed'
  BY <1>1 DEF IInv, Typed
<1>3. ASSUME NEW d \in Callers PROVE TurnSound(d)'
  <2>1. CASE d = c
    BY <1>1, <2>1 DEF TurnSound
  <2>2. CASE d # c
    <3>1. TurnSound(d)
      BY DEF IInv
    <3> QED
      BY <1>1, <2>2, <3>1 DEF TurnSound
  <2> QED
    BY <2>1, <2>2
<1>4. \A u \in Tasks : Heeded(u) => Heeded(u)'
  BY <1>1 DEF Heeded
<1>5. Recovers'
  BY DEF IInv, Recovers, Open
<1>6. \A u \in Tasks : Sound(u)' /\ Leased(u)'
  BY DEF IInv, Sound, Leased
<1>7. crashes' = 0 => \A u \in Tasks : Heeded(u)' \/ Halted(task[u], pump[u], remote)'
  BY <1>4 DEF IInv
<1> QED
  BY <1>2, <1>3, <1>5, <1>6, <1>7 DEF IInv

LEMMA AskedForKeeps == ASSUME IInv, NEW c \in Callers, NEW t \in Tasks, AskedFor(c, t) PROVE IInv'
<1> DEFINE who == [pc |-> "create", task |-> t, todo |-> <<>>]
<1>1. who \in CallerRec /\ who.pc = "create" /\ who.task = t
  BY DEF CallerRec
<1>2. /\ caller' = [caller EXCEPT ![c] = who] /\ svc.pc = "up" /\ caller[c].pc # "stop"
      /\ UNCHANGED <<task, paused, pump, remote, leases, svc, crashes>>
      /\ task[t].status = "none" /\ \A d \in Callers : caller[d].task # t
  BY DEF AskedFor, NoCaller
<1>3. paused' \in BOOLEAN
  BY <1>2 DEF IInv, Typed
<1> HIDE DEF who
<1> QED
  BY <1>1, <1>2, <1>3, TurnMoves

LEMMA NoCallerIs == NoCaller \in CallerRec /\ NoCaller.pc = "idle"
  BY DEF NoCaller, CallerRec

LEMMA PauseKeeps == ASSUME IInv, NEW c \in Callers, Pause(c) PROVE IInv'
<1> DEFINE who == [NoCaller EXCEPT !.pc = "list"]
<1>1. who \in CallerRec /\ who.pc = "list"
  BY NoCallerIs DEF CallerRec
<1>2. /\ caller' = [caller EXCEPT ![c] = who] /\ svc.pc = "up" /\ caller[c].pc # "stop" /\ paused' = TRUE
      /\ UNCHANGED <<task, pump, remote, leases, svc, crashes>>
  BY DEF Pause, NoCaller, IInv, Typed
<1> HIDE DEF who
<1> QED
  BY <1>1, <1>2, TurnMoves

LEMMA PauseListsKeeps == ASSUME ConstantsOK, IInv, NEW c \in Callers, PauseLists(c) PROVE IInv'
<1> DEFINE on == [caller[c] EXCEPT !.pc = "next", !.todo = OpenTasks]
<1>1. /\ caller \in [Callers -> CallerRec] /\ caller[c].pc = "list" /\ svc.pc = "up" /\ paused' \in BOOLEAN
      /\ UNCHANGED <<task, pump, remote, leases, svc, crashes>>
      /\ caller' = [caller EXCEPT ![c] = IF OpenTasks = <<>> THEN NoCaller ELSE on]
  BY DEF PauseLists, IInv, Typed, TurnSound
<1>2. on \in CallerRec /\ on.pc = "next" /\ on.todo = OpenTasks
  BY <1>1, EveryOpenOneListed DEF CallerRec
<1> HIDE DEF on
<1>3. CASE OpenTasks = <<>>
  BY <1>1, <1>3, NoCallerIs, TurnMoves
<1>4. CASE OpenTasks # <<>>
  BY <1>1, <1>2, <1>4, TurnMoves
<1> QED
  BY <1>3, <1>4

\* _cancel: the row ends here and now, its run and its pump stay what they are.
LEMMA CancelledRows ==
    ASSUME IInv, NEW t \in Tasks, Cancelled(t)
    PROVE  /\ task' \in [Tasks -> RowRec] /\ ~Open(t)'
           /\ \A u \in Tasks : /\ RowSound(task'[u], remote) /\ PumpSound(task'[u], pump[u], remote)
                               /\ Open(u)' => Open(u)
                               /\ task'[u].status = "none" <=> task[u].status = "none"
                               /\ u # t => task'[u] = task[u]
<1>1. task \in [Tasks -> RowRec] /\ \A u \in Tasks : RowSound(task[u], remote) /\ PumpSound(task[u], pump[u], remote)
  BY Here DEF IInv, Typed
<1>2. CASE ~Open(t)
  BY <1>1, <1>2 DEF Cancelled, Open
<1>3. CASE Open(t)
  <2> DEFINE row == Adds(task[t], "cancelled", "cancelled")
  <2>1. task' = [task EXCEPT ![t] = row]
    BY <1>3 DEF Cancelled, Adds
  <2>2. task[t] \in RowRec /\ EndsOnce(task[t]) /\ task[t].status \notin TERMINAL \cup {"none"}
    BY <1>3, Here DEF Open
  <2>3. /\ "cancelled" \in Kinds /\ "cancelled" \in Statuses /\ "cancelled" \in TERMINAL
        /\ "cancelled" = (IF "cancelled" = "timed_out" THEN "failed" ELSE "cancelled")
    BY DEF Kinds, TERMINAL_KINDS, Statuses, TERMINAL
  <2>4. row \in RowRec /\ row.run = task[t].run /\ row.status = "cancelled" /\ row.events # <<>>
    BY <2>2, <2>3, AppendedEnds
  <2>5. EndsOnce(row)
    BY <2>2, <2>3, EndingKeeps
  <2> HIDE DEF row
  <2>6. RowSound(row, remote) /\ PumpSound(row, pump[t], remote)
    BY <1>1, <2>2, <2>3, <2>4, <2>5 DEF RowSound, PumpSound
  <2>7. task'[t] = row /\ \A u \in Tasks \ {t} : task'[u] = task[u]
    BY <1>1, <2>1
  <2>8. task' \in [Tasks -> RowRec]
    BY <1>1, <2>1, <2>4
  <2>9. ~Open(t)' /\ (row.status = "none" <=> task[t].status = "none")
    BY <2>2, <2>3, <2>4, <2>7 DEF Open
  <2>10. ASSUME NEW u \in Tasks
         PROVE  /\ RowSound(task'[u], remote) /\ PumpSound(task'[u], pump[u], remote)
                /\ Open(u)' => Open(u)
                /\ task'[u].status = "none" <=> task[u].status = "none"
                /\ u # t => task'[u] = task[u]
    BY <1>1, <2>6, <2>7, <2>9 DEF Open
  <2> QED
    BY <2>8, <2>9, <2>10
<1> QED
  BY <1>2, <1>3

\* A turn cancels a task and is about to tell its run.
LEMMA TurnCancels ==
    ASSUME IInv, NEW c \in Callers, NEW t \in Tasks, NEW todo \in Seq(Tasks), Cancelled(t),
           caller' = [caller EXCEPT ![c] = [pc |-> "stop", task |-> t, todo |-> todo]],
           caller[c].pc # "stop", svc.pc = "up", UNCHANGED <<paused, pump, leases, remote, svc, crashes>>
    PROVE  IInv'
<1> DEFINE who == [pc |-> "stop", task |-> t, todo |-> todo]
<1>1. caller \in [Callers -> CallerRec] /\ who \in CallerRec /\ who.pc = "stop" /\ who.task = t
  BY DEF IInv, Typed, CallerRec
<1>2. caller' = [caller EXCEPT ![c] = who]
  OBVIOUS
<1> HIDE DEF who
<1>3. caller' \in [Callers -> CallerRec] /\ caller'[c] = who /\ \A d \in Callers \ {c} : caller'[d] = caller[d]
  BY <1>1, <1>2
<1>4. Typed'
  BY <1>3, CancelledRows DEF IInv, Typed
<1>5. \A u \in Tasks : Sound(u)' /\ Leased(u)'
  BY CancelledRows DEF IInv, Sound, Leased
<1>6. Recovers'
  BY CancelledRows DEF IInv, Recovers
<1>7. ASSUME NEW d \in Callers PROVE TurnSound(d)'
  <2>1. CASE d = c
    BY <1>1, <1>3, <2>1 DEF TurnSound
  <2>2. CASE d # c
    <3>1. TurnSound(d) /\ caller[d] \in CallerRec
      BY <1>1 DEF IInv
    <3>2. caller[d].pc = "create" => task'[caller[d].task].status = "none"
      BY <3>1, CancelledRows DEF TurnSound
    <3> QED
      BY <1>1, <1>3, <2>2, <3>1, <3>2 DEF TurnSound
  <2> QED
    BY <2>1, <2>2
<1>8. ASSUME crashes = 0, NEW u \in Tasks PROVE Heeded(u)' \/ Halted(task[u], pump[u], remote)'
  <2>1. CASE u = t
    BY <1>1, <1>3, <2>1 DEF Heeded
  <2>2. CASE u # t
    <3>1. Heeded(u) \/ Halted(task[u], pump[u], remote)
      BY <1>8 DEF IInv
    <3>2. Heeded(u) => Heeded(u)'
      BY <1>3 DEF Heeded
    <3> QED
      BY <2>2, <3>1, <3>2, CancelledRows
  <2> QED
    BY <2>1, <2>2
<1> QED
  BY <1>4, <1>5, <1>6, <1>7, <1>8 DEF IInv

LEMMA CancelKeeps == ASSUME IInv, NEW c \in Callers, NEW t \in Tasks, Cancel(c, t) PROVE IInv'
<1>1. /\ caller' = [caller EXCEPT ![c] = [pc |-> "stop", task |-> t, todo |-> <<>>]] /\ Cancelled(t)
      /\ svc.pc = "up" /\ caller[c].pc # "stop" /\ UNCHANGED <<paused, pump, leases, remote, svc, crashes>>
  BY DEF Cancel, NoCaller
<1>2. <<>> \in Seq(Tasks)
  OBVIOUS
<1> QED
  BY <1>1, <1>2, TurnCancels

LEMMA PauseCancelsKeeps == ASSUME IInv, NEW c \in Callers, PauseCancels(c) PROVE IInv'
<1>1. caller \in [Callers -> CallerRec] /\ caller[c].pc = "next" /\ TurnSound(c)
  BY DEF PauseCancels, IInv, Typed
<1>2. caller[c].todo \in Seq(Tasks) /\ caller[c].todo # <<>> /\ svc.pc = "up"
  BY <1>1 DEF TurnSound, CallerRec
<1>3. Head(caller[c].todo) \in Tasks /\ Tail(caller[c].todo) \in Seq(Tasks)
  BY <1>2, HeadTailProperties
<1>4. /\ Cancelled(Head(caller[c].todo)) /\ UNCHANGED <<paused, pump, leases, remote, svc, crashes>>
      /\ caller' = [caller EXCEPT ![c] = [pc |-> "stop", task |-> Head(caller[c].todo), todo |-> Tail(caller[c].todo)]]
  BY <1>1 DEF PauseCancels
<1> QED
  BY <1>1, <1>2, <1>3, <1>4, TurnCancels

\* The run that is noted is told, and the turn goes on or ends.
LEMMA StopKeeps == ASSUME IInv, NEW c \in Callers, Stop(c) PROVE IInv'
<1> DEFINE t == caller[c].task
           on == [caller[c] EXCEPT !.pc = "next"]
           who == IF caller[c].todo = <<>> THEN NoCaller ELSE on
<1>1. /\ caller \in [Callers -> CallerRec] /\ caller[c] \in CallerRec /\ caller[c].pc = "stop" /\ TurnSound(c)
      /\ remote' = Told(task[t].run) /\ caller' = [caller EXCEPT ![c] = who]
      /\ UNCHANGED <<task, paused, pump, leases, svc, crashes>>
  BY DEF Stop, IInv, Typed
<1>2. t \in Tasks /\ svc.pc = "up"
  BY <1>1 DEF TurnSound
<1>3. on \in CallerRec /\ on.pc = "next" /\ on.todo = caller[c].todo
  BY <1>1 DEF CallerRec
<1>4. who \in CallerRec /\ who.pc \in {"idle", "next"} /\ (who.pc = "next" => who.todo # <<>>)
  BY <1>3, NoCallerIs
<1>5. Grown(remote, remote') /\ Len(remote') = Len(remote) /\ (task[t].run # 0 => remote'[task[t].run].told)
  BY <1>1, <1>2, Here, RunsGrow
<1> HIDE DEF who, on, t
<1>6. caller' \in [Callers -> CallerRec] /\ caller'[c] = who /\ \A d \in Callers \ {c} : caller'[d] = caller[d]
  BY <1>1, <1>4
<1>7. Typed'
  BY <1>1, <1>5, <1>6 DEF IInv, Typed, Grown
<1>8. ASSUME NEW u \in Tasks PROVE Sound(u)' /\ Leased(u)' /\ (Halted(task[u], pump[u], remote) => Halted(task[u], pump[u], remote)')
  <2>1. Leased(u)
    BY DEF IInv
  <2> QED
    BY <1>1, <1>5, <2>1, Here, SoundGrows DEF Sound, Leased
<1>9. ASSUME NEW d \in Callers PROVE TurnSound(d)'
  <2>1. CASE d = c
    BY <1>1, <1>2, <1>4, <1>6, <2>1 DEF TurnSound
  <2>2. CASE d # c
    <3>1. TurnSound(d)
      BY DEF IInv
    <3> QED
      BY <1>1, <1>4, <1>6, <2>2, <3>1 DEF TurnSound
  <2> QED
    BY <2>1, <2>2
<1>10. ASSUME crashes = 0, NEW u \in Tasks PROVE Heeded(u)' \/ Halted(task[u], pump[u], remote)'
  <2>1. CASE u = t
    BY <1>1, <1>5, <2>1 DEF Halted
  <2>2. CASE u # t
    <3>1. Heeded(u) \/ Halted(task[u], pump[u], remote)
      BY <1>10 DEF IInv
    <3>2. Heeded(u) => Heeded(u)'
      BY <1>1, <1>6, <2>2 DEF Heeded, t
    <3> QED
      BY <1>8, <3>1, <3>2
  <2> QED
    BY <2>1, <2>2
<1>11. Recovers'
  BY <1>1 DEF IInv, Recovers, Open
<1> QED
  BY <1>1, <1>7, <1>8, <1>9, <1>10, <1>11 DEF IInv

LEMMA NoPumpIs == ASSUME ConstantsOK PROVE NoPump \in PumpRec /\ NoPump.pc = "none" /\ NoPump.run = 0
  BY DEF NoPump, PumpRec, ConstantsOK

\* The row, the lease and the pump of a new task come to be in one step.
LEMMA CreateKeeps == ASSUME ConstantsOK, IInv, NEW c \in Callers, Create(c) PROVE IInv'
<1> DEFINE t == caller[c].task
           row == [status |-> "queued", run |-> 0, events |-> <<"created">>]
           p == [NoPump EXCEPT !.pc = "starting"]
<1>1. /\ caller \in [Callers -> CallerRec] /\ caller[c].pc = "create" /\ TurnSound(c)
      /\ task \in [Tasks -> RowRec] /\ pump \in [Tasks -> PumpRec] /\ leases \subseteq Tasks
      /\ task' = [task EXCEPT ![t] = row] /\ pump' = [pump EXCEPT ![t] = p] /\ leases' = leases \cup {t}
      /\ caller' = [caller EXCEPT ![c] = NoCaller] /\ UNCHANGED <<paused, remote, svc, crashes>>
  BY DEF Create, IInv, Typed
<1>2. t \in Tasks /\ svc.pc = "up" /\ task[t].status = "none" /\ \A d \in Callers : d # c /\ caller[d].pc = "create" => caller[d].task # t
  BY <1>1 DEF TurnSound
<1>3. row \in RowRec /\ row.status = "queued" /\ row.run = 0 /\ row.events = <<"created">> /\ EndsOnce(row) /\ row.events # <<>>
  <2>1. "created" \in Kinds /\ "created" \notin TERMINAL_KINDS /\ "queued" \in Statuses /\ "queued" \notin TERMINAL
    BY DEF Kinds, TERMINAL_KINDS, Statuses, TERMINAL
  <2> QED
    BY <2>1 DEF RowRec, EndsOnce, Ends
<1>4. p \in PumpRec /\ p.pc = "starting" /\ p.run = 0
  BY NoPumpIs DEF PumpRec
<1> HIDE DEF t, row, p
<1>5. /\ task'[t] = row /\ pump'[t] = p
      /\ \A u \in Tasks \ {t} : task'[u] = task[u] /\ pump'[u] = pump[u]
  BY <1>1, <1>2
<1>6. caller' \in [Callers -> CallerRec] /\ caller'[c].pc = "idle" /\ \A d \in Callers \ {c} : caller'[d] = caller[d]
  BY <1>1, NoCallerIs
<1>7. Typed'
  BY <1>1, <1>2, <1>3, <1>4, <1>6 DEF IInv, Typed
<1>8. ASSUME NEW u \in Tasks PROVE Sound(u)' /\ Leased(u)'
  <2>1. CASE u = t
    <3>1. RowSound(row, remote) /\ PumpSound(row, p, remote)
      BY <1>3, <1>4, Here DEF RowSound, PumpSound
    <3> QED
      BY <1>1, <1>2, <1>4, <1>5, <2>1, <3>1 DEF Sound, Leased
  <2>2. CASE u # t
    BY <1>1, <1>5, <2>2 DEF IInv, Sound, Leased
  <2> QED
    BY <2>1, <2>2
<1>9. ASSUME NEW d \in Callers PROVE TurnSound(d)'
  <2>1. CASE d = c
    BY <1>6, <2>1 DEF TurnSound
  <2>2. CASE d # c
    <3>1. TurnSound(d)
      BY DEF IInv
    <3>2. caller[d].pc = "create" => caller[d].task \in Tasks \ {t}
      BY <1>2, <2>2, <3>1 DEF TurnSound
    <3> QED
      BY <1>1, <1>5, <1>6, <2>2, <3>1, <3>2 DEF TurnSound
  <2> QED
    BY <2>1, <2>2
<1>10. ASSUME crashes = 0, NEW u \in Tasks PROVE Heeded(u)' \/ Halted(task[u], pump[u], remote)'
  <2>1. CASE u = t
    BY <1>3, <1>5, <2>1 DEF Halted
  <2>2. CASE u # t
    <3>1. Heeded(u) \/ Halted(task[u], pump[u], remote)
      BY <1>10 DEF IInv
    <3>2. Heeded(u) => Heeded(u)'
      BY <1>1, <1>6 DEF Heeded
    <3> QED
      BY <1>1, <1>5, <2>2, <3>1, <3>2
  <2> QED
    BY <2>1, <2>2
<1>11. Recovers'
  BY <1>1, <1>2, <1>4, <1>5 DEF IInv, Recovers, Open
<1> QED
  BY <1>1, <1>7, <1>8, <1>9, <1>10, <1>11 DEF IInv

\* The core dies: the rows stay, and what is open is on the list of the next start.
LEMMA CrashKeeps == ASSUME ConstantsOK, IInv, Crash PROVE IInv'
<1>1. /\ pump' = [t \in Tasks |-> NoPump] /\ leases' = {} /\ caller' = [c \in Callers |-> NoCaller]
      /\ svc' = [pc |-> "recovering", todo |-> OpenTasks, stop |-> 0] /\ UNCHANGED <<task, paused, remote>>
      /\ crashes' \in 0..MaxCrashes /\ crashes' # 0
  BY DEF Crash, IInv, Typed, ConstantsOK
<1>2. NoPump \in PumpRec /\ NoPump.pc = "none" /\ NoPump.run = 0
  BY NoPumpIs
<1>3. \A t \in Tasks : pump'[t] = NoPump
  BY <1>1
<1>4. Typed'
  BY <1>1, <1>2, NoCallerIs, EveryOpenOneListed DEF IInv, Typed
<1>5. ASSUME NEW t \in Tasks PROVE Sound(t)' /\ Leased(t)'
  BY <1>1, <1>2, <1>3, Here DEF Sound, PumpSound, Leased
<1>6. \A c \in Callers : TurnSound(c)'
  BY <1>1, NoCallerIs DEF TurnSound
<1>7. svc'.pc = "recovering" /\ svc'.todo = OpenTasks /\ svc'.stop = 0
  BY <1>1
<1>8. Recovers'
  BY <1>1, <1>2, <1>3, <1>7, EveryOpenOneListed DEF Recovers, Open
<1> QED
  BY <1>1, <1>4, <1>5, <1>6, <1>8 DEF IInv

\* start: the next of the list is cancelled, then its run is told; at the end of the list nothing is open.
LEMMA RecoverKeeps == ASSUME IInv, Recover PROVE IInv'
<1>1. /\ svc \in [pc : {"up", "recovering"}, todo : Seq(Tasks), stop : Tasks \cup {0}]
      /\ svc.pc = "recovering" /\ crashes # 0 /\ crashes' = crashes
      /\ \A t \in Tasks : pump[t].pc = "none" /\ (Open(t) => Listed(t, svc.todo))
      /\ svc.stop # 0 => svc.todo # <<>> /\ svc.stop = Head(svc.todo) /\ ~Open(svc.stop)
      /\ UNCHANGED <<paused, pump, leases, caller>>
  BY DEF Recover, IInv, Typed, Recovers
<1>2. \A c \in Callers : caller[c].pc = "idle"
  <2>1. ASSUME NEW c \in Callers PROVE caller[c].pc = "idle"
    BY <1>1 DEF IInv, TurnSound
  <2> QED
    BY <2>1
<1>3. \A c \in Callers : TurnSound(c)'
  BY <1>1, <1>2 DEF TurnSound
<1>4. CASE svc.todo # <<>> /\ svc.stop = 0 /\ Cancelled(Head(svc.todo)) /\ svc' = [svc EXCEPT !.stop = Head(svc.todo)] /\ remote' = remote
  <2>1. Head(svc.todo) \in Tasks
    BY <1>1, <1>4, HeadTailProperties
  <2>2. /\ svc' \in [pc : {"up", "recovering"}, todo : Seq(Tasks), stop : Tasks \cup {0}]
        /\ svc'.pc = "recovering" /\ svc'.todo = svc.todo /\ svc'.stop = Head(svc.todo)
    BY <1>1, <1>4, <2>1
  <2>3. Typed'
    BY <1>1, <1>4, <2>1, <2>2, CancelledRows DEF IInv, Typed
  <2>4. \A u \in Tasks : Sound(u)' /\ Leased(u)'
    BY <1>1, <1>4, <2>1, CancelledRows DEF IInv, Sound, Leased
  <2>5. ~Open(svc.stop)'
    BY <1>4, <2>1, <2>2, CancelledRows DEF Open
  <2>6. \A u \in Tasks : Open(u)' => Open(u)
    BY <1>4, <2>1, CancelledRows
  <2>7. Recovers'
    BY <1>1, <1>4, <2>2, <2>5, <2>6 DEF Recovers
  <2> QED
    BY <1>1, <1>3, <2>3, <2>4, <2>7 DEF IInv
<1>5. CASE svc.stop # 0 /\ remote' = Told(task[svc.stop].run) /\ svc' = [svc EXCEPT !.todo = Tail(@), !.stop = 0] /\ task' = task
  <2>1. svc.todo \in Seq(Tasks) /\ svc.todo # <<>> /\ svc.stop \in Tasks
    BY <1>1, <1>5
  <2>2. /\ Tail(svc.todo) \in Seq(Tasks) /\ Len(Tail(svc.todo)) = Len(svc.todo) - 1
        /\ \A i \in 1..Len(Tail(svc.todo)) : Tail(svc.todo)[i] = svc.todo[i + 1]
    BY <2>1, HeadTailProperties
  <2>3. /\ svc' \in [pc : {"up", "recovering"}, todo : Seq(Tasks), stop : Tasks \cup {0}]
        /\ svc'.pc = "recovering" /\ svc'.todo = Tail(svc.todo) /\ svc'.stop = 0
    BY <1>1, <1>5, <2>2
  <2>4. Grown(remote, remote')
    BY <1>5, <2>1, Here, RunsGrow
  <2>5. Typed'
    BY <1>1, <1>5, <2>3, <2>4 DEF IInv, Typed, Grown
  <2>6. ASSUME NEW u \in Tasks PROVE Sound(u)' /\ Leased(u)'
    <3>1. Leased(u)
      BY DEF IInv
    <3> QED
      BY <1>1, <1>5, <2>4, <3>1, Here, SoundGrows DEF Sound, Leased
  <2>7. ASSUME NEW u \in Tasks, Open(u) PROVE Listed(u, Tail(svc.todo))
    <3>1. PICK i \in 1..Len(svc.todo) : svc.todo[i] = u
      BY <1>1, <2>1, <2>7 DEF Listed
    <3>2. i # 1
      BY <1>1, <1>5, <2>1, <2>7, <3>1
    <3>3. i - 1 \in 1..Len(Tail(svc.todo)) /\ Tail(svc.todo)[i - 1] = u
      BY <2>1, <2>2, <3>1, <3>2
    <3>4. DOMAIN Tail(svc.todo) = 1..Len(Tail(svc.todo))
      BY <2>2
    <3>5. \E k \in DOMAIN Tail(svc.todo) : Tail(svc.todo)[k] = u
      BY <3>3, <3>4
    <3> QED
      BY <3>5 DEF Listed
  <2>8. Recovers'
    BY <1>1, <1>5, <2>3, <2>7 DEF Recovers, Open
  <2> QED
    BY <1>1, <1>3, <2>5, <2>6, <2>8 DEF IInv
<1>6. CASE svc.todo = <<>> /\ svc' = [svc EXCEPT !.pc = "up"] /\ UNCHANGED <<task, remote>>
  <2>1. /\ svc' \in [pc : {"up", "recovering"}, todo : Seq(Tasks), stop : Tasks \cup {0}] /\ svc'.pc = "up"
    BY <1>1, <1>6
  <2>2. \A u \in Tasks : ~Open(u)
    BY <1>1, <1>6 DEF Listed
  <2>3. Typed'
    BY <1>1, <1>6, <2>1 DEF IInv, Typed
  <2>4. \A u \in Tasks : Sound(u)' /\ Leased(u)'
    BY <1>1, <1>6 DEF IInv, Sound, Leased
  <2>5. Recovers'
    BY <1>6, <2>1, <2>2 DEF Recovers, Open
  <2> QED
    BY <1>1, <1>3, <2>3, <2>4, <2>5 DEF IInv
<1> QED
  BY <1>4, <1>5, <1>6 DEF Recover

\* A reader changes nothing but itself.
LEMMA ReadersKeep == ASSUME IInv, Read \/ (\E t \in Tasks : Follow(t)) \/ UNCHANGED vars PROVE IInv'
<1>1. UNCHANGED <<task, paused, pump, leases, remote, caller, svc, crashes>>
  BY DEF Read, Replay, LookAtTask, Receive, Follow, vars
<1> QED
  BY <1>1 DEF IInv, Typed, Sound, Leased, TurnSound, Recovers, Open, Heeded

-----------------------------------------------------------------------------
(* The theorems.                                                           *)

LEMMA NextKeeps == ASSUME ConstantsOK, IInv, [Next]_vars PROVE IInv'
<1>1. ASSUME NEW t \in Tasks, Attempt(t) \/ ReadEvent(t) \/ StreamEnds(t) \/ Deadline(t) \/ Ending(t) PROVE IInv'
  BY <1>1, PumpKeeps
<1>2. ASSUME NEW c \in Callers, Turn(c) \/ Pause(c) \/ \E t \in Tasks : AskedFor(c, t) \/ Cancel(c, t) PROVE IInv'
  BY <1>2, CreateKeeps, StopKeeps, PauseListsKeeps, PauseCancelsKeeps, PauseKeeps, AskedForKeeps, CancelKeeps DEF Turn
<1> QED
  BY <1>1, <1>2, CrashKeeps, RecoverKeeps, ReadersKeep DEF Next

LEMMA InitSound == ASSUME ConstantsOK, Init PROVE IInv
<1>1. NoRow \in RowRec /\ NoRow.status = "none" /\ NoRow.run = 0 /\ NoRow.events = <<>>
  BY DEF NoRow, RowRec, Statuses
<1>2. \A t \in Tasks : task[t] = NoRow /\ pump[t] = NoPump
  BY DEF Init
<1>3. \A c \in Callers : caller[c] = NoCaller
  BY DEF Init
<1>4. svc.pc = "up" /\ svc \in [pc : {"up", "recovering"}, todo : Seq(Tasks), stop : Tasks \cup {0}]
  BY DEF Init
<1>5. "none" \notin TERMINAL /\ remote = <<>> /\ leases = {}
  BY DEF TERMINAL, Init
<1>6. Typed
  <2>1. task \in [Tasks -> RowRec] /\ pump \in [Tasks -> PumpRec] /\ caller \in [Callers -> CallerRec]
    BY <1>1, NoPumpIs, NoCallerIs DEF Init
  <2>2. remote \in Seq(RunRec) /\ leases \subseteq Tasks
    BY <1>5
  <2>3. paused \in BOOLEAN
    BY DEF Init
  <2>4. crashes \in 0..MaxCrashes
    BY DEF Init, ConstantsOK
  <2> QED
    BY <1>4, <2>1, <2>2, <2>3, <2>4 DEF Typed
<1>7. \A t \in Tasks : Sound(t) /\ Leased(t)
  BY <1>1, <1>2, <1>5, NoPumpIs DEF Sound, RowSound, PumpSound, EndsOnce, Ends, Leased
<1>8. \A c \in Callers : TurnSound(c)
  BY <1>3, NoCallerIs DEF TurnSound
<1>9. Recovers
  BY <1>1, <1>2, <1>4 DEF Recovers, Open
<1>10. \A t \in Tasks : Halted(task[t], pump[t], remote)
  BY <1>1, <1>2 DEF Halted
<1> QED
  BY <1>6, <1>7, <1>8, <1>9, <1>10 DEF IInv

LEMMA Invariance == ASSUME ConstantsOK PROVE Spec => []IInv
  BY InitSound, NextKeeps, PTL DEF Spec

\* Rows, pumps and leases are what they may be, and a lease of the broker is held exactly while its
\* pump runs (_open_lease, _close_lease).
THEOREM TypeCorrect == ASSUME ConstantsOK PROVE Spec => []TypeOK
<1>1. IInv => TypeOK
  <2> SUFFICES ASSUME IInv PROVE TypeOK
    OBVIOUS
  <2>1. ASSUME NEW t \in Tasks
        PROVE  /\ task[t].status \in TERMINAL \cup {"none", "queued", "running", "waiting_for_user"}
               /\ task[t].run \in 0..Len(remote)
               /\ task[t].status = "none" <=> task[t].events = <<>>
               /\ pump[t].tries \in 0..MAX_SCHEMA_RETRIES
               /\ t \in leases <=> pump[t].pc \notin {"none", "done"}
    BY Here DEF RowSound, RowRec, PumpRec, Statuses, IInv, Leased
  <2> QED
    BY <2>1 DEF IInv, Typed, TypeOK
<1> QED
  BY <1>1, Invariance, PTL

\* A task has one end, the one its row says, whoever else wanted to end it at the same time: finish and
\* cancel of the journal look at the row in the step in which they write.
THEOREM EndsOnlyOnce == ASSUME ConstantsOK PROVE Spec => []OneEnd
<1>1. IInv => OneEnd
  BY Here DEF OneEnd, EndsOnce
<1> QED
  BY <1>1, Invariance, PTL

\* While the service is up a task that has not ended has its pump, however often the core died: start
\* ends what was open, and a pump leaves only behind an end.
THEOREM DrivenToItsEnd == ASSUME ConstantsOK PROVE Spec => []OpenIsDriven
<1>1. IInv => OpenIsDriven
  <2> SUFFICES ASSUME IInv, svc.pc = "up", NEW t \in Tasks, Open(t)
               PROVE  pump[t].pc \notin {"none", "done", "close"}
    BY DEF OpenIsDriven
  <2> QED
    BY Here DEF IInv, Recovers, PumpSound, Open
<1> QED
  BY <1>1, Invariance, PTL

\* The run of a cancelled task has ended or was told to, also one that came to be while the cancel was
\* under way (attach_run, cancel_task), as long as the core did not die in between.
THEOREM CancelledMeansStopped == ASSUME ConstantsOK PROVE Spec => []CancelledIsStopped
<1>1. IInv => CancelledIsStopped
  BY DEF IInv, CancelledIsStopped, Heeded, Halted
<1> QED
  BY <1>1, Invariance, PTL

-----------------------------------------------------------------------------
(* The jail of the executor (DeepService), for any number of cores.        *)

CONSTANTS Cores, NONE, MaxStarts
VARIABLES core, lock, env, exec, wide, port, launches
Jail == INSTANCE DeepService

CorePcs == {"off", "locking", "jailed", "provisioned", "waiting", "asking", "serving", "stopping", "killing"}

\* Behind the lock a core holds the jail, and before its launch it has no executor left.
CoreSound(c) ==
    /\ core[c] \in {"jailed", "provisioned", "waiting", "asking", "serving"} => lock = c
    /\ core[c] \in {"provisioned", "waiting", "asking", "serving"} => env = c
    /\ core[c] \in {"locking", "jailed", "provisioned"} => exec[c] # "up"
    /\ core[c] = "serving" /\ port # NONE => port \notin wide

JailInv == Jail!TypeOK /\ \A c \in Cores : CoreSound(c)

\* What a step of one core does to its place, its executor, the lock and the port.
LEMMA JailTyped == ASSUME Jail!CoresOK, JailInv, Jail!Next PROVE Jail!TypeOK'
<1>1. /\ core \in [Cores -> CorePcs] /\ exec \in [Cores -> {"none", "up", "gone"}] /\ wide \subseteq Cores
      /\ lock \in Cores \cup {NONE} /\ env \in Cores \cup {NONE} /\ port \in Cores \cup {NONE}
      /\ port # NONE => exec[port] = "up"
  BY DEF JailInv, Jail!TypeOK, CorePcs
<1>2. PICK c \in Cores :
        \/ Jail!Start(c) \/ Jail!Acquire(c) \/ Jail!Provision(c) \/ Jail!Launch(c) \/ Jail!LaunchRefused(c)
        \/ Jail!Healthy(c) \/ Jail!GivenUp(c) \/ Jail!Ask(c) \/ Jail!Shutdown(c) \/ Jail!Unlock(c)
        \/ Jail!StopProcess(c) \/ Jail!ExecutorDies(c) \/ Jail!Crash(c)
  BY DEF Jail!Next
<1>3. /\ core' \in [Cores -> CorePcs] /\ lock' \in Cores \cup {NONE} /\ env' \in Cores \cup {NONE}
  BY <1>1, <1>2 DEF CorePcs, Jail!Goes, Jail!Start, Jail!Acquire, Jail!Acquirable, Jail!Provision, Jail!Launch,
     Jail!LaunchRefused, Jail!Healthy, Jail!GivenUp, Jail!Ask, Jail!Shutdown, Jail!Unlock, Jail!Released,
     Jail!StopProcess, Jail!ExecutorDies, Jail!Crash
<1>4. CASE Jail!Launch(c)
  <2>1. exec[c] # "up"
    BY <1>4 DEF Jail!Launch, JailInv, CoreSound
  <2> QED
    BY <1>1, <1>3, <1>4, <2>1 DEF Jail!Launch, Jail!CoresOK, Jail!TypeOK, CorePcs
<1>5. CASE Jail!StopProcess(c) \/ Jail!ExecutorDies(c)
  BY <1>1, <1>3, <1>5 DEF Jail!StopProcess, Jail!ExecutorDies, Jail!Gone, Jail!TypeOK, CorePcs
<1>6. CASE UNCHANGED <<exec, wide, port>>
  BY <1>1, <1>3, <1>6 DEF Jail!TypeOK, CorePcs
<1> QED
  BY <1>2, <1>4, <1>5, <1>6 DEF Jail!Start, Jail!Acquire, Jail!Provision,
     Jail!LaunchRefused, Jail!Healthy, Jail!GivenUp, Jail!Ask, Jail!Shutdown, Jail!Unlock, Jail!Crash

LEMMA JailKeeps == ASSUME Jail!CoresOK, JailInv, [Jail!Next]_Jail!vars PROVE JailInv'
<1>1. CASE UNCHANGED Jail!vars
  BY <1>1 DEF JailInv, CoreSound, Jail!TypeOK, Jail!vars
<1>2. CASE Jail!Next
  <2>1. /\ core \in [Cores -> CorePcs] /\ exec \in [Cores -> {"none", "up", "gone"}] /\ NONE \notin Cores
        /\ \A d \in Cores : CoreSound(d)
    BY DEF JailInv, Jail!TypeOK, CorePcs, Jail!CoresOK
  <2>2. ASSUME NEW c \in Cores, Jail!Start(c) PROVE \A d \in Cores : CoreSound(d)'
    BY <2>1, <2>2 DEF Jail!Start, Jail!Goes, CoreSound
  <2>3. ASSUME NEW c \in Cores, Jail!Acquire(c) PROVE \A d \in Cores : CoreSound(d)'
    BY <2>1, <2>3 DEF Jail!Acquire, Jail!Acquirable, Jail!Goes, CoreSound
  <2>4. ASSUME NEW c \in Cores, Jail!Provision(c) PROVE \A d \in Cores : CoreSound(d)'
    BY <2>1, <2>4 DEF Jail!Provision, Jail!Goes, CoreSound
  <2>5. ASSUME NEW c \in Cores, Jail!Launch(c) PROVE \A d \in Cores : CoreSound(d)'
    <3>1. \A d \in Cores \ {c} : core[d] \notin {"jailed", "provisioned", "waiting", "asking", "serving"}
      BY <2>1, <2>5 DEF Jail!Launch, CoreSound
    <3>2. core' = [core EXCEPT ![c] = "waiting"] /\ lock = c /\ env = c /\ lock' = lock /\ env' = env
          /\ \A d \in Cores \ {c} : exec'[d] = exec[d]
      BY <2>1, <2>5 DEF Jail!Launch, Jail!Goes, CoreSound
    <3> QED
      BY <2>1, <3>1, <3>2 DEF CoreSound
  <2>6. ASSUME NEW c \in Cores, Jail!Ask(c) PROVE \A d \in Cores : CoreSound(d)'
    BY <2>1, <2>6 DEF Jail!Ask, Jail!Allowed, Jail!Goes, CoreSound
  <2>7. ASSUME NEW c \in Cores, Jail!LaunchRefused(c) \/ Jail!Healthy(c) \/ Jail!GivenUp(c) \/ Jail!Shutdown(c)
        PROVE  \A d \in Cores : CoreSound(d)'
    BY <2>1, <2>7 DEF Jail!LaunchRefused, Jail!Healthy, Jail!GivenUp, Jail!Shutdown, Jail!Goes, CoreSound
  <2>8. ASSUME NEW c \in Cores, Jail!Unlock(c) \/ Jail!Crash(c) PROVE \A d \in Cores : CoreSound(d)'
    BY <2>1, <2>8 DEF Jail!Unlock, Jail!Released, Jail!Crash, Jail!Goes, CoreSound
  <2>9. ASSUME NEW c \in Cores, Jail!StopProcess(c) \/ Jail!ExecutorDies(c) PROVE \A d \in Cores : CoreSound(d)'
    BY <2>1, <2>9 DEF Jail!StopProcess, Jail!ExecutorDies, Jail!Gone, Jail!Goes, CoreSound
  <2>10. \A d \in Cores : CoreSound(d)'
    BY <1>2, <2>2, <2>3, <2>4, <2>5, <2>6, <2>7, <2>8, <2>9 DEF Jail!Next
  <2> QED
    BY <1>2, <2>10, JailTyped DEF JailInv
<1> QED
  BY <1>1, <1>2

LEMMA JailInvariance == ASSUME Jail!CoresOK PROVE Jail!Spec => []JailInv
<1>1. Jail!Init => JailInv
  BY DEF Jail!Init, JailInv, CoreSound, Jail!TypeOK
<1> QED
  BY <1>1, JailKeeps, PTL DEF Jail!Spec

\* A core that serves holds the jail, and the credentials in it are its own: the lock comes before the file,
\* and only its holder gives it back (DeepIsolation.acquire, provision and release).
THEOREM OneInTheJail == ASSUME Jail!CoresOK PROVE Jail!Spec => []Jail!JailIsItsOwn
<1>1. JailInv => Jail!JailIsItsOwn
  BY DEF JailInv, CoreSound, Jail!JailIsItsOwn
<1> QED
  BY <1>1, JailInvariance, PTL

\* Whatever executor answers a core that serves has been asked for its surface and offered no more than is
\* allowed, also one that an earlier core left behind (assert_posture).
THEOREM AskedBeforeServing == ASSUME Jail!CoresOK PROVE Jail!Spec => []Jail!PostureWasAsked
<1>1. JailInv => Jail!PostureWasAsked
  BY DEF JailInv, CoreSound, Jail!PostureWasAsked
<1> QED
  BY <1>1, JailInvariance, PTL

-----------------------------------------------------------------------------
(* The runs of agents (AgentRun), for any number of runs, plans, revisions *)
(* and restarts.                                                           *)

CONSTANTS Runs, Plans, MaxRevisions, MaxAsks, MaxConcurrent, MaxRestarts, NULL
VARIABLES run, rows, start, ctx, holder, loop, restarts
Agent == INSTANCE AgentRun WITH MaxCrashes <- MaxRestarts, crashes <- restarts

Awaiting == {"plan", "replan", "pollreplan", "specialist", "capability", "poll", "exec"}
LoopPcs == {"idle", "starts", "starting", "runs"} \cup Awaiting
AgentRec == [state : Agent!RunStates, revs : 0..MaxRevisions]
StartRec == [note : {"none", "WAITING", "TAKEN", "CLOSED"}, ask : Agent!Asks]
Look == [r : Runs, state : Agent!RunStates]
LoopRec == [pc : LoopPcs, r : Runs \cup {0}, todo : Seq(Look), notes : SUBSET Runs, had : BOOLEAN]

AgentTyped ==
    /\ run \in [Runs -> AgentRec] /\ rows \in [Runs -> Seq(Agent!StepRow)] /\ start \in [Runs -> StartRec]
    /\ ctx \in [Runs -> Agent!Context \cup {NULL}] /\ holder \in Runs \cup {0} /\ loop \in LoopRec

\* Where the loop is as far as run q goes.
Place(q) == IF loop.r = q THEN loop.pc ELSE "away"

\* An effect that no row shows, unless the call for it is under way; a direct call that
\* came back as failed counts as one that did nothing.
InDoubt(w, a) == \E i \in DOMAIN w :
    /\ w[i].did /\ w[i].state # "succeeded" /\ ~(w[i].state = "failed" /\ w[i].ask # "used")
    /\ ~(i = Len(w) /\ a \in {"capability", "exec"})

LastAsk(w) == IF w = <<>> THEN "none" ELSE w[Len(w)].ask
Acting == Agent!RunStates \ ({"INTERRUPTED", "VERIFYING"} \cup Agent!TERMINAL_STATES)

\* How the state s of a run, its rows w, the slot (mine) and the place a of the loop go together.
PlaceFits(s, w, mine, a) ==
    /\ a = "plan" => s \in {"PLANNING", "CANCELLED"}
    /\ a \in {"replan", "pollreplan"} => s \in {"RUNNING", "CANCELLED"}
    /\ a = "specialist" => s \in {"WAITING_SPECIALIST", "CANCELLED"} /\ w # <<>> /\ ~w[Len(w)].did
    /\ a = "capability" => s \in {"RUNNING", "CANCELLED"} /\ w # <<>> /\ LastAsk(w) \in {"none", "used"}
    /\ a \in {"poll", "exec"} => s \in {"WAITING_APPROVAL", "CANCELLED"} /\ w # <<>>
    /\ a = "exec" => LastAsk(w) \in {"approved", "expired", "used"}
    /\ a = "capability" /\ s = "RUNNING" => mine
    /\ s = "WAITING_APPROVAL" => mine /\ w # <<>>
    /\ mine => s = "WAITING_APPROVAL" \/ (s = "RUNNING" /\ a = "capability")

RowsFit(s, w, a) ==
    /\ LastAsk(w) = "pending" => s \in {"WAITING_APPROVAL", "CANCELLED"}
    /\ LastAsk(w) = "denied" => s \in {"WAITING_APPROVAL", "INTERRUPTED", "VERIFYING"} \cup Agent!TERMINAL_STATES
    /\ s \in Acting \/ a \in {"capability", "poll", "exec"} => ~InDoubt(w, a)
    /\ s = "SUCCEEDED" => \A i \in DOMAIN w : w[i].state \in Agent!SETTLED_OK

StartFits(s, st) ==
    /\ st.note = "none" => st.ask = "none"
    /\ st.note # "none" /\ st.ask # "used" => s = "none"

\* The context a call or a specialist answers into holds the step.
Carries(c) == c # NULL /\ c.plan # NULL /\ c.cursor < Len(c.plan)
ContextFits(s, c, a) ==
    \/ a = "specialist" /\ s = "WAITING_SPECIALIST"
    \/ a = "capability" /\ s = "RUNNING"
    \/ s = "WAITING_APPROVAL"
    => Carries(c)

Fits(s, w, st, c, mine, a) ==
    PlaceFits(s, w, mine, a) /\ RowsFit(s, w, a) /\ StartFits(s, st) /\ ContextFits(s, c, a)
RunFits(q) == Fits(run[q].state, rows[q], start[q], ctx[q], holder = q, Place(q))

\* What the tick saw of a run it has not come to yet still holds, unless the run was cancelled or resumed.
StillSo(e, s, w) ==
    /\ e.state # "none"
    /\ s \in {e.state, "CANCELLED"} \/ e.state = "WAITING_USER"
    /\ e.state = "WAITING_APPROVAL" => w # <<>> /\ ~InDoubt(w, "away")

TickFits ==
    /\ loop.r = 0 <=> loop.pc \in {"idle", "starts", "runs"}
    /\ loop.pc \in Awaiting => loop.todo # <<>> /\ Head(loop.todo).r = loop.r
    /\ loop.pc \in {"idle", "starts", "starting"} => loop.todo = <<>>
    /\ loop.pc \in {"starts", "starting"} => \A q \in loop.notes : start[q].note # "none"
    /\ \A i, j \in DOMAIN loop.todo : i # j => loop.todo[i].r # loop.todo[j].r
    /\ \A i \in DOMAIN loop.todo : loop.todo[i].r # loop.r =>
          StillSo(loop.todo[i], run[loop.todo[i].r].state, rows[loop.todo[i].r])

AgentInv == AgentTyped /\ TickFits /\ \A q \in Runs : RunFits(q)

(* Rows. *)

LEMMA BookedRow ==
    ASSUME NEW x \in Seq(Agent!StepRow), x # <<>>, NEW s \in Agent!StepStates, NEW y, y = [x EXCEPT ![Len(x)].state = s]
    PROVE  /\ y \in Seq(Agent!StepRow) /\ y # <<>> /\ Len(y) = Len(x) /\ DOMAIN y = DOMAIN x
           /\ y[Len(x)].state = s
           /\ \A i \in DOMAIN x : y[i].did = x[i].did /\ y[i].ask = x[i].ask /\ (i # Len(x) => y[i] = x[i])
<1>1. Len(x) \in Nat \ {0} /\ DOMAIN x = 1..Len(x) /\ \A i \in DOMAIN x : x[i] \in Agent!StepRow
  OBVIOUS
<1> DEFINE e == [x[Len(x)] EXCEPT !.state = s]
<1>2. e \in Agent!StepRow /\ e.state = s /\ e.did = x[Len(x)].did /\ e.ask = x[Len(x)].ask
  BY <1>1 DEF Agent!StepRow
<1>3. y = [x EXCEPT ![Len(x)] = e]
  OBVIOUS
<1> HIDE DEF e
<1> QED
  BY <1>1, <1>2, <1>3

\* The same rows but for what the last one was asked or did.
LEMMA AskedRow ==
    ASSUME NEW x \in Seq(Agent!StepRow), x # <<>>, NEW e \in Agent!StepRow, NEW y, y = [x EXCEPT ![Len(x)] = e]
    PROVE  /\ y \in Seq(Agent!StepRow) /\ y # <<>> /\ Len(y) = Len(x) /\ DOMAIN y = DOMAIN x /\ y[Len(x)] = e
           /\ \A i \in DOMAIN x : i # Len(x) => y[i] = x[i]
<1>1. Len(x) \in Nat \ {0} /\ DOMAIN x = 1..Len(x) /\ \A i \in DOMAIN x : x[i] \in Agent!StepRow
  OBVIOUS
<1> QED
  BY <1>1

LEMMA TwoFields ==
    ASSUME NEW x \in Seq(Agent!StepRow), x # <<>>, NEW a, NEW b
    PROVE  /\ [x EXCEPT ![Len(x)].state = a, ![Len(x)].ask = b] = [x EXCEPT ![Len(x)] = [@ EXCEPT !.state = a, !.ask = b]]
           /\ [x EXCEPT ![Len(x)].did = a, ![Len(x)].ask = b] = [x EXCEPT ![Len(x)] = [@ EXCEPT !.did = a, !.ask = b]]
<1>1. Len(x) \in DOMAIN x
  OBVIOUS
<1> QED
  BY <1>1

\* Booking leaves no doubt where there was none, when an effect is booked as a success, or
\* as a failure of a call that spent no approval.
LEMMA BookedNoDoubt ==
    ASSUME NEW x \in Seq(Agent!StepRow), x # <<>>, NEW y, NEW s, NEW a, NEW b, ~InDoubt(x, a),
           Len(y) = Len(x), DOMAIN y = DOMAIN x, y[Len(x)].state = s,
           s = "succeeded" \/ ~x[Len(x)].did \/ (s = "failed" /\ x[Len(x)].ask # "used"),
           \A i \in DOMAIN x : y[i].did = x[i].did /\ y[i].ask = x[i].ask /\ (i # Len(x) => y[i] = x[i])
    PROVE  ~InDoubt(y, b)
  BY DEF InDoubt

(* What the operators of the model do. *)

OneRun(r) == run' \in [Runs -> AgentRec] /\ \A q \in Runs \ {r} : run'[q] = run[q]
OneLedger(r) == rows' \in [Runs -> Seq(Agent!StepRow)] /\ \A q \in Runs \ {r} : rows'[q] = rows[q]
OneStart(r) == start' \in [Runs -> StartRec] /\ \A q \in Runs \ {r} : start'[q] = start[q]
OneContext(r) == ctx' \in [Runs -> Agent!Context \cup {NULL}] /\ \A q \in Runs \ {r} : ctx'[q] = ctx[q]
OneSlot(r) == holder' \in Runs \cup {0} /\ \A q \in Runs \ {r} : holder' = q <=> holder = q
OnlyRun(r) == OneRun(r) /\ OneLedger(r) /\ OneStart(r) /\ OneContext(r) /\ OneSlot(r)

LEMMA StillRun == ASSUME AgentTyped, NEW r \in Runs
    PROVE  /\ UNCHANGED run => OneRun(r)
           /\ UNCHANGED rows => OneLedger(r)
           /\ UNCHANGED start => OneStart(r)
           /\ UNCHANGED ctx => OneContext(r)
           /\ UNCHANGED holder => OneSlot(r)
  BY DEF AgentTyped, OneRun, OneLedger, OneStart, OneContext, OneSlot

LEMMA GotoDoes == ASSUME AgentTyped, NEW r \in Runs, NEW s \in Agent!RunStates, Agent!Goto(r, s)
                  PROVE  OneRun(r) /\ run'[r].state = s
  BY DEF AgentTyped, Agent!Goto, OneRun, AgentRec

LEMMA ReleaseDoes ==
    ASSUME Agent!ConstantsOK, AgentTyped, NEW r \in Runs, Agent!Release(r)
    PROVE OneSlot(r) /\ holder' # r
  BY DEF AgentTyped, Agent!Release, OneSlot, Agent!ConstantsOK

LEMMA FinishDoes ==
    ASSUME Agent!ConstantsOK, AgentTyped, NEW r \in Runs, NEW s \in Agent!RunStates, Agent!Finish(r, s)
                    PROVE  OneRun(r) /\ run'[r].state = s /\ OneSlot(r) /\ holder' # r /\ OneContext(r)
<1>1. Agent!Goto(r, s) /\ Agent!Release(r) /\ ctx' = [ctx EXCEPT ![r] = NULL]
  BY DEF Agent!Finish
<1>2. OneContext(r)
  BY <1>1 DEF AgentTyped, OneContext
<1> QED
  BY <1>1, <1>2, GotoDoes, ReleaseDoes

LEMMA SetRowDoes ==
    ASSUME AgentTyped, NEW r \in Runs, NEW s \in Agent!StepStates, rows[r] # <<>>, Agent!SetRow(r, s)
    PROVE  /\ OneLedger(r) /\ rows'[r] # <<>> /\ Len(rows'[r]) = Len(rows[r]) /\ DOMAIN rows'[r] = DOMAIN rows[r]
           /\ rows'[r][Len(rows[r])].state = s /\ LastAsk(rows'[r]) = LastAsk(rows[r])
           /\ \A i \in DOMAIN rows[r] : /\ rows'[r][i].did = rows[r][i].did /\ rows'[r][i].ask = rows[r][i].ask
                                        /\ i # Len(rows[r]) => rows'[r][i] = rows[r][i]
<1> DEFINE y == [rows[r] EXCEPT ![Len(rows[r])].state = s]
<1>1. rows' = [rows EXCEPT ![r] = y]
  BY DEF Agent!SetRow, Agent!Last_
<1>2. rows[r] \in Seq(Agent!StepRow) /\ rows \in [Runs -> Seq(Agent!StepRow)] /\ y = [rows[r] EXCEPT ![Len(rows[r])].state = s]
  BY DEF AgentTyped
<1> HIDE DEF y
<1>3. /\ y \in Seq(Agent!StepRow) /\ y # <<>> /\ Len(y) = Len(rows[r]) /\ DOMAIN y = DOMAIN rows[r]
      /\ y[Len(rows[r])].state = s
      /\ \A i \in DOMAIN rows[r] : y[i].did = rows[r][i].did /\ y[i].ask = rows[r][i].ask
                                   /\ (i # Len(rows[r]) => y[i] = rows[r][i])
  <2> DEFINE x == rows[r]
  <2>1. x \in Seq(Agent!StepRow) /\ x # <<>> /\ y = [x EXCEPT ![Len(x)].state = s] /\ s \in Agent!StepStates
    BY <1>2
  <2> HIDE DEF x
  <2>2. /\ y \in Seq(Agent!StepRow) /\ y # <<>> /\ Len(y) = Len(x) /\ DOMAIN y = DOMAIN x
        /\ y[Len(x)].state = s
        /\ \A i \in DOMAIN x : y[i].did = x[i].did /\ y[i].ask = x[i].ask /\ (i # Len(x) => y[i] = x[i])
    BY ONLY <2>1, BookedRow
  <2> QED
    BY <2>2 DEF x
<1>4. rows'[r] = y /\ OneLedger(r)
  BY <1>1, <1>2, <1>3 DEF OneLedger
<1>5. Len(rows[r]) \in DOMAIN rows[r]
  BY <1>2
<1> QED
  BY <1>3, <1>4, <1>5 DEF LastAsk

LEMMA NewRowDoes ==
    ASSUME AgentTyped, MaxRevisions \in Nat, NEW r \in Runs, NEW s \in Agent!StepStates, Carries(ctx[r]), Agent!NewRow(r, s)
    PROVE  /\ OneLedger(r) /\ rows'[r] # <<>> /\ Len(rows'[r]) = Len(rows[r]) + 1
           /\ ~rows'[r][Len(rows'[r])].did /\ LastAsk(rows'[r]) = "none"
           /\ \A a : ~InDoubt(rows[r], "away") => ~InDoubt(rows'[r], a)
<1> DEFINE e == [seq |-> ctx[r].cursor + 1, attempt |-> Agent!Attempt(r), kind |-> Agent!Planned(r).kind,
                 state |-> s, ask |-> "none", did |-> FALSE]
<1>1. rows' = [rows EXCEPT ![r] = Append(rows[r], e)]
  BY DEF Agent!NewRow
<1>2. rows[r] \in Seq(Agent!StepRow) /\ rows \in [Runs -> Seq(Agent!StepRow)]
  BY DEF AgentTyped
<1>3. e \in Agent!StepRow
  <2>1. ctx[r] \in Agent!Context /\ ctx[r].plan \in Seq(Agent!Step) /\ ctx[r].cursor + 1 \in 1..Len(ctx[r].plan)
    BY DEF AgentTyped, Agent!Context, Carries
  <2>2. Agent!Planned(r) \in Agent!Step
    BY <2>1 DEF Agent!Planned
  <2>3. Agent!Attempt(r) \in 1..MaxRevisions + 1
    BY DEF Agent!Attempt, AgentTyped, AgentRec
  <2> QED
    BY <2>1, <2>2, <2>3 DEF Agent!StepRow, Agent!Step, Agent!Asks
<1>4. e.ask = "none" /\ ~e.did
  OBVIOUS
<1> HIDE DEF e
<1>5. rows'[r] = Append(rows[r], e) /\ OneLedger(r)
  BY <1>1, <1>2, <1>3 DEF OneLedger
<1>6. /\ Append(rows[r], e) # <<>> /\ Len(Append(rows[r], e)) = Len(rows[r]) + 1
      /\ Append(rows[r], e)[Len(rows[r]) + 1] = e /\ Len(rows[r]) \in Nat
      /\ DOMAIN Append(rows[r], e) = 1..Len(rows[r]) + 1 /\ DOMAIN rows[r] = 1..Len(rows[r])
      /\ \A i \in DOMAIN rows[r] : Append(rows[r], e)[i] = rows[r][i]
  BY <1>2, <1>3
<1>7. ASSUME NEW a, ~InDoubt(rows[r], "away") PROVE ~InDoubt(rows'[r], a)
  BY <1>4, <1>5, <1>6, <1>7 DEF InDoubt
<1> QED
  BY <1>4, <1>5, <1>6, <1>7 DEF LastAsk

LEMMA StepDoneDoes == ASSUME AgentTyped, NEW r \in Runs, ctx[r] # NULL, Agent!StepDone(r) PROVE OneContext(r)
<1> DEFINE c == [ctx[r] EXCEPT !.cursor = @ + 1]
<1>1. ctx' = [ctx EXCEPT ![r] = c]
  BY DEF Agent!StepDone
<1>2. ctx[r] \in Agent!Context
  BY DEF AgentTyped
<1>3. c \in Agent!Context
  BY <1>2 DEF Agent!Context
<1> HIDE DEF c
<1> QED
  BY <1>1, <1>3 DEF OneContext, AgentTyped

(* The loop. *)

HereRun(r) == loop.todo # <<>> /\ Head(loop.todo).r = r /\ (loop.pc = "runs" \/ (loop.r = r /\ loop.pc \in Awaiting))

LEMMA NextRunDoes == ASSUME AgentTyped, NEW r \in Runs, HereRun(r), Agent!NextRun
    PROVE  loop' \in LoopRec /\ loop'.pc = "runs" /\ loop'.r = 0 /\ loop'.todo = Tail(loop.todo)
<1>1. Tail(loop.todo) \in Seq(Look)
  BY DEF AgentTyped, LoopRec, HereRun
<1> QED
  BY <1>1 DEF AgentTyped, LoopRec, Agent!NextRun, LoopPcs

LEMMA AbortDoes == ASSUME Agent!AbortTick
    PROVE  loop' \in LoopRec /\ loop'.pc = "idle" /\ loop'.r = 0 /\ loop'.todo = <<>>
  BY DEF LoopRec, Agent!AbortTick, Agent!IdleLoop, LoopPcs

LEMMA AwaitDoes == ASSUME AgentTyped, NEW r \in Runs, NEW pc \in Awaiting, Agent!Await(pc, r)
    PROVE  loop' \in LoopRec /\ loop'.pc = pc /\ loop'.r = r /\ loop'.todo = loop.todo
  BY DEF LoopRec, Agent!Await, LoopPcs, AgentTyped

LEMMA ReplanDoes ==
    ASSUME Agent!ConstantsOK, AgentTyped, NEW r \in Runs, NEW pc \in Awaiting, Agent!Replan(r, pc)
    PROVE  /\ OneRun(r) /\ OneSlot(r) /\ OneContext(r) /\ holder' # r
           /\ \/ run'[r].state = "FAILED" /\ Agent!NextRun
              \/ run'[r].state = "RUNNING" /\ Agent!Await(pc, r)
<1>1. CASE run[r].revs = MaxRevisions
  <2>1. Agent!Finish(r, "FAILED") /\ Agent!NextRun /\ "FAILED" \in Agent!RunStates
    BY <1>1 DEF Agent!Replan, Agent!RunStates, Agent!TERMINAL_STATES
  <2> QED
    BY <2>1, FinishDoes
<1>2. CASE run[r].revs # MaxRevisions
  <2>1. /\ run' = [run EXCEPT ![r] = [state |-> "RUNNING", revs |-> @.revs + 1]]
        /\ Agent!Await(pc, r) /\ Agent!Release(r) /\ UNCHANGED ctx
    BY <1>2 DEF Agent!Replan
  <2>2. OneRun(r) /\ run'[r].state = "RUNNING"
    <3>1. run[r].revs + 1 \in 0..MaxRevisions
      BY <1>2 DEF AgentTyped, AgentRec, Agent!ConstantsOK
    <3> QED
      BY <2>1, <3>1 DEF AgentTyped, AgentRec, OneRun, Agent!RunStates
  <2> QED
    BY <2>1, <2>2, ReleaseDoes, StillRun
<1> QED
  BY <1>1, <1>2

LoopMoves(r) ==
    /\ HereRun(r)
    /\ \/ Agent!NextRun \/ Agent!AbortTick
       \/ \E pc \in Awaiting : Agent!Await(pc, r)
       \/ loop.r = r /\ loop' = [loop EXCEPT !.pc = "exec"]

LEMMA LoopGoes ==
    ASSUME Agent!ConstantsOK, AgentTyped, TickFits, NEW r \in Runs, LoopMoves(r)
    PROVE  /\ loop' \in LoopRec /\ loop'.r \in {0, r}
           /\ loop'.r = 0 <=> loop'.pc \in {"idle", "starts", "runs"}
           /\ loop'.pc \in Awaiting => loop'.r = r
           /\ \A q \in Runs \ {r} : Place(q) = "away" /\ Place(q)' = "away"
           /\ \/ loop'.todo = <<>> /\ loop'.pc = "idle"
              \/ loop'.todo = Tail(loop.todo) /\ loop'.pc = "runs"
              \/ loop'.todo = loop.todo /\ loop'.pc \in Awaiting
<1>1. loop \in LoopRec /\ 0 \notin Runs /\ r # 0 /\ loop.r \in {0, r}
  BY DEF AgentTyped, LoopMoves, HereRun, TickFits, Agent!ConstantsOK
<1>2. CASE Agent!NextRun
  BY <1>1, <1>2, NextRunDoes DEF LoopMoves, Place, Awaiting
<1>3. CASE Agent!AbortTick
  BY <1>1, <1>3, AbortDoes DEF Place, Awaiting
<1>4. CASE \E pc \in Awaiting : Agent!Await(pc, r)
  BY <1>1, <1>4, AwaitDoes DEF Place, Awaiting
<1>5. CASE loop.r = r /\ loop' = [loop EXCEPT !.pc = "exec"]
  BY <1>1, <1>5 DEF Place, Awaiting, LoopRec, LoopPcs
<1> QED
  BY <1>2, <1>3, <1>4, <1>5 DEF LoopMoves

LEMMA TickGoes ==
    ASSUME Agent!ConstantsOK, AgentTyped, TickFits, NEW r \in Runs, LoopMoves(r), OnlyRun(r) PROVE TickFits'
<1> USE LoopGoes
<1>1. loop.todo \in Seq(Look) /\ loop.todo # <<>> /\ loop.todo[1].r = r /\ loop.r \in {0, r} /\ r # 0
  BY DEF AgentTyped, LoopRec, LoopMoves, HereRun, TickFits, Agent!ConstantsOK
<1>2. ASSUME NEW e, NEW i \in DOMAIN loop.todo, e = loop.todo[i], e.r # r
      PROVE  StillSo(e, run'[e.r].state, rows'[e.r])
  <2>1. e.r \in Runs \ {r} /\ e.r # loop.r
    <3>1. e \in Look
      BY <1>1, <1>2
    <3> QED
      BY <1>1, <1>2, <3>1 DEF Look, Agent!ConstantsOK
  <2>2. StillSo(e, run[e.r].state, rows[e.r])
    BY <1>2, <2>1 DEF TickFits
  <2>3. run'[e.r] = run[e.r] /\ rows'[e.r] = rows[e.r]
    BY <2>1 DEF OnlyRun, OneRun, OneLedger
  <2> QED
    BY <2>2, <2>3
<1>3. CASE loop'.todo = <<>> /\ loop'.pc = "idle"
  BY <1>3 DEF TickFits, Awaiting
<1>4. CASE loop'.todo = Tail(loop.todo) /\ loop'.pc = "runs"
  <2>1. loop'.r = 0
    BY <1>4
  <2>2. ASSUME NEW i \in DOMAIN loop'.todo
        PROVE  loop'.todo[i] = loop.todo[i + 1] /\ i + 1 \in DOMAIN loop.todo /\ i \in Nat \ {0}
    BY <1>1, <1>4, <2>2
  <2>3. \A i, j \in DOMAIN loop'.todo : i # j => loop'.todo[i].r # loop'.todo[j].r
    BY <2>2 DEF TickFits
  <2>4. ASSUME NEW i \in DOMAIN loop'.todo
        PROVE  StillSo(loop'.todo[i], run'[loop'.todo[i].r].state, rows'[loop'.todo[i].r])
    <3>1. i + 1 # 1 /\ 1 \in DOMAIN loop.todo
      BY <1>1, <2>2, <2>4
    <3>2. loop.todo[i + 1].r # r
      BY <1>1, <2>2, <2>4, <3>1 DEF TickFits
    <3>3. PICK e : e = loop'.todo[i]
      OBVIOUS
    <3> QED
      BY <1>2, <2>2, <2>4, <3>2, <3>3
  <2> QED
    BY <1>4, <2>1, <2>3, <2>4 DEF TickFits, Awaiting
<1>5. CASE loop'.todo = loop.todo /\ loop'.pc \in Awaiting
  <2>1. loop'.r = r /\ loop'.pc \notin {"idle", "starts", "starting", "runs"}
    BY <1>5 DEF Awaiting
  <2>2. ASSUME NEW i \in DOMAIN loop'.todo, loop'.todo[i].r # r
        PROVE  StillSo(loop'.todo[i], run'[loop'.todo[i].r].state, rows'[loop'.todo[i].r])
    <3>1. PICK e : e = loop'.todo[i]
      OBVIOUS
    <3> QED
      BY <1>2, <1>5, <2>2, <3>1
  <2>3. \A i, j \in DOMAIN loop'.todo : i # j => loop'.todo[i].r # loop'.todo[j].r
    BY <1>5 DEF TickFits
  <2>4. loop'.todo # <<>> /\ Head(loop'.todo).r = loop'.r
    BY <1>1, <1>5, <2>1
  <2> QED
    BY <1>1, <2>1, <2>2, <2>3, <2>4 DEF TickFits
<1> QED
  BY <1>3, <1>4, <1>5

LEMMA OthersFit ==
    ASSUME NEW r \in Runs, \A q \in Runs : RunFits(q), OnlyRun(r), \A q \in Runs \ {r} : Place(q)' = Place(q), RunFits(r)'
    PROVE  \A q \in Runs : RunFits(q)'
<1> SUFFICES ASSUME NEW q \in Runs \ {r} PROVE RunFits(q)'
  OBVIOUS
<1>1. /\ run'[q] = run[q] /\ rows'[q] = rows[q] /\ start'[q] = start[q] /\ ctx'[q] = ctx[q]
      /\ (holder' = q) <=> (holder = q)
      /\ Place(q)' = Place(q)
  BY DEF OnlyRun, OneRun, OneLedger, OneStart, OneContext, OneSlot
<1>2. RunFits(q)
  OBVIOUS
<1>3. (holder' = q) = (holder = q)
  BY <1>1
<1> HIDE DEF Fits
<1> QED
  BY <1>1, <1>2, <1>3 DEF RunFits

\* A step of the loop at run r keeps the invariant when r fits after it.
LEMMA LoopKeeps ==
    ASSUME Agent!ConstantsOK, AgentInv, NEW r \in Runs, LoopMoves(r), OnlyRun(r), RunFits(r)' PROVE AgentInv'
<1>1. AgentTyped'
  BY LoopGoes DEF AgentInv, AgentTyped, OnlyRun, OneRun, OneLedger, OneStart, OneContext, OneSlot
<1>2. \A q \in Runs \ {r} : Place(q)' = Place(q)
  BY LoopGoes DEF AgentInv
<1> QED
  BY <1>1, <1>2, TickGoes, OthersFit DEF AgentInv

\* The run a tick has come to is as it was seen, or cancelled.
LEMMA Seen ==
    ASSUME Agent!ConstantsOK, AgentInv, NEW r \in Runs, NEW states, Agent!At(r, states)
    PROVE  /\ HereRun(r) /\ loop.pc = "runs" /\ Place(r) = "away"
           /\ "WAITING_USER" \notin states => run[r].state \in states \cup {"CANCELLED"}
           /\ states = {"WAITING_APPROVAL"} => rows[r] # <<>> /\ ~InDoubt(rows[r], "away")
<1>1. loop.pc = "runs" /\ loop.todo # <<>> /\ Head(loop.todo).r = r /\ Head(loop.todo).state \in states
  BY DEF Agent!At
<1>2. loop.r = 0 /\ r # 0 /\ loop.todo \in Seq(Look)
  BY <1>1 DEF AgentInv, TickFits, AgentTyped, LoopRec, Agent!ConstantsOK
<1>3. PICK e : e = Head(loop.todo) /\ e = loop.todo[1] /\ 1 \in DOMAIN loop.todo
  <2>1. Head(loop.todo) = loop.todo[1] /\ 1 \in DOMAIN loop.todo
    BY <1>1, <1>2
  <2> QED
    BY <2>1, Zenon
<1>4. StillSo(e, run[r].state, rows[r])
  BY <1>1, <1>2, <1>3 DEF AgentInv, TickFits
<1> QED
  BY <1>1, <1>2, <1>3, <1>4 DEF StillSo, HereRun, Place

(* Every step of the loop keeps the invariant. *)

LEMMA RunNow == ASSUME AgentInv, NEW r \in Runs
    PROVE  /\ AgentTyped /\ TickFits
           /\ PlaceFits(run[r].state, rows[r], holder = r, Place(r)) /\ RowsFit(run[r].state, rows[r], Place(r))
           /\ StartFits(run[r].state, start[r]) /\ ContextFits(run[r].state, ctx[r], Place(r))
           /\ run[r].state \in Agent!RunStates /\ rows[r] \in Seq(Agent!StepRow)
           /\ run[r].state # "none" => \A s : StartFits(s, start[r])
  BY DEF AgentInv, RunFits, Fits, AgentTyped, AgentRec, StartFits

LEMMA HereAt == ASSUME Agent!ConstantsOK, AgentInv, NEW r \in Runs, loop.r = r, loop.pc \in Awaiting
                PROVE  HereRun(r) /\ Place(r) = loop.pc
  BY DEF AgentInv, TickFits, HereRun, Place

LEMMA NoDoubt == ASSUME NEW w, ~InDoubt(w, "away") PROVE \A a : ~InDoubt(w, a)
  BY DEF InDoubt

LEMMA AwayFits ==
    ASSUME NEW s \in Agent!RunStates, NEW w, NEW st, NEW c, s # "WAITING_APPROVAL",
           LastAsk(w) = "pending" => s = "CANCELLED",
           LastAsk(w) = "denied" => s \in {"INTERRUPTED", "VERIFYING"} \cup Agent!TERMINAL_STATES,
           s \in Acting => ~InDoubt(w, "away"),
           s = "SUCCEEDED" => \A i \in DOMAIN w : w[i].state \in Agent!SETTLED_OK,
           StartFits(s, st)
    PROVE  Fits(s, w, st, c, FALSE, "away")
  BY DEF Fits, PlaceFits, RowsFit, ContextFits

LEMMA Stops ==
    ASSUME Agent!ConstantsOK, AgentInv, NEW r \in Runs, HereRun(r), Agent!NextRun \/ Agent!AbortTick, OnlyRun(r), holder' # r,
           run'[r].state # "WAITING_APPROVAL",
           LastAsk(rows'[r]) = "pending" => run'[r].state = "CANCELLED",
           LastAsk(rows'[r]) = "denied" => run'[r].state \in {"INTERRUPTED", "VERIFYING"} \cup Agent!TERMINAL_STATES,
           run'[r].state \in Acting => ~InDoubt(rows'[r], "away"),
           run'[r].state = "SUCCEEDED" => \A i \in DOMAIN rows'[r] : rows'[r][i].state \in Agent!SETTLED_OK,
           StartFits(run'[r].state, start'[r])
    PROVE  AgentInv'
<1>1. LoopMoves(r)
  BY DEF LoopMoves
<1>2. Place(r)' = "away"
  BY NextRunDoes, AbortDoes DEF AgentInv, Place, Agent!ConstantsOK
<1>3. run'[r].state \in Agent!RunStates /\ (holder' = r) = FALSE
  BY DEF OnlyRun, OneRun, AgentRec
<1>4. Fits(run'[r].state, rows'[r], start'[r], ctx'[r], FALSE, "away")
  BY <1>3, AwayFits
<1>5. RunFits(r)'
  BY <1>2, <1>3, <1>4 DEF RunFits
<1> QED
  BY <1>1, <1>5, LoopKeeps

LEMMA Waits ==
    ASSUME Agent!ConstantsOK, AgentInv, NEW r \in Runs, HereRun(r), NEW pc \in Awaiting, Agent!Await(pc, r), OnlyRun(r),
           Fits(run'[r].state, rows'[r], start'[r], ctx'[r], holder' = r, pc)
    PROVE  AgentInv'
<1>1. LoopMoves(r)
  BY DEF LoopMoves
<1>2. Place(r)' = pc
  BY AwaitDoes DEF AgentInv, Place
<1>3. RunFits(r)'
  BY <1>2 DEF RunFits
<1> QED
  BY <1>1, <1>3, LoopKeeps

\* Where nothing but the loop moves.
LEMMA Passes ==
    ASSUME Agent!ConstantsOK, AgentInv, NEW r \in Runs, LoopMoves(r), UNCHANGED <<Agent!durable, ctx, holder>>,
           Fits(run[r].state, rows[r], start[r], ctx[r], holder = r, Place(r)')
    PROVE  AgentInv'
<1>1. OnlyRun(r)
  BY StillRun DEF AgentInv, OnlyRun, Agent!durable
<1>2. RunFits(r)'
  BY DEF RunFits, Agent!durable
<1> QED
  BY <1>1, <1>2, LoopKeeps

LEMMA Replans ==
    ASSUME Agent!ConstantsOK, AgentInv, NEW r \in Runs, HereRun(r), NEW pc \in {"replan", "pollreplan"}, Agent!Replan(r, pc),
           OneLedger(r), OneStart(r), LastAsk(rows'[r]) \notin {"pending", "denied"}, ~InDoubt(rows'[r], "away"),
           \A s : StartFits(s, start'[r])
    PROVE  AgentInv'
<1>1. pc \in Awaiting /\ AgentTyped
  BY DEF Awaiting, AgentInv
<1>2. OnlyRun(r) /\ holder' # r
  BY <1>1, ReplanDoes DEF OnlyRun
<1>3. CASE run'[r].state = "FAILED" /\ Agent!NextRun
  BY <1>2, <1>3, Stops DEF Acting, Agent!TERMINAL_STATES
<1>4. CASE run'[r].state = "RUNNING" /\ Agent!Await(pc, r)
  <2>1. Fits("RUNNING", rows'[r], start'[r], ctx'[r], FALSE, pc)
    BY <1>1, NoDoubt DEF Fits, PlaceFits, RowsFit, ContextFits
  <2>2. (holder' = r) = FALSE
    BY <1>2
  <2> QED
    BY <1>1, <1>2, <1>4, <2>1, <2>2, Waits
<1> QED
  BY <1>1, <1>3, <1>4, ReplanDoes

LEMMA Rebuilt == ASSUME AgentTyped, NEW r \in Runs PROVE Agent!Rebuild(r) \in Agent!Context
<1>1. rows[r] \in Seq(Agent!StepRow) /\ ctx[r] \in Agent!Context \cup {NULL}
  BY DEF AgentTyped
<1>2. Len(rows[r]) \in Nat
  BY <1>1
<1>3. CASE ctx[r] = NULL
  <2>1. Agent!NewContext \in Agent!Context
    BY DEF Agent!NewContext, Agent!Context
  <2>2. [Agent!NewContext EXCEPT !.cursor = Len(rows[r])] \in Agent!Context
    BY <1>2, <2>1 DEF Agent!Context
  <2> QED
    BY <1>3, <2>2 DEF Agent!Rebuild
<1>4. CASE ctx[r] # NULL
  BY <1>1, <1>4 DEF Agent!Rebuild
<1> QED
  BY <1>3, <1>4

LEMMA SkipKeeps == ASSUME Agent!ConstantsOK, AgentInv, NEW r \in Runs, Agent!SkipRun(r) PROVE AgentInv'
<1>1. PICK states : Agent!At(r, states)
  BY DEF Agent!SkipRun
<1>2. HereRun(r) /\ Place(r) = "away" /\ Agent!NextRun /\ UNCHANGED <<Agent!durable, ctx, holder>>
  BY <1>1, Seen DEF Agent!SkipRun
<1>3. Place(r)' = "away"
  BY <1>2, NextRunDoes DEF AgentInv, Place, Agent!ConstantsOK
<1>4. LoopMoves(r)
  BY <1>2 DEF LoopMoves
<1>5. Fits(run[r].state, rows[r], start[r], ctx[r], holder = r, "away")
  BY <1>2 DEF AgentInv, RunFits
<1> QED
  BY <1>2, <1>3, <1>4, <1>5, Passes

LEMMA CreatedKeeps ==
    ASSUME Agent!ConstantsOK, AgentInv, NEW r \in Runs, Agent!AdvanceCreated(r)
    PROVE AgentInv'
<1>1. /\ HereRun(r) /\ Place(r) = "away" /\ Agent!NextRun /\ run[r].state = "CREATED" /\ UNCHANGED <<rows, start>>
      /\ \/ /\ Agent!Goto(r, "PLANNING") /\ ctx' = [ctx EXCEPT ![r] = Agent!Rebuild(r)]
            /\ UNCHANGED holder
         \/ Agent!Finish(r, "FAILED")
  BY Seen DEF Agent!AdvanceCreated, Agent!Ended, Agent!TERMINAL_STATES
<1>2. /\ AgentTyped /\ holder # r /\ LastAsk(rows[r]) \notin {"pending", "denied"} /\ ~InDoubt(rows[r], "away")
      /\ \A s : StartFits(s, start[r])
  BY <1>1, RunNow DEF PlaceFits, RowsFit, Acting, Agent!RunStates, Agent!TERMINAL_STATES
<1>3. OneLedger(r) /\ OneStart(r)
  BY <1>1, <1>2, StillRun
<1>4. CASE Agent!Goto(r, "PLANNING") /\ ctx' = [ctx EXCEPT ![r] = Agent!Rebuild(r)] /\ UNCHANGED holder
  <2>1. Agent!Rebuild(r) \in Agent!Context
    BY <1>2, Rebuilt
  <2>2. OneContext(r) /\ OneSlot(r)
    BY <1>2, <1>4, <2>1, StillRun DEF OneContext, AgentTyped
  <2>3. OneRun(r) /\ run'[r].state = "PLANNING"
    BY <1>2, <1>4, GotoDoes DEF Agent!RunStates
  <2> QED
    BY <1>1, <1>2, <1>3, <1>4, <2>2, <2>3, Stops DEF OnlyRun
<1>5. CASE Agent!Finish(r, "FAILED")
  <2>1. OneRun(r) /\ run'[r].state = "FAILED" /\ OneSlot(r) /\ holder' # r /\ OneContext(r)
    BY <1>2, <1>5, FinishDoes DEF Agent!RunStates, Agent!TERMINAL_STATES
  <2> QED
    BY <1>1, <1>2, <1>3, <2>1, Stops DEF OnlyRun, Acting, Agent!TERMINAL_STATES
<1> QED
  BY <1>1, <1>4, <1>5

LEMMA PlanningKeeps ==
    ASSUME Agent!ConstantsOK, AgentInv, NEW r \in Runs, Agent!AdvancePlanning(r)
    PROVE AgentInv'
<1>1. /\ HereRun(r) /\ Place(r) = "away" /\ run[r].state = "PLANNING" /\ Agent!Await("plan", r)
      /\ UNCHANGED <<Agent!durable, ctx, holder>>
  BY Seen DEF Agent!AdvancePlanning, Agent!Ended, Agent!TERMINAL_STATES
<1>2. Fits("PLANNING", rows[r], start[r], ctx[r], FALSE, "plan") /\ holder # r
  BY <1>1, RunNow, NoDoubt DEF Fits, PlaceFits, RowsFit, ContextFits, Acting, Agent!RunStates, Agent!TERMINAL_STATES
<1>3. (holder = r) = FALSE /\ LoopMoves(r) /\ Place(r)' = "plan"
  BY <1>1, <1>2, AwaitDoes DEF LoopMoves, Awaiting, AgentInv, Place
<1> QED
  BY <1>1, <1>2, <1>3, Passes

LEMMA PlanKeeps == ASSUME Agent!ConstantsOK, AgentInv, NEW r \in Runs, Agent!PlanAnswer(r) PROVE AgentInv'
<1>1. /\ HereRun(r) /\ Place(r) = loop.pc /\ loop.pc \in {"plan", "replan", "pollreplan"} /\ UNCHANGED <<rows, start>>
  BY HereAt DEF Agent!PlanAnswer, Awaiting
<1>2. /\ AgentTyped /\ holder # r /\ run[r].state \in {"PLANNING", "RUNNING", "CANCELLED"}
      /\ LastAsk(rows[r]) = "pending" => run[r].state = "CANCELLED"
      /\ LastAsk(rows[r]) = "denied" => run[r].state = "CANCELLED"
      /\ run[r].state # "CANCELLED" => ~InDoubt(rows[r], "away")
      /\ \A s : StartFits(s, start[r])
  BY <1>1, RunNow DEF PlaceFits, RowsFit, Acting, Agent!RunStates, Agent!TERMINAL_STATES, InDoubt
<1>3. OneLedger(r) /\ OneStart(r)
  BY <1>1, <1>2, StillRun
<1>4. CASE /\ \E p \in Plans :
                ctx' = [ctx EXCEPT ![r] = IF @ = NULL THEN NULL
                                          ELSE [@ EXCEPT !.plan = p, !.cursor = 0]]
           /\ run' = IF run[r].state = "PLANNING" THEN [run EXCEPT ![r].state = "RUNNING"] ELSE run
           /\ Agent!NextRun
           /\ UNCHANGED holder
  <2>1. PICK p \in Plans : ctx' = [ctx EXCEPT ![r] = IF @ = NULL THEN NULL ELSE [@ EXCEPT !.plan = p, !.cursor = 0]]
    BY <1>4
  <2>2. OneContext(r)
    <3>1. p \in Seq(Agent!Step)
      BY DEF Agent!ConstantsOK
    <3>2. (IF ctx[r] = NULL THEN NULL ELSE [ctx[r] EXCEPT !.plan = p, !.cursor = 0]) \in Agent!Context \cup {NULL}
      BY <1>2, <3>1 DEF AgentTyped, Agent!Context
    <3> QED
      BY <1>2, <2>1, <3>2 DEF OneContext, AgentTyped
  <2>3. OneRun(r) /\ run'[r].state = IF run[r].state = "PLANNING" THEN "RUNNING" ELSE run[r].state
    <3>1. run \in [Runs -> AgentRec]
      BY <1>2 DEF AgentTyped
    <3>2. [run[r] EXCEPT !.state = "RUNNING"] \in AgentRec
      BY <3>1 DEF AgentRec, Agent!RunStates
    <3> QED
      BY <1>4, <3>1, <3>2 DEF OneRun, AgentRec
  <2>4. OneSlot(r)
    BY <1>2, <1>4, StillRun
  <2> QED
    BY <1>1, <1>2, <1>3, <1>4, <2>2, <2>3, <2>4, Stops DEF OnlyRun, Acting, Agent!TERMINAL_STATES
<1>5. CASE ~Agent!Ended(r) /\ Agent!Finish(r, "FAILED") /\ Agent!NextRun
  <2>1. OneRun(r) /\ run'[r].state = "FAILED" /\ OneSlot(r) /\ holder' # r /\ OneContext(r)
    BY <1>2, <1>5, FinishDoes DEF Agent!RunStates, Agent!TERMINAL_STATES
  <2> QED
    BY <1>1, <1>2, <1>3, <1>5, <2>1, Stops DEF OnlyRun, Acting, Agent!TERMINAL_STATES, Agent!Ended
<1>6. CASE UNCHANGED <<run, ctx, holder>> /\ (Agent!NextRun \/ Agent!AbortTick)
  <2>1. OneRun(r) /\ OneContext(r) /\ OneSlot(r)
    BY <1>2, <1>6, StillRun
  <2> QED
    BY <1>1, <1>2, <1>3, <1>6, <2>1, Stops DEF OnlyRun, Acting, Agent!TERMINAL_STATES
<1> QED
  BY <1>4, <1>5, <1>6 DEF Agent!PlanAnswer, Agent!PlannerAnswers

\* Who takes a step of its plan runs, holds no slot and has nothing open or in doubt.
LEMMA AtStepSees == ASSUME Agent!ConstantsOK, AgentInv, NEW r \in Runs, NEW kinds, Agent!AtStep(r, kinds)
    PROVE  /\ HereRun(r) /\ Place(r) = "away" /\ run[r].state = "RUNNING" /\ Carries(ctx[r]) /\ ctx[r] \in Agent!Context
           /\ AgentTyped /\ holder # r /\ LastAsk(rows[r]) \notin {"pending", "denied"} /\ ~InDoubt(rows[r], "away")
           /\ \A s : StartFits(s, start[r])
<1>1. Agent!At(r, {"RUNNING"}) /\ ~Agent!Ended(r) /\ Agent!HasStep(r)
  BY DEF Agent!AtStep
<1>2. HereRun(r) /\ Place(r) = "away" /\ run[r].state = "RUNNING"
  BY <1>1, Seen DEF Agent!Ended, Agent!TERMINAL_STATES
<1>3. Carries(ctx[r])
  BY <1>1 DEF Agent!HasStep, Carries
<1> QED
  BY <1>2, <1>3, RunNow DEF PlaceFits, RowsFit, Acting, Agent!RunStates, Agent!TERMINAL_STATES, Carries, AgentTyped

LEMMA VerifyKeeps == ASSUME Agent!ConstantsOK, AgentInv, NEW r \in Runs, Agent!ToVerify(r) PROVE AgentInv'
<1>1. /\ HereRun(r) /\ Place(r) = "away" /\ run[r].state \in {"RUNNING", "INTERRUPTED"} /\ Agent!NextRun
      /\ Agent!Goto(r, "VERIFYING") /\ ctx' = [ctx EXCEPT ![r] = Agent!Rebuild(r)] /\ UNCHANGED <<rows, start, holder>>
  BY Seen DEF Agent!ToVerify, Agent!Ended, Agent!TERMINAL_STATES
<1>2. AgentTyped /\ holder # r /\ LastAsk(rows[r]) # "pending" /\ \A s : StartFits(s, start[r])
  BY <1>1, RunNow DEF PlaceFits, RowsFit
<1>3. OneRun(r) /\ run'[r].state = "VERIFYING"
  BY <1>1, <1>2, GotoDoes DEF Agent!RunStates
<1>4. OneContext(r) /\ OneLedger(r) /\ OneStart(r) /\ OneSlot(r)
  BY <1>1, <1>2, Rebuilt, StillRun DEF OneContext, AgentTyped
<1> QED
  BY <1>1, <1>2, <1>3, <1>4, Stops DEF OnlyRun, Acting

LEMMA RefusedKeeps == ASSUME Agent!ConstantsOK, AgentInv, NEW r \in Runs, Agent!StepRefused(r) PROVE AgentInv'
<1>1. Agent!Finish(r, "FAILED") /\ Agent!NextRun /\ UNCHANGED <<rows, start>> /\ Agent!AtStep(r, Agent!Kinds)
  BY DEF Agent!StepRefused
<1>2. /\ HereRun(r) /\ AgentTyped /\ LastAsk(rows[r]) \notin {"pending", "denied"} /\ \A s : StartFits(s, start[r])
  BY <1>1, AtStepSees
<1>3. OneRun(r) /\ run'[r].state = "FAILED" /\ OneSlot(r) /\ holder' # r /\ OneContext(r)
  BY <1>1, <1>2, FinishDoes DEF Agent!RunStates, Agent!TERMINAL_STATES
<1>4. OneLedger(r) /\ OneStart(r)
  BY <1>1, <1>2, StillRun
<1> QED
  BY <1>1, <1>2, <1>3, <1>4, Stops DEF OnlyRun, Acting, Agent!TERMINAL_STATES

LEMMA InlineKeeps == ASSUME Agent!ConstantsOK, AgentInv, NEW r \in Runs, Agent!StepInline(r) PROVE AgentInv'
<1>1. /\ Agent!AtStep(r, {"verify", "knowledge_proposal"}) /\ \E s \in {"skipped", "succeeded"} : Agent!NewRow(r, s)
      /\ Agent!StepDone(r) /\ Agent!NextRun /\ UNCHANGED <<run, start, holder>>
  BY DEF Agent!StepInline
<1>2. /\ HereRun(r) /\ run[r].state = "RUNNING" /\ Carries(ctx[r]) /\ AgentTyped /\ holder # r
      /\ ~InDoubt(rows[r], "away") /\ \A s : StartFits(s, start[r])
  BY <1>1, AtStepSees
<1>3. OneLedger(r) /\ LastAsk(rows'[r]) = "none" /\ ~InDoubt(rows'[r], "away")
  BY <1>1, <1>2, NewRowDoes DEF Agent!StepStates, Agent!SETTLED_OK, Agent!ConstantsOK
<1>4. OneContext(r) /\ OneRun(r) /\ OneStart(r) /\ OneSlot(r)
  BY <1>1, <1>2, StepDoneDoes, StillRun DEF Carries
<1> QED
  BY <1>1, <1>2, <1>3, <1>4, Stops DEF OnlyRun

LEMMA SpecialistKeeps ==
    ASSUME Agent!ConstantsOK, AgentInv, NEW r \in Runs, Agent!StepSpecialist(r)
    PROVE AgentInv'
<1>1. /\ Agent!AtStep(r, {"specialist"}) /\ Agent!NewRow(r, "running") /\ Agent!Goto(r, "WAITING_SPECIALIST")
      /\ Agent!Await("specialist", r) /\ UNCHANGED <<start, ctx, holder>>
  BY DEF Agent!StepSpecialist
<1>2. /\ HereRun(r) /\ Carries(ctx[r]) /\ AgentTyped /\ holder # r
      /\ ~InDoubt(rows[r], "away") /\ \A s : StartFits(s, start[r])
  BY <1>1, AtStepSees
<1>3. /\ OneLedger(r) /\ LastAsk(rows'[r]) = "none" /\ ~InDoubt(rows'[r], "specialist")
      /\ rows'[r] # <<>> /\ ~rows'[r][Len(rows'[r])].did
  BY <1>1, <1>2, NewRowDoes DEF Agent!StepStates, Agent!ConstantsOK
<1>4. OneRun(r) /\ run'[r].state = "WAITING_SPECIALIST" /\ OneContext(r) /\ OneStart(r) /\ OneSlot(r)
  BY <1>1, <1>2, GotoDoes, StillRun DEF Agent!RunStates
<1>5. Fits("WAITING_SPECIALIST", rows'[r], start'[r], ctx'[r], FALSE, "specialist")
  BY <1>1, <1>2, <1>3 DEF Fits, PlaceFits, RowsFit, ContextFits
<1>6. (holder' = r) = FALSE
  BY <1>1, <1>2
<1> QED
  BY <1>1, <1>2, <1>3, <1>4, <1>5, <1>6, Waits DEF OnlyRun, Awaiting

LEMMA FlawedKeeps == ASSUME Agent!ConstantsOK, AgentInv, NEW r \in Runs, Agent!StepFlawed(r) PROVE AgentInv'
<1>1. Agent!AtStep(r, {"flawed"}) /\ Agent!NewRow(r, "failed") /\ UNCHANGED start
  BY DEF Agent!StepFlawed
<1>2. /\ HereRun(r) /\ run[r].state = "RUNNING" /\ Carries(ctx[r]) /\ ctx[r] \in Agent!Context /\ AgentTyped /\ holder # r
      /\ ~InDoubt(rows[r], "away") /\ \A s : StartFits(s, start[r])
  BY <1>1, AtStepSees
<1>3. OneLedger(r) /\ LastAsk(rows'[r]) = "none" /\ \A a : ~InDoubt(rows'[r], a)
  BY <1>1, <1>2, NewRowDoes DEF Agent!StepStates, Agent!ConstantsOK
<1>4. OneStart(r) /\ \A s : StartFits(s, start'[r])
  BY <1>1, <1>2, StillRun
<1>5. CASE Agent!Finish(r, "FAILED") /\ Agent!NextRun
  <2>1. OneRun(r) /\ run'[r].state = "FAILED" /\ OneSlot(r) /\ holder' # r /\ OneContext(r)
    BY <1>2, <1>5, FinishDoes DEF Agent!RunStates, Agent!TERMINAL_STATES
  <2> QED
    BY <1>2, <1>3, <1>4, <1>5, <2>1, Stops DEF OnlyRun, Acting, Agent!TERMINAL_STATES
<1>6. CASE /\ ctx' = [ctx EXCEPT ![r].invalid = TRUE, ![r].cursor = @ + 1]
           /\ Agent!NextRun /\ UNCHANGED <<run, holder>>
  <2>1. PICK c : c = [ctx[r] EXCEPT !.invalid = TRUE, !.cursor = @ + 1]
    OBVIOUS
  <2>2. c \in Agent!Context
    <3>1. PICK d : d = [ctx[r] EXCEPT !.invalid = TRUE]
      OBVIOUS
    <3>2. d \in Agent!Context /\ d.cursor = ctx[r].cursor
      BY <1>2, <3>1 DEF Agent!Context
    <3>3. [d EXCEPT !.cursor = @ + 1] \in Agent!Context
      BY <3>2 DEF Agent!Context
    <3>4. c = [d EXCEPT !.cursor = @ + 1]
      BY <2>1, <3>1
    <3> QED
      BY <3>3, <3>4
  <2>3. ctx' = [ctx EXCEPT ![r] = c]
    BY <1>2, <1>6, <2>1 DEF AgentTyped
  <2>4. OneContext(r) /\ OneRun(r) /\ OneSlot(r)
    BY <1>2, <1>6, <2>2, <2>3, StillRun DEF OneContext, AgentTyped
  <2> QED
    BY <1>2, <1>3, <1>4, <1>6, <2>4, Stops DEF OnlyRun
<1>7. CASE /\ ctx' = [ctx EXCEPT ![r].invalid = TRUE] /\ run[r].revs < MaxRevisions
           /\ run' = [run EXCEPT ![r].revs = @ + 1] /\ Agent!Await("replan", r) /\ UNCHANGED holder
  <2>1. OneContext(r)
    <3>1. [ctx[r] EXCEPT !.invalid = TRUE] \in Agent!Context
      BY <1>2 DEF Agent!Context
    <3> QED
      BY <1>2, <1>7, <3>1 DEF OneContext, AgentTyped
  <2>2. OneRun(r) /\ run'[r].state = "RUNNING"
    <3>1. run[r].revs + 1 \in 0..MaxRevisions
      BY <1>2, <1>7 DEF AgentTyped, AgentRec, Agent!ConstantsOK
    <3> QED
      BY <1>2, <1>7, <3>1 DEF OneRun, AgentTyped, AgentRec
  <2>3. Fits("RUNNING", rows'[r], start'[r], ctx'[r], FALSE, "replan")
    BY <1>3, <1>4 DEF Fits, PlaceFits, RowsFit, ContextFits
  <2>4. OneSlot(r) /\ (holder' = r) = FALSE
    BY <1>2, <1>7, StillRun
  <2> QED
    BY <1>2, <1>3, <1>4, <1>7, <2>1, <2>2, <2>3, <2>4, Waits DEF OnlyRun, Awaiting
<1> QED
  BY <1>5, <1>6, <1>7 DEF Agent!StepFlawed

LEMMA QueuesKeeps == ASSUME Agent!ConstantsOK, AgentInv, NEW r \in Runs, Agent!StepQueues(r) PROVE AgentInv'
<1>1. Agent!AtStep(r, {"capability"}) /\ Agent!NewRow(r, "waiting") /\ Agent!NextRun /\ UNCHANGED <<run, start, ctx, holder>>
  BY DEF Agent!StepQueues
<1>2. /\ HereRun(r) /\ run[r].state = "RUNNING" /\ Carries(ctx[r]) /\ AgentTyped /\ holder # r
      /\ ~InDoubt(rows[r], "away") /\ \A s : StartFits(s, start[r])
  BY <1>1, AtStepSees
<1>3. OneLedger(r) /\ LastAsk(rows'[r]) = "none" /\ ~InDoubt(rows'[r], "away")
  BY <1>1, <1>2, NewRowDoes DEF Agent!StepStates, Agent!ConstantsOK
<1>4. OneContext(r) /\ OneRun(r) /\ OneStart(r) /\ OneSlot(r)
  BY <1>1, <1>2, StillRun
<1> QED
  BY <1>1, <1>2, <1>3, <1>4, Stops DEF OnlyRun

LEMMA CapabilityKeeps ==
    ASSUME Agent!ConstantsOK, AgentInv, NEW r \in Runs, Agent!StepCapability(r)
    PROVE AgentInv'
<1>1. /\ Agent!AtStep(r, {"capability"}) /\ Agent!NewRow(r, "running") /\ Agent!Await("capability", r)
      /\ holder \in {0, r} /\ holder' = r /\ UNCHANGED <<run, start, ctx>>
  BY DEF Agent!StepCapability
<1>2. /\ HereRun(r) /\ run[r].state = "RUNNING" /\ Carries(ctx[r]) /\ AgentTyped
      /\ ~InDoubt(rows[r], "away") /\ \A s : StartFits(s, start[r])
  BY <1>1, AtStepSees
<1>3. /\ OneLedger(r) /\ LastAsk(rows'[r]) = "none" /\ ~InDoubt(rows'[r], "capability") /\ rows'[r] # <<>>
  BY <1>1, <1>2, NewRowDoes DEF Agent!StepStates, Agent!ConstantsOK
<1>4. OneContext(r) /\ OneRun(r) /\ OneStart(r) /\ OneSlot(r)
  BY <1>1, <1>2, StillRun DEF OneSlot, Agent!ConstantsOK
<1>5. Fits("RUNNING", rows'[r], start'[r], ctx'[r], TRUE, "capability")
  BY <1>1, <1>2, <1>3 DEF Fits, PlaceFits, RowsFit, ContextFits
<1>6. (holder' = r) = TRUE
  BY <1>1
<1> QED
  BY <1>1, <1>2, <1>3, <1>4, <1>5, <1>6, Waits DEF OnlyRun, Awaiting

LEMMA TruncateDoes ==
    ASSUME AgentTyped, NEW r \in Runs, Carries(ctx[r]), Agent!Truncate(r)
    PROVE OneContext(r)
<1>1. ctx[r] \in Agent!Context /\ ctx[r].plan \in Seq(Agent!Step) /\ ctx[r].cursor + 1 \in 1..Len(ctx[r].plan)
  BY DEF AgentTyped, Agent!Context, Carries
<1>2. SubSeq(ctx[r].plan, 1, ctx[r].cursor + 1) \in Seq(Agent!Step)
  BY <1>1
<1>3. PICK d : d = [ctx[r] EXCEPT !.cursor = @ + 1]
  OBVIOUS
<1>4. d \in Agent!Context /\ d.plan = ctx[r].plan
  BY <1>1, <1>3 DEF Agent!Context
<1>5. PICK c : c = [d EXCEPT !.plan = SubSeq(@, 1, ctx[r].cursor + 1)]
  OBVIOUS
<1>6. c \in Agent!Context
  BY <1>2, <1>4, <1>5 DEF Agent!Context
<1>7. ctx' = [ctx EXCEPT ![r] = c]
  BY <1>3, <1>5 DEF Agent!Truncate, AgentTyped
<1> QED
  BY <1>6, <1>7 DEF OneContext, AgentTyped

LEMMA SpecialistAnswers ==
    ASSUME Agent!ConstantsOK, AgentInv, NEW r \in Runs, NEW answer \in {"ok", "goal", "bad", "quota"}, Agent!SpecialistAnswer(r, answer)
    PROVE  AgentInv'
<1>1. PICK s \in Agent!StepStates : Agent!SetRow(r, s)
  BY DEF Agent!SpecialistAnswer, Agent!StepStates, Agent!SETTLED_OK
<1>2. HereRun(r) /\ Place(r) = "specialist" /\ UNCHANGED start
  BY HereAt DEF Agent!SpecialistAnswer, Awaiting
<1>3. /\ AgentTyped /\ holder # r /\ run[r].state \in {"WAITING_SPECIALIST", "CANCELLED"}
      /\ rows[r] \in Seq(Agent!StepRow) /\ rows[r] # <<>> /\ ~rows[r][Len(rows[r])].did
      /\ LastAsk(rows[r]) \in {"pending", "denied"} => run[r].state = "CANCELLED"
      /\ run[r].state # "CANCELLED" => ~InDoubt(rows[r], "specialist") /\ Carries(ctx[r])
      /\ \A t : StartFits(t, start[r])
  BY <1>2, RunNow DEF PlaceFits, RowsFit, ContextFits, Acting, Agent!RunStates, Agent!TERMINAL_STATES
<1>4. /\ OneLedger(r) /\ LastAsk(rows'[r]) = LastAsk(rows[r])
      /\ run[r].state # "CANCELLED" => ~InDoubt(rows'[r], "away")
  <2>1. /\ OneLedger(r) /\ LastAsk(rows'[r]) = LastAsk(rows[r]) /\ Len(rows'[r]) = Len(rows[r])
        /\ DOMAIN rows'[r] = DOMAIN rows[r] /\ rows'[r][Len(rows[r])].state = s
        /\ \A i \in DOMAIN rows[r] : /\ rows'[r][i].did = rows[r][i].did /\ rows'[r][i].ask = rows[r][i].ask
                                     /\ i # Len(rows[r]) => rows'[r][i] = rows[r][i]
    BY <1>1, <1>3, SetRowDoes
  <2> QED
    BY <1>3, <2>1, BookedNoDoubt
<1>5. OneStart(r) /\ \A t : StartFits(t, start'[r])
  BY <1>2, <1>3, StillRun
<1>6. CASE Agent!Ended(r) /\ Agent!NextRun /\ UNCHANGED <<run, ctx, holder>>
  <2>1. run[r].state = "CANCELLED" /\ OneRun(r) /\ OneContext(r) /\ OneSlot(r)
    BY <1>3, <1>6, StillRun DEF Agent!Ended, Agent!TERMINAL_STATES
  <2> QED
    BY <1>2, <1>3, <1>4, <1>5, <1>6, <2>1, Stops DEF OnlyRun, Acting, Agent!TERMINAL_STATES
<1>7. ~Agent!Ended(r) => /\ run[r].state # "CANCELLED" /\ LastAsk(rows'[r]) \notin {"pending", "denied"}
                   /\ ~InDoubt(rows'[r], "away") /\ Carries(ctx[r])
  BY <1>3, <1>4 DEF Agent!Ended, Agent!TERMINAL_STATES
<1>8. CASE ~Agent!Ended(r) /\ Agent!Finish(r, "FAILED") /\ Agent!NextRun
  <2>1. OneRun(r) /\ run'[r].state = "FAILED" /\ OneSlot(r) /\ holder' # r /\ OneContext(r)
    BY <1>3, <1>8, FinishDoes DEF Agent!RunStates, Agent!TERMINAL_STATES
  <2> QED
    BY <1>2, <1>4, <1>5, <1>7, <1>8, <2>1, Stops DEF OnlyRun, Acting, Agent!TERMINAL_STATES
<1>9. CASE ~Agent!Ended(r) /\ (Agent!StepDone(r) \/ Agent!Truncate(r)) /\ Agent!Goto(r, "RUNNING") /\ Agent!NextRun /\ UNCHANGED holder
  <2>1. OneRun(r) /\ run'[r].state = "RUNNING" /\ OneSlot(r)
    BY <1>3, <1>9, GotoDoes, StillRun DEF Agent!RunStates
  <2>2. OneContext(r)
    BY <1>3, <1>7, <1>9, StepDoneDoes, TruncateDoes DEF Carries
  <2> QED
    BY <1>2, <1>3, <1>4, <1>5, <1>7, <1>9, <2>1, <2>2, Stops DEF OnlyRun
<1>10. CASE ~Agent!Ended(r) /\ Agent!Replan(r, "replan")
  BY <1>2, <1>4, <1>5, <1>7, <1>10, Replans
<1> QED
  BY <1>6, <1>8, <1>9, <1>10 DEF Agent!SpecialistAnswer

(* Calls of capabilities. *)

\* What a run may rely on whose call is under way.
LEMMA CallSees ==
    ASSUME Agent!ConstantsOK, AgentInv, NEW r \in Runs, loop.r = r, loop.pc \in {"capability", "exec"}
    PROVE  /\ HereRun(r) /\ Place(r) = loop.pc /\ AgentTyped /\ rows[r] \in Seq(Agent!StepRow) /\ rows[r] # <<>>
           /\ run[r].state \in {"RUNNING", "WAITING_APPROVAL", "CANCELLED"}
           /\ LastAsk(rows[r]) \notin {"pending", "denied"} /\ LastAsk(rows[r]) = Agent!Last(rows[r]).ask
           /\ Agent!Ended(r) <=> run[r].state = "CANCELLED"
           /\ Agent!Ended(r) => holder # r
           /\ ~Agent!Ended(r) => holder = r /\ Carries(ctx[r])
           /\ ~InDoubt(rows[r], loop.pc) /\ \A t : StartFits(t, start[r])
           /\ loop.pc = "capability" => LastAsk(rows[r]) \in {"none", "used"} /\ run[r].state # "WAITING_APPROVAL"
           /\ loop.pc = "exec" => LastAsk(rows[r]) \in {"approved", "expired", "used"} /\ run[r].state # "RUNNING"
<1>1. HereRun(r) /\ Place(r) = loop.pc
  BY HereAt DEF Awaiting
<1> QED
  BY <1>1, RunNow DEF PlaceFits, RowsFit, ContextFits, Agent!Ended, Agent!TERMINAL_STATES, LastAsk, Agent!Last

LEMMA SettleKeeps ==
    ASSUME Agent!ConstantsOK, AgentInv, NEW r \in Runs, loop.r = r, loop.pc \in {"capability", "exec"}, ~Agent!Ended(r),
           NEW answer \in Agent!Answers(r), NEW pc \in {"replan", "pollreplan"}, Agent!Settle(r, answer, pc), UNCHANGED start
    PROVE  AgentInv'
<1>1. /\ HereRun(r) /\ AgentTyped /\ rows[r] \in Seq(Agent!StepRow) /\ rows[r] # <<>>
      /\ LastAsk(rows[r]) \notin {"pending", "denied"} /\ Carries(ctx[r])
      /\ ~InDoubt(rows[r], loop.pc) /\ \A t : StartFits(t, start[r])
  BY CallSees
<1>2. PICK s \in Agent!StepStates :
        /\ Agent!SetRow(r, s)
        /\ \/ s = "succeeded" \/ answer = "unknown" \/ ~rows[r][Len(rows[r])].did
           \/ s = "failed" /\ rows[r][Len(rows[r])].ask # "used"
  BY DEF Agent!Settle, Agent!StepStates, Agent!SETTLED_OK, Agent!Answers, Agent!Last
<1>3. /\ OneLedger(r) /\ LastAsk(rows'[r]) \notin {"pending", "denied"}
      /\ answer # "unknown" => ~InDoubt(rows'[r], "away")
  <2>1. /\ OneLedger(r) /\ LastAsk(rows'[r]) = LastAsk(rows[r]) /\ Len(rows'[r]) = Len(rows[r])
        /\ DOMAIN rows'[r] = DOMAIN rows[r] /\ rows'[r][Len(rows[r])].state = s
        /\ \A i \in DOMAIN rows[r] : /\ rows'[r][i].did = rows[r][i].did /\ rows'[r][i].ask = rows[r][i].ask
                                     /\ i # Len(rows[r]) => rows'[r][i] = rows[r][i]
    BY <1>1, <1>2, SetRowDoes
  <2> QED
    BY <1>1, <1>2, <2>1, BookedNoDoubt
<1>4. OneStart(r) /\ \A t : StartFits(t, start'[r])
  BY <1>1, StillRun
<1>5. CASE Agent!Finish(r, "FAILED") /\ Agent!NextRun
  <2>1. OneRun(r) /\ run'[r].state = "FAILED" /\ OneSlot(r) /\ holder' # r /\ OneContext(r)
    BY <1>1, <1>5, FinishDoes DEF Agent!RunStates, Agent!TERMINAL_STATES
  <2> QED
    BY <1>1, <1>3, <1>4, <1>5, <2>1, Stops DEF OnlyRun, Acting, Agent!TERMINAL_STATES
<1>6. CASE answer # "unknown" /\ Agent!StepDone(r) /\ Agent!Goto(r, "RUNNING") /\ Agent!NextRun /\ Agent!Release(r)
  <2>1. OneRun(r) /\ run'[r].state = "RUNNING" /\ OneSlot(r) /\ holder' # r /\ OneContext(r)
    BY <1>1, <1>6, GotoDoes, ReleaseDoes, StepDoneDoes DEF Agent!RunStates, Carries
  <2> QED
    BY <1>1, <1>3, <1>4, <1>6, <2>1, Stops DEF OnlyRun
<1>7. CASE answer # "unknown" /\ Agent!OpenBoundary(r) /\ Agent!NextRun /\ Agent!Release(r) /\ UNCHANGED ctx
  <2>1. OneRun(r) /\ run'[r].state = "WAITING_USER" /\ OneSlot(r) /\ holder' # r /\ OneContext(r)
    BY <1>1, <1>7, GotoDoes, ReleaseDoes, StillRun DEF Agent!RunStates, Agent!PARKED_STATES, Agent!OpenBoundary
  <2> QED
    BY <1>1, <1>3, <1>4, <1>7, <2>1, Stops DEF OnlyRun
<1>8. CASE answer # "unknown" /\ Agent!Replan(r, pc)
  BY <1>1, <1>3, <1>4, <1>8, Replans
<1> QED
  BY <1>5, <1>6, <1>7, <1>8 DEF Agent!Settle

LEMMA CallKeeps ==
    ASSUME Agent!ConstantsOK, AgentInv, NEW r \in Runs, NEW answer \in {"ok", "failed", "denied", "unknown", "policy"},
           Agent!CapabilityAnswer(r, answer)
    PROVE  AgentInv'
<1>1. loop.pc = "capability" /\ loop.r = r /\ answer \in Agent!Answers(r) /\ UNCHANGED start
  BY DEF Agent!CapabilityAnswer
<1>2. /\ HereRun(r) /\ AgentTyped /\ rows[r] # <<>> /\ LastAsk(rows[r]) \notin {"pending", "denied"}
      /\ Agent!Ended(r) => holder # r /\ run[r].state = "CANCELLED"
      /\ \A t : StartFits(t, start[r])
  BY <1>1, CallSees
<1>3. CASE Agent!Ended(r) /\ Agent!SetRow(r, Agent!Booked(answer)) /\ Agent!NextRun /\ UNCHANGED <<run, ctx, holder>>
  <2>1. OneLedger(r) /\ LastAsk(rows'[r]) = LastAsk(rows[r])
    BY <1>2, <1>3, SetRowDoes DEF Agent!Booked, Agent!StepStates, Agent!SETTLED_OK
  <2>2. OneRun(r) /\ OneContext(r) /\ OneSlot(r) /\ OneStart(r)
    BY <1>1, <1>2, <1>3, StillRun
  <2> QED
    BY <1>1, <1>2, <1>3, <2>1, <2>2, Stops DEF OnlyRun, Acting, Agent!TERMINAL_STATES
<1>4. CASE ~Agent!Ended(r) /\ Agent!Settle(r, answer, "replan")
  BY <1>1, <1>4, SettleKeeps
<1> QED
  BY <1>3, <1>4 DEF Agent!CapabilityAnswer

LEMMA ExecKeeps ==
    ASSUME Agent!ConstantsOK, AgentInv, NEW r \in Runs, NEW answer \in {"ok", "failed", "denied", "unknown", "policy"},
           Agent!ExecAnswer(r, answer)
    PROVE  AgentInv'
<1>1. loop.pc = "exec" /\ loop.r = r /\ answer \in Agent!Answers(r) /\ UNCHANGED start
  BY DEF Agent!ExecAnswer
<1>2. /\ HereRun(r) /\ AgentTyped /\ rows[r] # <<>> /\ LastAsk(rows[r]) \notin {"pending", "denied"}
      /\ Agent!Ended(r) => holder # r /\ run[r].state = "CANCELLED"
      /\ \A t : StartFits(t, start[r])
  BY <1>1, CallSees
<1>3. CASE Agent!Ended(r) /\ Agent!AbortTick /\ UNCHANGED <<run, rows, ctx, holder>>
  <2>1. OneRun(r) /\ OneContext(r) /\ OneSlot(r) /\ OneStart(r) /\ OneLedger(r)
    BY <1>1, <1>2, <1>3, StillRun
  <2> QED
    BY <1>1, <1>2, <1>3, <2>1, Stops DEF OnlyRun, Acting, Agent!TERMINAL_STATES
<1>4. CASE ~Agent!Ended(r) /\ Agent!Settle(r, answer, "pollreplan")
  BY <1>1, <1>4, SettleKeeps
<1> QED
  BY <1>3, <1>4 DEF Agent!ExecAnswer

LEMMA AsksKeeps == ASSUME Agent!ConstantsOK, AgentInv, NEW r \in Runs, Agent!CapabilityAsks(r) PROVE AgentInv'
<1>1. /\ loop.pc = "capability" /\ loop.r = r /\ ~Agent!Last(rows[r]).did /\ Agent!NextRun /\ UNCHANGED <<start, holder>>
      /\ rows' = [rows EXCEPT ![r][Agent!Last_(r)].state = "waiting", ![r][Agent!Last_(r)].ask = "pending"]
  BY DEF Agent!CapabilityAsks
<1>2. /\ HereRun(r) /\ AgentTyped /\ rows[r] \in Seq(Agent!StepRow) /\ rows[r] # <<>>
      /\ Agent!Ended(r) => run[r].state = "CANCELLED" /\ holder # r
      /\ ~Agent!Ended(r) => holder = r /\ Carries(ctx[r])
      /\ ~InDoubt(rows[r], "capability") /\ \A t : StartFits(t, start[r])
  BY <1>1, CallSees
<1>3. PICK x, y : /\ x = rows[r] /\ y = [x EXCEPT ![Len(x)].state = "waiting", ![Len(x)].ask = "pending"]
  OBVIOUS
<1>4. rows' = [rows EXCEPT ![r] = y]
  <2>1. PICK n : n = Len(rows[r])
    OBVIOUS
  <2>2. rows' = [rows EXCEPT ![r][n].state = "waiting", ![r][n].ask = "pending"]
    BY <1>1, <2>1 DEF Agent!Last_
  <2>3. r \in DOMAIN rows /\ n \in DOMAIN rows[r]
    BY <1>2, <2>1 DEF AgentTyped
  <2>4. rows' = [rows EXCEPT ![r] = [rows[r] EXCEPT ![n].state = "waiting", ![n].ask = "pending"]]
    BY <2>2, <2>3
  <2> QED
    BY <1>3, <2>1, <2>4
<1>5. PICK e : e = [x[Len(x)] EXCEPT !.state = "waiting", !.ask = "pending"]
  OBVIOUS
<1>6. e \in Agent!StepRow /\ e.did = x[Len(x)].did /\ e.ask = "pending" /\ Len(x) \in DOMAIN x
  <2>1. x[Len(x)] \in Agent!StepRow /\ Len(x) \in DOMAIN x
    BY <1>2, <1>3
  <2> QED
    BY <1>5, <2>1 DEF Agent!StepRow, Agent!StepStates, Agent!Asks
<1>7. /\ y \in Seq(Agent!StepRow) /\ y # <<>> /\ Len(y) = Len(x) /\ DOMAIN y = DOMAIN x /\ y[Len(x)] = e
      /\ \A i \in DOMAIN x : i # Len(x) => y[i] = x[i]
  <2>1. y = [x EXCEPT ![Len(x)] = e]
    BY <1>2, <1>3, <1>5, TwoFields
  <2> QED
    BY <1>2, <1>3, <1>6, <2>1, AskedRow
<1>8. LastAsk(y) = "pending" /\ ~InDoubt(y, "away")
  BY <1>1, <1>2, <1>3, <1>6, <1>7 DEF LastAsk, InDoubt, Agent!Last
<1>9. OneLedger(r) /\ rows'[r] = y
  BY <1>2, <1>4, <1>7 DEF OneLedger, AgentTyped
<1>10. OneStart(r) /\ OneSlot(r)
  BY <1>1, <1>2, StillRun
<1>11. CASE Agent!Ended(r) /\ UNCHANGED <<run, ctx>>
  <2>1. OneRun(r) /\ OneContext(r)
    BY <1>2, <1>11, StillRun
  <2> QED
    BY <1>1, <1>2, <1>8, <1>9, <1>10, <1>11, <2>1, Stops DEF OnlyRun, Acting, Agent!TERMINAL_STATES
<1>12. CASE ~Agent!Ended(r) /\ Agent!Goto(r, "WAITING_APPROVAL") /\ ctx' = [ctx EXCEPT ![r].asks = @ + 1]
  <2>1. OneRun(r) /\ run'[r].state = "WAITING_APPROVAL"
    BY <1>2, <1>12, GotoDoes DEF Agent!RunStates, Agent!PARKED_STATES
  <2>2. PICK c : c = [ctx[r] EXCEPT !.asks = @ + 1]
    OBVIOUS
  <2>3. c \in Agent!Context /\ c.plan = ctx[r].plan /\ c.cursor = ctx[r].cursor
    <3>1. ctx[r] \in Agent!Context
      BY <1>2, <1>12 DEF AgentTyped, Carries
    <3> QED
      BY <2>2, <3>1 DEF Agent!Context
  <2>4. OneContext(r) /\ ctx'[r] = c
    BY <1>2, <1>12, <2>2, <2>3 DEF OneContext, AgentTyped
  <2>5. Carries(c)
    BY <1>2, <1>12, <2>3 DEF Carries, Agent!ConstantsOK
  <2>6. Fits("WAITING_APPROVAL", y, start[r], c, TRUE, "away")
    BY <1>2, <1>7, <1>8, <2>5 DEF Fits, PlaceFits, RowsFit, ContextFits
  <2>7. (holder' = r) = TRUE
    BY <1>1, <1>2, <1>12
  <2>8. Place(r)' = "away" /\ LoopMoves(r)
    BY <1>1, <1>2, NextRunDoes DEF LoopMoves, Place, Agent!ConstantsOK
  <2>9. RunFits(r)'
    BY <1>1, <1>9, <2>1, <2>4, <2>6, <2>7, <2>8 DEF RunFits
  <2> QED
    BY <1>9, <1>10, <2>1, <2>4, <2>8, <2>9, LoopKeeps DEF OnlyRun
<1> QED
  BY <1>11, <1>12 DEF Agent!CapabilityAsks

(* Polls of an approval. *)

LEMMA PollStartKeeps == ASSUME Agent!ConstantsOK, AgentInv, NEW r \in Runs, Agent!PollStart(r) PROVE AgentInv'
<1>1. /\ HereRun(r) /\ Place(r) = "away" /\ run[r].state \in {"WAITING_APPROVAL", "CANCELLED"} /\ Agent!Await("poll", r)
      /\ rows[r] # <<>> /\ ~InDoubt(rows[r], "away") /\ UNCHANGED <<Agent!durable, ctx, holder>>
  BY Seen DEF Agent!PollStart
<1>2. Fits(run[r].state, rows[r], start[r], ctx[r], holder = r, "poll")
  BY <1>1, RunNow, NoDoubt DEF Fits, PlaceFits, RowsFit, ContextFits
<1>3. LoopMoves(r) /\ Place(r)' = "poll"
  BY <1>1, AwaitDoes DEF LoopMoves, Awaiting, AgentInv, Place
<1> QED
  BY <1>1, <1>2, <1>3, Passes

LEMMA PollSees == ASSUME Agent!ConstantsOK, AgentInv, NEW r \in Runs, NEW asks, Agent!Polled(r, asks)
    PROVE  /\ HereRun(r) /\ Place(r) = "poll" /\ loop.r = r /\ AgentTyped /\ rows[r] \in Seq(Agent!StepRow) /\ rows[r] # <<>>
           /\ run[r].state \in {"WAITING_APPROVAL", "CANCELLED"} /\ LastAsk(rows[r]) \in asks
           /\ Agent!Ended(r) <=> run[r].state = "CANCELLED"
           /\ Agent!Ended(r) => holder # r
           /\ ~InDoubt(rows[r], "away") /\ \A t : StartFits(t, start[r])
<1>1. HereRun(r) /\ Place(r) = "poll" /\ loop.r = r /\ Agent!Last(rows[r]).ask \in asks
  BY HereAt DEF Agent!Polled, Awaiting, Agent!Classify
<1> QED
  BY <1>1, RunNow DEF PlaceFits, RowsFit, Agent!Ended, Agent!TERMINAL_STATES, LastAsk, Agent!Last, InDoubt

LEMMA PendingKeeps == ASSUME Agent!ConstantsOK, AgentInv, NEW r \in Runs, Agent!PollPending(r) PROVE AgentInv'
<1>1. Agent!Polled(r, {"pending"}) /\ Agent!NextRun /\ UNCHANGED <<Agent!durable, ctx, holder>>
  BY DEF Agent!PollPending
<1>2. HereRun(r) /\ Place(r) = "poll" /\ run[r].state \in {"WAITING_APPROVAL", "CANCELLED"} /\ ~InDoubt(rows[r], "away")
  BY <1>1, PollSees
<1>3. Fits(run[r].state, rows[r], start[r], ctx[r], holder = r, "away")
  BY <1>2, RunNow DEF Fits, PlaceFits, RowsFit, ContextFits
<1>4. LoopMoves(r) /\ Place(r)' = "away"
  BY <1>1, <1>2, NextRunDoes DEF LoopMoves, AgentInv, Place, Agent!ConstantsOK
<1> QED
  BY <1>1, <1>3, <1>4, Passes

LEMMA ApprovedKeeps ==
    ASSUME Agent!ConstantsOK, AgentInv, NEW r \in Runs, Agent!PollApproved(r)
    PROVE AgentInv'
<1>1. Agent!Polled(r, {"approved"}) /\ loop' = [loop EXCEPT !.pc = "exec"] /\ UNCHANGED <<Agent!durable, ctx, holder>>
  BY DEF Agent!PollApproved
<1>2. /\ HereRun(r) /\ Place(r) = "poll" /\ loop.r = r /\ run[r].state \in {"WAITING_APPROVAL", "CANCELLED"}
      /\ ~InDoubt(rows[r], "away") /\ LastAsk(rows[r]) = "approved" /\ AgentTyped
  BY <1>1, PollSees
<1>3. Fits(run[r].state, rows[r], start[r], ctx[r], holder = r, "exec")
  BY <1>2, RunNow, NoDoubt DEF Fits, PlaceFits, RowsFit, ContextFits
<1>4. LoopMoves(r) /\ Place(r)' = "exec"
  BY <1>1, <1>2 DEF LoopMoves, AgentTyped, LoopRec, Place
<1> QED
  BY <1>1, <1>3, <1>4, Passes

LEMMA DeniedKeeps == ASSUME Agent!ConstantsOK, AgentInv, NEW r \in Runs, Agent!PollDenied(r) PROVE AgentInv'
<1>1. Agent!Polled(r, {"denied"}) /\ Agent!SetRow(r, "denied") /\ UNCHANGED start
  BY DEF Agent!PollDenied
<1>2. /\ HereRun(r) /\ AgentTyped /\ rows[r] # <<>> /\ LastAsk(rows[r]) = "denied"
      /\ Agent!Ended(r) => holder # r /\ run[r].state = "CANCELLED"
      /\ \A t : StartFits(t, start[r])
  BY <1>1, PollSees
<1>3. OneLedger(r) /\ LastAsk(rows'[r]) = "denied"
  BY <1>1, <1>2, SetRowDoes DEF Agent!StepStates
<1>4. OneStart(r)
  BY <1>1, <1>2, StillRun
<1>5. CASE Agent!Ended(r) /\ Agent!AbortTick /\ UNCHANGED <<run, ctx, holder>>
  <2>1. OneRun(r) /\ OneContext(r) /\ OneSlot(r)
    BY <1>2, <1>5, StillRun
  <2> QED
    BY <1>1, <1>2, <1>3, <1>4, <1>5, <2>1, Stops DEF OnlyRun, Acting, Agent!TERMINAL_STATES
<1>6. CASE Agent!Finish(r, "FAILED") /\ Agent!NextRun
  <2>1. OneRun(r) /\ run'[r].state = "FAILED" /\ OneSlot(r) /\ holder' # r /\ OneContext(r)
    BY <1>2, <1>6, FinishDoes DEF Agent!RunStates, Agent!TERMINAL_STATES
  <2> QED
    BY <1>1, <1>2, <1>3, <1>4, <1>6, <2>1, Stops DEF OnlyRun, Acting, Agent!TERMINAL_STATES
<1> QED
  BY <1>5, <1>6 DEF Agent!PollDenied

LEMMA ExpiredKeeps == ASSUME Agent!ConstantsOK, AgentInv, NEW r \in Runs, Agent!PollExpired(r) PROVE AgentInv'
<1>1. Agent!Polled(r, {"expired", "used"}) /\ UNCHANGED <<rows, start, ctx>>
  BY DEF Agent!PollExpired
<1>2. /\ HereRun(r) /\ AgentTyped /\ LastAsk(rows[r]) \notin {"pending", "denied"} /\ ~InDoubt(rows[r], "away")
      /\ Agent!Ended(r) => holder # r /\ run[r].state = "CANCELLED"
      /\ \A t : StartFits(t, start[r])
  BY <1>1, PollSees
<1>3. OneLedger(r) /\ OneStart(r) /\ OneContext(r)
  BY <1>1, <1>2, StillRun
<1>4. CASE Agent!Ended(r) /\ Agent!AbortTick /\ UNCHANGED <<run, holder>>
  <2>1. OneRun(r) /\ OneSlot(r)
    BY <1>2, <1>4, StillRun
  <2> QED
    BY <1>1, <1>2, <1>3, <1>4, <2>1, Stops DEF OnlyRun, Acting, Agent!TERMINAL_STATES
<1>5. CASE (Agent!Goto(r, "WAITING_USER") \/ Agent!Goto(r, "RUNNING")) /\ Agent!Release(r) /\ Agent!NextRun
  <2>1. OneRun(r) /\ run'[r].state \in {"WAITING_USER", "RUNNING"} /\ OneSlot(r) /\ holder' # r
    BY <1>2, <1>5, GotoDoes, ReleaseDoes DEF Agent!RunStates, Agent!PARKED_STATES
  <2> QED
    BY <1>1, <1>2, <1>3, <1>5, <2>1, Stops DEF OnlyRun
<1> QED
  BY <1>4, <1>5 DEF Agent!PollExpired, Agent!OpenBoundary

LEMMA DoVerifyKeeps == ASSUME Agent!ConstantsOK, AgentInv, NEW r \in Runs, Agent!DoVerify(r) PROVE AgentInv'
<1>1. /\ HereRun(r) /\ Place(r) = "away" /\ run[r].state = "VERIFYING" /\ Agent!NextRun /\ UNCHANGED <<rows, start>>
      /\ (Agent!Settled(r) /\ Agent!Finish(r, "SUCCEEDED")) \/ Agent!Finish(r, "FAILED")
  BY Seen DEF Agent!DoVerify, Agent!Ended, Agent!TERMINAL_STATES
<1>2. AgentTyped /\ LastAsk(rows[r]) # "pending" /\ \A s : StartFits(s, start[r])
  BY <1>1, RunNow DEF RowsFit
<1>3. /\ OneRun(r) /\ OneSlot(r) /\ holder' # r /\ OneContext(r)
      /\ run'[r].state = "FAILED" \/ (run'[r].state = "SUCCEEDED" /\ Agent!Settled(r))
  BY <1>1, <1>2, FinishDoes DEF Agent!RunStates, Agent!TERMINAL_STATES
<1>4. OneLedger(r) /\ OneStart(r)
  BY <1>1, <1>2, StillRun
<1>5. Agent!Settled(r) => \A i \in DOMAIN rows'[r] : rows'[r][i].state \in Agent!SETTLED_OK
  BY <1>1 DEF Agent!Settled
<1> QED
  BY <1>1, <1>2, <1>3, <1>4, <1>5, Stops DEF OnlyRun, Acting, Agent!TERMINAL_STATES

(* Starts and the tick. *)

\* Where nothing but one start and the run it creates move, before the tick has looked at any run.
LEMMA StartsMove ==
    ASSUME Agent!ConstantsOK, AgentInv, NEW r \in Runs, OnlyRun(r), loop' \in LoopRec, loop'.todo = <<>>, loop.r \in {0, r},
           \/ loop'.pc = "starts" /\ loop'.r = 0
           \/ loop'.pc = "starting" /\ loop'.r = r,
           \A q \in loop'.notes : start'[q].note # "none", RunFits(r)'
    PROVE  AgentInv'
<1>1. AgentTyped'
  BY DEF AgentInv, AgentTyped, OnlyRun, OneRun, OneLedger, OneStart, OneContext, OneSlot
<1>2. \A q \in Runs \ {r} : Place(q)' = Place(q)
  BY DEF Place, Agent!ConstantsOK
<1>3. TickFits'
  BY DEF TickFits, Awaiting, Agent!ConstantsOK
<1> QED
  BY <1>1, <1>2, <1>3, OthersFit DEF AgentInv

LEMMA PollStartsKeeps ==
    ASSUME Agent!ConstantsOK, AgentInv, NEW r \in Runs, Agent!PollPendingStart(r)
    PROVE AgentInv'
<1>1. /\ loop.pc = "starts" /\ loop.r = 0 /\ loop.todo = <<>> /\ AgentTyped /\ UNCHANGED <<run, rows, ctx, holder>>
      /\ r \in loop.notes /\ \A q \in loop.notes : start[q].note # "none"
  BY DEF Agent!PollPendingStart, AgentInv, TickFits
<1>2. /\ loop' \in LoopRec /\ loop'.todo = <<>> /\ loop'.notes \subseteq loop.notes
      /\ \/ loop'.pc = "starts" /\ loop'.r = 0
         \/ loop'.pc = "starting" /\ loop'.r = r
  BY <1>1 DEF Agent!PollPendingStart, AgentTyped, LoopRec, LoopPcs
<1>3. OneStart(r) /\ start'[r].ask = start[r].ask /\ start'[r].note # "none"
  <2>1. UNCHANGED start \/ \E s \in {"TAKEN", "CLOSED"} : start' = [start EXCEPT ![r].note = s]
    BY DEF Agent!PollPendingStart
  <2>2. CASE UNCHANGED start
    BY <1>1, <2>2, StillRun
  <2>3. CASE \E s \in {"TAKEN", "CLOSED"} : start' = [start EXCEPT ![r].note = s]
    BY <1>1, <2>3 DEF AgentTyped, OneStart, StartRec
  <2> QED
    BY <2>1, <2>2, <2>3
<1>4. \A q \in loop'.notes : start'[q].note # "none"
  BY <1>1, <1>2, <1>3 DEF OneStart, AgentTyped, LoopRec
<1>5. OnlyRun(r)
  BY <1>1, <1>3, StillRun DEF OnlyRun
<1>6. Place(r) = "away" /\ Place(r)' \in {"away", "starting"}
  BY <1>1, <1>2 DEF Place, Agent!ConstantsOK
<1>7. Fits(run[r].state, rows[r], start'[r], ctx[r], holder = r, Place(r)')
  <2>1. ~InDoubt(rows[r], "away") => ~InDoubt(rows[r], Place(r)')
    BY NoDoubt
  <2>2. StartFits(run[r].state, start'[r])
    BY <1>1, <1>3, RunNow DEF StartFits
  <2> QED
    BY <1>6, <2>1, <2>2, RunNow DEF Fits, PlaceFits, RowsFit, ContextFits
<1>8. RunFits(r)'
  BY <1>1, <1>7 DEF RunFits
<1> QED
  BY <1>1, <1>2, <1>4, <1>5, <1>8, StartsMove

LEMMA StartKeeps == ASSUME Agent!ConstantsOK, AgentInv, NEW r \in Runs, Agent!StartAnswer(r) PROVE AgentInv'
<1>1. /\ loop.pc = "starting" /\ loop.r = r /\ loop.todo = <<>> /\ AgentTyped /\ UNCHANGED <<rows, holder>>
      /\ \A q \in loop.notes : start[q].note # "none"
      /\ loop' = [loop EXCEPT !.pc = "starts", !.r = 0]
  BY DEF Agent!StartAnswer, AgentInv, TickFits
<1>2. /\ loop' \in LoopRec /\ loop'.todo = <<>> /\ loop'.notes = loop.notes /\ loop'.pc = "starts" /\ loop'.r = 0
  BY <1>1 DEF AgentTyped, LoopRec, LoopPcs
<1>3. Place(r) = "starting" /\ Place(r)' = "away"
  BY <1>1, <1>2 DEF Place, Agent!ConstantsOK
<1>4. OneLedger(r) /\ OneSlot(r)
  BY <1>1, StillRun
<1>5. CASE start[r].ask = "approved" /\ start' = [start EXCEPT ![r].ask = "used"] /\ Agent!CreateTask(r)
  <2>1. start[r].note # "none" /\ run[r].state = "none"
    BY <1>5, RunNow DEF StartFits
  <2>2. OneStart(r) /\ start'[r].ask = "used" /\ start'[r].note = start[r].note
    BY <1>1, <1>5 DEF OneStart, AgentTyped, StartRec, Agent!Asks
  <2>3. OneRun(r) /\ run'[r].state = "CREATED"
    BY <1>1, <1>5 DEF Agent!CreateTask, OneRun, AgentTyped, AgentRec, Agent!RunStates
  <2>4. OneContext(r)
    BY <1>1, <1>5 DEF Agent!CreateTask, OneContext, AgentTyped, Agent!NewContext, Agent!Context
  <2>5. holder # r /\ LastAsk(rows[r]) \notin {"pending", "denied"} /\ ~InDoubt(rows[r], "away")
    BY <1>3, <2>1, RunNow DEF PlaceFits, RowsFit, Acting, Agent!RunStates, Agent!TERMINAL_STATES, InDoubt
  <2>6. Fits("CREATED", rows[r], start'[r], ctx'[r], FALSE, "away")
    BY <2>1, <2>2, <2>5, AwayFits DEF StartFits, Agent!RunStates
  <2>7. (holder' = r) = FALSE
    BY <1>1, <2>5
  <2>8. RunFits(r)'
    BY <1>1, <1>3, <2>3, <2>6, <2>7 DEF RunFits
  <2>9. \A q \in loop'.notes : start'[q].note # "none"
    BY <1>1, <1>2, <2>1, <2>2 DEF OneStart, AgentTyped, LoopRec
  <2> QED
    BY <1>1, <1>2, <1>4, <2>2, <2>3, <2>4, <2>8, <2>9, StartsMove DEF OnlyRun
<1>6. CASE UNCHANGED <<run, ctx, start>>
  <2>1. OnlyRun(r)
    BY <1>1, <1>4, <1>6, StillRun DEF OnlyRun
  <2>2. Fits(run[r].state, rows[r], start[r], ctx[r], holder = r, "away")
    <3>1. ~InDoubt(rows[r], "starting") => ~InDoubt(rows[r], "away")
      BY DEF InDoubt
    <3> QED
      BY <1>3, <3>1, RunNow DEF Fits, PlaceFits, RowsFit, ContextFits
  <2>3. RunFits(r)'
    BY <1>1, <1>3, <1>6, <2>2 DEF RunFits
  <2> QED
    BY <1>1, <1>2, <1>6, <2>1, <2>3, StartsMove
<1> QED
  BY <1>5, <1>6 DEF Agent!StartAnswer

LEMMA TickKeeps == ASSUME Agent!ConstantsOK, AgentInv, Agent!Tick PROVE AgentInv'
<1>1. AgentTyped /\ TickFits /\ loop.r = 0 /\ loop.pc \in {"idle", "starts", "runs"} /\ UNCHANGED <<run, rows, start, ctx, holder>>
  BY DEF Agent!Tick, Agent!TickStart, Agent!TickRuns, Agent!TickEnd, AgentInv, TickFits, Agent!durable
<1>2. ASSUME loop' \in LoopRec, loop'.r = 0, TickFits' PROVE AgentInv'
  <2>1. AgentTyped'
    BY <1>1, <1>2 DEF AgentTyped
  <2>2. ASSUME NEW q \in Runs PROVE RunFits(q)'
    <3>1. Place(q) = "away" /\ Place(q)' = "away"
      BY <1>1, <1>2 DEF Place, Agent!ConstantsOK
    <3>2. RunFits(q)
      BY DEF AgentInv
    <3> QED
      BY <1>1, <3>1, <3>2 DEF RunFits
  <2> QED
    BY <1>2, <2>1, <2>2 DEF AgentInv
<1>3. CASE Agent!TickStart
  <2>1. PICK notes : notes = {r \in Runs : start[r].note = "WAITING"}
    OBVIOUS
  <2>2. /\ loop' \in LoopRec /\ loop'.r = 0 /\ loop'.pc = "starts" /\ loop'.todo = <<>> /\ loop'.notes = notes
        /\ \A q \in notes : start[q].note # "none"
    <3>1. loop' = [Agent!IdleLoop EXCEPT !.pc = "starts", !.notes = notes]
      BY <1>3, <2>1 DEF Agent!TickStart
    <3>2. notes \in SUBSET Runs /\ \A q \in notes : start[q].note # "none"
      BY <2>1
    <3>3. loop' = [pc |-> "starts", r |-> 0, todo |-> <<>>, notes |-> notes, had |-> FALSE]
      BY <3>1 DEF Agent!IdleLoop
    <3> QED
      BY <3>2, <3>3 DEF LoopRec, LoopPcs
  <2>3. TickFits'
    BY <1>1, <2>2 DEF TickFits, Awaiting
  <2> QED
    BY <1>2, <2>2, <2>3
<1>4. CASE Agent!TickRuns
  <2>1. PICK order \in Agent!SetToSeqs(Agent!open_runs) :
          loop' = [loop EXCEPT !.pc = "runs", !.todo =
                      [i \in DOMAIN order |-> [r |-> order[i], state |-> run[order[i]].state]]]
    BY <1>4 DEF Agent!TickRuns
  <2>2. /\ order \in [1..Cardinality(Agent!open_runs) -> Agent!open_runs] /\ Cardinality(Agent!open_runs) \in Nat
        /\ \A i, j \in 1..Cardinality(Agent!open_runs) : i # j => order[i] # order[j]
    <3>2. IsFiniteSet(Runs)
      BY DEF Agent!ConstantsOK, Agent!IsFiniteSet, IsFiniteSet
    <3>3. Agent!open_runs \subseteq Runs
      BY DEF Agent!open_runs
    <3>1. Agent!open_runs \subseteq Runs /\ IsFiniteSet(Agent!open_runs)
      BY <3>2, <3>3, FS_Subset
    <3> QED
      BY <2>1, <3>1, FS_CardinalityType DEF Agent!SetToSeqs, Agent!Cardinality, Cardinality
  <2>3. PICK n : n = Cardinality(Agent!open_runs)
    OBVIOUS
  <2>4. PICK todo : todo = [i \in 1..n |-> [r |-> order[i], state |-> run[order[i]].state]]
    OBVIOUS
  <2>5. /\ todo \in Seq(Look) /\ DOMAIN todo = 1..n
        /\ \A i \in 1..n : /\ todo[i].r = order[i] /\ todo[i].state = run[order[i]].state
                           /\ order[i] \in Runs /\ run[order[i]].state # "none"
    <3>1. ASSUME NEW i \in 1..n PROVE /\ order[i] \in Runs /\ run[order[i]].state \in Agent!RunStates /\ run[order[i]].state # "none"
                                      /\ [r |-> order[i], state |-> run[order[i]].state] \in Look
      BY <1>1, <2>2, <2>3 DEF Agent!open_runs, AgentTyped, AgentRec, Look
    <3>2. todo \in [1..n -> Look] /\ n \in Nat
      BY <2>2, <2>3, <2>4, <3>1
    <3>3. todo \in Seq(Look) /\ DOMAIN todo = 1..n
      BY <3>2
    <3>4. \A i \in 1..n : todo[i].r = order[i] /\ todo[i].state = run[order[i]].state
      BY <2>4
    <3> QED
      BY <3>1, <3>3, <3>4
  <2>6. loop' = [loop EXCEPT !.pc = "runs", !.todo = todo]
    BY <2>1, <2>2, <2>3, <2>4
  <2>7. loop' \in LoopRec /\ loop'.r = 0 /\ loop'.pc = "runs" /\ loop'.todo = todo
    BY <1>1, <2>5, <2>6 DEF AgentTyped, LoopRec, LoopPcs
  <2>8. ASSUME NEW i \in 1..n PROVE StillSo(todo[i], run[todo[i].r].state, rows[todo[i].r])
    <3>1. PICK q \in Runs : q = todo[i].r
      BY <2>5
    <3>2. Place(q) = "away"
      BY <1>1 DEF Place, Agent!ConstantsOK
    <3>3. run[q].state = "WAITING_APPROVAL" => rows[q] # <<>> /\ ~InDoubt(rows[q], "away")
      BY <3>2, RunNow DEF PlaceFits, RowsFit, Acting, Agent!RunStates, Agent!PARKED_STATES, Agent!TERMINAL_STATES
    <3> QED
      BY <2>5, <3>1, <3>3 DEF StillSo
  <2>9. TickFits'
    <3>1. \A i, j \in DOMAIN loop'.todo : i # j => loop'.todo[i].r # loop'.todo[j].r
      BY <2>2, <2>3, <2>5, <2>7
    <3>2. \A i \in DOMAIN loop'.todo : StillSo(loop'.todo[i], run'[loop'.todo[i].r].state, rows'[loop'.todo[i].r])
      BY <1>1, <2>5, <2>7, <2>8
    <3> QED
      BY <2>7, <3>1, <3>2 DEF TickFits, Awaiting
  <2> QED
    BY <1>2, <2>7, <2>9
<1>5. CASE Agent!TickEnd
  <2>1. loop' \in LoopRec /\ loop'.r = 0 /\ loop'.pc = "idle" /\ loop'.todo = <<>>
    BY <1>5, AbortDoes DEF Agent!TickEnd, Agent!AbortTick
  <2>2. TickFits'
    BY <2>1 DEF TickFits, Awaiting
  <2> QED
    BY <1>2, <2>1, <2>2
<1> QED
  BY <1>3, <1>4, <1>5 DEF Agent!Tick

(* People, the clock, the world, and restarts. *)

\* Where the loop stays, what a tick saw of the run that moves must still be so.
LEMMA AsideKeeps ==
    ASSUME Agent!ConstantsOK, AgentInv, NEW r \in Runs, UNCHANGED loop, OnlyRun(r),
           r = loop.r \/ \A e : StillSo(e, run[r].state, rows[r]) => StillSo(e, run'[r].state, rows'[r]),
           start[r].note # "none" => start'[r].note # "none", RunFits(r)'
    PROVE  AgentInv'
<1>1. AgentTyped'
  BY DEF AgentInv, AgentTyped, OnlyRun, OneRun, OneLedger, OneStart, OneContext, OneSlot
<1>2. \A q \in Runs \ {r} : Place(q)' = Place(q)
  BY DEF Place
<1>3. ASSUME NEW e, NEW i \in DOMAIN loop.todo, e = loop.todo[i], e.r # loop.r
      PROVE  StillSo(e, run'[e.r].state, rows'[e.r])
  <2>1. e.r \in Runs
    <3>1. loop.todo \in Seq(Look)
      BY DEF AgentInv, AgentTyped, LoopRec
    <3>2. e \in Look
      BY <1>3, <3>1
    <3> QED
      BY <3>2 DEF Look
  <2>2. StillSo(e, run[e.r].state, rows[e.r])
    BY <1>3 DEF AgentInv, TickFits
  <2>3. CASE e.r = r
    BY <1>3, <2>2, <2>3
  <2>4. CASE e.r # r
    BY <2>1, <2>2, <2>4 DEF OnlyRun, OneRun, OneLedger
  <2> QED
    BY <2>3, <2>4
<1>4. \A q \in loop.notes : start[q].note # "none" => start'[q].note # "none"
  BY DEF OnlyRun, OneStart, AgentInv, AgentTyped, LoopRec
<1>5. TickFits'
  <2>1. \A i \in DOMAIN loop.todo : loop.todo[i].r # loop.r =>
          StillSo(loop.todo[i], run'[loop.todo[i].r].state, rows'[loop.todo[i].r])
    <3> SUFFICES ASSUME NEW i \in DOMAIN loop.todo, loop.todo[i].r # loop.r
                 PROVE  StillSo(loop.todo[i], run'[loop.todo[i].r].state, rows'[loop.todo[i].r])
      OBVIOUS
    <3>1. PICK e : e = loop.todo[i]
      OBVIOUS
    <3> QED
      BY <1>3, <3>1
  <2> QED
    BY <1>4, <2>1 DEF AgentInv, TickFits
<1> QED
  BY <1>1, <1>2, <1>5, OthersFit DEF AgentInv

LEMMA CommandKeeps ==
    ASSUME Agent!ConstantsOK, AgentInv, NEW r \in Runs, Agent!Unused(r), Agent!CreateTask(r), UNCHANGED <<rows, start, holder, loop>>
    PROVE  AgentInv'
<1>1. AgentTyped /\ run[r].state = "none" /\ start[r].note = "none" /\ start[r].ask = "none"
  BY RunNow DEF Agent!Unused, StartFits
<1>2. OneRun(r) /\ run'[r].state = "CREATED"
  BY <1>1 DEF Agent!CreateTask, OneRun, AgentTyped, AgentRec, Agent!RunStates
<1>3. OneContext(r)
  BY <1>1 DEF Agent!CreateTask, OneContext, AgentTyped, Agent!NewContext, Agent!Context
<1>4. OnlyRun(r)
  BY <1>1, <1>2, <1>3, StillRun DEF OnlyRun
<1>5. holder # r /\ LastAsk(rows[r]) \notin {"pending", "denied"} /\ ~InDoubt(rows[r], Place(r))
      /\ Place(r) \notin Awaiting
  BY <1>1, RunNow DEF PlaceFits, RowsFit, Acting, Agent!RunStates, Agent!TERMINAL_STATES, Awaiting
<1>6. Fits("CREATED", rows[r], start[r], ctx'[r], FALSE, Place(r))
  BY <1>1, <1>5 DEF Fits, PlaceFits, RowsFit, StartFits, ContextFits, Awaiting
<1>7. (holder' = r) = FALSE /\ Place(r)' = Place(r)
  BY <1>5 DEF Place
<1>8. RunFits(r)'
  BY <1>2, <1>6, <1>7 DEF RunFits
<1>9. \A e : StillSo(e, "none", rows[r]) => StillSo(e, "CREATED", rows'[r])
  BY DEF StillSo
<1> QED
  BY <1>1, <1>2, <1>4, <1>8, <1>9, AsideKeeps

LEMMA AgentCancelKeeps == ASSUME Agent!ConstantsOK, AgentInv, NEW r \in Runs, Agent!Cancel(r) PROVE AgentInv'
<1>1. AgentTyped /\ run[r].state \notin Agent!TERMINAL_STATES \cup {"none"} /\ Agent!Finish(r, "CANCELLED") /\ UNCHANGED <<rows, start, loop>>
  BY RunNow DEF Agent!Cancel, Agent!open_runs
<1>2. OneRun(r) /\ run'[r].state = "CANCELLED" /\ OneSlot(r) /\ holder' # r /\ OneContext(r)
  BY <1>1, FinishDoes DEF Agent!RunStates, Agent!TERMINAL_STATES
<1>3. OnlyRun(r)
  BY <1>1, <1>2, StillRun DEF OnlyRun
<1>4. Fits("CANCELLED", rows[r], start[r], ctx'[r], FALSE, Place(r))
  BY <1>1, RunNow DEF Fits, PlaceFits, RowsFit, StartFits, ContextFits, Acting, Agent!TERMINAL_STATES
<1>5. (holder' = r) = FALSE /\ Place(r)' = Place(r)
  BY <1>1, <1>2 DEF Place
<1>6. RunFits(r)'
  BY <1>1, <1>2, <1>4, <1>5 DEF RunFits
<1>7. \A e : StillSo(e, run[r].state, rows[r]) => StillSo(e, "CANCELLED", rows'[r])
  BY <1>1 DEF StillSo
<1> QED
  BY <1>1, <1>2, <1>3, <1>6, <1>7, AsideKeeps

LEMMA ResumeKeeps == ASSUME Agent!ConstantsOK, AgentInv, NEW r \in Runs, Agent!Resume(r) PROVE AgentInv'
<1>1. /\ AgentTyped /\ run[r].state = "WAITING_USER" /\ Agent!Goto(r, "RUNNING") /\ UNCHANGED <<rows, start, holder, loop>>
      /\ ctx' = [ctx EXCEPT ![r] = [Agent!Rebuild(r) EXCEPT !.asks = 0]]
  BY RunNow DEF Agent!Resume
<1>2. OneRun(r) /\ run'[r].state = "RUNNING"
  BY <1>1, GotoDoes DEF Agent!RunStates
<1>3. OneContext(r)
  <2>1. [Agent!Rebuild(r) EXCEPT !.asks = 0] \in Agent!Context
    BY <1>1, Rebuilt DEF Agent!Context
  <2> QED
    BY <1>1, <2>1 DEF OneContext, AgentTyped
<1>4. OnlyRun(r)
  BY <1>1, <1>2, <1>3, StillRun DEF OnlyRun
<1>5. /\ holder # r /\ LastAsk(rows[r]) \notin {"pending", "denied"} /\ ~InDoubt(rows[r], Place(r))
      /\ Place(r) \notin Awaiting /\ \A s : StartFits(s, start[r])
  BY <1>1, RunNow DEF PlaceFits, RowsFit, Acting, Agent!RunStates, Agent!PARKED_STATES, Agent!TERMINAL_STATES,
     Awaiting
<1>6. Fits("RUNNING", rows[r], start[r], ctx'[r], FALSE, Place(r))
  BY <1>5 DEF Fits, PlaceFits, RowsFit, ContextFits, Awaiting
<1>7. (holder' = r) = FALSE /\ Place(r)' = Place(r)
  BY <1>1, <1>5 DEF Place
<1>8. RunFits(r)'
  BY <1>1, <1>2, <1>6, <1>7 DEF RunFits
<1>9. \A e : StillSo(e, "WAITING_USER", rows[r]) => StillSo(e, "RUNNING", rows'[r])
  BY <1>1 DEF StillSo
<1> QED
  BY <1>1, <1>2, <1>4, <1>8, <1>9, AsideKeeps

\* A start waits, or its request is decided: no run exists yet, or the request was used.
LEMMA NoteKeeps ==
    ASSUME Agent!ConstantsOK, AgentInv, NEW r \in Runs, UNCHANGED <<run, rows, ctx, holder, loop>>,
           \/ Agent!Unused(r) /\ start' = [start EXCEPT ![r] = [note |-> "WAITING", ask |-> "pending"]]
           \/ \E d \in {"approved", "denied", "expired"} : Agent!StartDecision(r, d)
    PROVE  AgentInv'
<1>1. AgentTyped
  BY RunNow
<1>2. /\ OneStart(r) /\ (start[r].note # "none" => start'[r].note # "none")
      /\ StartFits(run[r].state, start'[r])
  <2>1. CASE Agent!Unused(r) /\ start' = [start EXCEPT ![r] = [note |-> "WAITING", ask |-> "pending"]]
    BY <1>1, <2>1 DEF Agent!Unused, OneStart, AgentTyped, StartRec, StartFits, Agent!Asks
  <2>2. CASE \E d \in {"approved", "denied", "expired"} : Agent!StartDecision(r, d)
    <3>1. PICK d \in {"approved", "denied", "expired"} : Agent!StartDecision(r, d)
      BY <2>2
    <3>2. start' = [start EXCEPT ![r].ask = d] /\ start[r].ask \in {"pending", "approved"}
      BY <3>1 DEF Agent!StartDecision
    <3>3. OneStart(r) /\ start'[r].note = start[r].note /\ start'[r].ask = d
      BY <1>1, <3>2 DEF OneStart, AgentTyped, StartRec, Agent!Asks
    <3> QED
      BY <3>2, <3>3, RunNow DEF StartFits
  <2> QED
    BY <2>1, <2>2
<1>3. OnlyRun(r)
  BY <1>1, <1>2, StillRun DEF OnlyRun
<1>4. RunFits(r)'
  <2>1. Place(r)' = Place(r)
    BY DEF Place
  <2>2. Fits(run[r].state, rows[r], start'[r], ctx[r], holder = r, Place(r))
    BY <1>2, RunNow DEF Fits
  <2> QED
    BY <2>1, <2>2 DEF RunFits
<1> QED
  BY <1>2, <1>3, <1>4, AsideKeeps

\* The last row of a run was asked or did something; nothing else moves.
LEMMA LastRowKeeps ==
    ASSUME Agent!ConstantsOK, AgentInv, NEW r \in Runs, UNCHANGED <<run, start, ctx, holder, loop>>, NEW e \in Agent!StepRow,
           rows[r] # <<>>, rows' = [rows EXCEPT ![r] = [rows[r] EXCEPT ![Len(rows[r])] = e]],
           e.state = rows[r][Len(rows[r])].state,
           \/ e.did = rows[r][Len(rows[r])].did
           \/ loop.r = r /\ loop.pc \in {"capability", "exec"},
           \/ e.ask = rows[r][Len(rows[r])].ask
           \/ rows[r][Len(rows[r])].ask = "pending" /\ e.ask \in {"approved", "denied", "expired"}
           \/ rows[r][Len(rows[r])].ask = "approved" /\ e.ask = "expired"
           \/ /\ e.ask = "used" /\ loop.r = r
              /\ \/ loop.pc = "exec" /\ rows[r][Len(rows[r])].ask = "approved"
                 \/ loop.pc = "capability"
    PROVE  AgentInv'
<1>1. AgentTyped /\ rows[r] \in Seq(Agent!StepRow)
  BY RunNow
<1>2. PICK x, y : x = rows[r] /\ y = [rows[r] EXCEPT ![Len(rows[r])] = e]
  OBVIOUS
<1>3. /\ y \in Seq(Agent!StepRow) /\ y # <<>> /\ Len(y) = Len(x) /\ DOMAIN y = DOMAIN x /\ y[Len(x)] = e /\ x # <<>>
      /\ \A i \in DOMAIN x : i # Len(x) => y[i] = x[i]
  BY <1>1, <1>2, AskedRow
<1>4. OneLedger(r) /\ rows'[r] = y
  BY <1>1, <1>2, <1>3 DEF OneLedger, AgentTyped
<1>5. OnlyRun(r)
  BY <1>1, <1>4, StillRun DEF OnlyRun
<1>6. Place(r)' = Place(r)
  BY DEF Place
<1>7. /\ LastAsk(x) = x[Len(x)].ask /\ LastAsk(y) = e.ask
      /\ ~InDoubt(x, Place(r)) => ~InDoubt(y, Place(r))
      /\ (\A i \in DOMAIN x : x[i].state \in Agent!SETTLED_OK) => \A i \in DOMAIN y : y[i].state \in Agent!SETTLED_OK
  BY <1>2, <1>3 DEF LastAsk, InDoubt, Place
<1>8. e.did => x[Len(x)].did \/ Place(r) \in {"capability", "exec"}
  BY <1>2 DEF Place
<1>9. PlaceFits(run[r].state, y, holder = r, Place(r))
  <2>1. PlaceFits(run[r].state, x, holder = r, Place(r)) /\ RowsFit(run[r].state, x, Place(r))
    BY <1>2, RunNow
  <2>2. Place(r) = "capability" => LastAsk(y) \in {"none", "used"}
    BY <1>2, <1>7, <2>1 DEF PlaceFits, Place
  <2>3. Place(r) = "exec" => LastAsk(y) \in {"approved", "expired", "used"}
    BY <1>2, <1>7, <2>1 DEF PlaceFits
  <2>4. Place(r) = "specialist" => ~y[Len(y)].did
    BY <1>3, <1>8, <2>1 DEF PlaceFits
  <2> QED
    BY <1>3, <2>1, <2>2, <2>3, <2>4 DEF PlaceFits
<1>10. RowsFit(run[r].state, y, Place(r))
  <2>1. PlaceFits(run[r].state, x, holder = r, Place(r)) /\ RowsFit(run[r].state, x, Place(r))
    BY <1>2, RunNow
  <2>2. LastAsk(y) = "pending" => LastAsk(x) = "pending"
    BY <1>2, <1>7
  <2>3. LastAsk(y) = "denied" => LastAsk(x) \in {"pending", "denied"}
    BY <1>2, <1>7
  <2> QED
    BY <1>7, <2>1, <2>2, <2>3 DEF RowsFit, Agent!TERMINAL_STATES
<1>11. RunFits(r)'
  BY <1>4, <1>6, <1>9, <1>10, RunNow DEF RunFits, Fits
<1>12. r = loop.r \/ \A s : StillSo(s, run[r].state, rows[r]) => StillSo(s, run'[r].state, rows'[r])
  <2>1. CASE r # loop.r
    <3>1. ~InDoubt(x, "away") => ~InDoubt(y, "away")
      BY <1>2, <1>3, <2>1 DEF InDoubt
    <3> QED
      BY <1>2, <1>3, <1>4, <3>1 DEF StillSo
  <2> QED
    BY <2>1
<1> QED
  BY <1>5, <1>11, <1>12, AsideKeeps

LEMMA DecisionKeeps ==
    ASSUME Agent!ConstantsOK, AgentInv, NEW r \in Runs, NEW d \in {"approved", "denied", "expired"}, Agent!RunDecision(r, d)
    PROVE  AgentInv'
<1>1. /\ rows[r] # <<>> /\ UNCHANGED <<run, start, ctx, holder, loop>>
      /\ rows' = [rows EXCEPT ![r][Len(rows[r])].ask = d]
      /\ \/ rows[r][Len(rows[r])].ask = "pending"
         \/ rows[r][Len(rows[r])].ask = "approved" /\ d = "expired"
  BY DEF Agent!RunDecision, Agent!Last, Agent!Last_
<1>2. rows[r][Len(rows[r])] \in Agent!StepRow /\ rows \in [Runs -> Seq(Agent!StepRow)]
  BY <1>1 DEF AgentInv, AgentTyped
<1>3. PICK e : e = [rows[r][Len(rows[r])] EXCEPT !.ask = d]
  OBVIOUS
<1>4. e \in Agent!StepRow /\ e.ask = d /\ e.did = rows[r][Len(rows[r])].did /\ e.state = rows[r][Len(rows[r])].state
  BY <1>2, <1>3 DEF Agent!StepRow, Agent!Asks
<1>5. rows' = [rows EXCEPT ![r] = [rows[r] EXCEPT ![Len(rows[r])] = e]]
  BY <1>1, <1>3
<1> QED
  BY <1>1, <1>4, <1>5, LastRowKeeps

LEMMA EffectKeeps == ASSUME Agent!ConstantsOK, AgentInv, NEW r \in Runs, Agent!Effect(r) PROVE AgentInv'
<1>1. /\ loop.r = r /\ loop.pc \in {"capability", "exec"} /\ UNCHANGED <<run, start, ctx, holder, loop>>
      /\ \/ rows' = [rows EXCEPT ![r][Len(rows[r])].did = TRUE]
         \/ /\ \/ loop.pc = "exec" /\ rows[r][Len(rows[r])].ask = "approved"
               \/ loop.pc = "capability"
            /\ rows' = [rows EXCEPT ![r][Len(rows[r])].did = TRUE, ![r][Len(rows[r])].ask = "used"]
  BY DEF Agent!Effect, Agent!Last, Agent!Last_
<1>2. rows[r] # <<>> /\ rows[r] \in Seq(Agent!StepRow) /\ rows \in [Runs -> Seq(Agent!StepRow)]
  BY <1>1, CallSees DEF AgentTyped
<1>3. PICK n : n = Len(rows[r])
  OBVIOUS
<1>4. n \in DOMAIN rows[r] /\ rows[r][n] \in Agent!StepRow
  BY <1>2, <1>3
<1>5. CASE rows' = [rows EXCEPT ![r][n].did = TRUE]
  <2>1. PICK e : e = [rows[r][n] EXCEPT !.did = TRUE]
    OBVIOUS
  <2>2. e \in Agent!StepRow /\ e.ask = rows[r][n].ask /\ e.state = rows[r][n].state
    BY <1>4, <2>1 DEF Agent!StepRow
  <2>3. rows' = [rows EXCEPT ![r] = [rows[r] EXCEPT ![n] = e]]
    BY <1>5, <2>1
  <2> QED
    BY <1>1, <1>2, <1>3, <2>2, <2>3, LastRowKeeps
<1>6. CASE /\ \/ loop.pc = "exec" /\ rows[r][n].ask = "approved"
            \/ loop.pc = "capability"
         /\ rows' = [rows EXCEPT ![r][n].did = TRUE, ![r][n].ask = "used"]
  <2>1. PICK e : e = [rows[r][n] EXCEPT !.did = TRUE, !.ask = "used"]
    OBVIOUS
  <2>2. e \in Agent!StepRow /\ e.ask = "used" /\ e.state = rows[r][n].state
    BY <1>4, <2>1 DEF Agent!StepRow, Agent!Asks
  <2>3. rows' = [rows EXCEPT ![r] = [rows[r] EXCEPT ![n].did = TRUE, ![n].ask = "used"]]
    BY <1>2, <1>4, <1>6
  <2>4. [rows[r] EXCEPT ![n].did = TRUE, ![n].ask = "used"] = [rows[r] EXCEPT ![n] = e]
    BY <1>2, <1>3, <2>1, TwoFields
  <2>5. rows' = [rows EXCEPT ![r] = [rows[r] EXCEPT ![n] = e]]
    BY <2>3, <2>4
  <2>6. /\ \/ loop.pc = "exec" /\ rows[r][Len(rows[r])].ask = "approved"
           \/ loop.pc = "capability"
        /\ e.ask = "used" /\ e.state = rows[r][Len(rows[r])].state
        /\ rows' = [rows EXCEPT ![r] = [rows[r] EXCEPT ![Len(rows[r])] = e]]
    BY <1>3, <1>6, <2>2, <2>5
  <2>7. loop.r = r /\ loop.pc \in {"capability", "exec"} /\ UNCHANGED <<run, start, ctx, holder, loop>>
    BY <1>1
  <2> QED
    BY <1>2, <2>2, <2>6, <2>7, LastRowKeeps
<1> QED
  BY <1>1, <1>3, <1>5, <1>6

LEMMA AgentCrashKeeps == ASSUME Agent!ConstantsOK, AgentInv, Agent!Crash PROVE AgentInv'
<1>1. /\ run' = [r \in Runs |-> IF r \in Agent!open_runs /\ run[r].state # "WAITING_USER"
                                THEN [run[r] EXCEPT !.state = "INTERRUPTED"] ELSE run[r]]
      /\ rows' = [r \in Runs |-> [i \in DOMAIN rows[r] |->
                    IF rows[r][i].ask = "pending" THEN [rows[r][i] EXCEPT !.ask = "expired"] ELSE rows[r][i]]]
      /\ start' = [r \in Runs |-> IF start[r].ask = "pending" THEN [start[r] EXCEPT !.ask = "expired"] ELSE start[r]]
      /\ ctx' = [r \in Runs |-> NULL] /\ holder' = 0 /\ loop' = Agent!IdleLoop
  BY DEF Agent!Crash
<1>2. loop' \in LoopRec /\ loop'.r = 0 /\ loop'.pc = "idle" /\ loop'.todo = <<>>
  BY <1>1, AbortDoes DEF Agent!AbortTick
<1>3. ASSUME NEW r \in Runs
      PROVE  /\ run'[r] \in AgentRec /\ rows'[r] \in Seq(Agent!StepRow) /\ start'[r] \in StartRec /\ RunFits(r)'
  <2>1. run[r] \in AgentRec /\ rows[r] \in Seq(Agent!StepRow) /\ start[r] \in StartRec
    BY DEF AgentInv, AgentTyped
  <2>2. /\ run'[r] \in AgentRec
        /\ run'[r].state = IF run[r].state \in Agent!TERMINAL_STATES \cup {"none", "WAITING_USER"} THEN run[r].state ELSE "INTERRUPTED"
    BY <1>1, <2>1 DEF Agent!open_runs, AgentRec, Agent!RunStates
  <2>3. start'[r] \in StartRec /\ start'[r].note = start[r].note
        /\ start'[r].ask = IF start[r].ask = "pending" THEN "expired" ELSE start[r].ask
    BY <1>1, <2>1 DEF StartRec, Agent!Asks
  <2>4. PICK x, y : x = rows[r] /\ y = rows'[r]
    OBVIOUS
  <2>5. /\ x \in Seq(Agent!StepRow) /\ y \in Seq(Agent!StepRow) /\ Len(y) = Len(x) /\ DOMAIN y = DOMAIN x
        /\ \A i \in DOMAIN x : /\ y[i].did = x[i].did /\ y[i].state = x[i].state
                               /\ y[i].ask = IF x[i].ask = "pending" THEN "expired" ELSE x[i].ask
    <3>1. ASSUME NEW i \in DOMAIN x
          PROVE  /\ y[i] \in Agent!StepRow /\ y[i].did = x[i].did /\ y[i].state = x[i].state
                 /\ y[i].ask = IF x[i].ask = "pending" THEN "expired" ELSE x[i].ask
      <4>1. x[i] \in Agent!StepRow
        BY <2>1, <2>4
      <4>2. y[i] = IF x[i].ask = "pending" THEN [x[i] EXCEPT !.ask = "expired"] ELSE x[i]
        BY <1>1, <2>4
      <4> QED
        BY <4>1, <4>2 DEF Agent!StepRow, Agent!Asks
    <3>2. y = [i \in DOMAIN x |-> y[i]]
      BY <1>1, <2>4
    <3>3. Len(x) \in Nat /\ DOMAIN x = 1..Len(x)
      BY <2>1, <2>4
    <3>4. y \in [1..Len(x) -> Agent!StepRow]
      BY <3>1, <3>2, <3>3
    <3> QED
      BY <2>1, <2>4, <3>1, <3>3, <3>4
  <2>6. /\ LastAsk(y) # "pending" /\ (LastAsk(y) = "denied" => LastAsk(x) = "denied")
        /\ ~InDoubt(x, "away") => ~InDoubt(y, "away")
        /\ (\A i \in DOMAIN x : x[i].state \in Agent!SETTLED_OK) => \A i \in DOMAIN y : y[i].state \in Agent!SETTLED_OK
    <3>1. x # <<>> => Len(x) \in DOMAIN x /\ y # <<>>
      BY <2>5
    <3>2. x = <<>> => y = <<>>
      BY <2>5
    <3> QED
      BY <2>5, <3>1, <3>2 DEF LastAsk, InDoubt
  <2>7. run[r].state \in {"none", "WAITING_USER"} => ~InDoubt(x, "away")
    BY <2>4, RunNow DEF PlaceFits, RowsFit, Acting, Agent!RunStates, Agent!PARKED_STATES, Agent!TERMINAL_STATES,
       InDoubt
  <2>8. run'[r].state # "WAITING_APPROVAL" /\ run'[r].state \in Agent!RunStates
    BY <2>2 DEF Agent!TERMINAL_STATES, AgentRec
  <2>9. LastAsk(y) = "denied" => run'[r].state \in {"INTERRUPTED", "VERIFYING"} \cup Agent!TERMINAL_STATES
    BY <2>2, <2>4, <2>6, RunNow DEF RowsFit, Agent!TERMINAL_STATES
  <2>10. run'[r].state \in Acting => ~InDoubt(y, "away")
    BY <2>2, <2>6, <2>7 DEF Acting
  <2>11. run'[r].state = "SUCCEEDED" => \A i \in DOMAIN y : y[i].state \in Agent!SETTLED_OK
    BY <2>2, <2>4, <2>6, RunNow DEF RowsFit
  <2>12. StartFits(run'[r].state, start'[r])
    BY <2>2, <2>3, RunNow DEF StartFits, Agent!TERMINAL_STATES
  <2>13. Fits(run'[r].state, y, start'[r], ctx'[r], FALSE, "away")
    BY <2>6, <2>8, <2>9, <2>10, <2>11, <2>12, AwayFits
  <2>14. (holder' = r) = FALSE /\ Place(r)' = "away"
    BY <1>1, <1>2 DEF Agent!ConstantsOK, Place
  <2> QED
    BY <2>2, <2>3, <2>4, <2>5, <2>13, <2>14 DEF RunFits
<1>4. AgentTyped'
  <2>1. run' = [r \in Runs |-> run'[r]] /\ rows' = [r \in Runs |-> rows'[r]] /\ start' = [r \in Runs |-> start'[r]]
    BY <1>1
  <2> QED
    BY <1>1, <1>2, <1>3, <2>1 DEF AgentTyped
<1>5. TickFits'
  BY <1>2 DEF TickFits, Awaiting
<1> QED
  BY <1>3, <1>4, <1>5 DEF AgentInv

LEMMA AdvanceKeeps == ASSUME Agent!ConstantsOK, AgentInv, NEW r \in Runs, Agent!Advance(r) PROVE AgentInv'
<1>1. CASE Agent!PollPendingStart(r) \/ Agent!StartAnswer(r)
  BY <1>1, PollStartsKeeps, StartKeeps
<1>2. CASE Agent!SkipRun(r) \/ Agent!AdvanceCreated(r) \/ Agent!AdvancePlanning(r) \/ Agent!PlanAnswer(r)
  BY <1>2, SkipKeeps, CreatedKeeps, PlanningKeeps, PlanKeeps
<1>3. CASE Agent!ToVerify(r) \/ Agent!StepRefused(r) \/ Agent!StepInline(r) \/ Agent!StepSpecialist(r) \/ Agent!StepFlawed(r)
  BY <1>3, VerifyKeeps, RefusedKeeps, InlineKeeps, SpecialistKeeps, FlawedKeeps
<1>4. CASE Agent!StepQueues(r) \/ Agent!StepCapability(r) \/ Agent!CapabilityAsks(r)
  BY <1>4, QueuesKeeps, CapabilityKeeps, AsksKeeps
<1>5. CASE \E a \in {"ok", "goal", "bad", "quota"} : Agent!SpecialistAnswer(r, a)
  BY <1>5, SpecialistAnswers
<1>6. CASE \E a \in {"ok", "failed", "denied", "unknown", "policy"} : Agent!CapabilityAnswer(r, a) \/ Agent!ExecAnswer(r, a)
  BY <1>6, CallKeeps, ExecKeeps
<1>7. CASE Agent!PollStart(r) \/ Agent!PollPending(r) \/ Agent!PollApproved(r) \/ Agent!PollDenied(r) \/ Agent!PollExpired(r) \/ Agent!DoVerify(r)
  BY <1>7, PollStartKeeps, PendingKeeps, ApprovedKeeps, DeniedKeeps, ExpiredKeeps, DoVerifyKeeps
<1> QED
  BY <1>1, <1>2, <1>3, <1>4, <1>5, <1>6, <1>7 DEF Agent!Advance

LEMMA PeopleKeep ==
    ASSUME Agent!ConstantsOK, AgentInv, NEW r \in Runs, Agent!Expire(r) \/ Agent!People(r)
    PROVE AgentInv'
<1>1. CASE Agent!Command(r)
  BY <1>1, CommandKeeps DEF Agent!Command
<1>2. CASE Agent!RememberPendingStart(r)
  BY <1>2, NoteKeeps DEF Agent!RememberPendingStart
<1>3. CASE Agent!Cancel(r) \/ Agent!Resume(r)
  BY <1>3, AgentCancelKeeps, ResumeKeeps
<1>4. CASE \E d \in {"approved", "denied", "expired"} : Agent!RunDecision(r, d)
  BY <1>4, DecisionKeeps
<1>5. CASE \E d \in {"approved", "denied", "expired"} : Agent!StartDecision(r, d)
  <2>1. UNCHANGED <<run, rows, ctx, holder, loop>>
    BY <1>5 DEF Agent!StartDecision
  <2> QED
    BY <1>5, <2>1, NoteKeeps
<1> QED
  BY <1>1, <1>2, <1>3, <1>4, <1>5 DEF Agent!Expire, Agent!People

LEMMA AgentKeeps == ASSUME Agent!ConstantsOK, AgentInv, [Agent!Next]_Agent!vars PROVE AgentInv'
<1>1. CASE Agent!Tick
  BY <1>1, TickKeeps
<1>2. ASSUME NEW r \in Runs, Agent!Advance(r) \/ Agent!Effect(r) \/ Agent!Expire(r) \/ Agent!People(r) PROVE AgentInv'
  BY <1>2, AdvanceKeeps, EffectKeeps, PeopleKeep
<1>3. CASE Agent!Crash
  BY <1>3, AgentCrashKeeps
<1>4. CASE UNCHANGED Agent!vars
  BY <1>4 DEF Agent!vars, AgentInv, AgentTyped, TickFits, RunFits, Place
<1> QED
  BY <1>1, <1>2, <1>3, <1>4 DEF Agent!Next

LEMMA AgentStart == ASSUME Agent!ConstantsOK, Agent!Init PROVE AgentInv
<1>1. loop \in LoopRec /\ loop.r = 0 /\ loop.pc = "idle" /\ loop.todo = <<>>
  BY DEF Agent!Init, LoopRec, Agent!IdleLoop, LoopPcs
<1>2. AgentTyped
  <2>1. [state |-> "none", revs |-> 0] \in AgentRec /\ <<>> \in Seq(Agent!StepRow) /\ [note |-> "none", ask |-> "none"] \in StartRec
    BY DEF AgentRec, Agent!RunStates, StartRec, Agent!Asks, Agent!ConstantsOK
  <2> QED
    BY <1>1, <2>1 DEF Agent!Init, AgentTyped
<1>3. TickFits
  BY <1>1 DEF TickFits, Awaiting
<1>4. ASSUME NEW q \in Runs PROVE RunFits(q)
  <2>1. /\ run[q].state = "none" /\ rows[q] = <<>> /\ start[q] = [note |-> "none", ask |-> "none"]
        /\ (holder = q) = FALSE /\ Place(q) = "away"
    BY <1>1 DEF Agent!Init, Agent!ConstantsOK, Place
  <2>2. Fits("none", <<>>, [note |-> "none", ask |-> "none"], ctx[q], FALSE, "away")
    <3>1. LastAsk(<<>>) = "none" /\ ~InDoubt(<<>>, "away")
      BY DEF LastAsk, InDoubt
    <3>2. StartFits("none", [note |-> "none", ask |-> "none"])
      BY DEF StartFits
    <3> QED
      BY <3>1, <3>2, AwayFits DEF Agent!RunStates
  <2> QED
    BY <2>1, <2>2 DEF RunFits
<1> QED
  BY <1>2, <1>3, <1>4 DEF AgentInv

LEMMA AgentInvariance == ASSUME Agent!ConstantsOK PROVE Agent!Spec => []AgentInv
  BY AgentStart, AgentKeeps, PTL DEF Agent!Spec

(* Who acts. *)

LEMMA QuietRows ==
    ASSUME NEW q \in Runs, AgentTyped,
           \/ rows'[q] = rows[q]
           \/ Len(rows'[q]) = Len(rows[q]) /\ \A i \in DOMAIN rows[q] : rows'[q][i].did = rows[q][i].did
    PROVE  ~Agent!Acts(q)
<1>1. rows[q] \in Seq(Agent!StepRow)
  BY DEF AgentTyped
<1> QED
  BY <1>1 DEF Agent!Acts

\* A run takes a step only while it runs, and reaches the world only in a call under way.
LEMMA WhoActs ==
    ASSUME Agent!ConstantsOK, AgentInv, [Agent!Next]_Agent!vars, NEW q \in Runs, Agent!Acts(q)
    PROVE  run[q].state = "RUNNING" \/ (loop.r = q /\ loop.pc \in {"capability", "exec"})
<1>1. AgentTyped
  BY DEF AgentInv
<1>2. CASE UNCHANGED rows
  BY <1>1, <1>2, QuietRows
<1>3. ASSUME NEW r \in Runs, NEW s \in Agent!StepStates, Agent!SetRow(r, s), rows[r] # <<>> PROVE ~Agent!Acts(q)
  <2>1. CASE q = r
    BY <1>1, <1>3, <2>1, SetRowDoes, QuietRows
  <2>2. CASE q # r
    BY <1>1, <1>3, <2>2, SetRowDoes, QuietRows DEF OneLedger
  <2> QED
    BY <2>1, <2>2
<1>4. ASSUME NEW r \in Runs, NEW y, rows' = [rows EXCEPT ![r] = y] PROVE q = r
  <2>1. q # r => rows'[q] = rows[q]
    BY <1>1, <1>4 DEF AgentTyped
  <2> QED
    BY <1>1, <2>1, QuietRows
<1>5. ASSUME NEW r \in Runs, Agent!Advance(r) \/ Agent!Effect(r)
      PROVE  run[q].state = "RUNNING" \/ (loop.r = q /\ loop.pc \in {"capability", "exec"})
  <2>1. CASE Agent!StepInline(r) \/ Agent!StepSpecialist(r) \/ Agent!StepFlawed(r) \/ Agent!StepQueues(r) \/ Agent!StepCapability(r)
    <3>1. /\ \E kinds : Agent!AtStep(r, kinds)
          /\ \E s : Agent!NewRow(r, s)
      BY <2>1 DEF Agent!StepInline, Agent!StepSpecialist, Agent!StepFlawed, Agent!StepQueues, Agent!StepCapability
    <3>2. q = r
      BY <1>4, <3>1 DEF Agent!NewRow
    <3> QED
      BY <3>1, <3>2, AtStepSees
  <2>2. CASE \/ Agent!CapabilityAsks(r) \/ Agent!Effect(r)
             \/ \E a \in {"ok", "failed", "denied", "unknown", "policy"} : Agent!CapabilityAnswer(r, a) \/ Agent!ExecAnswer(r, a)
    <3>1. loop.r = r /\ loop.pc \in {"capability", "exec"}
      BY <2>2 DEF Agent!CapabilityAsks, Agent!Effect, Agent!CapabilityAnswer, Agent!ExecAnswer
    <3>2. UNCHANGED rows \/ \E y : rows' = [rows EXCEPT ![r] = y]
      <4>1. CASE Agent!CapabilityAsks(r)
        <5>1. PICK n : n = Len(rows[r])
          OBVIOUS
        <5>2. rows' = [rows EXCEPT ![r][n].state = "waiting", ![r][n].ask = "pending"]
          BY <4>1, <5>1 DEF Agent!CapabilityAsks, Agent!Last_
        <5>3. r \in DOMAIN rows
          BY <1>1 DEF AgentTyped
        <5>4. rows' = [rows EXCEPT ![r] = [rows[r] EXCEPT ![n].state = "waiting", ![n].ask = "pending"]]
          BY <5>2, <5>3
        <5> QED
          BY <5>4
      <4>2. CASE Agent!Effect(r)
        BY <1>1, <4>2 DEF Agent!Effect, AgentTyped
      <4>3. CASE \E a \in {"ok", "failed", "denied", "unknown", "policy"} : Agent!CapabilityAnswer(r, a) \/ Agent!ExecAnswer(r, a)
        BY <4>3 DEF Agent!CapabilityAnswer, Agent!ExecAnswer, Agent!Settle, Agent!SetRow
      <4> QED
        BY <2>2, <4>1, <4>2, <4>3
    <3> QED
      BY <1>2, <1>4, <3>1, <3>2
  <2>3. CASE \E a \in {"ok", "goal", "bad", "quota"} : Agent!SpecialistAnswer(r, a)
    <3>1. Place(r) = "specialist" /\ \E s \in Agent!StepStates : Agent!SetRow(r, s)
      BY <2>3, HereAt DEF Agent!SpecialistAnswer, Awaiting, Agent!StepStates, Agent!SETTLED_OK
    <3> QED
      BY <1>3, <3>1, RunNow DEF PlaceFits
  <2>4. CASE Agent!PollDenied(r)
    <3>1. rows[r] # <<>> /\ Agent!SetRow(r, "denied")
      BY <2>4, PollSees DEF Agent!PollDenied
    <3> QED
      BY <1>3, <3>1 DEF Agent!StepStates
  <2>5. CASE UNCHANGED rows
    BY <1>2, <2>5
  <2>6. \/ Agent!StepInline(r) \/ Agent!StepSpecialist(r) \/ Agent!StepFlawed(r) \/ Agent!StepQueues(r) \/ Agent!StepCapability(r)
        \/ Agent!CapabilityAsks(r) \/ Agent!Effect(r)
        \/ \E a \in {"ok", "failed", "denied", "unknown", "policy"} : Agent!CapabilityAnswer(r, a) \/ Agent!ExecAnswer(r, a)
        \/ \E a \in {"ok", "goal", "bad", "quota"} : Agent!SpecialistAnswer(r, a)
        \/ Agent!PollDenied(r)
        \/ UNCHANGED rows
    BY <1>5 DEF Agent!Advance, Agent!PollPendingStart, Agent!StartAnswer, Agent!SkipRun, Agent!AdvanceCreated,
       Agent!AdvancePlanning, Agent!PlanAnswer, Agent!ToVerify,
                Agent!StepRefused, Agent!PollStart, Agent!PollPending, Agent!PollApproved, Agent!PollExpired, Agent!DoVerify, Agent!durable
  <2> QED
    BY <2>1, <2>2, <2>3, <2>4, <2>5, <2>6
<1>6. ASSUME NEW r \in Runs, Agent!Expire(r) \/ Agent!People(r) PROVE ~Agent!Acts(q)
  <2>1. UNCHANGED rows \/ \E d : rows[r] # <<>> /\ rows' = [rows EXCEPT ![r][Len(rows[r])].ask = d]
    BY <1>6 DEF Agent!Expire, Agent!People, Agent!Command, Agent!RememberPendingStart, Agent!Cancel, Agent!Resume,
       Agent!RunDecision, Agent!StartDecision, Agent!Last_
  <2>2. CASE \E d : rows[r] # <<>> /\ rows' = [rows EXCEPT ![r][Len(rows[r])].ask = d]
    <3>1. PICK d : rows[r] # <<>> /\ rows' = [rows EXCEPT ![r][Len(rows[r])].ask = d]
      BY <2>2
    <3>2. rows[r] \in Seq(Agent!StepRow) /\ rows \in [Runs -> Seq(Agent!StepRow)]
      BY <1>1 DEF AgentTyped
    <3>3. PICK e : e = [rows[r][Len(rows[r])] EXCEPT !.ask = d]
      OBVIOUS
    <3>4. e.did = rows[r][Len(rows[r])].did
      <4>1. rows[r][Len(rows[r])] \in Agent!StepRow
        BY <3>1, <3>2
      <4> QED
        BY <3>3, <4>1 DEF Agent!StepRow
    <3>5. rows'[r] = [rows[r] EXCEPT ![Len(rows[r])] = e] /\ \A p \in Runs \ {r} : rows'[p] = rows[p]
      BY <3>1, <3>2, <3>3
    <3>6. Len(rows'[r]) = Len(rows[r]) /\ \A i \in DOMAIN rows[r] : rows'[r][i].did = rows[r][i].did
      BY <3>1, <3>2, <3>4, <3>5
    <3> QED
      BY <1>1, <3>5, <3>6, QuietRows
  <2>3. CASE UNCHANGED rows
    BY <1>1, <2>3, QuietRows
  <2> QED
    BY <2>1, <2>2, <2>3
<1>7. CASE Agent!Crash
  <2>1. PICK x, y : x = rows[q] /\ y = rows'[q]
    OBVIOUS
  <2>2. y = [i \in DOMAIN x |-> IF x[i].ask = "pending" THEN [x[i] EXCEPT !.ask = "expired"] ELSE x[i]] /\ x \in Seq(Agent!StepRow)
    BY <1>1, <1>7, <2>1 DEF Agent!Crash, AgentTyped
  <2>3. \A i \in DOMAIN x : y[i].did = x[i].did
    <3>1. \A i \in DOMAIN x : x[i] \in Agent!StepRow
      BY <2>2
    <3> QED
      BY <2>2, <3>1 DEF Agent!StepRow
  <2>4. Len(y) = Len(x)
    BY <2>2
  <2> QED
    BY <1>1, <2>1, <2>3, <2>4, QuietRows
<1>8. CASE Agent!Tick \/ UNCHANGED Agent!vars
  BY <1>2, <1>8 DEF Agent!Tick, Agent!TickStart, Agent!TickRuns, Agent!TickEnd, Agent!durable, Agent!vars
<1> QED
  BY <1>5, <1>6, <1>7, <1>8 DEF Agent!Next

\* The ledger, the contexts and the loop keep their types (AgentStore, RunContext, tick).
THEOREM AgentTypeCorrect == ASSUME Agent!ConstantsOK PROVE Agent!Spec => []Agent!TypeOK
<1>1. AgentInv => Agent!TypeOK
  BY DEF AgentInv, AgentTyped, Agent!TypeOK, AgentRec, StartRec, LoopRec, LoopPcs, Awaiting
<1> QED
  BY <1>1, AgentInvariance, PTL

\* The one approval slot is held exactly by the run that waits for a human or whose call is under way, so no two
\* requests meet at the router and no ended run keeps the slot (ApprovalQueue, _finish).
THEOREM SlotHeld == ASSUME Agent!ConstantsOK PROVE Agent!Spec => []Agent!SlotIsTheWaiters
<1>1. ASSUME Agent!ConstantsOK, AgentInv PROVE Agent!SlotIsTheWaiters
  <2>1. ASSUME NEW r \in Runs, run[r].state = "WAITING_APPROVAL" PROVE holder = r
    BY <1>1, <2>1, RunNow DEF PlaceFits
  <2>2. ASSUME holder # 0 PROVE run[holder].state = "WAITING_APPROVAL" \/ (loop.r = holder /\ loop.pc = "capability")
    <3>1. PICK r \in Runs : holder = r
      BY <1>1, <2>2 DEF AgentInv, AgentTyped
    <3> QED
      BY <1>1, <3>1, RunNow DEF PlaceFits, Place
  <2> QED
    BY <2>1, <2>2 DEF Agent!SlotIsTheWaiters
<1> QED
  BY <1>1, AgentInvariance, PTL

\* A run that succeeded shows every step it started as done or skipped (_do_verify).
THEOREM SuccessShown == ASSUME Agent!ConstantsOK PROVE Agent!Spec => []Agent!SuccessIsSettled
<1>1. ASSUME Agent!ConstantsOK, AgentInv PROVE Agent!SuccessIsSettled
  BY <1>1, RunNow DEF RowsFit, Agent!SuccessIsSettled
<1> QED
  BY <1>1, AgentInvariance, PTL

\* Once a human refused a request of a run, the run takes no further step and reaches the world no more, whatever
\* is polled, cancelled, resumed or restarted (_poll_approval, _settle_capability).
THEOREM DenialHolds == ASSUME Agent!ConstantsOK PROVE Agent!Spec => [][Agent!NoWayAroundDenial]_Agent!vars
<1>1. ASSUME Agent!ConstantsOK, AgentInv, [Agent!Next]_Agent!vars PROVE Agent!NoWayAroundDenial
  <2>1. ASSUME NEW r \in Runs, rows[r] # <<>>, Agent!Last(rows[r]).ask = "denied", Agent!Acts(r) PROVE FALSE
    <3>1. LastAsk(rows[r]) = "denied"
      BY <2>1 DEF LastAsk, Agent!Last
    <3>2. run[r].state # "RUNNING"
      BY <1>1, <3>1, RunNow DEF RowsFit, Agent!TERMINAL_STATES
    <3>3. ~(loop.r = r /\ loop.pc \in {"capability", "exec"})
      BY <1>1, <3>1, CallSees
    <3> QED
      BY <1>1, <2>1, <3>2, <3>3, WhoActs
  <2> QED
    BY <2>1 DEF Agent!NoWayAroundDenial
<1> QED
  BY <1>1, AgentInvariance, PTL DEF Agent!Spec

\* An effect no row shows as done is never repeated or built upon (_settle_capability, _reconcile).
THEOREM UncertainStays ==
    ASSUME Agent!ConstantsOK
    PROVE Agent!Spec => [][Agent!NothingUncertainRepeated]_Agent!vars
<1>1. ASSUME Agent!ConstantsOK, AgentInv, [Agent!Next]_Agent!vars PROVE Agent!NothingUncertainRepeated
  <2>1. ASSUME NEW r \in Runs, Agent!Unbooked(r), Agent!Acts(r) PROVE FALSE
    <3>1. InDoubt(rows[r], Place(r))
      BY <2>1 DEF Agent!Unbooked, InDoubt, Place, Agent!Last_
    <3>2. run[r].state # "RUNNING"
      BY <1>1, <3>1, RunNow DEF RowsFit, Acting, Agent!RunStates, Agent!TERMINAL_STATES
    <3>3. ~(loop.r = r /\ loop.pc \in {"capability", "exec"})
      BY <1>1, <3>1, CallSees
    <3> QED
      BY <1>1, <2>1, <3>2, <3>3, WhoActs
  <2> QED
    BY <2>1 DEF Agent!NothingUncertainRepeated
<1> QED
  BY <1>1, AgentInvariance, PTL DEF Agent!Spec

=============================================================================
