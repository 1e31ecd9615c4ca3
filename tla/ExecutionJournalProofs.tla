----------------------- MODULE ExecutionJournalProofs -----------------------
(***************************************************************************)
(* The journal of approved actions, for all parameters: types, the         *)
(* agreement of requests with rows, and that an end is an end; then what   *)
(* the outside world and the journal say of each other, however many       *)
(* executors, scans, recoveries, crashes, lapsed leases and revocations    *)
(* there are; and who may act on a row.                                    *)
(***************************************************************************)
EXTENDS ExecutionJournal, FiniteSetTheorems, TLAPS

----------------------------------------------------------------------------
(* Type correctness needs to know what an actor holds at each of its steps. *)

\* A task past its first read names a request and a device, past its claim a journal row.
HeldTask ==
    {x \in Task :
        /\ x.pc # "idle" => x.approval \in Approvals /\ x.device \in Devices
        /\ x.pc \in {"boundary", "unstarted", "external", "outcome"} => x.attempt \in AttemptIds
        /\ x.pc = "outcome" => x.outcome \in Outcomes}

\* A scan or recovery that has taken a row up names it.
HeldRec ==
    {x \in Recoverer :
        /\ x.pc \notin {"idle", "scan", "orphans", "abandon"} => x.attempt \in AttemptIds
        /\ x.pc = "outcome" => x.outcome \in Outcomes}

Wellformed ==
    /\ TypeOK
    /\ \A a \in Approvals : request[a] = "APPROVED" => decidedBy[a] \in Devices
    /\ task \in [Tasks -> HeldTask]
    /\ rec \in [Recoverers -> HeldRec]

\* What a step of an executor, a scan or a recovery does to the types.
WorkStep ==
    /\ request' \in [Approvals -> RequestStates]
    /\ \A a \in Approvals : request'[a] = "APPROVED" => request[a] = "APPROVED"
    /\ attempts' \in [AttemptIds -> Attempt]
    /\ effects' \in [Approvals -> 0 .. 2]
    /\ applying' \subseteq Approvals /\ confirmed' \subseteq Approvals
    /\ serving' \in BOOLEAN
    /\ crashes' \in 0 .. MaxCrashes
    /\ task' \in [Tasks -> HeldTask]
    /\ rec' \in [Recoverers -> HeldRec]
    /\ UNCHANGED <<decidedBy, overdue, semantics, deviceVars>>

LEMMA WorkStepWellformed == Wellformed /\ WorkStep => Wellformed'
  BY DEF Wellformed, WorkStep, TypeOK, deviceVars, HeldTask, HeldRec

LEMMA InitWellformed == Init => Wellformed
  BY ConstantsAssumption
  DEF Init, Wellformed, TypeOK, HeldTask, HeldRec, RequestStates, Gens, Identities, DeviceRow,
      Attempt, NoAttempt, Task, IdleTask, Recoverer, IdleRec, Outcomes, OPEN_STATUSES,
      TERMINAL_STATUSES

LEMMA IdleHeld == IdleTask \in HeldTask /\ IdleRec \in HeldRec
  BY ConstantsAssumption
  DEF HeldTask, HeldRec, Task, Recoverer, IdleTask, IdleRec, Gens, Outcomes, OPEN_STATUSES

\* A journal row is closed, or marked, within its type, and no request becomes approved.
LEMMA FinishTyped ==
    ASSUME TypeOK, NEW i \in AttemptIds, NEW outcome \in OPEN_STATUSES \cup TERMINAL_STATUSES,
           NEW expected, NEW final \in {"KEEP", "CONSUMED", "FAILED"},
           FinishAttempt(i, outcome, expected, final)
    PROVE  /\ attempts' \in [AttemptIds -> Attempt]
           /\ request' \in [Approvals -> RequestStates]
           /\ \A a \in Approvals : request'[a] = "APPROVED" => request[a] = "APPROVED"
<1> DEFINE a == attempts[i].approval
           applies == /\ attempts[i].status \in expected \cap OPEN_STATUSES
                      /\ final = "KEEP" \/ request[a] = "EXECUTING"
           closed == [attempts[i] EXCEPT !.status = outcome, !.owner = NULL, !.live = FALSE]
<1>1. /\ attempts' = IF applies
                     THEN [attempts EXCEPT ![i].status = outcome, ![i].owner = NULL,
                                           ![i].live = FALSE]
                     ELSE attempts
      /\ request' = IF applies /\ final # "KEEP" THEN [request EXCEPT ![a] = final] ELSE request
  BY DEF FinishAttempt
<1> HIDE DEF applies, a
<1>2. attempts' \in [AttemptIds -> Attempt]
  <2>1. attempts \in [AttemptIds -> Attempt] /\ attempts[i] \in Attempt
    BY DEF TypeOK
  <2>2. closed \in Attempt
    BY <2>1 DEF Attempt
  <2>3. applies => attempts' = [attempts EXCEPT ![i] = closed]
    BY <1>1, <2>1 DEF Attempt
  <2> QED
    BY <1>1, <2>1, <2>2, <2>3
<1>3. /\ request' \in [Approvals -> RequestStates]
      /\ \A b \in Approvals : request'[b] = "APPROVED" => request[b] = "APPROVED"
  BY <1>1 DEF TypeOK, RequestStates
<1> QED
  BY <1>2, <1>3

\* So is the answer of an adapter recorded.
LEMMA RecordTyped ==
    ASSUME TypeOK, NEW i \in AttemptIds, NEW answer \in Outcomes, RecordOutcome(i, answer)
    PROVE  /\ attempts' \in [AttemptIds -> Attempt]
           /\ request' \in [Approvals -> RequestStates]
           /\ \A a \in Approvals : request'[a] = "APPROVED" => request[a] = "APPROVED"
<1>1. \/ FinishAttempt(i, "SUCCEEDED", OPEN_STATUSES, "CONSUMED")
      \/ FinishAttempt(i, "FAILED_SAFE", OPEN_STATUSES, "FAILED")
      \/ FinishAttempt(i, "UNKNOWN", OPEN_STATUSES, "KEEP")
  BY DEF RecordOutcome, Outcomes
<1>2. {"SUCCEEDED", "FAILED_SAFE", "UNKNOWN"} \subseteq OPEN_STATUSES \cup TERMINAL_STATUSES
  BY DEF OPEN_STATUSES, TERMINAL_STATUSES
<1> QED
  BY <1>1, <1>2, FinishTyped

\* An adapter call leaves at most one more effect of the request.
LEMMA EffectTyped ==
    ASSUME TypeOK, NEW a, NEW answer, AdapterAnswer(a, answer)
    PROVE  effects' \in [Approvals -> 0 .. 2]
  BY DEF TypeOK, AdapterAnswer, Happens

----------------------------------------------------------------------------
LEMMA DecisionWellformed == Wellformed /\ DecisionStep => Wellformed'
<1> SUFFICES ASSUME Wellformed, DecisionStep PROVE Wellformed'
  OBVIOUS
<1> USE DEF Wellformed, TypeOK, elsewhere, deviceVars, memory, RequestStates
<1>1. CASE ExpireDue
  BY <1>1 DEF ExpireDue
<1>2. ASSUME NEW a \in Approvals, CreateRequest(a) PROVE Wellformed'
  BY <1>2 DEF CreateRequest
<1>3. ASSUME NEW a \in Approvals, ConfirmToGate(a) PROVE Wellformed'
  BY <1>3 DEF ConfirmToGate, requestVars
<1>4. ASSUME NEW a \in Approvals, DeadlinePasses(a) PROVE Wellformed'
  BY <1>4 DEF DeadlinePasses
<1>5. ASSUME NEW a \in Approvals, Abandon(a) PROVE Wellformed'
  BY <1>5 DEF Abandon
<1>6. ASSUME NEW a \in Approvals, NEW d \in Devices, CommitApprove(a, d) PROVE Wellformed'
  BY <1>6 DEF CommitApprove
<1>7. ASSUME NEW a \in Approvals, NEW d \in Devices, CommitDeny(a, d) PROVE Wellformed'
  BY <1>7 DEF CommitDeny
<1> HIDE DEF Wellformed
<1> QED
  BY <1>1, <1>2, <1>3, <1>4, <1>5, <1>6, <1>7 DEF DecisionStep

LEMMA DeviceWellformed == Wellformed /\ DeviceStep => Wellformed'
<1> SUFFICES ASSUME Wellformed, NEW d \in Devices,
                    \/ BeginEnrollment(d) \/ FinalizeAttestation(d) \/ RevokeDevice(d)
                    \/ \E g \in Gens : RevokeKey(d, g)
             PROVE  Wellformed'
  BY DEF DeviceStep
<1>1. dev' \in [Devices -> DeviceRow] /\ revocations' \subseteq Identities
  <2>1. dev \in [Devices -> DeviceRow] /\ dev[d] \in DeviceRow /\ revocations \subseteq Identities
    BY DEF Wellformed, TypeOK
  <2> USE <2>1, ConstantsAssumption DEF DeviceRow, Gens, Identities
  <2>2. CASE BeginEnrollment(d)
    <3> DEFINE row == [dev[d] EXCEPT !.gen = @ + 1, !.attested = FALSE]
    <3>1. dev' = [dev EXCEPT ![d] = row]
      BY <2>2 DEF BeginEnrollment
    <3>2. dev[d].gen + 1 \in 0 .. MaxGen
      BY <2>2 DEF BeginEnrollment
    <3>3. row \in DeviceRow
      BY <3>2
    <3> QED
      BY <2>2, <3>1, <3>3 DEF BeginEnrollment
  <2>3. CASE FinalizeAttestation(d)
    <3> DEFINE row == [dev[d] EXCEPT !.attested = TRUE, !.history = @ \cup {dev[d].gen}]
    <3>1. dev' = [dev EXCEPT ![d] = row]
      BY <2>3 DEF FinalizeAttestation
    <3>2. row \in DeviceRow
      OBVIOUS
    <3> QED
      BY <2>3, <3>1, <3>2 DEF FinalizeAttestation
  <2>4. CASE RevokeDevice(d)
    <3>1. dev' \in [Devices -> DeviceRow]
      BY <2>4 DEF RevokeDevice
    <3>2. {0, dev[d].gen} \cup dev[d].history \subseteq 0 .. MaxGen
      OBVIOUS
    <3>3. {<<d, g>> : g \in {0, dev[d].gen} \cup dev[d].history} \subseteq Devices \X (0 .. MaxGen)
      BY <3>2
    <3> QED
      BY <2>4, <3>1, <3>3 DEF RevokeDevice
  <2>5. ASSUME NEW g \in Gens, RevokeKey(d, g)
        PROVE  dev' \in [Devices -> DeviceRow] /\ revocations' \subseteq Identities
    BY <2>5 DEF RevokeKey
  <2> QED
    BY <2>2, <2>3, <2>4, <2>5
<1>2. UNCHANGED requestsAndWork
  BY DEF BeginEnrollment, FinalizeAttestation, RevokeDevice, RevokeKey
<1> QED
  BY <1>1, <1>2
  DEF Wellformed, TypeOK, HeldTask, HeldRec, requestsAndWork, requestVars, memory

LEMMA TaskWellformed ==
    ASSUME Wellformed, NEW t \in Tasks,
           TaskStep(t) \/ (\E a \in Approvals : ReadApproved(t, a))
    PROVE  Wellformed'
<1>1. /\ TypeOK
      /\ task \in [Tasks -> HeldTask]
      /\ task[t] \in HeldTask
      /\ rec \in [Recoverers -> HeldRec]
  BY DEF Wellformed
<1> DEFINE Typed == /\ request' \in [Approvals -> RequestStates]
                    /\ \A a \in Approvals : request'[a] = "APPROVED" => request[a] = "APPROVED"
                    /\ attempts' \in [AttemptIds -> Attempt]
                    /\ effects' \in [Approvals -> 0 .. 2]
                    /\ confirmed' \subseteq Approvals
                    /\ UNCHANGED <<decidedBy, overdue, semantics, deviceVars, applying,
                                   serving, rec, crashes>>
<1>2. ASSUME NEW x \in HeldTask, task' = [task EXCEPT ![t] = x], Typed
      PROVE  Wellformed'
  <2>1. task' \in [Tasks -> HeldTask]
    BY <1>1, <1>2
  <2> QED
    BY <1>1, <1>2, <2>1, WorkStepWellformed DEF WorkStep, TypeOK
<1> USE <1>1, ConstantsAssumption
<1>3. ASSUME NEW a \in Approvals, ReadApproved(t, a) PROVE Wellformed'
  <2> DEFINE next == [IdleTask EXCEPT !.pc = "gate", !.approval = a, !.device = decidedBy[a]]
  <2>1. decidedBy[a] \in Devices
    BY <1>3 DEF ReadApproved, Wellformed
  <2>2. next \in HeldTask
    BY <2>1, IdleHeld DEF HeldTask, Task
  <2> QED
    BY <1>2, <1>3, <2>2 DEF ReadApproved, TypeOK, requestVars, deviceVars, memory
<1>4. CASE PassGate(t)
  <2>1. [task[t] EXCEPT !.pc = "preflight"] \in HeldTask
    BY <1>4 DEF PassGate, HeldTask, Task
  <2> QED
    BY <1>2, <1>4, <2>1, IdleHeld DEF PassGate, TypeOK, requestVars, deviceVars, memory
<1>5. CASE Preflight(t)
  <2> DEFINE d == task[t].device
             next == [task[t] EXCEPT !.pc = "claim", !.gen = dev[d].gen]
  <2>1. next \in HeldTask
    <3>1. d \in Devices
      BY <1>5 DEF Preflight, HeldTask
    <3> QED
      BY <1>5, <3>1 DEF Preflight, HeldTask, Task, TypeOK, DeviceRow
  <2>2. task' = [task EXCEPT ![t] = next] \/ task' = [task EXCEPT ![t] = IdleTask]
    BY <1>5 DEF Preflight, HeldTask, Task
  <2>3. Typed
    BY <1>5 DEF Preflight, TypeOK, requestVars, deviceVars
  <2> QED
    BY <1>2, <2>1, <2>2, <2>3, IdleHeld
<1>6. CASE Claim(t)
  <2> DEFINE a == task[t].approval
             d == task[t].device
  <2>1. a \in Approvals /\ d \in Devices
    BY <1>6 DEF Claim, HeldTask
  <2>2. CASE ~ClaimHolds(t)
    BY <1>2, <1>6, <2>2, IdleHeld DEF Claim, TypeOK, tables, deviceVars
  <2>3. CASE ClaimHolds(t)
    <3> DEFINE new == [approval |-> a, device |-> d, gen |-> dev[d].gen, status |-> "CLAIMED",
                       owner |-> t, live |-> TRUE]
    <3>1. PICK i \in AttemptIds :
              /\ attempts' = [attempts EXCEPT ![i] = new]
              /\ task' = [task EXCEPT ![t].pc = "boundary", ![t].attempt = i]
      BY <1>6, <2>3 DEF Claim
    <3>2. new \in Attempt
      BY <2>1 DEF Attempt, TypeOK, DeviceRow, OPEN_STATUSES
    <3>3. [task[t] EXCEPT !.pc = "boundary", !.attempt = i] \in HeldTask
      BY <2>1, <3>1 DEF HeldTask, Task
    <3>4. task' = [task EXCEPT ![t] = [task[t] EXCEPT !.pc = "boundary", !.attempt = i]]
      BY <3>1 DEF HeldTask, Task
    <3>5. request' = [request EXCEPT ![a] = "EXECUTING"]
      BY <1>6, <2>3 DEF Claim
    <3>6. Typed
      BY <1>6, <3>1, <3>2, <3>5 DEF Claim, TypeOK, tables, deviceVars, RequestStates
    <3> QED
      BY <1>2, <3>3, <3>4, <3>6
  <2> QED
    BY <2>2, <2>3
<1>7. CASE BeginExternal(t)
  <2> DEFINE i == task[t].attempt
  <2>1. i \in AttemptIds /\ task[t].approval \in Approvals
    BY <1>7 DEF BeginExternal, HeldTask
  <2>2. \A pc \in {"external", "unstarted"} : [task[t] EXCEPT !.pc = pc] \in HeldTask
    BY <1>7, <2>1 DEF BeginExternal, HeldTask, Task
  <2>3. \A s \in OPEN_STATUSES \cup TERMINAL_STATUSES :
            [attempts EXCEPT ![i].status = s] \in [AttemptIds -> Attempt]
    BY <2>1 DEF TypeOK, Attempt
  <2>4. Typed
    BY <1>7, <2>1, <2>3 DEF BeginExternal, TypeOK, tables, deviceVars, memory, RequestStates,
        OPEN_STATUSES, TERMINAL_STATUSES
  <2>5. \E pc \in {"external", "unstarted"} :
            task' = [task EXCEPT ![t] = [task[t] EXCEPT !.pc = pc]]
    BY <1>7 DEF BeginExternal, HeldTask, Task
  <2> QED
    BY <1>2, <2>2, <2>4, <2>5
<1>8. CASE CloseUnstarted(t)
  <2>1. task[t].attempt \in AttemptIds
    BY <1>8 DEF CloseUnstarted, HeldTask
  <2>2. "ABANDONED" \in OPEN_STATUSES \cup TERMINAL_STATUSES
    BY DEF TERMINAL_STATUSES
  <2>3. Typed
    BY <1>8, <2>1, <2>2, FinishTyped DEF CloseUnstarted, TypeOK, tables, deviceVars, memory
  <2> QED
    BY <1>2, <1>8, <2>3, IdleHeld DEF CloseUnstarted
<1>9. CASE CallAdapter(t)
  <2>1. task[t].approval \in Approvals
    BY <1>9 DEF CallAdapter, HeldTask
  <2>2. PICK answer \in Outcomes :
            /\ AdapterAnswer(task[t].approval, answer)
            /\ task' = [task EXCEPT ![t].pc = "outcome", ![t].outcome = answer]
    BY <1>9 DEF CallAdapter
  <2>3. [task[t] EXCEPT !.pc = "outcome", !.outcome = answer] \in HeldTask
    BY <1>9, <2>1 DEF CallAdapter, HeldTask, Task
  <2>4. task' = [task EXCEPT ![t] = [task[t] EXCEPT !.pc = "outcome", !.outcome = answer]]
    BY <2>2 DEF HeldTask, Task
  <2>5. effects' \in [Approvals -> 0 .. 2]
    BY <2>1, <2>2, EffectTyped
  <2>6. Typed
    BY <1>9, <2>5 DEF CallAdapter, TypeOK, requestVars, deviceVars, memory
  <2> QED
    BY <1>2, <2>3, <2>4, <2>6
<1>10. CASE RecordRun(t)
  <2>1. task[t].attempt \in AttemptIds /\ task[t].outcome \in Outcomes
    BY <1>10 DEF RecordRun, HeldTask
  <2>2. Typed
    BY <1>10, <2>1, RecordTyped DEF RecordRun, TypeOK, tables, deviceVars, memory
  <2> QED
    BY <1>2, <1>10, <2>2, IdleHeld DEF RecordRun
<1> QED
  BY <1>3, <1>4, <1>5, <1>6, <1>7, <1>8, <1>9, <1>10 DEF TaskStep

\* What a step of one scan or recovery leaves typed, besides what it holds itself.
RecoveryStep ==
    /\ request' \in [Approvals -> RequestStates]
    /\ \A a \in Approvals : request'[a] = "APPROVED" => request[a] = "APPROVED"
    /\ attempts' \in [AttemptIds -> Attempt]
    /\ effects' \in [Approvals -> 0 .. 2]
    /\ serving' \in BOOLEAN
    /\ UNCHANGED <<decidedBy, overdue, semantics, deviceVars, applying, confirmed, task, crashes>>

LEMMA RecoveryStepWellformed ==
    ASSUME Wellformed, RecoveryStep, NEW r \in Recoverers, NEW x \in HeldRec,
           rec' = [rec EXCEPT ![r] = x]
    PROVE  Wellformed'
<1>1. rec' \in [Recoverers -> HeldRec]
  BY DEF Wellformed
<1> QED
  BY <1>1, WorkStepWellformed DEF RecoveryStep, WorkStep, Wellformed, TypeOK

LEMMA LeaseTyped ==
    ASSUME TypeOK, NEW r \in Recoverers, NEW i \in AttemptIds, AcquireLease(r, i)
    PROVE  attempts' \in [AttemptIds -> Attempt]
<1> DEFINE leased == [attempts[i] EXCEPT !.owner = r, !.live = TRUE]
<1>1. attempts[i] \in Attempt
  BY DEF TypeOK
<1>2. leased \in Attempt
  BY <1>1 DEF Attempt
<1>3. attempts' = [attempts EXCEPT ![i] = leased]
  BY <1>1 DEF AcquireLease, TypeOK, Attempt
<1> QED
  BY <1>2, <1>3 DEF TypeOK

LEMMA ScanWellformed ==
    ASSUME Wellformed, NEW s \in Scanners, ScanStep(s)
    PROVE  Wellformed'
<1>1. /\ TypeOK
      /\ s \in Recoverers
      /\ rec \in [Recoverers -> HeldRec]
      /\ rec[s] \in HeldRec
  BY DEF Wellformed, Recoverers
<1> USE <1>1, ConstantsAssumption
<1>2. CASE ScanRead(s)
  <2> DEFINE next == [rec[s] EXCEPT !.pc = "scan",
                                    !.rows = {i \in AttemptIds : attempts[i].status = "CLAIMED"}]
  <2>1. next \in HeldRec
    BY DEF HeldRec, Recoverer
  <2>2. rec' = [rec EXCEPT ![s] = next]
    BY <1>2 DEF ScanRead, HeldRec, Recoverer
  <2>3. RecoveryStep
    BY <1>2 DEF ScanRead, RecoveryStep, TypeOK, tables, memory
  <2> QED
    BY <2>1, <2>2, <2>3, RecoveryStepWellformed
<1>3. ASSUME NEW i \in AttemptIds, ScanLease(s, i) PROVE Wellformed'
  <2>1. CASE LeaseFree(i, s)
    <3> DEFINE next == [rec[s] EXCEPT !.pc = "reread", !.attempt = i, !.rows = @ \ {i}]
    <3>1. next \in HeldRec
      BY DEF HeldRec, Recoverer
    <3>2. rec' = [rec EXCEPT ![s] = next] /\ AcquireLease(s, i)
      BY <1>3, <2>1 DEF ScanLease, HeldRec, Recoverer
    <3>3. RecoveryStep
      BY <1>3, <3>2, LeaseTyped DEF ScanLease, RecoveryStep, TypeOK, tables, memory
    <3> QED
      BY <3>1, <3>2, <3>3, RecoveryStepWellformed
  <2>2. CASE ~LeaseFree(i, s)
    <3> DEFINE next == [rec[s] EXCEPT !.rows = @ \ {i}]
    <3>1. next \in HeldRec
      BY DEF HeldRec, Recoverer
    <3>2. rec' = [rec EXCEPT ![s] = next]
      BY <1>3, <2>2 DEF ScanLease
    <3>3. RecoveryStep
      BY <1>3, <2>2 DEF ScanLease, RecoveryStep, TypeOK, tables, memory
    <3> QED
      BY <3>1, <3>2, <3>3, RecoveryStepWellformed
  <2> QED
    BY <2>1, <2>2
<1>4. CASE ScanReread(s)
  <2>1. /\ [rec[s] EXCEPT !.pc = "finish"] \in HeldRec
        /\ [rec[s] EXCEPT !.pc = "scan", !.attempt = NULL] \in HeldRec
    BY <1>4 DEF ScanReread, HeldRec, Recoverer
  <2>2. \/ rec' = [rec EXCEPT ![s] = [rec[s] EXCEPT !.pc = "finish"]]
        \/ rec' = [rec EXCEPT ![s] = [rec[s] EXCEPT !.pc = "scan", !.attempt = NULL]]
    BY <1>4 DEF ScanReread
  <2>3. RecoveryStep
    BY <1>4 DEF ScanReread, RecoveryStep, TypeOK, tables, memory
  <2> QED
    BY <2>1, <2>2, <2>3, RecoveryStepWellformed
<1>5. CASE ScanFinish(s)
  <2> DEFINE next == [rec[s] EXCEPT !.pc = "scan", !.attempt = NULL]
  <2>1. rec[s].attempt \in AttemptIds /\ next \in HeldRec
    BY <1>5 DEF ScanFinish, HeldRec, Recoverer
  <2>2. rec' = [rec EXCEPT ![s] = next]
    BY <1>5 DEF ScanFinish, HeldRec, Recoverer
  <2>3. "ABANDONED" \in OPEN_STATUSES \cup TERMINAL_STATUSES
    BY DEF TERMINAL_STATUSES
  <2>4. RecoveryStep
    BY <1>5, <2>1, <2>3, FinishTyped DEF ScanFinish, RecoveryStep, TypeOK, tables, memory
  <2> QED
    BY <2>1, <2>2, <2>4, RecoveryStepWellformed
<1>6. CASE ScanDone(s)
  <2>1. \A pc \in {"orphans", "idle"} : [rec[s] EXCEPT !.pc = pc] \in HeldRec
    BY DEF HeldRec, Recoverer
  <2>2. \E pc \in {"orphans", "idle"} : rec' = [rec EXCEPT ![s] = [rec[s] EXCEPT !.pc = pc]]
    BY <1>6 DEF ScanDone
  <2>3. RecoveryStep
    BY <1>6 DEF ScanDone, RecoveryStep, TypeOK, tables, memory
  <2> QED
    BY <2>1, <2>2, <2>3, RecoveryStepWellformed
<1> QED
  BY <1>2, <1>3, <1>4, <1>5, <1>6 DEF ScanStep

LEMMA OrphansWellformed == Wellformed /\ OrphanStep => Wellformed'
<1> SUFFICES ASSUME Wellformed, OrphanStep PROVE Wellformed'
  OBVIOUS
<1>1. /\ TypeOK /\ Core \in Recoverers
      /\ rec \in [Recoverers -> HeldRec] /\ rec[Core] \in HeldRec
  BY ConstantsAssumption DEF Wellformed, Recoverers
<1>2. CASE ListOrphans
  <2> DEFINE next(S) == [rec[Core] EXCEPT !.pc = "abandon", !.orphans = S]
  <2>1. PICK S \in SUBSET Approvals :
            rec' = [rec EXCEPT ![Core].pc = "abandon", ![Core].orphans = S]
    BY <1>2 DEF ListOrphans
  <2>2. next(S) \in HeldRec
    BY <1>1 DEF HeldRec, Recoverer
  <2>3. rec' = [rec EXCEPT ![Core] = next(S)]
    BY <1>1, <2>1 DEF HeldRec, Recoverer
  <2>4. RecoveryStep
    BY <1>1, <1>2 DEF ListOrphans, RecoveryStep, TypeOK, tables, memory, RequestStates
  <2> QED
    BY <1>1, <2>2, <2>3, <2>4, RecoveryStepWellformed
<1>3. ASSUME NEW a \in Approvals, AbandonOrphan(a) PROVE Wellformed'
  <2> DEFINE next == [rec[Core] EXCEPT !.orphans = @ \ {a}]
  <2>1. next \in HeldRec
    BY <1>1 DEF HeldRec, Recoverer
  <2>2. rec' = [rec EXCEPT ![Core] = next]
    BY <1>3 DEF AbandonOrphan
  <2>3. RecoveryStep
    BY <1>1, <1>3 DEF AbandonOrphan, RecoveryStep, TypeOK, tables, memory, RequestStates
  <2> QED
    BY <1>1, <2>1, <2>2, <2>3, RecoveryStepWellformed
<1>4. CASE StartServing
  <2>1. RecoveryStep
    BY <1>1, <1>4 DEF StartServing, RecoveryStep, TypeOK, tables
  <2> QED
    BY <1>1, <1>4, <2>1, IdleHeld, RecoveryStepWellformed DEF StartServing
<1> QED
  BY <1>2, <1>3, <1>4 DEF OrphanStep

LEMMA RecoverWellformed ==
    ASSUME Wellformed, NEW r \in Admins,
           RecoverStep(r) \/ (\E i \in AttemptIds : RecoverRead(r, i))
    PROVE  Wellformed'
<1>1. /\ TypeOK
      /\ r \in Recoverers
      /\ rec \in [Recoverers -> HeldRec]
      /\ rec[r] \in HeldRec
      /\ IdleRec \in HeldRec
  BY IdleHeld DEF Wellformed, Recoverers
<1>2. ASSUME RecoveryStep, Idle(r) PROVE Wellformed'
  BY <1>1, <1>2, RecoveryStepWellformed DEF Idle
<1>3. {"ABANDONED", "UNKNOWN", "SUCCEEDED"} \subseteq OPEN_STATUSES \cup TERMINAL_STATUSES
  BY DEF OPEN_STATUSES, TERMINAL_STATUSES
<1> USE <1>1, ConstantsAssumption
<1>4. ASSUME NEW i \in AttemptIds, RecoverRead(r, i) PROVE Wellformed'
  <2> DEFINE next == [rec[r] EXCEPT !.pc = "lease", !.attempt = i, !.status = attempts[i].status]
  <2>1. next \in HeldRec
    BY <1>4 DEF RecoverRead, Open, HeldRec, Recoverer
  <2>2. rec' = [rec EXCEPT ![r] = next]
    BY <1>4 DEF RecoverRead, HeldRec, Recoverer
  <2>3. RecoveryStep
    BY <1>4 DEF RecoverRead, RecoveryStep, TypeOK, tables, memory
  <2> QED
    BY <2>1, <2>2, <2>3, RecoveryStepWellformed
<1>5. CASE RecoverLease(r)
  <2>1. rec[r].attempt \in AttemptIds
    BY <1>5 DEF RecoverLease, HeldRec
  <2>2. CASE LeaseFree(rec[r].attempt, r)
    <3>1. [rec[r] EXCEPT !.pc = "decide"] \in HeldRec
      BY <2>1 DEF HeldRec, Recoverer
    <3>2. rec' = [rec EXCEPT ![r] = [rec[r] EXCEPT !.pc = "decide"]]
      BY <1>5, <2>2 DEF RecoverLease
    <3>3. RecoveryStep
      BY <1>5, <2>1, <2>2, LeaseTyped DEF RecoverLease, RecoveryStep, TypeOK, tables, memory
    <3> QED
      BY <3>1, <3>2, <3>3, RecoveryStepWellformed
  <2>3. CASE ~LeaseFree(rec[r].attempt, r)
    BY <1>2, <1>5, <2>3 DEF RecoverLease, RecoveryStep, TypeOK, tables, memory
  <2> QED
    BY <2>2, <2>3
<1>6. CASE RecoverClose(r)
  <2>1. rec[r].attempt \in AttemptIds
    BY <1>6 DEF RecoverClose, HeldRec
  <2>2. RecoveryStep
    BY <1>3, <1>6, <2>1, FinishTyped DEF RecoverClose, RecoveryStep, TypeOK, tables, memory
  <2> QED
    BY <1>2, <1>6, <2>2 DEF RecoverClose
<1>7. CASE RecoverManually(r)
  <2>1. rec[r].attempt \in AttemptIds
    BY <1>7 DEF RecoverManually, HeldRec
  <2>2. RecoveryStep
    BY <1>3, <1>7, <2>1, FinishTyped DEF RecoverManually, RecoveryStep, TypeOK, tables, memory
  <2> QED
    BY <1>2, <1>7, <2>2 DEF RecoverManually
<1>8. CASE RecoverFurther(r)
  <2>1. rec[r].attempt \in AttemptIds
    BY <1>8 DEF RecoverFurther, HeldRec
  <2>2. \A pc \in {"reconcile", "recheck"} : [rec[r] EXCEPT !.pc = pc] \in HeldRec
    BY <2>1 DEF HeldRec, Recoverer
  <2>3. RecoveryStep
    BY <1>8 DEF RecoverFurther, RecoveryStep, TypeOK, tables, memory
  <2>4. \/ Idle(r)
        \/ \E pc \in {"reconcile", "recheck"} : rec' = [rec EXCEPT ![r] = [rec[r] EXCEPT !.pc = pc]]
    BY <1>8 DEF RecoverFurther
  <2> QED
    BY <1>2, <2>2, <2>3, <2>4, RecoveryStepWellformed
<1>9. CASE Reconcile(r)
  <2> DEFINE seen == IF effects[attempts[rec[r].attempt].approval] > 0 THEN "ok" ELSE "safe"
             next == [rec[r] EXCEPT !.pc = "reconciled", !.outcome = seen]
  <2>1. next \in HeldRec
    BY <1>9 DEF Reconcile, HeldRec, Recoverer, Outcomes
  <2>2. rec' = [rec EXCEPT ![r] = next]
    BY <1>9 DEF Reconcile, HeldRec, Recoverer
  <2>3. RecoveryStep
    BY <1>9 DEF Reconcile, RecoveryStep, TypeOK, tables, memory
  <2> QED
    BY <2>1, <2>2, <2>3, RecoveryStepWellformed
<1>10. CASE RecordReconciled(r)
  <2>1. rec[r].attempt \in AttemptIds
    BY <1>10 DEF RecordReconciled, HeldRec
  <2>2. RecoveryStep
    BY <1>3, <1>10, <2>1, FinishTyped DEF RecordReconciled, RecoveryStep, TypeOK, tables, memory
  <2> QED
    BY <1>2, <1>10, <2>2 DEF RecordReconciled
<1>11. CASE Recheck(r)
  <2>1. \A pc \in {"retry", "park"} : [rec[r] EXCEPT !.pc = pc] \in HeldRec
    BY <1>11 DEF Recheck, HeldRec, Recoverer
  <2>2. \E pc \in {"retry", "park"} : rec' = [rec EXCEPT ![r] = [rec[r] EXCEPT !.pc = pc]]
    BY <1>11 DEF Recheck
  <2>3. RecoveryStep
    BY <1>11 DEF Recheck, RecoveryStep, TypeOK, tables, memory
  <2> QED
    BY <2>1, <2>2, <2>3, RecoveryStepWellformed
<1>12. CASE Park(r)
  <2>1. rec[r].attempt \in AttemptIds
    BY <1>12 DEF Park, HeldRec
  <2>2. RecoveryStep
    BY <1>3, <1>12, <2>1, FinishTyped DEF Park, RecoveryStep, TypeOK, tables, memory
  <2> QED
    BY <1>2, <1>12, <2>2 DEF Park
<1>13. CASE Retry(r)
  <2>1. PICK answer \in Outcomes :
            /\ AdapterAnswer(attempts[rec[r].attempt].approval, answer)
            /\ rec' = [rec EXCEPT ![r].pc = "outcome", ![r].outcome = answer]
    BY <1>13 DEF Retry
  <2> DEFINE next == [rec[r] EXCEPT !.pc = "outcome", !.outcome = answer]
  <2>2. next \in HeldRec
    BY <1>13 DEF Retry, HeldRec, Recoverer
  <2>3. rec' = [rec EXCEPT ![r] = next]
    BY <2>1 DEF HeldRec, Recoverer
  <2>4. effects' \in [Approvals -> 0 .. 2]
    BY <2>1, EffectTyped
  <2>5. RecoveryStep
    BY <1>13, <2>4 DEF Retry, RecoveryStep, TypeOK, requestVars, memory
  <2> QED
    BY <2>2, <2>3, <2>5, RecoveryStepWellformed
<1>14. CASE RecordRetry(r)
  <2>1. rec[r].attempt \in AttemptIds /\ rec[r].outcome \in Outcomes
    BY <1>14 DEF RecordRetry, HeldRec
  <2>2. RecoveryStep
    BY <1>14, <2>1, RecordTyped DEF RecordRetry, RecoveryStep, TypeOK, tables, memory
  <2> QED
    BY <1>2, <1>14, <2>2 DEF RecordRetry
<1> QED
  BY <1>4, <1>5, <1>6, <1>7, <1>8, <1>9, <1>10, <1>11, <1>12, <1>13, <1>14 DEF RecoverStep

LEMMA FailureWellformed ==
    Wellformed /\ (Failure \/ \E i \in AttemptIds : LeaseLapses(i)) => Wellformed'
<1> SUFFICES ASSUME Wellformed, Failure \/ \E i \in AttemptIds : LeaseLapses(i)
             PROVE  Wellformed'
  OBVIOUS
<1>1. /\ TypeOK
      /\ task \in [Tasks -> HeldTask]
      /\ rec \in [Recoverers -> HeldRec]
      /\ IdleTask \in HeldTask /\ IdleRec \in HeldRec
  BY IdleHeld DEF Wellformed
<1>2. crashes < MaxCrashes => crashes + 1 \in 0 .. MaxCrashes
  BY <1>1, ConstantsAssumption DEF TypeOK
<1>3. ASSUME NEW i \in AttemptIds, LeaseLapses(i) PROVE WorkStep
  <2>1. [attempts[i] EXCEPT !.live = FALSE] \in Attempt
    BY <1>1 DEF TypeOK, Attempt
  <2>2. attempts' = [attempts EXCEPT ![i] = [attempts[i] EXCEPT !.live = FALSE]]
    BY <1>3 DEF LeaseLapses
  <2>3. attempts' \in [AttemptIds -> Attempt]
    BY <1>1, <2>1, <2>2 DEF TypeOK
  <2> QED
    BY <1>1, <1>3, <2>3 DEF LeaseLapses, WorkStep, TypeOK, requestVars, memory
<1>4. ASSUME NEW t \in Tasks, CancelTask(t) PROVE WorkStep
  BY <1>1, <1>2, <1>4 DEF CancelTask, WorkStep, TypeOK, requestVars, memory
<1>5. ASSUME CrashCore PROVE WorkStep
  BY <1>1, <1>2, <1>5 DEF CrashCore, WorkStep, TypeOK, requestVars, memory
<1>6. ASSUME NEW r \in Recoverers, CrashRecoverer(r) PROVE WorkStep
  BY <1>1, <1>2, <1>6 DEF CrashRecoverer, Idle, WorkStep, TypeOK, requestVars, memory
<1> QED
  BY <1>3, <1>4, <1>5, <1>6, WorkStepWellformed DEF Failure

LEMMA NextWellformed == Wellformed /\ [Next]_vars => Wellformed'
<1>1. Wellformed /\ Next => Wellformed'
  BY DecisionWellformed, DeviceWellformed, FailureWellformed, OrphansWellformed,
     TaskWellformed, ScanWellformed, RecoverWellformed
  DEF Next
<1>2. Wellformed /\ UNCHANGED vars => Wellformed'
  BY DEF vars, requestVars, deviceVars, memory, Wellformed, TypeOK, HeldTask, HeldRec
<1> QED
  BY <1>1, <1>2

\* In every reachable state, for any number of requests, devices, tasks, processes and rows,
\* the tables and all that an actor holds have their types.
THEOREM TypeCorrect == Spec => []TypeOK
<1>1. Wellformed => TypeOK
  BY DEF Wellformed
<1> QED
  BY <1>1, InitWellformed, NextWellformed, PTL DEF Spec

----------------------------------------------------------------------------
(* The journal and the requests never disagree, and what the journal has   *)
(* settled stays settled, for all parameters.                              *)

\* The states of a request that somebody has taken up.
Taken == {"EXECUTING", "CONSUMED", "FAILED"}

HasRow == {"boundary", "unstarted", "external", "outcome"}

\* JournalAgreesWithRequest is inductive once unused rows are told apart and every executor is
\* known to hold the row of its own request: begin_external_execution closes both by name.
Agreed ==
    /\ \A i \in AttemptIds : attempts[i].status = "NONE" <=> attempts[i].approval = NULL
    /\ JournalAgreesWithRequest

OwnRow ==
    \A t \in Tasks : task[t].pc \in HasRow =>
        /\ attempts[task[t].attempt].approval = task[t].approval
        /\ attempts[task[t].attempt].status # "NONE"

AgreedInv == Wellformed /\ Agreed /\ OwnRow

LEMMA InitAgreed == Init => AgreedInv
<1> SUFFICES ASSUME Init PROVE AgreedInv
  OBVIOUS
<1>1. Wellformed
  BY InitWellformed
<1>2. \A a \in Approvals : RowsOf(a) = {} /\ request[a] = "NEW"
  BY ConstantsAssumption DEF Init, RowsOf, NoAttempt
<1>3. Agreed
  BY <1>2 DEF Init, NoAttempt, Agreed, JournalAgreesWithRequest
<1>4. OwnRow
  BY DEF Init, IdleTask, OwnRow, HasRow
<1> QED
  BY <1>1, <1>3, <1>4 DEF AgreedInv

\* No row is written or moved, and no request enters or leaves the states taken up.
Quiet ==
    /\ \A i \in AttemptIds : /\ attempts'[i].approval = attempts[i].approval
                             /\ attempts'[i].status = attempts[i].status
    /\ \A a \in Approvals :
           request'[a] = request[a] \/ (request[a] \notin Taken /\ request'[a] \notin Taken)

LEMMA QuietAgreed == Agreed /\ Quiet => Agreed'
<1> SUFFICES ASSUME Agreed, Quiet PROVE Agreed'
  OBVIOUS
<1>1. \A a \in Approvals : RowsOf(a)' = RowsOf(a)
  BY DEF Quiet, RowsOf
<1>2. \A i \in AttemptIds : Open(i)' <=> Open(i)
  BY DEF Quiet, Open
<1>3. ASSUME NEW a \in Approvals
      PROVE  /\ RowsOf(a)' # {} <=> request'[a] \in Taken
             /\ \A i, j \in RowsOf(a)' : i = j
             /\ \A i \in RowsOf(a)' : /\ Open(i)' <=> request'[a] = "EXECUTING"
                                      /\ attempts'[i].status = "SUCCEEDED" <=> request'[a] = "CONSUMED"
  BY <1>1, <1>2 DEF Agreed, JournalAgreesWithRequest, Quiet, Taken, RowsOf
<1> QED
  BY <1>3 DEF Agreed, JournalAgreesWithRequest, Quiet, Taken

\* One open row moves, and its request with it.
Moves(i, status, state) ==
    /\ Open(i)
    /\ attempts'[i].status = status
    /\ \A j \in AttemptIds : /\ attempts'[j].approval = attempts[j].approval
                             /\ j # i => attempts'[j].status = attempts[j].status
    /\ request' = [request EXCEPT ![attempts[i].approval] = state]
    /\ \/ status \in OPEN_STATUSES /\ state = "EXECUTING"
       \/ status = "SUCCEEDED" /\ state = "CONSUMED"
       \/ status \in {"FAILED_SAFE", "ABANDONED"} /\ state = "FAILED"

LEMMA MovesAgreed ==
    ASSUME Wellformed, Agreed, NEW i \in AttemptIds, NEW status, NEW state, Moves(i, status, state)
    PROVE  Agreed'
<1> DEFINE b == attempts[i].approval
<1>1. b \in Approvals /\ b # NULL
  BY ConstantsAssumption DEF Wellformed, TypeOK, Attempt, Agreed, Moves, Open, OPEN_STATUSES
<1>2. \A a \in Approvals : RowsOf(a)' = RowsOf(a)
  BY DEF Moves, RowsOf
<1>3. \A j \in RowsOf(b) : j = i
  BY <1>1 DEF Agreed, JournalAgreesWithRequest, RowsOf
<1>4. \A j \in AttemptIds : j # i => (Open(j)' <=> Open(j))
  BY DEF Moves, Open
<1>5. /\ request'[b] = state
      /\ \A a \in Approvals : a # b => request'[a] = request[a]
  BY <1>1 DEF Moves, Wellformed, TypeOK
<1>6. Open(i)' <=> status \in OPEN_STATUSES
  BY DEF Moves, Open
<1>7. ASSUME NEW a \in Approvals
      PROVE  /\ RowsOf(a)' # {} <=> request'[a] \in Taken
             /\ \A j, k \in RowsOf(a)' : j = k
             /\ \A j \in RowsOf(a)' : /\ Open(j)' <=> request'[a] = "EXECUTING"
                                      /\ attempts'[j].status = "SUCCEEDED" <=> request'[a] = "CONSUMED"
  <2>1. CASE a = b
    <3>1. i \in RowsOf(b)
      BY DEF RowsOf
    <3>2. \A j \in RowsOf(a)' : j = i
      BY <1>2, <1>3, <2>1
    <3>3. /\ Open(i)' <=> state = "EXECUTING"
          /\ attempts'[i].status = "SUCCEEDED" <=> state = "CONSUMED"
          /\ state \in Taken
      BY <1>6 DEF Moves, Taken, OPEN_STATUSES
    <3> QED
      BY <1>2, <1>5, <2>1, <3>1, <3>2, <3>3
  <2>2. CASE a # b
    <3>1. i \notin RowsOf(a) /\ \A j \in RowsOf(a) : j \in AttemptIds
      BY <2>2 DEF RowsOf
    <3>2. \A j \in RowsOf(a) : attempts'[j].status = attempts[j].status
      BY <3>1 DEF Moves
    <3> QED
      BY <1>2, <1>4, <1>5, <2>2, <3>1, <3>2 DEF Agreed, JournalAgreesWithRequest, Taken
  <2> QED
    BY <2>1, <2>2
<1>8. \A j \in AttemptIds : attempts'[j].status = "NONE" <=> attempts'[j].approval = NULL
  BY <1>1 DEF Agreed, Moves, OPEN_STATUSES
<1> QED
  BY <1>7, <1>8 DEF Agreed, JournalAgreesWithRequest, Taken

----------------------------------------------------------------------------
\* No row changes hands, and no executor takes one up.
Kept ==
    /\ \A i \in AttemptIds : /\ attempts'[i].approval = attempts[i].approval
                             /\ attempts[i].status # "NONE" => attempts'[i].status # "NONE"
    /\ \A t \in Tasks : task'[t].pc \in HasRow =>
           /\ task[t].pc \in HasRow
           /\ task'[t].attempt = task[t].attempt
           /\ task'[t].approval = task[t].approval

LEMMA KeptOwnRow == Wellformed /\ OwnRow /\ Kept => OwnRow'
<1> SUFFICES ASSUME Wellformed, OwnRow, Kept, NEW t \in Tasks, task'[t].pc \in HasRow
             PROVE  /\ attempts'[task'[t].attempt].approval = task'[t].approval
                    /\ attempts'[task'[t].attempt].status # "NONE"
  BY DEF OwnRow
<1>1. task[t].pc \in HasRow /\ task[t].attempt \in AttemptIds
  BY DEF Kept, Wellformed, HeldTask, HasRow
<1> QED
  BY <1>1 DEF Kept, OwnRow

\* The three ways the callers of finish_attempt pair an outcome with a request state.
Settles(outcome, final) ==
    \/ outcome = "SUCCEEDED" /\ final = "CONSUMED"
    \/ outcome \in {"FAILED_SAFE", "ABANDONED"} /\ final = "FAILED"
    \/ outcome = "UNKNOWN" /\ final = "KEEP"

\* Rows keep their request and are never unwritten: the attempts' half of Kept.
RowsKept ==
    \A i \in AttemptIds : /\ attempts'[i].approval = attempts[i].approval
                          /\ attempts[i].status # "NONE" => attempts'[i].status # "NONE"

\* What closing or marking a row comes to.
LEMMA FinishRow ==
    ASSUME Wellformed, NEW i \in AttemptIds, NEW outcome, NEW expected, NEW final,
           FinishAttempt(i, outcome, expected, final)
    PROVE  /\ \A j \in AttemptIds : /\ attempts'[j].approval = attempts[j].approval
                                    /\ j # i => attempts'[j] = attempts[j]
           /\ \/ attempts'[i] = attempts[i] /\ UNCHANGED request
              \/ attempts'[i].status = outcome /\ attempts[i].status \in expected \cap OPEN_STATUSES
<1> DEFINE applies == /\ attempts[i].status \in expected \cap OPEN_STATUSES
                      /\ final = "KEEP" \/ request[attempts[i].approval] = "EXECUTING"
<1>1. attempts \in [AttemptIds -> Attempt] /\ attempts[i] \in Attempt
  BY DEF Wellformed, TypeOK
<1>2. CASE ~applies
  <2>1. attempts' = attempts /\ request' = request
    BY <1>2 DEF FinishAttempt
  <2> QED
    BY <2>1
<1>3. CASE applies
  <2>1. attempts' = [attempts EXCEPT ![i] = [attempts[i] EXCEPT !.status = outcome, !.owner = NULL,
                                                                !.live = FALSE]]
    BY <1>1, <1>3 DEF FinishAttempt, Attempt
  <2> QED
    BY <1>1, <1>3, <2>1 DEF Attempt
<1> QED
  BY <1>2, <1>3

LEMMA FinishAgreed ==
    ASSUME Wellformed, Agreed, NEW i \in AttemptIds, NEW outcome, NEW expected, NEW final,
           Settles(outcome, final), FinishAttempt(i, outcome, expected, final)
    PROVE  Agreed' /\ RowsKept
<1> DEFINE b == attempts[i].approval
           applies == /\ attempts[i].status \in expected \cap OPEN_STATUSES
                      /\ final = "KEEP" \/ request[b] = "EXECUTING"
<1>1. /\ attempts' = IF applies
                     THEN [attempts EXCEPT ![i].status = outcome, ![i].owner = NULL,
                                           ![i].live = FALSE]
                     ELSE attempts
      /\ request' = IF applies /\ final # "KEEP" THEN [request EXCEPT ![b] = final] ELSE request
  BY DEF FinishAttempt
<1>2. /\ attempts \in [AttemptIds -> Attempt]
      /\ attempts[i] \in Attempt
      /\ request \in [Approvals -> RequestStates]
  BY DEF Wellformed, TypeOK
<1>3. CASE ~applies
  <2>1. attempts' = attempts /\ request' = request
    BY <1>1, <1>3
  <2>2. Quiet
    BY <2>1 DEF Quiet
  <2> QED
    BY <2>1, <2>2, QuietAgreed DEF RowsKept
<1>4. CASE applies
  <2> DEFINE state == IF final = "KEEP" THEN "EXECUTING" ELSE final
  <2>1. Open(i)
    BY <1>4 DEF Open
  <2>2. i \in RowsOf(b) /\ b \in Approvals
    BY <1>2, <2>1, ConstantsAssumption DEF RowsOf, Agreed, Attempt, Open, OPEN_STATUSES
  <2>3. request[b] = "EXECUTING"
    BY <2>1, <2>2 DEF Agreed, JournalAgreesWithRequest
  <2>4. attempts' = [attempts EXCEPT ![i] = [attempts[i] EXCEPT !.status = outcome, !.owner = NULL,
                                                                !.live = FALSE]]
    BY <1>1, <1>2, <1>4 DEF Attempt
  <2>5. /\ attempts'[i].status = outcome
        /\ \A j \in AttemptIds : /\ attempts'[j].approval = attempts[j].approval
                                 /\ j # i => attempts'[j].status = attempts[j].status
    BY <1>2, <2>4 DEF Attempt
  <2>6. request' = [request EXCEPT ![b] = state]
    BY <1>1, <1>2, <1>4, <2>3 DEF Settles
  <2>7. Moves(i, outcome, state)
    BY <2>1, <2>5, <2>6 DEF Moves, Settles, OPEN_STATUSES
  <2>8. Agreed'
    BY <2>7, MovesAgreed
  <2> QED
    BY <2>5, <2>8 DEF RowsKept, Settles
<1> QED
  BY <1>3, <1>4

LEMMA RecordAgreed ==
    ASSUME Wellformed, Agreed, NEW i \in AttemptIds, NEW answer \in Outcomes,
           RecordOutcome(i, answer)
    PROVE  Agreed' /\ RowsKept
<1>1. \/ FinishAttempt(i, "SUCCEEDED", OPEN_STATUSES, "CONSUMED")
      \/ FinishAttempt(i, "FAILED_SAFE", OPEN_STATUSES, "FAILED")
      \/ FinishAttempt(i, "UNKNOWN", OPEN_STATUSES, "KEEP")
  BY DEF RecordOutcome, Outcomes
<1>2. /\ Settles("SUCCEEDED", "CONSUMED")
      /\ Settles("FAILED_SAFE", "FAILED")
      /\ Settles("UNKNOWN", "KEEP")
  BY DEF Settles
<1> QED
  BY <1>1, <1>2, FinishAgreed

LEMMA LeaseAgreed ==
    ASSUME Wellformed, Agreed, NEW r, NEW i \in AttemptIds, AcquireLease(r, i), UNCHANGED request
    PROVE  Agreed' /\ RowsKept
<1>1. attempts \in [AttemptIds -> Attempt] /\ attempts[i] \in Attempt
  BY DEF Wellformed, TypeOK
<1>2. attempts' = [attempts EXCEPT ![i] = [attempts[i] EXCEPT !.owner = r, !.live = TRUE]]
  BY <1>1 DEF AcquireLease
<1>3. \A j \in AttemptIds : /\ attempts'[j].approval = attempts[j].approval
                            /\ attempts'[j].status = attempts[j].status
  BY <1>1, <1>2 DEF Attempt
<1> QED
  BY <1>3, QuietAgreed DEF Quiet, RowsKept

\* The journal row a claim writes is the request's first.
LEMMA ClaimAgreed ==
    ASSUME AgreedInv, NEW t \in Tasks, Claim(t)
    PROVE  Agreed' /\ OwnRow'
<1> DEFINE a == task[t].approval
           d == task[t].device
<1>1. /\ attempts \in [AttemptIds -> Attempt]
      /\ request \in [Approvals -> RequestStates]
      /\ task \in [Tasks -> HeldTask]
      /\ a \in Approvals /\ a # NULL
  BY ConstantsAssumption DEF AgreedInv, Wellformed, TypeOK, HeldTask, Claim
<1>2. CASE ~ClaimHolds(t)
  <2>1. attempts' = attempts /\ request' = request /\ task' = [task EXCEPT ![t] = IdleTask]
    BY <1>2 DEF Claim
  <2>2. Quiet /\ Kept
    BY <1>1, <2>1 DEF Quiet, Kept, IdleTask, HasRow
  <2> QED
    BY <2>2, QuietAgreed, KeptOwnRow DEF AgreedInv
<1>3. CASE ClaimHolds(t)
  <2> DEFINE new == [approval |-> a, device |-> d, gen |-> dev[d].gen, status |-> "CLAIMED",
                     owner |-> t, live |-> TRUE]
  <2>1. PICK i \in AttemptIds :
            /\ attempts[i].status = "NONE"
            /\ attempts' = [attempts EXCEPT ![i] = new]
            /\ task' = [task EXCEPT ![t].pc = "boundary", ![t].attempt = i]
    BY <1>3 DEF Claim
  <2>2. request[a] = "APPROVED" /\ request' = [request EXCEPT ![a] = "EXECUTING"]
    BY <1>3 DEF Claim, ClaimHolds
  <2>3. RowsOf(a) = {}
    BY <1>1, <2>2 DEF AgreedInv, Agreed, JournalAgreesWithRequest
  <2>4. attempts[i].approval = NULL
    BY <2>1 DEF AgreedInv, Agreed
  <2>5. /\ attempts'[i].approval = a /\ attempts'[i].status = "CLAIMED"
        /\ \A j \in AttemptIds : j # i => attempts'[j] = attempts[j]
    BY <1>1, <2>1
  <2>6. \A j \in AttemptIds : j # i => (Open(j)' <=> Open(j))
    BY <2>5 DEF Open
  <2>7. ASSUME NEW c \in Approvals
        PROVE  /\ RowsOf(c)' # {} <=> request'[c] \in Taken
               /\ \A j, k \in RowsOf(c)' : j = k
               /\ \A j \in RowsOf(c)' :
                      /\ Open(j)' <=> request'[c] = "EXECUTING"
                      /\ attempts'[j].status = "SUCCEEDED" <=> request'[c] = "CONSUMED"
    <3>1. CASE c = a
      <4>1. RowsOf(c)' = {i}
        BY <2>3, <2>5, <3>1 DEF RowsOf
      <4>2. Open(i)' /\ request'[c] = "EXECUTING"
        BY <1>1, <2>2, <2>5, <3>1 DEF Open, OPEN_STATUSES
      <4> QED
        BY <2>5, <4>1, <4>2 DEF Taken
    <3>2. CASE c # a
      <4>1. RowsOf(c)' = RowsOf(c) /\ i \notin RowsOf(c)
        BY <1>1, <2>4, <2>5, <3>2, ConstantsAssumption DEF RowsOf
      <4>2. request'[c] = request[c]
        BY <1>1, <2>2, <3>2
      <4>3. \A j \in RowsOf(c) : j \in AttemptIds /\ j # i
        BY <4>1 DEF RowsOf
      <4> QED
        BY <2>5, <2>6, <4>1, <4>2, <4>3 DEF AgreedInv, Agreed, JournalAgreesWithRequest, Taken
    <3> QED
      BY <3>1, <3>2
  <2>8. \A j \in AttemptIds : attempts'[j].status = "NONE" <=> attempts'[j].approval = NULL
    BY <1>1, <2>5 DEF AgreedInv, Agreed
  <2>9. Agreed'
    BY <2>7, <2>8 DEF Agreed, JournalAgreesWithRequest, Taken
  <2>10. ASSUME NEW u \in Tasks, task'[u].pc \in HasRow
         PROVE  /\ attempts'[task'[u].attempt].approval = task'[u].approval
                /\ attempts'[task'[u].attempt].status # "NONE"
    <3>1. CASE u = t
      <4>1. task' = [task EXCEPT ![t] = [task[t] EXCEPT !.pc = "boundary", !.attempt = i]]
        BY <1>1, <2>1 DEF HeldTask, Task
      <4>2. task'[u].attempt = i /\ task'[u].approval = a
        BY <1>1, <3>1, <4>1 DEF HeldTask, Task
      <4> QED
        BY <2>5, <4>2
    <3>2. CASE u # t
      <4>1. task'[u] = task[u]
        BY <1>1, <2>1, <3>2
      <4>2. task[u].attempt \in AttemptIds /\ attempts[task[u].attempt].status # "NONE"
        BY <1>1, <2>10, <4>1 DEF HeldTask, HasRow, AgreedInv, OwnRow
      <4>3. task[u].attempt # i
        BY <2>1, <4>2
      <4> QED
        BY <2>5, <2>10, <4>1, <4>2, <4>3 DEF AgreedInv, OwnRow
    <3> QED
      BY <3>1, <3>2
  <2> QED
    BY <2>9, <2>10 DEF OwnRow
<1> QED
  BY <1>2, <1>3

\* Everything else an executor does.
LEMMA TaskAgreed ==
    ASSUME AgreedInv, NEW t \in Tasks,
           TaskStep(t) \/ (\E a \in Approvals : ReadApproved(t, a))
    PROVE  Agreed' /\ OwnRow'
<1>1. /\ Wellformed /\ Agreed /\ OwnRow
      /\ task \in [Tasks -> HeldTask]
      /\ task[t] \in HeldTask
      /\ attempts \in [AttemptIds -> Attempt]
      /\ request \in [Approvals -> RequestStates]
  BY DEF AgreedInv, Wellformed, TypeOK
<1>2. ASSUME UNCHANGED <<attempts, request>>, NEW x, task' = [task EXCEPT ![t] = x],
             x.pc \in HasRow => /\ task[t].pc \in HasRow
                                /\ x.attempt = task[t].attempt
                                /\ x.approval = task[t].approval
      PROVE  Agreed' /\ OwnRow'
  <2>1. Quiet /\ Kept
    BY <1>1, <1>2 DEF Quiet, Kept
  <2> QED
    BY <1>1, <2>1, QuietAgreed, KeptOwnRow
<1>3. ASSUME Agreed', RowsKept, task' = [task EXCEPT ![t] = IdleTask]
      PROVE  Agreed' /\ OwnRow'
  <2>1. Kept
    BY <1>1, <1>3 DEF Kept, RowsKept, IdleTask, HasRow
  <2> QED
    BY <1>1, <1>3, <2>1, KeptOwnRow
<1>4. ASSUME NEW a \in Approvals, ReadApproved(t, a) PROVE Agreed' /\ OwnRow'
  BY <1>2, <1>4 DEF ReadApproved, IdleTask, HasRow, requestVars
<1>5. CASE PassGate(t)
  <2>1. \/ task' = [task EXCEPT ![t] = [task[t] EXCEPT !.pc = "preflight"]]
        \/ task' = [task EXCEPT ![t] = IdleTask]
    BY <1>5 DEF PassGate
  <2>2. [task[t] EXCEPT !.pc = "preflight"].pc \notin HasRow /\ IdleTask.pc \notin HasRow
    BY <1>1 DEF HeldTask, Task, IdleTask, HasRow
  <2> QED
    BY <1>2, <1>5, <2>1, <2>2 DEF PassGate, requestVars
<1>6. CASE Preflight(t)
  <2> DEFINE next == [task[t] EXCEPT !.pc = "claim", !.gen = dev[task[t].device].gen]
  <2>1. task' = [task EXCEPT ![t] = next] \/ task' = [task EXCEPT ![t] = IdleTask]
    BY <1>1, <1>6 DEF Preflight, HeldTask, Task
  <2>2. next.pc \notin HasRow /\ IdleTask.pc \notin HasRow
    BY <1>1 DEF HeldTask, Task, IdleTask, HasRow
  <2> QED
    BY <1>2, <1>6, <2>1, <2>2 DEF Preflight, requestVars
<1>7. CASE Claim(t)
  BY <1>7, ClaimAgreed
<1>8. CASE BeginExternal(t)
  <2> DEFINE i == task[t].attempt
             ends == \/ task' = [task EXCEPT ![t] = [task[t] EXCEPT !.pc = "external"]]
                     \/ task' = [task EXCEPT ![t] = [task[t] EXCEPT !.pc = "unstarted"]]
  <2>1. task[t].pc \in HasRow /\ i \in AttemptIds /\ attempts[i].approval = task[t].approval
    BY <1>1, <1>8 DEF BeginExternal, HeldTask, HasRow, OwnRow
  <2>2. ends
    BY <1>1, <1>8 DEF BeginExternal, HeldTask, Task
  <2>3. ASSUME RowsKept, Agreed' PROVE Agreed' /\ OwnRow'
    <3>1. Kept
      BY <1>1, <2>1, <2>2, <2>3 DEF Kept, RowsKept, HeldTask, Task
    <3> QED
      BY <1>1, <2>3, <3>1, KeptOwnRow
  <2>4. ASSUME attempts[i].status = "CLAIMED",
               NEW status, NEW state,
               \/ status = "EXTERNAL_PENDING" /\ state = "EXECUTING" /\ UNCHANGED request
               \/ /\ status = "ABANDONED" /\ state = "FAILED"
                  /\ request' = [request EXCEPT ![task[t].approval] = state],
               attempts' = [attempts EXCEPT ![i].status = status]
        PROVE  Agreed' /\ OwnRow'
    <3>1. Open(i)
      BY <2>4 DEF Open, OPEN_STATUSES
    <3>2. request[attempts[i].approval] = "EXECUTING" /\ attempts[i].approval \in Approvals
      <4>1. attempts[i].approval \in Approvals
        BY <1>1, <1>8, <2>1 DEF BeginExternal, HeldTask
      <4> QED
        BY <1>1, <2>1, <3>1, <4>1 DEF Agreed, JournalAgreesWithRequest, RowsOf
    <3>3. attempts' = [attempts EXCEPT ![i] = [attempts[i] EXCEPT !.status = status]]
      BY <1>1, <2>4
    <3>4. /\ attempts'[i].status = status
          /\ \A j \in AttemptIds : /\ attempts'[j].approval = attempts[j].approval
                                   /\ j # i => attempts'[j].status = attempts[j].status
      BY <1>1, <2>1, <3>3 DEF Attempt
    <3>5. request' = [request EXCEPT ![attempts[i].approval] = state]
      BY <1>1, <2>1, <2>4, <3>2
    <3>6. Moves(i, status, state)
      BY <2>4, <3>1, <3>4, <3>5 DEF Moves, OPEN_STATUSES
    <3>7. RowsKept
      BY <2>4, <3>4 DEF RowsKept
    <3> QED
      BY <1>1, <2>1, <2>3, <3>6, <3>7, MovesAgreed
  <2>5. CASE attempts[i].status = "CLAIMED"
    BY <1>8, <2>4, <2>5 DEF BeginExternal
  <2>6. CASE attempts[i].status # "CLAIMED"
    <3>1. UNCHANGED <<attempts, request>>
      BY <1>8, <2>6 DEF BeginExternal
    <3>2. Quiet /\ RowsKept
      BY <3>1 DEF Quiet, RowsKept
    <3> QED
      BY <1>1, <2>3, <3>2, QuietAgreed
  <2> QED
    BY <2>5, <2>6
<1>9. CASE CloseUnstarted(t)
  <2>1. task[t].attempt \in AttemptIds
    BY <1>1, <1>9 DEF CloseUnstarted, HeldTask
  <2>2. Settles("ABANDONED", "FAILED")
    BY DEF Settles
  <2> QED
    BY <1>1, <1>3, <1>9, <2>1, <2>2, FinishAgreed DEF CloseUnstarted
<1>10. CASE CallAdapter(t)
  <2>1. PICK answer \in Outcomes : task' = [task EXCEPT ![t].pc = "outcome", ![t].outcome = answer]
    BY <1>10 DEF CallAdapter
  <2>2. task' = [task EXCEPT ![t] = [task[t] EXCEPT !.pc = "outcome", !.outcome = answer]]
    BY <1>1, <2>1 DEF HeldTask, Task
  <2>3. task[t].pc \in HasRow
    BY <1>10 DEF CallAdapter, HasRow
  <2>4. /\ [task[t] EXCEPT !.pc = "outcome", !.outcome = answer].attempt = task[t].attempt
        /\ [task[t] EXCEPT !.pc = "outcome", !.outcome = answer].approval = task[t].approval
    BY <1>1 DEF HeldTask, Task
  <2> QED
    BY <1>2, <1>10, <2>2, <2>3, <2>4 DEF CallAdapter, requestVars
<1>11. CASE RecordRun(t)
  <2>1. task[t].attempt \in AttemptIds /\ task[t].outcome \in Outcomes
    BY <1>1, <1>11 DEF RecordRun, HeldTask
  <2> QED
    BY <1>1, <1>3, <1>11, <2>1, RecordAgreed DEF RecordRun
<1> QED
  BY <1>4, <1>5, <1>6, <1>7, <1>8, <1>9, <1>10, <1>11 DEF TaskStep

\* Scans and recoveries close rows and take leases; no executor's hold changes.
LEMMA RecoveryAgreed ==
    ASSUME AgreedInv,
           \/ \E s \in Scanners : ScanStep(s)
           \/ \E r \in Admins : RecoverStep(r) \/ \E i \in AttemptIds : RecoverRead(r, i)
    PROVE  Agreed' /\ OwnRow'
<1>1. /\ Wellformed /\ Agreed /\ OwnRow
      /\ rec \in [Recoverers -> HeldRec]
  BY DEF AgreedInv, Wellformed
<1>2. ASSUME UNCHANGED <<attempts, request, task>> PROVE Agreed' /\ OwnRow'
  <2>1. Quiet /\ Kept
    BY <1>2 DEF Quiet, Kept
  <2> QED
    BY <1>1, <2>1, QuietAgreed, KeptOwnRow
<1>3. ASSUME Agreed', RowsKept, UNCHANGED task PROVE Agreed' /\ OwnRow'
  <2>1. Kept
    BY <1>3 DEF Kept, RowsKept
  <2> QED
    BY <1>1, <1>3, <2>1, KeptOwnRow
<1>4. /\ Settles("ABANDONED", "FAILED")
      /\ Settles("SUCCEEDED", "CONSUMED")
      /\ Settles("UNKNOWN", "KEEP")
  BY DEF Settles
<1>5. ASSUME NEW s \in Scanners, ScanStep(s) PROVE Agreed' /\ OwnRow'
  <2>1. rec[s] \in HeldRec
    BY <1>1 DEF Recoverers
  <2>2. CASE ScanRead(s) \/ ScanReread(s) \/ ScanDone(s)
    BY <1>2, <2>2 DEF ScanRead, ScanReread, ScanDone
  <2>3. CASE ScanFinish(s)
    <3>1. rec[s].attempt \in AttemptIds
      BY <2>1, <2>3 DEF ScanFinish, HeldRec
    <3> QED
      BY <1>1, <1>3, <1>4, <2>3, <3>1, FinishAgreed DEF ScanFinish
  <2>4. ASSUME NEW i \in AttemptIds, ScanLease(s, i) PROVE Agreed' /\ OwnRow'
    <3>1. CASE LeaseFree(i, s)
      BY <1>1, <1>3, <2>4, <3>1, LeaseAgreed DEF ScanLease
    <3>2. CASE ~LeaseFree(i, s)
      BY <1>2, <2>4, <3>2 DEF ScanLease
    <3> QED
      BY <3>1, <3>2
  <2> QED
    BY <1>5, <2>2, <2>3, <2>4 DEF ScanStep
<1>6. ASSUME NEW r \in Admins, RecoverStep(r) \/ \E i \in AttemptIds : RecoverRead(r, i)
      PROVE  Agreed' /\ OwnRow'
  <2>1. rec[r] \in HeldRec
    BY <1>1 DEF Recoverers
  <2>2. rec[r].pc \notin {"idle", "scan", "orphans", "abandon"} => rec[r].attempt \in AttemptIds
    BY <2>1 DEF HeldRec
  <2>3. CASE \/ RecoverFurther(r) \/ Reconcile(r) \/ Recheck(r) \/ Retry(r)
             \/ \E i \in AttemptIds : RecoverRead(r, i)
    BY <1>2, <2>3 DEF RecoverFurther, Reconcile, Recheck, Retry, RecoverRead, requestVars
  <2>4. CASE RecoverLease(r)
    <3>1. CASE LeaseFree(rec[r].attempt, r)
      BY <1>1, <1>3, <2>2, <2>4, <3>1, LeaseAgreed DEF RecoverLease
    <3>2. CASE ~LeaseFree(rec[r].attempt, r)
      BY <1>2, <2>4, <3>2 DEF RecoverLease
    <3> QED
      BY <3>1, <3>2
  <2>5. CASE RecoverClose(r)
    BY <1>1, <1>3, <1>4, <2>2, <2>5, FinishAgreed DEF RecoverClose
  <2>6. CASE RecoverManually(r)
    BY <1>1, <1>3, <1>4, <2>2, <2>6, FinishAgreed DEF RecoverManually
  <2>7. CASE RecordReconciled(r)
    BY <1>1, <1>3, <1>4, <2>2, <2>7, FinishAgreed DEF RecordReconciled
  <2>8. CASE Park(r)
    BY <1>1, <1>3, <1>4, <2>2, <2>8, FinishAgreed DEF Park
  <2>9. CASE RecordRetry(r)
    <3>1. rec[r].outcome \in Outcomes /\ rec[r].attempt \in AttemptIds
      BY <2>1, <2>9 DEF RecordRetry, HeldRec
    <3> QED
      BY <1>1, <1>3, <2>9, <3>1, RecordAgreed DEF RecordRetry
  <2> QED
    BY <1>6, <2>3, <2>4, <2>5, <2>6, <2>7, <2>8, <2>9 DEF RecoverStep
<1> QED
  BY <1>5, <1>6

\* Decisions, sweeps, devices, failures and time leave the journal's statuses alone, and no
\* request enters or leaves the states taken up.
LEMMA OthersAgreed ==
    ASSUME AgreedInv,
           \/ DecisionStep \/ DeviceStep \/ Failure \/ OrphanStep
           \/ \E i \in AttemptIds : LeaseLapses(i)
    PROVE  Agreed' /\ OwnRow'
<1>1. /\ Wellformed /\ Agreed /\ OwnRow
      /\ request \in [Approvals -> RequestStates]
      /\ attempts \in [AttemptIds -> Attempt]
      /\ task \in [Tasks -> HeldTask]
  BY DEF AgreedInv, Wellformed, TypeOK
<1>2. ASSUME Quiet, Kept PROVE Agreed' /\ OwnRow'
  BY <1>1, <1>2, QuietAgreed, KeptOwnRow
<1>3. CASE DecisionStep
  <2>1. UNCHANGED <<attempts, task>>
    BY <1>3 DEF DecisionStep, ExpireDue, CreateRequest, ConfirmToGate, DeadlinePasses, Abandon,
        CommitApprove, CommitDeny, elsewhere
  <2>2. ASSUME NEW a \in Approvals
        PROVE  request'[a] = request[a] \/ (request[a] \notin Taken /\ request'[a] \notin Taken)
    <3>1. CASE ExpireDue
      BY <3>1 DEF ExpireDue, Taken
    <3>2. ASSUME NEW b \in Approvals, CreateRequest(b) \/ ConfirmToGate(b) \/ DeadlinePasses(b)
                                      \/ Abandon(b)
          PROVE  request'[a] = request[a] \/ (request[a] \notin Taken /\ request'[a] \notin Taken)
      BY <1>1, <3>2 DEF CreateRequest, ConfirmToGate, DeadlinePasses, Abandon, requestVars, Taken
    <3>3. ASSUME NEW b \in Approvals, NEW d \in Devices, CommitApprove(b, d) \/ CommitDeny(b, d)
          PROVE  request'[a] = request[a] \/ (request[a] \notin Taken /\ request'[a] \notin Taken)
      BY <1>1, <3>3 DEF CommitApprove, CommitDeny, Taken
    <3> QED
      BY <1>3, <3>1, <3>2, <3>3 DEF DecisionStep
  <2>3. Quiet /\ Kept
    BY <2>1, <2>2 DEF Quiet, Kept
  <2> QED
    BY <1>2, <2>3
<1>4. CASE DeviceStep
  <2>1. UNCHANGED <<attempts, task, request>>
    BY <1>4 DEF DeviceStep, BeginEnrollment, FinalizeAttestation, RevokeDevice, RevokeKey,
        requestsAndWork, requestVars
  <2>2. Quiet /\ Kept
    BY <2>1 DEF Quiet, Kept
  <2> QED
    BY <1>2, <2>2
<1>5. CASE Failure
  <2>1. UNCHANGED <<attempts, request>>
    BY <1>5 DEF Failure, CrashCore, CancelTask, CrashRecoverer, requestVars
  <2>2. \A t \in Tasks : task'[t] = task[t] \/ task'[t] = IdleTask
    BY <1>1, <1>5 DEF Failure, CrashCore, CancelTask, CrashRecoverer
  <2>3. Quiet /\ Kept
    BY <2>1, <2>2 DEF Quiet, Kept, IdleTask, HasRow
  <2> QED
    BY <1>2, <2>3
<1>6. CASE OrphanStep
  <2>1. UNCHANGED <<attempts, task>>
    BY <1>6 DEF OrphanStep, ListOrphans, AbandonOrphan, StartServing
  <2>2. ASSUME NEW a \in Approvals
        PROVE  request'[a] = request[a] \/ (request[a] \notin Taken /\ request'[a] \notin Taken)
    BY <1>1, <1>6 DEF OrphanStep, ListOrphans, AbandonOrphan, StartServing, Taken
  <2>3. Quiet /\ Kept
    BY <2>1, <2>2 DEF Quiet, Kept
  <2> QED
    BY <1>2, <2>3
<1>7. ASSUME NEW i \in AttemptIds, LeaseLapses(i) PROVE Agreed' /\ OwnRow'
  <2>1. attempts' = [attempts EXCEPT ![i] = [attempts[i] EXCEPT !.live = FALSE]]
    BY <1>7 DEF LeaseLapses
  <2>2. \A j \in AttemptIds : /\ attempts'[j].approval = attempts[j].approval
                              /\ attempts'[j].status = attempts[j].status
    BY <1>1, <2>1 DEF Attempt
  <2>3. Quiet /\ Kept
    BY <1>7, <2>2 DEF LeaseLapses, requestVars, Quiet, Kept
  <2> QED
    BY <1>2, <2>3
<1> QED
  BY <1>3, <1>4, <1>5, <1>6, <1>7

LEMMA NextAgreed == AgreedInv /\ [Next]_vars => AgreedInv'
<1> SUFFICES ASSUME AgreedInv, [Next]_vars PROVE AgreedInv'
  OBVIOUS
<1>1. Wellformed'
  BY NextWellformed DEF AgreedInv
<1>2. CASE Next
  <2>1. Agreed' /\ OwnRow'
    BY <1>2, TaskAgreed, RecoveryAgreed, OthersAgreed DEF Next
  <2> QED
    BY <1>1, <2>1 DEF AgreedInv
<1>3. CASE UNCHANGED vars
  <2>1. UNCHANGED <<attempts, task, request>>
    BY <1>3 DEF vars, requestVars
  <2>2. Quiet /\ Kept
    BY <2>1 DEF Quiet, Kept
  <2> QED
    BY <1>1, <2>2, QuietAgreed, KeptOwnRow DEF AgreedInv
<1> QED
  BY <1>2, <1>3

\* However many tasks, scans, recoveries, crashes and lapsed leases there are: a request is taken
\* up by at most one journal row, and its state says how that row stands.
THEOREM JournalAgreement == Spec => []JournalAgreesWithRequest
<1>1. AgreedInv => JournalAgreesWithRequest
  BY DEF AgreedInv, Agreed
<1> QED
  BY <1>1, InitAgreed, NextAgreed, PTL DEF Spec

-----------------------------------------------------------------------------
(* What the journal has settled stays settled.                             *)

\* The step formula of ClosedIsFinal, in two halves.
RowsStay ==
    \A i \in AttemptIds :
        /\ attempts[i].status \in TERMINAL_STATUSES => attempts'[i].status = attempts[i].status
        /\ attempts[i].status \in {"EXTERNAL_PENDING", "UNKNOWN"} =>
               attempts'[i].status \notin {"NONE", "CLAIMED"}

RequestsStay ==
    \A a \in Approvals :
        request[a] \in {"DENIED", "EXPIRED", "CONSUMED", "FAILED"} => request'[a] = request[a]

Stay == RowsStay /\ RequestsStay

LEMMA SameStay ==
    ASSUME \A i \in AttemptIds : attempts'[i].status = attempts[i].status, UNCHANGED request
    PROVE  Stay
  BY DEF Stay, RowsStay, RequestsStay

LEMMA FinishStays ==
    ASSUME Wellformed, NEW i \in AttemptIds, NEW outcome, NEW expected, NEW final,
           Settles(outcome, final), FinishAttempt(i, outcome, expected, final)
    PROVE  Stay
<1> DEFINE b == attempts[i].approval
           applies == /\ attempts[i].status \in expected \cap OPEN_STATUSES
                      /\ final = "KEEP" \/ request[b] = "EXECUTING"
<1>1. /\ attempts' = IF applies
                     THEN [attempts EXCEPT ![i].status = outcome, ![i].owner = NULL,
                                           ![i].live = FALSE]
                     ELSE attempts
      /\ request' = IF applies /\ final # "KEEP" THEN [request EXCEPT ![b] = final] ELSE request
  BY DEF FinishAttempt
<1>2. /\ attempts \in [AttemptIds -> Attempt] /\ attempts[i] \in Attempt
      /\ request \in [Approvals -> RequestStates]
  BY DEF Wellformed, TypeOK
<1>3. RequestsStay
  <2>1. ASSUME NEW a \in Approvals, request[a] \in {"DENIED", "EXPIRED", "CONSUMED", "FAILED"}
        PROVE  request'[a] = request[a]
    BY <1>1, <1>2, <2>1
  <2> QED
    BY <2>1 DEF RequestsStay
<1>4. CASE ~applies
  BY <1>1, <1>4, SameStay
<1>5. CASE applies
  <2>1. attempts' = [attempts EXCEPT ![i] = [attempts[i] EXCEPT !.status = outcome, !.owner = NULL,
                                                                !.live = FALSE]]
    BY <1>1, <1>2, <1>5 DEF Attempt
  <2>2. /\ attempts'[i].status = outcome
        /\ \A j \in AttemptIds : j # i => attempts'[j] = attempts[j]
    BY <1>2, <2>1 DEF Attempt
  <2>3. outcome \notin {"NONE", "CLAIMED"}
    BY DEF Settles
  <2>4. attempts[i].status \notin TERMINAL_STATUSES
    BY <1>5 DEF OPEN_STATUSES, TERMINAL_STATUSES
  <2>5. RowsStay
    BY <2>2, <2>3, <2>4 DEF RowsStay
  <2> QED
    BY <1>3, <2>5 DEF Stay
<1> QED
  BY <1>4, <1>5

LEMMA RecordStays ==
    ASSUME Wellformed, NEW i \in AttemptIds, NEW answer \in Outcomes, RecordOutcome(i, answer)
    PROVE  Stay
<1>1. \/ FinishAttempt(i, "SUCCEEDED", OPEN_STATUSES, "CONSUMED")
      \/ FinishAttempt(i, "FAILED_SAFE", OPEN_STATUSES, "FAILED")
      \/ FinishAttempt(i, "UNKNOWN", OPEN_STATUSES, "KEEP")
  BY DEF RecordOutcome, Outcomes
<1> QED
  BY <1>1, FinishStays DEF Settles

LEMMA LeaseStays ==
    ASSUME Wellformed, NEW r, NEW i \in AttemptIds, AcquireLease(r, i), UNCHANGED request
    PROVE  Stay
<1>1. attempts \in [AttemptIds -> Attempt] /\ attempts[i] \in Attempt
  BY DEF Wellformed, TypeOK
<1>2. attempts' = [attempts EXCEPT ![i] = [attempts[i] EXCEPT !.owner = r, !.live = TRUE]]
  BY <1>1 DEF AcquireLease
<1>3. \A j \in AttemptIds : attempts'[j].status = attempts[j].status
  BY <1>1, <1>2 DEF Attempt
<1> QED
  BY <1>3, SameStay

LEMMA TaskStays ==
    ASSUME AgreedInv, NEW t \in Tasks,
           TaskStep(t) \/ (\E a \in Approvals : ReadApproved(t, a))
    PROVE  Stay
<1>1. /\ Wellformed /\ Agreed /\ OwnRow
      /\ task \in [Tasks -> HeldTask]
      /\ task[t] \in HeldTask
      /\ attempts \in [AttemptIds -> Attempt]
      /\ request \in [Approvals -> RequestStates]
  BY DEF AgreedInv, Wellformed, TypeOK
<1>2. CASE \/ PassGate(t) \/ Preflight(t) \/ CallAdapter(t)
           \/ \E a \in Approvals : ReadApproved(t, a)
  BY <1>2, SameStay DEF PassGate, Preflight, CallAdapter, ReadApproved, requestVars
<1>3. CASE Claim(t)
  <2>1. CASE ~ClaimHolds(t)
    BY <1>3, <2>1, SameStay DEF Claim
  <2>2. CASE ClaimHolds(t)
    <3>1. PICK i \in AttemptIds :
              /\ attempts[i].status = "NONE"
              /\ \A j \in AttemptIds : j # i => attempts'[j] = attempts[j]
      BY <1>1, <1>3, <2>2 DEF Claim
    <3>2. /\ request[task[t].approval] = "APPROVED"
          /\ request' = [request EXCEPT ![task[t].approval] = "EXECUTING"]
      BY <1>3, <2>2 DEF Claim, ClaimHolds
    <3>3. RowsStay
      BY <3>1 DEF RowsStay, TERMINAL_STATUSES
    <3>4. RequestsStay
      BY <1>1, <3>2 DEF RequestsStay
    <3> QED
      BY <3>3, <3>4 DEF Stay
  <2> QED
    BY <2>1, <2>2
<1>4. CASE BeginExternal(t)
  <2> DEFINE i == task[t].attempt
             b == task[t].approval
  <2>1. i \in AttemptIds /\ b \in Approvals /\ attempts[i].approval = b
    BY <1>1, <1>4 DEF BeginExternal, HeldTask, HasRow, OwnRow
  <2>2. CASE attempts[i].status # "CLAIMED"
    BY <1>4, <2>2, SameStay DEF BeginExternal
  <2>3. CASE attempts[i].status = "CLAIMED"
    <3>1. request[b] = "EXECUTING"
      BY <1>1, <2>1, <2>3 DEF Agreed, JournalAgreesWithRequest, RowsOf, Open, OPEN_STATUSES
    <3>2. \A j \in AttemptIds : j # i => attempts'[j] = attempts[j]
      BY <1>1, <1>4, <2>3 DEF BeginExternal
    <3>3. request' = request \/ request' = [request EXCEPT ![b] = "FAILED"]
      BY <1>4, <2>3 DEF BeginExternal
    <3>4. RowsStay
      BY <2>3, <3>2 DEF RowsStay, TERMINAL_STATUSES
    <3>5. RequestsStay
      BY <1>1, <3>1, <3>3 DEF RequestsStay
    <3> QED
      BY <3>4, <3>5 DEF Stay
  <2> QED
    BY <2>2, <2>3
<1>5. CASE CloseUnstarted(t)
  <2>1. task[t].attempt \in AttemptIds /\ Settles("ABANDONED", "FAILED")
    BY <1>1, <1>5 DEF CloseUnstarted, HeldTask, Settles
  <2> QED
    BY <1>1, <1>5, <2>1, FinishStays DEF CloseUnstarted
<1>6. CASE RecordRun(t)
  <2>1. task[t].attempt \in AttemptIds /\ task[t].outcome \in Outcomes
    BY <1>1, <1>6 DEF RecordRun, HeldTask
  <2> QED
    BY <1>1, <1>6, <2>1, RecordStays DEF RecordRun
<1> QED
  BY <1>2, <1>3, <1>4, <1>5, <1>6 DEF TaskStep

LEMMA RecoveryStays ==
    ASSUME AgreedInv,
           \/ \E s \in Scanners : ScanStep(s)
           \/ \E r \in Admins : RecoverStep(r) \/ \E i \in AttemptIds : RecoverRead(r, i)
    PROVE  Stay
<1>1. Wellformed /\ rec \in [Recoverers -> HeldRec]
  BY DEF AgreedInv, Wellformed
<1>2. /\ Settles("ABANDONED", "FAILED")
      /\ Settles("SUCCEEDED", "CONSUMED")
      /\ Settles("UNKNOWN", "KEEP")
  BY DEF Settles
<1>3. ASSUME NEW s \in Scanners, ScanStep(s) PROVE Stay
  <2>1. rec[s] \in HeldRec
    BY <1>1 DEF Recoverers
  <2>2. CASE ScanRead(s) \/ ScanReread(s) \/ ScanDone(s)
    BY <2>2, SameStay DEF ScanRead, ScanReread, ScanDone
  <2>3. CASE ScanFinish(s)
    <3>1. rec[s].attempt \in AttemptIds
      BY <2>1, <2>3 DEF ScanFinish, HeldRec
    <3> QED
      BY <1>1, <1>2, <2>3, <3>1, FinishStays DEF ScanFinish
  <2>4. ASSUME NEW i \in AttemptIds, ScanLease(s, i) PROVE Stay
    BY <1>1, <2>4, LeaseStays, SameStay DEF ScanLease
  <2> QED
    BY <1>3, <2>2, <2>3, <2>4 DEF ScanStep
<1>4. ASSUME NEW r \in Admins, RecoverStep(r) \/ \E i \in AttemptIds : RecoverRead(r, i)
      PROVE  Stay
  <2>1. rec[r] \in HeldRec
    BY <1>1 DEF Recoverers
  <2>2. rec[r].pc \notin {"idle", "scan", "orphans", "abandon"} => rec[r].attempt \in AttemptIds
    BY <2>1 DEF HeldRec
  <2>3. CASE \/ RecoverFurther(r) \/ Reconcile(r) \/ Recheck(r) \/ Retry(r)
             \/ \E i \in AttemptIds : RecoverRead(r, i)
    BY <2>3, SameStay DEF RecoverFurther, Reconcile, Recheck, Retry, RecoverRead, requestVars
  <2>4. CASE RecoverLease(r)
    BY <1>1, <2>2, <2>4, LeaseStays, SameStay DEF RecoverLease
  <2>5. CASE RecoverClose(r)
    BY <1>1, <1>2, <2>2, <2>5, FinishStays DEF RecoverClose
  <2>6. CASE RecoverManually(r)
    BY <1>1, <1>2, <2>2, <2>6, FinishStays DEF RecoverManually
  <2>7. CASE RecordReconciled(r)
    BY <1>1, <1>2, <2>2, <2>7, FinishStays DEF RecordReconciled
  <2>8. CASE Park(r)
    BY <1>1, <1>2, <2>2, <2>8, FinishStays DEF Park
  <2>9. CASE RecordRetry(r)
    <3>1. rec[r].outcome \in Outcomes /\ rec[r].attempt \in AttemptIds
      BY <2>1, <2>9 DEF RecordRetry, HeldRec
    <3> QED
      BY <1>1, <2>9, <3>1, RecordStays DEF RecordRetry
  <2> QED
    BY <1>4, <2>3, <2>4, <2>5, <2>6, <2>7, <2>8, <2>9 DEF RecoverStep
<1> QED
  BY <1>3, <1>4

LEMMA OthersStay ==
    ASSUME Wellformed,
           \/ DecisionStep \/ DeviceStep \/ Failure \/ OrphanStep
           \/ \E i \in AttemptIds : LeaseLapses(i)
    PROVE  Stay
<1>1. request \in [Approvals -> RequestStates] /\ attempts \in [AttemptIds -> Attempt]
  BY DEF Wellformed, TypeOK
<1>2. ASSUME attempts' = attempts, RequestsStay PROVE Stay
  BY <1>2 DEF Stay, RowsStay
<1>3. CASE DecisionStep
  <2>1. attempts' = attempts
    BY <1>3 DEF DecisionStep, ExpireDue, CreateRequest, ConfirmToGate, DeadlinePasses, Abandon,
        CommitApprove, CommitDeny, elsewhere
  <2>2. CASE ExpireDue
    <3>1. ASSUME NEW a \in Approvals, request[a] \in {"DENIED", "EXPIRED", "CONSUMED", "FAILED"}
          PROVE  request'[a] = request[a]
      BY <2>2, <3>1 DEF ExpireDue
    <3> QED
      BY <1>2, <2>1, <3>1 DEF RequestsStay
  <2>3. ASSUME NEW b \in Approvals, CreateRequest(b) \/ ConfirmToGate(b) \/ DeadlinePasses(b)
                                    \/ Abandon(b)
        PROVE  RequestsStay
    BY <1>1, <2>3
    DEF CreateRequest, ConfirmToGate, DeadlinePasses, Abandon, requestVars, RequestsStay
  <2>4. ASSUME NEW b \in Approvals, NEW d \in Devices, CommitApprove(b, d) \/ CommitDeny(b, d)
        PROVE  RequestsStay
    BY <1>1, <2>4 DEF CommitApprove, CommitDeny, RequestsStay
  <2> QED
    BY <1>2, <1>3, <2>1, <2>2, <2>3, <2>4 DEF DecisionStep
<1>4. CASE DeviceStep
  BY <1>4, SameStay DEF DeviceStep, BeginEnrollment, FinalizeAttestation, RevokeDevice, RevokeKey,
      requestsAndWork, requestVars
<1>5. CASE Failure
  BY <1>5, SameStay DEF Failure, CrashCore, CancelTask, CrashRecoverer, requestVars
<1>6. CASE OrphanStep
  <2>1. attempts' = attempts
    BY <1>6 DEF OrphanStep, ListOrphans, AbandonOrphan, StartServing
  <2>2. ASSUME NEW a \in Approvals, request[a] \in {"DENIED", "EXPIRED", "CONSUMED", "FAILED"}
        PROVE  request'[a] = request[a]
    BY <1>1, <1>6, <2>2 DEF OrphanStep, ListOrphans, AbandonOrphan, StartServing
  <2> QED
    BY <1>2, <2>1, <2>2 DEF RequestsStay
<1>7. ASSUME NEW i \in AttemptIds, LeaseLapses(i) PROVE Stay
  <2>1. attempts' = [attempts EXCEPT ![i] = [attempts[i] EXCEPT !.live = FALSE]]
    BY <1>7 DEF LeaseLapses
  <2>2. \A j \in AttemptIds : attempts'[j].status = attempts[j].status
    BY <1>1, <2>1 DEF Attempt
  <2> QED
    BY <1>7, <2>2, SameStay DEF LeaseLapses, requestVars
<1> QED
  BY <1>3, <1>4, <1>5, <1>6, <1>7

\* No step of anybody reopens a closed row, forgets that a row may have had an effect, or moves a
\* request out of a terminal state.
THEOREM Finality == Spec => ClosedIsFinal
<1>1. AgreedInv /\ [Next]_vars => [Stay]_vars
  BY TaskStays, RecoveryStays, OthersStay DEF AgreedInv, Next
<1>2. Stay <=> /\ \A i \in AttemptIds :
                      /\ attempts[i].status \in TERMINAL_STATUSES =>
                             attempts'[i].status = attempts[i].status
                      /\ attempts[i].status \in {"EXTERNAL_PENDING", "UNKNOWN"} =>
                             attempts'[i].status \notin {"NONE", "CLAIMED"}
               /\ \A a \in Approvals :
                      request[a] \in {"DENIED", "EXPIRED", "CONSUMED", "FAILED"} =>
                          request'[a] = request[a]
  BY DEF Stay, RowsStay, RequestsStay
<1> QED
  BY <1>1, <1>2, InitAgreed, NextAgreed, PTL DEF Spec, ClosedIsFinal

-----------------------------------------------------------------------------
(* The world and the journal.                                              *)

\* The row has left the part of the journal in which provably nothing happened.
Crossed(i) == attempts[i].status \notin {"NONE", "CLAIMED"}

\* A repeat under the same idempotency key changes nothing.
Repeatable(a) == semantics[a] \in {"READ_ONLY", "IDEMPOTENT_WRITE"}

\* A recovery at one of these steps judged its row from a status behind the boundary, and at
\* one of the latter from semantics that allow a repeat.
Judged   == {"reconcile", "reconciled", "recheck", "park", "retry", "outcome"}
Retrying == {"recheck", "park", "retry", "outcome"}

\* What an actor holds in memory is still true of the tables and of the world.
TaskKnows(t) ==
    /\ task[t].pc \in {"external", "outcome"} => Crossed(task[t].attempt)
    /\ task[t].pc = "outcome" /\ task[t].outcome = "ok" => effects[task[t].approval] > 0

RecKnows(r) ==
    LET i == rec[r].attempt
        a == attempts[i].approval
    IN  /\ rec[r].pc \in {"lease", "decide"} /\ rec[r].status # "CLAIMED" => Crossed(i)
        /\ rec[r].pc \in Judged => Crossed(i)
        /\ rec[r].pc \in Retrying => Repeatable(a)
        /\ rec[r].pc \in {"reconciled", "outcome"} /\ rec[r].outcome = "ok" => effects[a] > 0

Known ==
    /\ \A t \in Tasks : TaskKnows(t)
    /\ \A r \in Recoverers : RecKnows(r)

\* An executor before its call acts on an untouched world, unless a repeat is harmless.
Early == {"boundary", "unstarted", "external"}

Once ==
    /\ \A t, u \in Tasks :
           task[t].pc \in HasRow /\ task[u].pc \in HasRow /\ task[t].attempt = task[u].attempt
           => t = u
    /\ \A t \in Tasks :
           task[t].pc \in Early => Repeatable(task[t].approval) \/ effects[task[t].approval] = 0
    /\ AtMostOnce

WorkInv == AgreedInv /\ Known /\ EffectsAreJournalled /\ Once

LEMMA InitWork == Init => WorkInv
<1> SUFFICES ASSUME Init PROVE WorkInv
  OBVIOUS
<1>1. Known
  BY DEF Init, Known, TaskKnows, RecKnows, IdleTask, IdleRec, Judged, Retrying
<1>2. EffectsAreJournalled
  BY DEF Init, EffectsAreJournalled, RowsOf, NoAttempt
<1>3. Once
  BY DEF Init, Once, AtMostOnce, IdleTask, HasRow, Early
<1> QED
  BY <1>1, <1>2, <1>3, InitAgreed DEF WorkInv

----------------------------------------------------------------------------
(* What every step owes: no row comes back from behind the boundary, no    *)
(* effect is undone, an effect has its row and a success its effect.       *)

Forward ==
    /\ \A i \in AttemptIds : Crossed(i) =>
           Crossed(i)' /\ attempts'[i].approval = attempts[i].approval
    /\ \A a \in Approvals : effects'[a] >= effects[a]
    /\ UNCHANGED semantics

Honest ==
    /\ \A a \in Approvals : effects'[a] > effects[a] =>
           \E i \in AttemptIds : attempts[i].approval = a /\ Crossed(i)
    /\ \A i \in AttemptIds : attempts'[i].status = "SUCCEEDED" =>
           attempts[i].status = "SUCCEEDED" \/ effects[attempts'[i].approval] > 0

Sound == Forward /\ Honest

LEMMA JournalledKept ==
    ASSUME Wellformed, Wellformed', EffectsAreJournalled, Sound
    PROVE  EffectsAreJournalled'
<1>1. /\ effects \in [Approvals -> 0 .. 2] /\ effects' \in [Approvals -> 0 .. 2]
  BY DEF Wellformed, TypeOK
<1>2. ASSUME NEW a \in Approvals, effects'[a] > 0
      PROVE  \E i \in RowsOf(a)' : attempts'[i].status \notin {"NONE", "CLAIMED"}
  <2>1. \E i \in AttemptIds : attempts[i].approval = a /\ Crossed(i)
    BY <1>1, <1>2 DEF Sound, Honest, EffectsAreJournalled, RowsOf, Crossed
  <2> QED
    BY <2>1 DEF Sound, Forward, Crossed, RowsOf
<1>3. ASSUME NEW a \in Approvals, NEW i \in RowsOf(a)', attempts'[i].status = "SUCCEEDED"
      PROVE  effects'[a] > 0
  <2>1. i \in AttemptIds /\ attempts'[i].approval = a
    BY DEF RowsOf
  <2>2. effects[a] > 0
    BY <1>3, <2>1 DEF Sound, Forward, Honest, EffectsAreJournalled, RowsOf, Crossed
  <2> QED
    BY <1>1, <2>2 DEF Sound, Forward
<1> QED
  BY <1>2, <1>3 DEF EffectsAreJournalled

\* Whoever does not move still knows what it knew.
LEMMA KnownKept ==
    ASSUME AgreedInv, Wellformed', Known, Sound,
           \A t \in Tasks : task'[t] = task[t] \/ TaskKnows(t)',
           \A r \in Recoverers : rec'[r] = rec[r] \/ RecKnows(r)'
    PROVE  Known'
<1>1. /\ effects \in [Approvals -> 0 .. 2] /\ effects' \in [Approvals -> 0 .. 2]
      /\ attempts \in [AttemptIds -> Attempt]
      /\ task \in [Tasks -> HeldTask] /\ rec \in [Recoverers -> HeldRec]
  BY DEF AgreedInv, Wellformed, TypeOK
<1>2. ASSUME NEW t \in Tasks, task'[t] = task[t] PROVE TaskKnows(t)'
  <2>1. task[t].pc \in {"external", "outcome"} =>
            task[t].attempt \in AttemptIds /\ task[t].approval \in Approvals
    BY <1>1 DEF HeldTask
  <2> QED
    BY <1>1, <1>2, <2>1 DEF Known, TaskKnows, Sound, Forward
<1>3. ASSUME NEW r \in Recoverers, rec'[r] = rec[r] PROVE RecKnows(r)'
  <2> DEFINE i == rec[r].attempt
  <2>1. rec[r].pc \in {"lease", "decide"} \cup Judged => i \in AttemptIds
    BY <1>1 DEF HeldRec, Judged
  <2>2. i \in AttemptIds /\ Crossed(i) => attempts[i].approval \in Approvals
    BY <1>1 DEF Crossed, AgreedInv, Agreed, Attempt
  <2>3. Judged \cap {"lease", "decide"} = {} /\ Retrying \subseteq Judged /\ "reconciled" \in Judged
        /\ "outcome" \in Judged
    BY DEF Judged, Retrying
  <2>4. RecKnows(r)
    BY DEF Known
  <2>5. i \in AttemptIds /\ Crossed(i) =>
            /\ Crossed(i)'
            /\ attempts'[i].approval = attempts[i].approval
            /\ effects'[attempts[i].approval] >= effects[attempts[i].approval]
    BY <1>3, <2>2 DEF Sound, Forward, Crossed
  <2>6. i \in AttemptIds /\ Crossed(i) /\ effects[attempts[i].approval] > 0 =>
            effects'[attempts'[i].approval] > 0
    BY <1>1, <2>2, <2>5
  <2>7. rec[r].pc \in Judged => i \in AttemptIds /\ Crossed(i)
    BY <2>1, <2>4 DEF RecKnows
  <2>8. /\ rec[r].pc \in {"lease", "decide"} /\ rec[r].status # "CLAIMED" => Crossed(i)'
        /\ rec[r].pc \in Judged => Crossed(i)'
    BY <2>1, <2>4, <2>5 DEF RecKnows
  <2>9. rec[r].pc \in Retrying =>
            semantics'[attempts'[i].approval] \in {"READ_ONLY", "IDEMPOTENT_WRITE"}
    BY <2>3, <2>4, <2>5, <2>7 DEF RecKnows, Repeatable, Sound, Forward
  <2>10. rec[r].pc \in {"reconciled", "outcome"} /\ rec[r].outcome = "ok" =>
             effects'[attempts'[i].approval] > 0
    BY <2>3, <2>4, <2>6, <2>7 DEF RecKnows
  <2> QED
    BY <1>3, <2>8, <2>9, <2>10 DEF RecKnows, Crossed, Repeatable
<1> QED
  BY <1>2, <1>3 DEF Known

\* No executor takes a row up, and nobody calls an adapter.
Calm ==
    /\ UNCHANGED <<effects, semantics>>
    /\ \A t \in Tasks : task'[t].pc \in HasRow =>
           /\ task[t].pc \in HasRow
           /\ task'[t].attempt = task[t].attempt
           /\ task'[t].approval = task[t].approval
           /\ task'[t].pc \in Early => task[t].pc \in Early

LEMMA CalmOnce == Once /\ Calm => Once'
  BY DEF Once, Calm, AtMostOnce, Repeatable, Early, HasRow

----------------------------------------------------------------------------
(* The operations that several actors share.                               *)

LEMMA SameSound ==
    ASSUME Wellformed, UNCHANGED <<effects, semantics>>,
           \A i \in AttemptIds : /\ attempts'[i].status = attempts[i].status
                                 /\ attempts'[i].approval = attempts[i].approval
    PROVE  Sound
  BY DEF Wellformed, TypeOK, Sound, Forward, Honest, Crossed

LEMMA FinishSound ==
    ASSUME Wellformed, NEW i \in AttemptIds, NEW outcome, NEW expected, NEW final,
           Settles(outcome, final), FinishAttempt(i, outcome, expected, final),
           UNCHANGED <<effects, semantics>>,
           outcome = "SUCCEEDED" => effects[attempts[i].approval] > 0
    PROVE  Sound
<1>1. /\ attempts \in [AttemptIds -> Attempt] /\ attempts[i] \in Attempt
      /\ effects \in [Approvals -> 0 .. 2]
  BY DEF Wellformed, TypeOK
<1>2. CASE attempts' = attempts
  BY <1>2, SameSound
<1>3. CASE attempts' = [attempts EXCEPT ![i].status = outcome, ![i].owner = NULL, ![i].live = FALSE]
  <2>1. attempts' = [attempts EXCEPT ![i] = [attempts[i] EXCEPT !.status = outcome, !.owner = NULL,
                                                                !.live = FALSE]]
    BY <1>1, <1>3 DEF Attempt
  <2>2. /\ attempts'[i].status = outcome /\ attempts'[i].approval = attempts[i].approval
        /\ \A j \in AttemptIds : j # i => attempts'[j] = attempts[j]
    BY <1>1, <2>1 DEF Attempt
  <2>3. outcome \notin {"NONE", "CLAIMED"}
    BY DEF Settles
  <2>4. Forward
    BY <1>1, <2>2, <2>3 DEF Forward, Crossed
  <2>5. Honest
    BY <1>1, <2>2 DEF Honest
  <2> QED
    BY <2>4, <2>5 DEF Sound
<1> QED
  BY <1>2, <1>3 DEF FinishAttempt

LEMMA RecordSound ==
    ASSUME Wellformed, NEW i \in AttemptIds, NEW answer \in Outcomes, RecordOutcome(i, answer),
           UNCHANGED <<effects, semantics>>,
           answer = "ok" => effects[attempts[i].approval] > 0
    PROVE  Sound
<1>1. \/ answer = "ok" /\ FinishAttempt(i, "SUCCEEDED", OPEN_STATUSES, "CONSUMED")
      \/ FinishAttempt(i, "FAILED_SAFE", OPEN_STATUSES, "FAILED")
      \/ FinishAttempt(i, "UNKNOWN", OPEN_STATUSES, "KEEP")
  BY DEF RecordOutcome, Outcomes
<1> QED
  BY <1>1, FinishSound DEF Settles

LEMMA LeaseSound ==
    ASSUME Wellformed, NEW r, NEW i \in AttemptIds, AcquireLease(r, i),
           UNCHANGED <<effects, semantics>>
    PROVE  Sound
<1>1. attempts \in [AttemptIds -> Attempt] /\ attempts[i] \in Attempt
  BY DEF Wellformed, TypeOK
<1>2. attempts' = [attempts EXCEPT ![i] = [attempts[i] EXCEPT !.owner = r, !.live = TRUE]]
  BY <1>1 DEF AcquireLease
<1>3. \A j \in AttemptIds : /\ attempts'[j].approval = attempts[j].approval
                            /\ attempts'[j].status = attempts[j].status
  BY <1>1, <1>2 DEF Attempt
<1> QED
  BY <1>3, SameSound

\* An adapter called for a row behind the boundary.
LEMMA CallSound ==
    ASSUME Wellformed, NEW i \in AttemptIds, NEW a \in Approvals, attempts[i].approval = a,
           Crossed(i), NEW answer \in Outcomes, AdapterAnswer(a, answer),
           UNCHANGED <<attempts, semantics>>
    PROVE  /\ Sound
           /\ answer = "ok" => effects'[a] > 0
           /\ \A b \in Approvals : b # a => effects'[b] = effects[b]
           /\ effects[a] = 0 => effects'[a] <= 1
           /\ Repeatable(a) /\ effects[a] <= 1 => effects'[a] <= 1
<1>1. effects \in [Approvals -> 0 .. 2] /\ a \in Approvals
  BY DEF Wellformed, TypeOK
<1>2. CASE UNCHANGED effects
  <2>1. answer # "ok" \/ Happens(a)
    BY DEF AdapterAnswer
  <2>2. Happens(a) => effects'[a] > 0
    BY <1>1 DEF Happens
  <2> QED
    BY <1>1, <1>2, <2>1, <2>2, SameSound
<1>3. CASE Happens(a)
  <2>1. /\ \A b \in Approvals : b # a => effects'[b] = effects[b]
        /\ effects'[a] \in 1 .. 2 /\ effects'[a] >= effects[a]
        /\ effects[a] = 0 => effects'[a] = 1
        /\ Repeatable(a) /\ effects[a] <= 1 => effects'[a] <= 1
    BY <1>1, <1>3 DEF Happens, Repeatable
  <2>2. Sound
    BY <1>1, <2>1 DEF Sound, Forward, Honest, Crossed
  <2> QED
    BY <2>1, <2>2
<1> QED
  BY <1>2, <1>3 DEF AdapterAnswer

----------------------------------------------------------------------------
(* What is left of WorkInv once its AgreedInv is known to be kept.         *)

Works == Known /\ EffectsAreJournalled /\ Once

\* A step in which no adapter is called and no row is taken up.
LEMMA CalmWorks ==
    ASSUME WorkInv, AgreedInv', Sound, Calm,
           \A t \in Tasks : task'[t] = task[t] \/ TaskKnows(t)',
           \A r \in Recoverers : rec'[r] = rec[r] \/ RecKnows(r)'
    PROVE  Works'
  BY JournalledKept, KnownKept, CalmOnce DEF WorkInv, AgreedInv, Works

\* An executor that lets go of its row, or has none.
LEMMA LetsGo ==
    ASSUME WorkInv, AgreedInv', Sound, UNCHANGED <<effects, semantics, rec>>,
           NEW t \in Tasks, NEW x \in HeldTask, x.pc \notin HasRow,
           task' = [task EXCEPT ![t] = x]
    PROVE  Works'
<1>1. task \in [Tasks -> HeldTask]
  BY DEF WorkInv, AgreedInv, Wellformed
<1>2. /\ task'[t] = x /\ \A u \in Tasks : u # t => task'[u] = task[u]
      /\ UNCHANGED rec
  BY <1>1
<1>3. TaskKnows(t)'
  BY <1>2 DEF TaskKnows, HasRow
<1>4. Calm
  BY <1>2 DEF Calm
<1> QED
  BY <1>2, <1>3, <1>4, CalmWorks

\* A recovery that is done with its row, or has none.
LEMMA RecLetsGo ==
    ASSUME WorkInv, AgreedInv', Sound, UNCHANGED <<effects, semantics, task>>,
           NEW r \in Recoverers,
           \A q \in Recoverers : q # r => rec'[q] = rec[q],
           rec'[r].pc \notin {"lease", "decide"} \cup Judged
    PROVE  Works'
<1>1. RecKnows(r)'
  BY DEF RecKnows, Judged, Retrying
<1>2. Calm
  BY DEF Calm
<1> QED
  BY <1>1, <1>2, CalmWorks

----------------------------------------------------------------------------
LEMMA ClaimWorks ==
    ASSUME WorkInv, AgreedInv', NEW t \in Tasks, Claim(t)
    PROVE  Works'
<1> DEFINE a == task[t].approval
<1>1. /\ Wellformed /\ Agreed /\ OwnRow /\ Wellformed'
      /\ attempts \in [AttemptIds -> Attempt]
      /\ effects \in [Approvals -> 0 .. 2]
      /\ task \in [Tasks -> HeldTask]
      /\ a \in Approvals
      /\ UNCHANGED <<effects, semantics, rec>>
  BY DEF WorkInv, AgreedInv, Wellformed, TypeOK, HeldTask, Claim, tables
<1>2. CASE ~ClaimHolds(t)
  <2>1. attempts' = attempts /\ task' = [task EXCEPT ![t] = IdleTask]
    BY <1>2 DEF Claim
  <2>2. Sound
    BY <1>1, <2>1, SameSound
  <2> QED
    BY <1>1, <2>1, <2>2, LetsGo, IdleHeld DEF IdleTask, HasRow
<1>3. CASE ClaimHolds(t)
  <2>1. PICK i \in AttemptIds :
            /\ attempts[i].status = "NONE"
            /\ attempts' = [attempts EXCEPT ![i] =
                   [approval |-> a, device |-> task[t].device, gen |-> dev[task[t].device].gen,
                    status |-> "CLAIMED", owner |-> t, live |-> TRUE]]
            /\ task' = [task EXCEPT ![t].pc = "boundary", ![t].attempt = i]
    BY <1>3 DEF Claim
  <2>2. /\ \A j \in AttemptIds : j # i => attempts'[j] = attempts[j]
        /\ attempts'[i].status = "CLAIMED"
    BY <1>1, <2>1
  <2>3. /\ task'[t].pc = "boundary" /\ task'[t].attempt = i /\ task'[t].approval = a
        /\ \A u \in Tasks : u # t => task'[u] = task[u]
    BY <1>1, <2>1 DEF HeldTask, Task
  <2>4. Sound
    BY <1>1, <2>1, <2>2 DEF Sound, Forward, Honest, Crossed
  <2>5. Known'
    <3>1. TaskKnows(t)'
      BY <2>3 DEF TaskKnows
    <3> QED
      BY <1>1, <2>3, <2>4, <3>1, KnownKept DEF WorkInv
  <2>6. effects[a] = 0
    <3>1. request[a] = "APPROVED"
      BY <1>3 DEF ClaimHolds
    <3>2. RowsOf(a) = {}
      BY <1>1, <3>1 DEF Agreed, JournalAgreesWithRequest
    <3>3. ~(effects[a] > 0)
      BY <1>1, <3>2 DEF WorkInv, EffectsAreJournalled
    <3>4. effects[a] \in 0 .. 2
      BY <1>1
    <3> HIDE DEF a
    <3> QED
      BY <3>3, <3>4
  <2>7. \A u \in Tasks : task[u].pc \in HasRow => task[u].attempt # i
    BY <1>1, <2>1 DEF OwnRow
  <2>8. Once'
    <3>1. ASSUME NEW u \in Tasks, NEW v \in Tasks, task'[u].pc \in HasRow, task'[v].pc \in HasRow,
                 task'[u].attempt = task'[v].attempt
          PROVE  u = v
      BY <2>3, <2>7, <3>1 DEF WorkInv, Once
    <3>2. ASSUME NEW u \in Tasks, task'[u].pc \in Early
          PROVE  Repeatable(task'[u].approval) \/ effects[task'[u].approval] = 0
      BY <2>3, <2>6, <3>2 DEF WorkInv, Once
    <3> QED
      BY <1>1, <3>1, <3>2 DEF WorkInv, Once, AtMostOnce, Repeatable
  <2> QED
    BY <1>1, <2>4, <2>5, <2>8, JournalledKept DEF WorkInv, Works
<1> QED
  BY <1>2, <1>3

\* Calling the adapter for a row: only the executor that holds the row may be about to call.
LEMMA CallWorks ==
    ASSUME WorkInv, AgreedInv', NEW i \in AttemptIds, NEW a \in Approvals,
           attempts[i].approval = a, Crossed(i), NEW answer \in Outcomes, AdapterAnswer(a, answer),
           UNCHANGED <<attempts, semantics>>, Known',
           Repeatable(a) \/ effects[a] = 0,
           \A t \in Tasks :
               task'[t] = task[t]
               \/ /\ task'[t].pc = "outcome" /\ task[t].pc \in HasRow
                  /\ task'[t].attempt = task[t].attempt /\ task'[t].approval = task[t].approval,
           \A t \in Tasks :
               task'[t].pc \in Early /\ task[t].approval = a => Repeatable(a)
    PROVE  Works'
<1>1. /\ Wellformed /\ Wellformed'
      /\ effects \in [Approvals -> 0 .. 2] /\ effects' \in [Approvals -> 0 .. 2]
      /\ task \in [Tasks -> HeldTask]
  BY DEF WorkInv, AgreedInv, Wellformed, TypeOK
<1>2. /\ Sound
      /\ \A b \in Approvals : b # a => effects'[b] = effects[b]
      /\ effects[a] = 0 => effects'[a] <= 1
      /\ Repeatable(a) /\ effects[a] <= 1 => effects'[a] <= 1
  BY <1>1, CallSound
<1>3. AtMostOnce'
  BY <1>1, <1>2 DEF WorkInv, Once, AtMostOnce
<1>4. ASSUME NEW t \in Tasks, task'[t].pc \in Early
      PROVE  semantics'[task'[t].approval] \in {"READ_ONLY", "IDEMPOTENT_WRITE"}
             \/ effects'[task'[t].approval] = 0
  <2>1. task'[t] = task[t] /\ task[t].approval \in Approvals
    BY <1>1, <1>4 DEF Early, HeldTask
  <2>2. CASE task[t].approval = a
    BY <1>4, <2>1, <2>2 DEF Repeatable
  <2>3. CASE task[t].approval # a
    BY <1>2, <1>4, <2>1, <2>3 DEF WorkInv, Once, Repeatable
  <2> QED
    BY <2>2, <2>3
<1>5. \A t, u \in Tasks :
          task'[t].pc \in HasRow /\ task'[u].pc \in HasRow /\ task'[t].attempt = task'[u].attempt
          => t = u
  BY DEF WorkInv, Once, HasRow
<1>6. Once'
  BY <1>3, <1>4, <1>5 DEF Once, Repeatable
<1> QED
  BY <1>1, <1>2, <1>6, JournalledKept DEF WorkInv, Works

LEMMA TaskWorks ==
    ASSUME WorkInv, AgreedInv', NEW t \in Tasks,
           TaskStep(t) \/ (\E a \in Approvals : ReadApproved(t, a))
    PROVE  Works'
<1>1. /\ Wellformed /\ Agreed /\ OwnRow /\ Wellformed'
      /\ attempts \in [AttemptIds -> Attempt]
      /\ effects \in [Approvals -> 0 .. 2]
      /\ task \in [Tasks -> HeldTask] /\ task' \in [Tasks -> HeldTask]
      /\ task[t] \in HeldTask
  BY DEF WorkInv, AgreedInv, Wellformed, TypeOK
<1>2. ASSUME UNCHANGED <<attempts, effects, semantics, rec>>,
             \A u \in Tasks : u # t => task'[u] = task[u],
             task'[t].pc \notin HasRow
      PROVE  Works'
  <2>1. Sound
    BY <1>1, <1>2, SameSound
  <2>2. TaskKnows(t)' /\ Calm
    BY <1>2 DEF TaskKnows, HasRow, Calm
  <2> QED
    BY <1>2, <2>1, <2>2, CalmWorks
<1>3. ASSUME NEW a \in Approvals, ReadApproved(t, a) PROVE Works'
  BY <1>1, <1>2, <1>3 DEF ReadApproved, IdleTask, HasRow, requestVars
<1>4. CASE PassGate(t)
  <2>1. task'[t].pc \in {"idle", "preflight"} /\ \A u \in Tasks : u # t => task'[u] = task[u]
    BY <1>1, <1>4 DEF PassGate, IdleTask, HeldTask, Task
  <2> QED
    BY <1>2, <1>4, <2>1 DEF PassGate, HasRow, requestVars
<1>5. CASE Preflight(t)
  <2>1. task'[t].pc \in {"idle", "claim"} /\ \A u \in Tasks : u # t => task'[u] = task[u]
    BY <1>1, <1>5 DEF Preflight, IdleTask, HeldTask, Task
  <2> QED
    BY <1>2, <1>5, <2>1 DEF Preflight, HasRow, requestVars
<1>6. CASE Claim(t)
  BY <1>6, ClaimWorks
<1>7. CASE BeginExternal(t)
  <2> DEFINE i == task[t].attempt
  <2>1. i \in AttemptIds /\ attempts[i] \in Attempt /\ attempts[i].status # "NONE"
    BY <1>1, <1>7 DEF BeginExternal, HeldTask, HasRow, OwnRow
  <2>2. /\ UNCHANGED <<effects, semantics, rec>> /\ task[t].pc = "boundary"
        /\ \A u \in Tasks : u # t => task'[u] = task[u]
        /\ task'[t].attempt = i /\ task'[t].approval = task[t].approval
        /\ \/ task'[t].pc = "external" /\ attempts' = [attempts EXCEPT ![i].status = "EXTERNAL_PENDING"]
           \/ /\ task'[t].pc = "unstarted"
              /\ attempts' = attempts \/ attempts' = [attempts EXCEPT ![i].status = "ABANDONED"]
    BY <1>1, <1>7 DEF BeginExternal, tables, HeldTask, Task
  <2>3. /\ \A j \in AttemptIds : /\ j # i => attempts'[j] = attempts[j]
                                 /\ attempts'[j].approval = attempts[j].approval
        /\ attempts'[i].status \in {attempts[i].status, "EXTERNAL_PENDING", "ABANDONED"}
        /\ task'[t].pc = "external" => attempts'[i].status = "EXTERNAL_PENDING"
    BY <1>1, <2>1, <2>2 DEF Attempt
  <2>4. Sound
    BY <1>1, <2>2, <2>3 DEF Sound, Forward, Honest, Crossed
  <2>5. TaskKnows(t)'
    BY <2>2, <2>3 DEF TaskKnows, Crossed
  <2>6. Calm
    BY <2>2 DEF Calm, HasRow, Early
  <2> QED
    BY <2>2, <2>4, <2>5, <2>6, CalmWorks
<1>8. CASE CloseUnstarted(t)
  <2>1. task[t].attempt \in AttemptIds /\ UNCHANGED <<effects, semantics, rec>>
    BY <1>1, <1>8 DEF CloseUnstarted, HeldTask, tables
  <2>2. Sound
    BY <1>1, <1>8, <2>1, FinishSound DEF CloseUnstarted, Settles
  <2> QED
    BY <1>8, <2>1, <2>2, LetsGo, IdleHeld DEF CloseUnstarted, IdleTask, HasRow
<1>9. CASE CallAdapter(t)
  <2> DEFINE i == task[t].attempt
             a == task[t].approval
  <2>1. /\ i \in AttemptIds /\ a \in Approvals /\ attempts[i].approval = a /\ Crossed(i)
        /\ task[t].pc = "external"
    BY <1>1, <1>9 DEF CallAdapter, HeldTask, HasRow, OwnRow, WorkInv, Known, TaskKnows
  <2>2. PICK answer \in Outcomes :
            /\ AdapterAnswer(a, answer)
            /\ task' = [task EXCEPT ![t].pc = "outcome", ![t].outcome = answer]
    BY <1>9 DEF CallAdapter
  <2>3. /\ task'[t].pc = "outcome" /\ task'[t].outcome = answer
        /\ task'[t].attempt = i /\ task'[t].approval = a
        /\ \A u \in Tasks : u # t => task'[u] = task[u]
        /\ UNCHANGED <<attempts, semantics, rec>>
    BY <1>1, <1>9, <2>2 DEF CallAdapter, HeldTask, Task, requestVars
  <2>4. Sound /\ (answer = "ok" => effects'[a] > 0)
    BY <1>1, <2>1, <2>2, <2>3, CallSound
  <2>5. Known'
    <3>1. TaskKnows(t)'
      BY <2>1, <2>3, <2>4 DEF TaskKnows, Crossed
    <3> QED
      BY <1>1, <2>3, <2>4, <3>1, KnownKept DEF WorkInv
  <2>6. Repeatable(a) \/ effects[a] = 0
    BY <2>1 DEF WorkInv, Once, Early
  <2>7. ASSUME NEW u \in Tasks, task'[u].pc \in Early, task[u].approval = a PROVE Repeatable(a)
    <3>1. u # t /\ task'[u] = task[u]
      BY <2>3, <2>7 DEF Early
    <3>2. task[u].pc \in HasRow /\ task[u].attempt \in AttemptIds
      BY <1>1, <2>7, <3>1 DEF Early, HasRow, HeldTask
    <3>3. attempts[task[u].attempt].approval = a
      BY <1>1, <2>7, <3>2 DEF OwnRow
    <3>4. task[u].attempt = i
      BY <1>1, <2>1, <3>2, <3>3 DEF Agreed, JournalAgreesWithRequest, RowsOf
    <3> QED
      BY <2>1, <3>1, <3>2, <3>4 DEF WorkInv, Once, HasRow
  <2>8. \A u \in Tasks :
            task'[u] = task[u]
            \/ /\ task'[u].pc = "outcome" /\ task[u].pc \in HasRow
               /\ task'[u].attempt = task[u].attempt /\ task'[u].approval = task[u].approval
    BY <2>1, <2>3 DEF HasRow
  <2>9. \A u \in Tasks : task'[u].pc \in Early /\ task[u].approval = a => Repeatable(a)
    BY <2>7
  <2>10. AdapterAnswer(a, answer) /\ UNCHANGED <<attempts, semantics>>
    BY <2>2, <2>3
  <2> HIDE DEF i, a
  <2> QED
    BY <2>1, <2>5, <2>6, <2>8, <2>9, <2>10, CallWorks
<1>10. CASE RecordRun(t)
  <2>1. /\ task[t].attempt \in AttemptIds /\ task[t].outcome \in Outcomes
        /\ attempts[task[t].attempt].approval = task[t].approval
        /\ UNCHANGED <<effects, semantics, rec>>
    BY <1>1, <1>10 DEF RecordRun, HeldTask, OwnRow, HasRow, tables
  <2>2. task[t].outcome = "ok" => effects[attempts[task[t].attempt].approval] > 0
    BY <1>10, <2>1 DEF RecordRun, WorkInv, Known, TaskKnows
  <2>3. Sound
    BY <1>1, <1>10, <2>1, <2>2, RecordSound DEF RecordRun
  <2> QED
    BY <1>10, <2>1, <2>3, LetsGo, IdleHeld DEF RecordRun, IdleTask, HasRow
<1> QED
  BY <1>3, <1>4, <1>5, <1>6, <1>7, <1>8, <1>9, <1>10 DEF TaskStep

LEMMA ScanWorks ==
    ASSUME WorkInv, AgreedInv', NEW s \in Scanners, ScanStep(s)
    PROVE  Works'
<1>1. /\ Wellformed /\ s \in Recoverers
      /\ rec \in [Recoverers -> HeldRec] /\ rec[s] \in HeldRec
  BY DEF WorkInv, AgreedInv, Wellformed, Recoverers
<1>2. /\ UNCHANGED <<effects, semantics, task>>
      /\ \A q \in Recoverers : q # s => rec'[q] = rec[q]
  BY <1>1 DEF ScanStep, ScanRead, ScanLease, ScanReread, ScanFinish, ScanDone, tables
<1>3. rec'[s].pc \in {"scan", "reread", "finish", "orphans", "idle"}
  <2>1. CASE ScanRead(s) \/ ScanFinish(s) \/ ScanDone(s)
    BY <1>1, <2>1 DEF ScanRead, ScanFinish, ScanDone, HeldRec, Recoverer
  <2>3. CASE ScanReread(s)
    BY <1>1, <2>3 DEF ScanReread, HeldRec, Recoverer
  <2>2. ASSUME NEW i \in AttemptIds, ScanLease(s, i)
        PROVE  rec'[s].pc \in {"scan", "reread", "finish", "orphans", "idle"}
    BY <1>1, <2>2 DEF ScanLease, HeldRec, Recoverer
  <2> QED
    BY <2>1, <2>2, <2>3 DEF ScanStep
<1>4. ASSUME Sound PROVE Works'
  <2>1. rec'[s] = rec[s] \/ RecKnows(s)'
    BY <1>3 DEF RecKnows, Judged, Retrying
  <2>2. Calm
    BY <1>2 DEF Calm
  <2> QED
    BY <1>2, <1>4, <2>1, <2>2, CalmWorks
<1>5. CASE ScanRead(s) \/ ScanReread(s) \/ ScanDone(s)
  BY <1>1, <1>2, <1>4, <1>5, SameSound DEF ScanRead, ScanReread, ScanDone
<1>6. CASE ScanFinish(s)
  <2>1. rec[s].attempt \in AttemptIds
    BY <1>1, <1>6 DEF ScanFinish, HeldRec
  <2> QED
    BY <1>1, <1>2, <1>4, <1>6, <2>1, FinishSound DEF ScanFinish, Settles
<1>7. ASSUME NEW i \in AttemptIds, ScanLease(s, i) PROVE Works'
  <2>1. Sound
    BY <1>1, <1>2, <1>7, LeaseSound, SameSound DEF ScanLease
  <2> QED
    BY <1>4, <2>1
<1> QED
  BY <1>5, <1>6, <1>7 DEF ScanStep

\* The reconciler of a row behind the boundary, and a repeat the semantics allow.
LEMMA RetryWorks ==
    ASSUME WorkInv, AgreedInv', NEW r \in Admins, Retry(r)
    PROVE  Works'
<1> DEFINE i == rec[r].attempt
           a == attempts[i].approval
<1>1. /\ Wellformed /\ Wellformed' /\ Agreed /\ r \in Recoverers
      /\ rec \in [Recoverers -> HeldRec] /\ rec[r] \in HeldRec
      /\ attempts \in [AttemptIds -> Attempt]
      /\ rec[r].pc = "retry" /\ RecKnows(r)
      /\ UNCHANGED <<attempts, semantics, task>>
  BY DEF WorkInv, AgreedInv, Wellformed, TypeOK, Recoverers, Known, Retry, requestVars
<1>2. /\ i \in AttemptIds /\ Crossed(i) /\ Repeatable(a)
  BY <1>1 DEF HeldRec, RecKnows, Judged, Retrying
<1>3. a \in Approvals
  BY <1>1, <1>2 DEF Crossed, Agreed, Attempt
<1>4. PICK answer \in Outcomes :
          /\ AdapterAnswer(a, answer)
          /\ rec' = [rec EXCEPT ![r].pc = "outcome", ![r].outcome = answer]
  BY DEF Retry
<1>5. /\ rec'[r].pc = "outcome" /\ rec'[r].outcome = answer /\ rec'[r].attempt = i
      /\ \A q \in Recoverers : q # r => rec'[q] = rec[q]
  BY <1>1, <1>4 DEF HeldRec, Recoverer
<1>6. Sound /\ (answer = "ok" => effects'[a] > 0)
  BY <1>1, <1>2, <1>3, <1>4, CallSound
<1>7. RecKnows(r)'
  BY <1>1, <1>2, <1>5, <1>6 DEF RecKnows, Crossed, Repeatable
<1>8. Known'
  BY <1>1, <1>5, <1>6, <1>7, KnownKept DEF WorkInv
<1>9. AdapterAnswer(a, answer)
  BY <1>4
<1> HIDE DEF i, a
<1> QED
  BY <1>1, <1>2, <1>3, <1>8, <1>9, CallWorks, Zenon DEF i, a

LEMMA RecoverWorks ==
    ASSUME WorkInv, AgreedInv', NEW r \in Admins,
           RecoverStep(r) \/ \E i \in AttemptIds : RecoverRead(r, i)
    PROVE  Works'
<1> DEFINE i == rec[r].attempt
           a == attempts[i].approval
<1>1. /\ Wellformed /\ Agreed /\ r \in Recoverers
      /\ rec \in [Recoverers -> HeldRec] /\ rec[r] \in HeldRec
      /\ attempts \in [AttemptIds -> Attempt]
      /\ RecKnows(r)
  BY DEF WorkInv, AgreedInv, Wellformed, TypeOK, Recoverers, Known
<1>2. rec[r].pc \notin {"idle", "scan", "orphans", "abandon"} => i \in AttemptIds
  BY <1>1 DEF HeldRec
\* A step that closes or marks the row, after which the recovery is idle again.
<1>3. ASSUME Sound, UNCHANGED <<effects, semantics, task>>, Idle(r) PROVE Works'
  <2>1. rec'[r].pc = "idle" /\ \A q \in Recoverers : q # r => rec'[q] = rec[q]
    BY <1>1, <1>3 DEF Idle, IdleRec
  <2> QED
    BY <1>1, <1>3, <2>1, RecLetsGo DEF Judged
\* A step that goes on with the row.
<1>4. ASSUME Sound, UNCHANGED <<effects, semantics, task>>, RecKnows(r)',
             \A q \in Recoverers : q # r => rec'[q] = rec[q]
      PROVE  Works'
  <2>1. Calm
    BY <1>4 DEF Calm
  <2> QED
    BY <1>4, <2>1, CalmWorks
<1>5. ASSUME NEW j \in AttemptIds, RecoverRead(r, j) PROVE Works'
  <2>1. /\ Open(j) /\ UNCHANGED <<attempts, effects, semantics, task>>
        /\ rec'[r].pc = "lease" /\ rec'[r].attempt = j /\ rec'[r].status = attempts[j].status
        /\ \A q \in Recoverers : q # r => rec'[q] = rec[q]
    BY <1>1, <1>5 DEF RecoverRead, tables, HeldRec, Recoverer
  <2>2. RecKnows(r)'
    BY <2>1 DEF RecKnows, Judged, Retrying, Crossed, Open, OPEN_STATUSES
  <2> QED
    BY <1>1, <1>4, <2>1, <2>2, SameSound
<1>6. CASE RecoverLease(r)
  <2>1. UNCHANGED <<effects, semantics, task>> /\ i \in AttemptIds /\ rec[r].pc = "lease"
    BY <1>2, <1>6 DEF RecoverLease, tables
  <2>2. CASE LeaseFree(i, r)
    <3>1. AcquireLease(r, i) /\ rec' = [rec EXCEPT ![r].pc = "decide"]
      BY <1>6, <2>2 DEF RecoverLease
    <3>2. /\ rec'[r].pc = "decide" /\ rec'[r].attempt = i /\ rec'[r].status = rec[r].status
          /\ \A q \in Recoverers : q # r => rec'[q] = rec[q]
      BY <1>1, <3>1 DEF HeldRec, Recoverer
    <3>3. Sound
      BY <1>1, <2>1, <3>1, LeaseSound
    <3>4. RecKnows(r)'
      <4>1. Crossed(i) => attempts'[i].status \notin {"NONE", "CLAIMED"}
        BY <2>1, <3>3 DEF Sound, Forward, Crossed
      <4> QED
        BY <1>1, <2>1, <3>2, <4>1 DEF RecKnows, Judged, Retrying, Crossed
    <3> QED
      BY <1>4, <2>1, <3>2, <3>3, <3>4
  <2>3. CASE ~LeaseFree(i, r)
    BY <1>1, <1>3, <1>6, <2>1, <2>3, SameSound DEF RecoverLease
  <2> QED
    BY <2>2, <2>3
<1>7. CASE RecoverClose(r)
  BY <1>1, <1>2, <1>3, <1>7, FinishSound DEF RecoverClose, Settles, tables
<1>8. CASE RecoverManually(r)
  BY <1>1, <1>2, <1>3, <1>8, FinishSound DEF RecoverManually, Settles, tables
<1>9. CASE RecoverFurther(r)
  <2>1. /\ UNCHANGED <<attempts, effects, semantics, task>> /\ Sound
        /\ i \in AttemptIds /\ rec[r].pc = "decide"
    BY <1>1, <1>2, <1>9, SameSound DEF RecoverFurther, tables
  <2>2. CASE r \notin Equipped
    BY <1>3, <1>9, <2>1, <2>2 DEF RecoverFurther
  <2>3. CASE r \in Equipped
    <3>1. Decision(r) \in {"RECONCILE_FIRST", "RETRY_SAME_KEY"}
      BY <1>9 DEF RecoverFurther
    <3>2. rec[r].status # "CLAIMED" /\ (Decision(r) = "RETRY_SAME_KEY" => Repeatable(a))
      BY <3>1 DEF Decision, RecoveryDecision, Repeatable
    <3>3. /\ rec'[r].pc = IF Decision(r) = "RECONCILE_FIRST" THEN "reconcile" ELSE "recheck"
          /\ rec'[r].attempt = i
          /\ \A q \in Recoverers : q # r => rec'[q] = rec[q]
      BY <1>1, <1>9, <2>3 DEF RecoverFurther, HeldRec, Recoverer
    <3>4. Crossed(i)
      BY <1>1, <2>1, <3>2 DEF RecKnows
    <3>5. RecKnows(r)'
      BY <2>1, <3>1, <3>2, <3>3, <3>4 DEF RecKnows, Judged, Retrying, Crossed, Repeatable
    <3> QED
      BY <1>4, <2>1, <3>3, <3>5
  <2> QED
    BY <2>2, <2>3
<1>10. CASE Reconcile(r)
  <2>1. /\ UNCHANGED <<attempts, effects, semantics, task>> /\ Sound
        /\ rec[r].pc = "reconcile"
    BY <1>1, <1>10, SameSound DEF Reconcile, tables
  <2>2. /\ rec'[r].pc = "reconciled" /\ rec'[r].attempt = i
        /\ rec'[r].outcome = IF effects[a] > 0 THEN "ok" ELSE "safe"
        /\ \A q \in Recoverers : q # r => rec'[q] = rec[q]
    BY <1>1, <1>10 DEF Reconcile, HeldRec, Recoverer
  <2>3. RecKnows(r)'
    BY <1>1, <2>1, <2>2 DEF RecKnows, Judged, Retrying, Crossed
  <2> QED
    BY <1>4, <2>1, <2>2, <2>3
<1>11. CASE RecordReconciled(r)
  <2>1. /\ UNCHANGED <<effects, semantics, task>> /\ i \in AttemptIds /\ Idle(r)
        /\ rec[r].outcome = "ok" => effects[a] > 0
    BY <1>1, <1>2, <1>11 DEF RecordReconciled, tables, RecKnows
  <2>2. \/ rec[r].outcome = "ok" /\ FinishAttempt(i, "SUCCEEDED", OPEN_STATUSES, "CONSUMED")
        \/ FinishAttempt(i, "ABANDONED", OPEN_STATUSES, "FAILED")
    BY <1>11 DEF RecordReconciled
  <2>3. Sound
    BY <1>1, <2>1, <2>2, FinishSound DEF Settles
  <2> QED
    BY <1>3, <2>1, <2>3
<1>12. CASE Recheck(r)
  <2>1. /\ UNCHANGED <<attempts, effects, semantics, task>> /\ Sound
        /\ rec[r].pc = "recheck"
    BY <1>1, <1>12, SameSound DEF Recheck, tables
  <2>2. /\ rec'[r].pc \in {"retry", "park"} /\ rec'[r].attempt = i
        /\ \A q \in Recoverers : q # r => rec'[q] = rec[q]
    BY <1>1, <1>12 DEF Recheck, HeldRec, Recoverer
  <2>3. RecKnows(r)'
    BY <1>1, <2>1, <2>2 DEF RecKnows, Judged, Retrying, Crossed, Repeatable
  <2> QED
    BY <1>4, <2>1, <2>2, <2>3
<1>13. CASE Park(r)
  BY <1>1, <1>2, <1>3, <1>13, FinishSound DEF Park, Settles, tables
<1>14. CASE Retry(r)
  BY <1>14, RetryWorks
<1>15. CASE RecordRetry(r)
  <2>1. /\ UNCHANGED <<effects, semantics, task>> /\ i \in AttemptIds /\ Idle(r)
        /\ rec[r].outcome \in Outcomes /\ RecordOutcome(i, rec[r].outcome)
        /\ rec[r].outcome = "ok" => effects[a] > 0
    BY <1>1, <1>2, <1>15 DEF RecordRetry, tables, RecKnows, HeldRec
  <2>2. Sound
    BY <1>1, <2>1, RecordSound
  <2> QED
    BY <1>3, <2>1, <2>2
<1> QED
  BY <1>5, <1>6, <1>7, <1>8, <1>9, <1>10, <1>11, <1>12, <1>13, <1>14, <1>15 DEF RecoverStep

\* Decisions, devices, failures and time: nobody learns anything, some forget.
LEMMA OthersWork ==
    ASSUME WorkInv, AgreedInv',
           \/ DecisionStep \/ DeviceStep \/ Failure \/ OrphanStep
           \/ \E i \in AttemptIds : LeaseLapses(i)
           \/ UNCHANGED vars
    PROVE  Works'
<1>1. /\ Wellformed
      /\ attempts \in [AttemptIds -> Attempt]
      /\ task \in [Tasks -> HeldTask] /\ rec \in [Recoverers -> HeldRec]
      /\ Core \in Recoverers
  BY ConstantsAssumption DEF WorkInv, AgreedInv, Wellformed, TypeOK, Recoverers
<1>2. UNCHANGED <<effects, semantics>>
  BY DEF DecisionStep, ExpireDue, CreateRequest, ConfirmToGate, DeadlinePasses, Abandon,
     CommitApprove, CommitDeny, elsewhere, DeviceStep, BeginEnrollment, FinalizeAttestation,
     RevokeDevice, RevokeKey, requestsAndWork, requestVars, Failure, CrashCore, CancelTask,
     CrashRecoverer, OrphanStep, ListOrphans, AbandonOrphan, StartServing, tables, LeaseLapses, vars
<1>3. ASSUME \A j \in AttemptIds : /\ attempts'[j].approval = attempts[j].approval
                                   /\ attempts'[j].status = attempts[j].status,
             \A t \in Tasks : task'[t] = task[t] \/ task'[t].pc = "idle",
             \A r \in Recoverers : rec'[r] = rec[r] \/ rec'[r].pc \in {"idle", "orphans", "abandon"}
      PROVE  Works'
  <2>1. Sound
    BY <1>1, <1>2, <1>3, SameSound
  <2>2. Calm
    BY <1>2, <1>3 DEF Calm, HasRow
  <2>3. /\ \A t \in Tasks : task'[t] = task[t] \/ TaskKnows(t)'
        /\ \A r \in Recoverers : rec'[r] = rec[r] \/ RecKnows(r)'
    BY <1>3 DEF TaskKnows, RecKnows, Judged, Retrying
  <2> QED
    BY <2>1, <2>2, <2>3, CalmWorks
<1>4. CASE DecisionStep \/ DeviceStep \/ UNCHANGED vars
  BY <1>3, <1>4
  DEF DecisionStep, ExpireDue, CreateRequest, ConfirmToGate, DeadlinePasses, Abandon,
      CommitApprove, CommitDeny, elsewhere, DeviceStep, BeginEnrollment, FinalizeAttestation,
      RevokeDevice, RevokeKey, requestsAndWork, vars
<1>5. CASE Failure
  <2>1. /\ attempts' = attempts
        /\ \A t \in Tasks : task'[t] = task[t] \/ task'[t].pc = "idle"
    BY <1>1, <1>5 DEF Failure, CrashCore, CancelTask, CrashRecoverer, IdleTask
  <2>2. \A r \in Recoverers : rec'[r] = rec[r] \/ rec'[r].pc = "idle"
    BY <1>1, <1>5 DEF Failure, CrashCore, CancelTask, CrashRecoverer, Idle, IdleRec
  <2> QED
    BY <1>3, <2>1, <2>2
<1>6. CASE OrphanStep
  <2>1. UNCHANGED <<attempts, task>>
    BY <1>6 DEF OrphanStep, ListOrphans, AbandonOrphan, StartServing
  <2>2. /\ \A r \in Recoverers : r # Core => rec'[r] = rec[r]
        /\ rec'[Core].pc \in {"idle", "abandon"}
    BY <1>1, <1>6
    DEF OrphanStep, ListOrphans, AbandonOrphan, StartServing, IdleRec, HeldRec, Recoverer
  <2> QED
    BY <1>3, <2>1, <2>2
<1>7. ASSUME NEW i \in AttemptIds, LeaseLapses(i) PROVE Works'
  <2>1. attempts' = [attempts EXCEPT ![i] = [attempts[i] EXCEPT !.live = FALSE]]
    BY <1>7 DEF LeaseLapses
  <2>2. \A j \in AttemptIds : /\ attempts'[j].approval = attempts[j].approval
                              /\ attempts'[j].status = attempts[j].status
    BY <1>1, <2>1 DEF Attempt
  <2> QED
    BY <1>3, <1>7, <2>2 DEF LeaseLapses
<1> QED
  BY <1>4, <1>5, <1>6, <1>7

LEMMA NextWork == WorkInv /\ [Next]_vars => WorkInv'
<1> SUFFICES ASSUME WorkInv, [Next]_vars PROVE WorkInv'
  OBVIOUS
<1>1. AgreedInv'
  BY NextAgreed DEF WorkInv
<1>2. Works'
  BY <1>1, TaskWorks, ScanWorks, RecoverWorks, OthersWork DEF Next
<1> QED
  BY <1>1, <1>2 DEF WorkInv, Works

\* An effect in the world has a row that crossed the durable boundary before it, and no success
\* is journalled without its effect: whoever acts, whoever dies, and whatever is retried.
THEOREM EffectsJournalled == Spec => []EffectsAreJournalled
<1>1. WorkInv => EffectsAreJournalled
  BY DEF WorkInv
<1> QED
  BY <1>1, InitWork, NextWork, PTL DEF Spec

\* No approval acts on the world twice, not even when its lease lapses under a living executor:
\* only the executor that claimed a row calls the adapter for it, and a recovery repeats a call
\* only where a repeat changes nothing.
THEOREM ActsAtMostOnce == Spec => []AtMostOnce
<1>1. WorkInv => AtMostOnce
  BY DEF WorkInv, Once
<1> QED
  BY <1>1, InitWork, NextWork, PTL DEF Spec

-----------------------------------------------------------------------------
(* The journal tells the truth as long as only the program itself recovers *)
(* it: with executors, start-up scans, crashes and lapsed leases, but with *)
(* nobody running recover_execution, a row recorded as "nothing happened"  *)
(* has no effect in the world, and the whole implements ApprovedAction.    *)
(* With an operator at work neither holds: StaleRecovery shows a case.     *)


\* Where a row stands follows from where its executor is; only a scan may have closed it
\* meanwhile, and only before the boundary.
TaskHolds(t) ==
    LET i == task[t].attempt
        a == task[t].approval
    IN  /\ task[t].pc = "boundary" => attempts[i].status \in {"CLAIMED", "ABANDONED"}
        /\ task[t].pc = "unstarted" => attempts[i].status = "ABANDONED"
        /\ task[t].pc \in {"external", "outcome"} => attempts[i].status = "EXTERNAL_PENDING"
        /\ task[t].pc \in Early => effects[a] = 0
        /\ task[t].pc = "outcome" /\ task[t].outcome = "safe" => effects[a] = 0

Held == \A t \in Tasks : TaskHolds(t)

TruthInv == WorkInv /\ Held /\ NoEffectWhereRuledOut

LEMMA InitTruth == Init => TruthInv
<1> SUFFICES ASSUME Init PROVE TruthInv
  OBVIOUS
<1>1. Held
  BY DEF Init, Held, TaskHolds, IdleTask, Early
<1>2. NoEffectWhereRuledOut
  BY DEF Init, NoEffectWhereRuledOut, NoAttempt
<1> QED
  BY <1>1, <1>2, InitWork DEF TruthInv

\* Two executors never hold rows of one request.
LEMMA OwnApproval ==
    ASSUME WorkInv, NEW t \in Tasks, NEW u \in Tasks, task[t].pc \in HasRow, task[u].pc \in HasRow,
           task[t].approval = task[u].approval
    PROVE  t = u
<1>1. /\ task[t].attempt \in AttemptIds /\ task[u].attempt \in AttemptIds
      /\ task[t].approval \in Approvals
  BY DEF WorkInv, AgreedInv, Wellformed, HeldTask, HasRow
<1>2. task[t].attempt \in RowsOf(task[t].approval) /\ task[u].attempt \in RowsOf(task[t].approval)
  BY <1>1 DEF WorkInv, AgreedInv, OwnRow, RowsOf
<1>3. task[t].attempt = task[u].attempt
  BY <1>1, <1>2 DEF WorkInv, AgreedInv, Agreed, JournalAgreesWithRequest
<1> QED
  BY <1>3 DEF WorkInv, Once

\* A row can move under an executor only out of CLAIMED, and only to be closed.
RowSafe(i) ==
    \/ attempts'[i].status = attempts[i].status
    \/ attempts[i].status = "CLAIMED" /\ attempts'[i].status = "ABANDONED"

LEMMA StillHolds ==
    ASSUME TruthInv, NEW t \in Tasks, task'[t] = task[t],
           task[t].pc \in HasRow => RowSafe(task[t].attempt),
           task[t].pc \in HasRow => effects'[task[t].approval] = effects[task[t].approval]
    PROVE  TaskHolds(t)'
  BY DEF TruthInv, Held, TaskHolds, RowSafe, HasRow, Early

\* A step in which no adapter is called and no executor records an answer.
LEMMA QuietTruth ==
    ASSUME TruthInv, WorkInv', UNCHANGED effects,
           \A i \in AttemptIds : attempts[i].status # "NONE" =>
               RowSafe(i) /\ attempts'[i].approval = attempts[i].approval,
           \A i \in AttemptIds : attempts[i].status = "NONE" =>
               attempts'[i].status \notin {"ABANDONED", "FAILED_SAFE"},
           \A t \in Tasks : task'[t] = task[t] \/ TaskHolds(t)'
    PROVE  TruthInv'
<1>1. /\ task \in [Tasks -> HeldTask] /\ attempts \in [AttemptIds -> Attempt]
      /\ effects \in [Approvals -> 0 .. 2] /\ OwnRow /\ Agreed
  BY DEF TruthInv, WorkInv, AgreedInv, Wellformed, TypeOK
<1>2. ASSUME NEW t \in Tasks PROVE TaskHolds(t)'
  <2>1. CASE task'[t] = task[t]
    <3>1. task[t].pc \in HasRow =>
              task[t].attempt \in AttemptIds /\ attempts[task[t].attempt].status # "NONE"
      BY <1>1 DEF HeldTask, HasRow, OwnRow
    <3> QED
      BY <2>1, <3>1, StillHolds
  <2> QED
    BY <2>1
<1>3. ASSUME NEW i \in AttemptIds, attempts'[i].status \in {"ABANDONED", "FAILED_SAFE"}
      PROVE  effects'[attempts'[i].approval] = 0
  <2>1. /\ attempts[i].status # "NONE" /\ attempts'[i].approval = attempts[i].approval
        /\ attempts[i].status \in {"CLAIMED", "ABANDONED", "FAILED_SAFE"}
    BY <1>3 DEF RowSafe
  <2>2. CASE attempts[i].status = "CLAIMED"
    <3> DEFINE a == attempts[i].approval
    <3>1. a \in Approvals /\ \A j \in RowsOf(a) : j = i
      BY <1>1, <2>2 DEF Agreed, Attempt, JournalAgreesWithRequest, RowsOf
    <3>2. ~(effects[a] > 0)
      BY <2>2, <3>1 DEF TruthInv, WorkInv, EffectsAreJournalled
    <3>3. effects[a] \in 0 .. 2
      BY <1>1, <3>1
    <3> HIDE DEF a
    <3>4. effects[a] = 0
      BY <3>2, <3>3
    <3> QED
      BY <2>1, <3>4 DEF a
  <2>3. CASE attempts[i].status # "CLAIMED"
    BY <2>1, <2>3 DEF TruthInv, NoEffectWhereRuledOut
  <2> QED
    BY <2>2, <2>3
<1> QED
  BY <1>2, <1>3 DEF TruthInv, Held, NoEffectWhereRuledOut

----------------------------------------------------------------------------
LEMMA TaskTruth ==
    ASSUME TruthInv, WorkInv', NEW t \in Tasks,
           TaskStep(t) \/ (\E a \in Approvals : ReadApproved(t, a))
    PROVE  TruthInv'
<1> DEFINE i == task[t].attempt
           a == task[t].approval
<1>1. /\ WorkInv /\ Wellformed /\ Agreed /\ OwnRow
      /\ attempts \in [AttemptIds -> Attempt]
      /\ effects \in [Approvals -> 0 .. 2]
      /\ task \in [Tasks -> HeldTask] /\ task[t] \in HeldTask /\ TaskHolds(t)
  BY DEF TruthInv, WorkInv, AgreedInv, Wellformed, TypeOK, Held
<1>2. task[t].pc \in HasRow =>
          /\ i \in AttemptIds /\ a \in Approvals
          /\ attempts[i].approval = a /\ attempts[i].status # "NONE"
  BY <1>1 DEF HeldTask, HasRow, OwnRow
<1>3. ASSUME UNCHANGED <<attempts, effects>>, \A u \in Tasks : u # t => task'[u] = task[u],
             task'[t].pc \notin HasRow
      PROVE  TruthInv'
  <2>1. TaskHolds(t)'
    BY <1>3 DEF TaskHolds, HasRow, Early
  <2> QED
    BY <1>3, <2>1, QuietTruth DEF RowSafe
<1>4. ASSUME NEW b \in Approvals, ReadApproved(t, b) PROVE TruthInv'
  BY <1>1, <1>3, <1>4 DEF ReadApproved, IdleTask, HasRow
<1>5. CASE PassGate(t)
  <2>1. task'[t].pc \in {"idle", "preflight"} /\ \A u \in Tasks : u # t => task'[u] = task[u]
    BY <1>1, <1>5 DEF PassGate, IdleTask, HeldTask, Task
  <2> QED
    BY <1>3, <1>5, <2>1 DEF PassGate, HasRow
<1>6. CASE Preflight(t)
  <2>1. task'[t].pc \in {"idle", "claim"} /\ \A u \in Tasks : u # t => task'[u] = task[u]
    BY <1>1, <1>6 DEF Preflight, IdleTask, HeldTask, Task
  <2> QED
    BY <1>3, <1>6, <2>1 DEF Preflight, HasRow
<1>7. CASE Claim(t)
  <2>1. UNCHANGED effects /\ a \in Approvals
    BY <1>1, <1>7 DEF Claim, tables, HeldTask
  <2>2. CASE ~ClaimHolds(t)
    <3>1. attempts' = attempts /\ task' = [task EXCEPT ![t] = IdleTask]
      BY <1>7, <2>2 DEF Claim
    <3> QED
      BY <1>1, <1>3, <2>1, <3>1 DEF IdleTask, HasRow
  <2>3. CASE ClaimHolds(t)
    <3>1. PICK j \in AttemptIds :
              /\ attempts[j].status = "NONE"
              /\ attempts' = [attempts EXCEPT ![j] =
                     [approval |-> a, device |-> task[t].device, gen |-> dev[task[t].device].gen,
                      status |-> "CLAIMED", owner |-> t, live |-> TRUE]]
              /\ task' = [task EXCEPT ![t].pc = "boundary", ![t].attempt = j]
      BY <1>7, <2>3 DEF Claim
    <3>2. /\ task'[t].pc = "boundary" /\ task'[t].attempt = j /\ task'[t].approval = a
          /\ \A u \in Tasks : u # t => task'[u] = task[u]
          /\ attempts'[j].status = "CLAIMED"
          /\ \A k \in AttemptIds : k # j => attempts'[k] = attempts[k]
      BY <1>1, <3>1 DEF HeldTask, Task
    <3>3. effects[a] = 0
      <4>1. request[a] = "APPROVED"
        BY <2>3 DEF ClaimHolds
      <4>2. RowsOf(a) = {}
        BY <1>1, <2>1, <4>1 DEF Agreed, JournalAgreesWithRequest
      <4>3. ~(effects[a] > 0)
        BY <2>1, <4>2 DEF TruthInv, WorkInv, EffectsAreJournalled
      <4>4. effects[a] \in 0 .. 2
        BY <1>1, <2>1
      <4> HIDE DEF a
      <4> QED
        BY <4>3, <4>4
    <3>4. TaskHolds(t)'
      BY <2>1, <3>2, <3>3 DEF TaskHolds, Early
    <3> QED
      BY <2>1, <3>1, <3>2, <3>4, QuietTruth DEF RowSafe
  <2> QED
    BY <2>2, <2>3
<1>8. CASE BeginExternal(t)
  <2>1. /\ task[t].pc = "boundary" /\ UNCHANGED effects
        /\ i \in AttemptIds /\ attempts[i] \in Attempt /\ attempts[i].approval = a
        /\ attempts[i].status \in {"CLAIMED", "ABANDONED"} /\ effects[a] = 0
    BY <1>1, <1>2, <1>8 DEF BeginExternal, tables, HasRow, TaskHolds, Early
  <2>2. /\ \A u \in Tasks : u # t => task'[u] = task[u]
        /\ task'[t].attempt = i /\ task'[t].approval = a
        /\ \/ task'[t].pc = "external" /\ attempts' = [attempts EXCEPT ![i].status = "EXTERNAL_PENDING"]
           \/ /\ task'[t].pc = "unstarted"
              /\ \/ attempts[i].status = "ABANDONED" /\ attempts' = attempts
                 \/ /\ attempts[i].status = "CLAIMED"
                    /\ attempts' = [attempts EXCEPT ![i].status = "ABANDONED"]
    BY <1>1, <1>8, <2>1 DEF BeginExternal, HeldTask, Task
  <2>3. /\ \A j \in AttemptIds : /\ j # i => attempts'[j] = attempts[j]
                                 /\ attempts'[j].approval = attempts[j].approval
        /\ task'[t].pc = "external" => attempts'[i].status = "EXTERNAL_PENDING"
        /\ task'[t].pc = "unstarted" => attempts'[i].status = "ABANDONED"
    BY <1>1, <2>1, <2>2 DEF Attempt
  <2>4. TaskHolds(t)'
    BY <2>1, <2>2, <2>3 DEF TaskHolds, Early
  <2>5. ASSUME NEW u \in Tasks, u # t PROVE TaskHolds(u)'
    <3>1. task[u].pc \in HasRow => task[u].attempt \in AttemptIds /\ task[u].attempt # i
      BY <1>1, <2>1, <2>5 DEF WorkInv, Once, HasRow, HeldTask
    <3> QED
      BY <2>1, <2>2, <2>3, <2>5, <3>1, StillHolds DEF RowSafe
  <2>6. NoEffectWhereRuledOut'
    BY <2>1, <2>2, <2>3 DEF TruthInv, NoEffectWhereRuledOut
  <2> QED
    BY <2>4, <2>5, <2>6 DEF TruthInv, Held
<1>9. ASSUME NEW outcome, NEW expected, NEW final, task[t].pc \in HasRow, UNCHANGED effects,
             FinishAttempt(i, outcome, expected, final),
             outcome \in {"ABANDONED", "FAILED_SAFE"} => effects[a] = 0 \/ ~Open(i),
             task' = [task EXCEPT ![t] = IdleTask]
      PROVE  TruthInv'
  <2>1. /\ \A j \in AttemptIds : /\ attempts'[j].approval = attempts[j].approval
                                 /\ j # i => attempts'[j] = attempts[j]
        /\ \/ attempts'[i] = attempts[i]
           \/ attempts'[i].status = outcome /\ Open(i)
    BY <1>1, <1>2, <1>9, FinishRow DEF Open
  <2>2. task'[t].pc = "idle" /\ \A u \in Tasks : u # t => task'[u] = task[u]
    BY <1>1, <1>9 DEF IdleTask
  <2>3. TaskHolds(t)'
    BY <2>2 DEF TaskHolds, Early
  <2>4. ASSUME NEW u \in Tasks, u # t PROVE TaskHolds(u)'
    <3>1. task[u].pc \in HasRow => task[u].attempt \in AttemptIds /\ task[u].attempt # i
      BY <1>1, <1>9, <2>4 DEF WorkInv, Once, HasRow, HeldTask
    <3> QED
      BY <1>9, <2>1, <2>2, <2>4, <3>1, StillHolds DEF RowSafe
  <2>5. NoEffectWhereRuledOut'
    BY <1>2, <1>9, <2>1 DEF TruthInv, NoEffectWhereRuledOut
  <2> QED
    BY <2>3, <2>4, <2>5 DEF TruthInv, Held
<1>10. CASE CloseUnstarted(t)
  <2>1. ~Open(i)
    BY <1>1, <1>10 DEF CloseUnstarted, TaskHolds, Open, OPEN_STATUSES
  <2> QED
    BY <1>9, <1>10, <2>1 DEF CloseUnstarted, HasRow, tables
<1>11. CASE RecordRun(t)
  <2>1. /\ task[t].pc \in HasRow /\ UNCHANGED effects /\ task' = [task EXCEPT ![t] = IdleTask]
        /\ task[t].outcome \in Outcomes /\ RecordOutcome(i, task[t].outcome)
        /\ task[t].outcome = "safe" => effects[a] = 0
    BY <1>1, <1>11 DEF RecordRun, HasRow, tables, TaskHolds, HeldTask
  <2>2. \/ FinishAttempt(i, "SUCCEEDED", OPEN_STATUSES, "CONSUMED")
        \/ task[t].outcome = "safe" /\ FinishAttempt(i, "FAILED_SAFE", OPEN_STATUSES, "FAILED")
        \/ FinishAttempt(i, "UNKNOWN", OPEN_STATUSES, "KEEP")
    BY <2>1 DEF RecordOutcome, Outcomes
  <2> QED
    BY <1>9, <2>1, <2>2
<1>12. CASE CallAdapter(t)
  <2>1. /\ task[t].pc = "external" /\ i \in AttemptIds /\ a \in Approvals
        /\ attempts[i].approval = a /\ attempts[i].status = "EXTERNAL_PENDING"
        /\ UNCHANGED attempts
    BY <1>1, <1>2, <1>12 DEF CallAdapter, HasRow, TaskHolds
  <2>2. PICK answer \in Outcomes :
            /\ AdapterAnswer(a, answer)
            /\ task' = [task EXCEPT ![t].pc = "outcome", ![t].outcome = answer]
    BY <1>12 DEF CallAdapter
  <2>3. /\ task'[t].pc = "outcome" /\ task'[t].outcome = answer
        /\ task'[t].attempt = i /\ task'[t].approval = a
        /\ \A u \in Tasks : u # t => task'[u] = task[u]
    BY <1>1, <2>2 DEF HeldTask, Task
  <2>4. /\ answer = "safe" => effects'[a] = 0
        /\ \A b \in Approvals : b # a => effects'[b] = effects[b]
    BY <1>1, <2>1, <2>2 DEF AdapterAnswer, Happens
  <2>5. TaskHolds(t)'
    BY <2>1, <2>3, <2>4 DEF TaskHolds, Early
  <2>6. ASSUME NEW u \in Tasks, u # t PROVE TaskHolds(u)'
    <3>1. task[u].pc \in HasRow => task[u].approval \in Approvals /\ task[u].approval # a
      <4>1. task[u].pc \in HasRow => task[u].approval \in Approvals
        BY <1>1 DEF HeldTask, HasRow
      <4>2. task[t].pc \in HasRow
        BY <2>1 DEF HasRow
      <4> QED
        BY <1>1, <2>6, <4>1, <4>2, OwnApproval
    <3> QED
      BY <2>1, <2>3, <2>4, <2>6, <3>1, StillHolds DEF RowSafe
  <2>7. NoEffectWhereRuledOut'
    <3> SUFFICES ASSUME NEW j \in AttemptIds, attempts[j].status \in {"ABANDONED", "FAILED_SAFE"}
                 PROVE  effects'[attempts[j].approval] = 0
      BY <2>1 DEF NoEffectWhereRuledOut
    <3>1. attempts[j].approval \in Approvals /\ attempts[j].approval # a
      BY <1>1, <2>1 DEF Agreed, Attempt, JournalAgreesWithRequest, RowsOf
    <3> QED
      BY <2>4, <3>1 DEF TruthInv, NoEffectWhereRuledOut
  <2> QED
    BY <2>5, <2>6, <2>7 DEF TruthInv, Held
<1> QED
  BY <1>4, <1>5, <1>6, <1>7, <1>8, <1>10, <1>11, <1>12 DEF TaskStep

LEMMA ScanTruth ==
    ASSUME TruthInv, WorkInv', NEW s \in Scanners, ScanStep(s)
    PROVE  TruthInv'
<1>1. /\ Wellformed /\ attempts \in [AttemptIds -> Attempt]
      /\ s \in Recoverers /\ rec[s] \in HeldRec
      /\ UNCHANGED <<effects, task>>
  BY DEF TruthInv, WorkInv, AgreedInv, Wellformed, TypeOK, Recoverers, ScanStep, ScanRead, ScanLease,
     ScanReread, ScanFinish, ScanDone, tables
<1>2. ASSUME \A i \in AttemptIds : RowSafe(i) /\ attempts'[i].approval = attempts[i].approval
      PROVE  TruthInv'
  <2>1. \A i \in AttemptIds : attempts[i].status = "NONE" =>
            attempts'[i].status \notin {"ABANDONED", "FAILED_SAFE"}
    BY <1>2 DEF RowSafe
  <2> QED
    BY <1>1, <1>2, <2>1, QuietTruth
<1>3. CASE ScanRead(s) \/ ScanReread(s) \/ ScanDone(s)
  BY <1>2, <1>3 DEF ScanRead, ScanReread, ScanDone, RowSafe
<1>4. CASE ScanFinish(s)
  <2>1. rec[s].attempt \in AttemptIds
    BY <1>1, <1>4 DEF ScanFinish, HeldRec
  <2>2. FinishAttempt(rec[s].attempt, "ABANDONED", {"CLAIMED"}, "FAILED")
    BY <1>4 DEF ScanFinish
  <2>3. \A i \in AttemptIds : RowSafe(i) /\ attempts'[i].approval = attempts[i].approval
    BY <1>1, <2>1, <2>2, FinishRow DEF RowSafe
  <2> QED
    BY <1>2, <2>3
<1>5. ASSUME NEW i \in AttemptIds, ScanLease(s, i) PROVE TruthInv'
  <2>1. \A j \in AttemptIds : /\ attempts'[j].status = attempts[j].status
                              /\ attempts'[j].approval = attempts[j].approval
    <3>1. CASE AcquireLease(s, i)
      <4>1. attempts' = [attempts EXCEPT ![i] = [attempts[i] EXCEPT !.owner = s, !.live = TRUE]]
        BY <1>1, <3>1 DEF AcquireLease
      <4> QED
        BY <1>1, <4>1 DEF Attempt
    <3> QED
      BY <1>5, <3>1 DEF ScanLease
  <2> QED
    BY <1>2, <2>1 DEF RowSafe
<1> QED
  BY <1>3, <1>4, <1>5 DEF ScanStep

LEMMA OthersTruth ==
    ASSUME TruthInv, WorkInv',
           \/ DecisionStep \/ DeviceStep \/ Failure \/ OrphanStep
           \/ \E i \in AttemptIds : LeaseLapses(i)
           \/ UNCHANGED vars
    PROVE  TruthInv'
<1>1. /\ attempts \in [AttemptIds -> Attempt] /\ task \in [Tasks -> HeldTask]
  BY DEF TruthInv, WorkInv, AgreedInv, Wellformed, TypeOK
<1>2. UNCHANGED effects
  BY DEF DecisionStep, ExpireDue, CreateRequest, ConfirmToGate, DeadlinePasses, Abandon,
     CommitApprove, CommitDeny, elsewhere, DeviceStep, BeginEnrollment, FinalizeAttestation,
     RevokeDevice, RevokeKey, requestsAndWork, requestVars, Failure, CrashCore, CancelTask,
     CrashRecoverer, OrphanStep, ListOrphans, AbandonOrphan, StartServing, tables, LeaseLapses, vars
<1>3. \A j \in AttemptIds : /\ attempts'[j].approval = attempts[j].approval
                            /\ attempts'[j].status = attempts[j].status
  <2>1. CASE \E i \in AttemptIds : LeaseLapses(i)
    <3>1. PICK i \in AttemptIds : attempts' = [attempts EXCEPT ![i].live = FALSE]
      BY <2>1 DEF LeaseLapses
    <3>2. attempts' = [attempts EXCEPT ![i] = [attempts[i] EXCEPT !.live = FALSE]]
      BY <3>1
    <3> QED
      BY <1>1, <3>2 DEF Attempt
  <2>2. CASE ~\E i \in AttemptIds : LeaseLapses(i)
    BY <2>2 DEF DecisionStep, ExpireDue, CreateRequest, ConfirmToGate, DeadlinePasses, Abandon,
       CommitApprove, CommitDeny, elsewhere, DeviceStep, BeginEnrollment, FinalizeAttestation,
       RevokeDevice, RevokeKey, requestsAndWork, Failure, CrashCore, CancelTask, CrashRecoverer,
       OrphanStep, ListOrphans, AbandonOrphan, StartServing, vars
  <2> QED
    BY <2>1, <2>2
<1>4. \A t \in Tasks : task'[t] = task[t] \/ task'[t].pc = "idle"
  <2>1. CASE Failure
    BY <1>1, <2>1 DEF Failure, CrashCore, CancelTask, CrashRecoverer, IdleTask
  <2>2. CASE ~Failure
    BY <2>2 DEF DecisionStep, ExpireDue, CreateRequest, ConfirmToGate, DeadlinePasses, Abandon,
       CommitApprove, CommitDeny, elsewhere, DeviceStep, BeginEnrollment, FinalizeAttestation,
       RevokeDevice, RevokeKey, requestsAndWork, OrphanStep, ListOrphans, AbandonOrphan,
       StartServing, LeaseLapses, vars
  <2> QED
    BY <2>1, <2>2
<1>5. \A t \in Tasks : task'[t] = task[t] \/ TaskHolds(t)'
  BY <1>4 DEF TaskHolds, Early
<1> QED
  BY <1>2, <1>3, <1>5, QuietTruth DEF RowSafe

LEMMA NextTruth ==
    ASSUME Admins = {}
    PROVE  TruthInv /\ [Next]_vars => TruthInv'
<1> SUFFICES ASSUME TruthInv, [Next]_vars PROVE TruthInv'
  OBVIOUS
<1>1. WorkInv'
  BY NextWork DEF TruthInv
<1> QED
  BY <1>1, TaskTruth, ScanTruth, OthersTruth DEF Next

\* Where only executors and start-up scans close rows, a row closed as "nothing happened" is
\* right for ever: no effect of its request is found, then or later.
THEOREM RuledOutTruly ==
    ASSUME Admins = {}
    PROVE  Spec => []NoEffectWhereRuledOut
<1>1. TruthInv => NoEffectWhereRuledOut
  BY DEF TruthInv
<1> QED
  BY <1>1, InitTruth, NextTruth, PTL DEF Spec

----------------------------------------------------------------------------
(* The refinement: every step is a step of ApprovedAction or none.         *)

AbstractStep == [Abstract!Next]_(Abstract!absVars)

\* What the two tables let a reader conclude, state by state of the request.
PhaseFacts ==
    \A a \in Approvals :
        /\ request[a] = "NEW" => Phase(a) = "unasked"
        /\ request[a] = "PENDING" => Phase(a) = "asked"
        /\ request[a] = "APPROVED" => Phase(a) = "approved"
        /\ request[a] \in {"DENIED", "EXPIRED"} => Phase(a) = "refused"
        /\ request[a] = "CONSUMED" => Phase(a) = "happened"
        /\ request[a] = "FAILED" => Phase(a) = "did_not_happen"
        /\ request[a] = "EXECUTING" => \A i \in AttemptIds : attempts[i].approval = a =>
               Phase(a) = IF attempts[i].status = "CLAIMED" THEN "claimed" ELSE "may_have_happened"

LEMMA PhaseReads == AgreedInv => PhaseFacts
<1> SUFFICES ASSUME AgreedInv, NEW a \in Approvals
             PROVE  /\ request[a] = "NEW" => Phase(a) = "unasked"
                    /\ request[a] = "PENDING" => Phase(a) = "asked"
                    /\ request[a] = "APPROVED" => Phase(a) = "approved"
                    /\ request[a] \in {"DENIED", "EXPIRED"} => Phase(a) = "refused"
                    /\ request[a] = "CONSUMED" => Phase(a) = "happened"
                    /\ request[a] = "FAILED" => Phase(a) = "did_not_happen"
                    /\ request[a] = "EXECUTING" =>
                           \A i \in AttemptIds : attempts[i].approval = a =>
                               Phase(a) = IF attempts[i].status = "CLAIMED" THEN "claimed"
                                          ELSE "may_have_happened"
  BY DEF PhaseFacts
<1>1. ASSUME NEW i \in AttemptIds, attempts[i].approval = a, request[a] = "EXECUTING"
      PROVE  Phase(a) = IF attempts[i].status = "CLAIMED" THEN "claimed" ELSE "may_have_happened"
  <2>1. i \in RowsOf(a) /\ \A j \in RowsOf(a) : j = i
    BY <1>1 DEF AgreedInv, Agreed, JournalAgreesWithRequest, RowsOf
  <2>2. (\E j \in RowsOf(a) : attempts[j].status = "CLAIMED") <=> attempts[i].status = "CLAIMED"
    BY <2>1
  <2> QED
    BY <1>1, <2>2 DEF Phase
<1>2. request[a] # "EXECUTING" =>
          /\ request[a] = "NEW" => Phase(a) = "unasked"
          /\ request[a] = "PENDING" => Phase(a) = "asked"
          /\ request[a] = "APPROVED" => Phase(a) = "approved"
          /\ request[a] \in {"DENIED", "EXPIRED"} => Phase(a) = "refused"
          /\ request[a] = "CONSUMED" => Phase(a) = "happened"
          /\ request[a] = "FAILED" => Phase(a) = "did_not_happen"
  BY DEF Phase
<1> QED
  BY <1>1, <1>2

LEMMA PhaseReadsNext == AgreedInv' => PhaseFacts'
  BY PhaseReads, PTL

\* Nothing a reader looks at has moved.
LEMMA SamePhase ==
    ASSUME NEW a \in Approvals, request'[a] = request[a],
           \A i \in AttemptIds :
               /\ attempts'[i].approval = a <=> attempts[i].approval = a
               /\ attempts[i].approval = a =>
                      (attempts'[i].status = "CLAIMED" <=> attempts[i].status = "CLAIMED")
    PROVE  Phase(a)' = Phase(a)
<1>1. RowsOf(a)' = RowsOf(a)
  BY DEF RowsOf
<1>2. (\E i \in RowsOf(a) : attempts'[i].status = "CLAIMED")
          <=> (\E i \in RowsOf(a) : attempts[i].status = "CLAIMED")
  BY DEF RowsOf
<1> QED
  BY <1>1, <1>2 DEF Phase

LEMMA Stutter ==
    ASSUME UNCHANGED effects, \A a \in Approvals : Phase(a)' = Phase(a)
    PROVE  AbstractStep
<1>1. [a \in Approvals |-> Phase(a)]' = [a \in Approvals |-> Phase(a)]
  OBVIOUS
<1> QED
  BY <1>1 DEF AbstractStep, Abstract!absVars

LEMMA MoveStep ==
    ASSUME NEW a \in Approvals, NEW from, NEW to, UNCHANGED effects,
           Phase(a) = from, Phase(a)' = to,
           \A b \in Approvals : b # a => Phase(b)' = Phase(b)
    PROVE  Abstract!Move(a, from, to)
<1>1. [b \in Approvals |-> Phase(b)]' = [[b \in Approvals |-> Phase(b)] EXCEPT ![a] = to]
  OBVIOUS
<1> QED
  BY <1>1 DEF Abstract!Move

LEMMA RefuseStep ==
    ASSUME TruthInv, TruthInv', UNCHANGED <<attempts, effects>>, NEW S \in SUBSET Approvals,
           \A a \in S : request[a] \in {"PENDING", "APPROVED"}
                       /\ request'[a] \in {"DENIED", "EXPIRED"},
           \A a \in Approvals \ S : request'[a] = request[a]
    PROVE  AbstractStep
<1>1. PhaseFacts /\ PhaseFacts'
  BY PhaseReads, PhaseReadsNext DEF TruthInv, WorkInv
<1>2. \A a \in Approvals \ S : Phase(a)' = Phase(a)
  BY SamePhase
<1>3. \A a \in S : Phase(a) \in {"asked", "approved"} /\ Phase(a)' = "refused"
  BY <1>1 DEF PhaseFacts
<1>4. CASE S = {}
  BY <1>2, <1>4, Stutter
<1>5. CASE S # {}
  <2>1. [a \in Approvals |-> Phase(a)]' =
            [a \in Approvals |-> IF a \in S THEN "refused" ELSE [b \in Approvals |-> Phase(b)][a]]
    BY <1>2, <1>3
  <2>2. \A a \in S : [b \in Approvals |-> Phase(b)][a] \in {"asked", "approved"}
    BY <1>3
  <2>3. Abstract!Refuse(S)
    BY <1>5, <2>1, <2>2 DEF Abstract!Refuse
  <2> QED
    BY <2>3 DEF AbstractStep, Abstract!Next
<1> QED
  BY <1>4, <1>5

\* Closing or marking a row gives up a claim, settles what may have happened, or says nothing.
LEMMA SettleStep ==
    ASSUME TruthInv, TruthInv', NEW i \in AttemptIds, NEW outcome, NEW expected, NEW final,
           NEW a, attempts[i].approval = a,
           Settles(outcome, final), FinishAttempt(i, outcome, expected, final), UNCHANGED effects,
           attempts[i].status = "CLAIMED" => outcome = "ABANDONED",
           outcome = "SUCCEEDED" => effects[a] > 0,
           final = "FAILED" /\ attempts[i].status \in (expected \cap OPEN_STATUSES) \ {"CLAIMED"}
               => effects[a] = 0
    PROVE  AbstractStep
<1> DEFINE applies == /\ attempts[i].status \in expected \cap OPEN_STATUSES
                      /\ final = "KEEP" \/ request[a] = "EXECUTING"
<1>1. /\ Wellformed /\ Agreed /\ attempts \in [AttemptIds -> Attempt]
      /\ attempts[i] \in Attempt
      /\ request \in [Approvals -> RequestStates]
      /\ effects \in [Approvals -> 0 .. 2] /\ AtMostOnce
  BY DEF TruthInv, WorkInv, AgreedInv, Wellformed, TypeOK, Once
<1>2. PhaseFacts /\ PhaseFacts'
  BY PhaseReads, PhaseReadsNext DEF TruthInv, WorkInv
<1>3. CASE ~applies
  <2>1. attempts' = attempts /\ request' = request
    BY <1>3 DEF FinishAttempt
  <2>2. \A b \in Approvals : Phase(b)' = Phase(b)
    BY <2>1, SamePhase
  <2> QED
    BY <2>2, Stutter
<1>4. CASE applies
  <2>1. attempts' = [attempts EXCEPT ![i] = [attempts[i] EXCEPT !.status = outcome, !.owner = NULL,
                                                                !.live = FALSE]]
    BY <1>1, <1>4 DEF FinishAttempt, Attempt
  <2>2. /\ attempts'[i].status = outcome
        /\ \A j \in AttemptIds : /\ attempts'[j].approval = attempts[j].approval
                                 /\ j # i => attempts'[j] = attempts[j]
    BY <1>1, <2>1 DEF Attempt
  <2>3. a \in Approvals /\ a # NULL
    BY <1>1, <1>4, ConstantsAssumption DEF Agreed, Attempt, OPEN_STATUSES
  <2>4. request[a] = "EXECUTING"
    BY <1>1, <1>4, <2>3 DEF Agreed, JournalAgreesWithRequest, RowsOf, Open
  <2>5. request' = IF final # "KEEP" THEN [request EXCEPT ![a] = final] ELSE request
    BY <1>4 DEF FinishAttempt
  <2>6. /\ final # "KEEP" => request'[a] = final
        /\ final = "KEEP" => request'[a] = "EXECUTING"
        /\ \A b \in Approvals : b # a => request'[b] = request[b]
    BY <1>1, <2>3, <2>4, <2>5
  <2>7. \A b \in Approvals : b # a => Phase(b)' = Phase(b)
    BY <2>2, <2>6, SamePhase
  <2>8. Phase(a) = IF attempts[i].status = "CLAIMED" THEN "claimed" ELSE "may_have_happened"
    BY <1>2, <2>3, <2>4 DEF PhaseFacts
  <2>9. CASE outcome = "UNKNOWN"
    <3>1. Phase(a)' = "may_have_happened" /\ Phase(a) = "may_have_happened"
      BY <1>2, <2>2, <2>3, <2>6, <2>8, <2>9 DEF PhaseFacts, Settles
    <3> QED
      BY <2>7, <3>1, Stutter
  <2>10. CASE outcome = "SUCCEEDED"
    <3>1. Phase(a)' = "happened" /\ Phase(a) = "may_have_happened"
      BY <1>2, <2>3, <2>6, <2>8, <2>10 DEF PhaseFacts, Settles
    <3>2. effects[a] = 1
      <4>1. effects[a] > 0 /\ effects[a] <= 1 /\ effects[a] \in 0 .. 2
        BY <1>1, <2>3, <2>10 DEF AtMostOnce
      <4> QED
        BY <4>1
    <3>3. Abstract!Confirm(a)
      BY <2>3, <2>7, <3>1, <3>2, MoveStep DEF Abstract!Confirm
    <3> QED
      BY <2>3, <3>3 DEF AbstractStep, Abstract!Next
  <2>11. CASE outcome \in {"FAILED_SAFE", "ABANDONED"} /\ attempts[i].status = "CLAIMED"
    <3>1. Phase(a)' = "did_not_happen" /\ Phase(a) = "claimed"
      BY <1>2, <2>3, <2>6, <2>8, <2>11 DEF PhaseFacts, Settles
    <3>2. Abstract!GiveUp(a)
      BY <2>3, <2>7, <3>1, MoveStep DEF Abstract!GiveUp
    <3> QED
      BY <2>3, <3>2 DEF AbstractStep, Abstract!Next
  <2>12. CASE outcome \in {"FAILED_SAFE", "ABANDONED"} /\ attempts[i].status # "CLAIMED"
    <3>1. Phase(a)' = "did_not_happen" /\ Phase(a) = "may_have_happened"
      BY <1>2, <2>3, <2>6, <2>8, <2>12 DEF PhaseFacts, Settles
    <3>2. effects[a] = 0
      BY <1>4, <2>12 DEF Settles
    <3>3. Abstract!RuleOut(a)
      BY <2>3, <2>7, <3>1, <3>2, MoveStep DEF Abstract!RuleOut
    <3> QED
      BY <2>3, <3>3 DEF AbstractStep, Abstract!Next
  <2> QED
    BY <2>9, <2>10, <2>11, <2>12 DEF Settles
<1> QED
  BY <1>3, <1>4

LEMMA ClaimStep ==
    ASSUME TruthInv, TruthInv', NEW t \in Tasks, NEW a, task[t].approval = a, Claim(t)
    PROVE  AbstractStep
<1>1. /\ attempts \in [AttemptIds -> Attempt] /\ Agreed
      /\ request \in [Approvals -> RequestStates]
      /\ a \in Approvals /\ a # NULL /\ UNCHANGED effects
  BY ConstantsAssumption
  DEF TruthInv, WorkInv, AgreedInv, Wellformed, TypeOK, HeldTask, Claim, tables
<1>2. PhaseFacts /\ PhaseFacts'
  BY PhaseReads, PhaseReadsNext DEF TruthInv, WorkInv
<1>3. CASE ~ClaimHolds(t)
  <2>1. attempts' = attempts /\ request' = request
    BY <1>3 DEF Claim
  <2> QED
    BY <1>1, <2>1, SamePhase, Stutter
<1>4. CASE ClaimHolds(t)
  <2>1. PICK i \in AttemptIds :
            /\ attempts[i].status = "NONE"
            /\ attempts' = [attempts EXCEPT ![i] =
                   [approval |-> a, device |-> task[t].device, gen |-> dev[task[t].device].gen,
                    status |-> "CLAIMED", owner |-> t, live |-> TRUE]]
    BY <1>4 DEF Claim
  <2>2. request[a] = "APPROVED" /\ request' = [request EXCEPT ![a] = "EXECUTING"]
    BY <1>4 DEF Claim, ClaimHolds
  <2>3. /\ attempts[i].approval = NULL
        /\ attempts'[i].approval = a /\ attempts'[i].status = "CLAIMED"
        /\ \A j \in AttemptIds : j # i => attempts'[j] = attempts[j]
        /\ request'[a] = "EXECUTING"
        /\ \A b \in Approvals : b # a => request'[b] = request[b]
    BY <1>1, <2>1, <2>2 DEF Agreed
  <2>4. \A b \in Approvals : b # a => Phase(b)' = Phase(b)
    BY <1>1, <2>3, ConstantsAssumption, SamePhase
  <2>5. Phase(a) = "approved" /\ Phase(a)' = "claimed"
    BY <1>1, <1>2, <2>2, <2>3 DEF PhaseFacts
  <2>6. Abstract!Claim(a)
    BY <1>1, <2>4, <2>5, MoveStep DEF Abstract!Claim
  <2> QED
    BY <1>1, <2>6 DEF AbstractStep, Abstract!Next
<1> QED
  BY <1>3, <1>4

LEMMA CrossStep ==
    ASSUME TruthInv, TruthInv', NEW t \in Tasks, NEW a, task[t].approval = a,
           NEW i, task[t].attempt = i, BeginExternal(t)
    PROVE  AbstractStep
<1>1. /\ attempts \in [AttemptIds -> Attempt] /\ attempts[i] \in Attempt
      /\ request \in [Approvals -> RequestStates] /\ UNCHANGED effects
      /\ a \in Approvals /\ i \in AttemptIds /\ attempts[i].approval = a
      /\ JournalAgreesWithRequest
  BY DEF TruthInv, WorkInv, AgreedInv, Agreed, OwnRow, Wellformed, TypeOK, HeldTask, HasRow,
     BeginExternal, tables
<1>2. PhaseFacts /\ PhaseFacts'
  BY PhaseReads, PhaseReadsNext DEF TruthInv, WorkInv
<1>3. CASE attempts[i].status # "CLAIMED"
  <2>1. attempts' = attempts /\ request' = request
    BY <1>3 DEF BeginExternal
  <2> QED
    BY <1>1, <2>1, SamePhase, Stutter
<1>4. CASE attempts[i].status = "CLAIMED"
  <2>1. request[a] = "EXECUTING" /\ Phase(a) = "claimed"
    BY <1>1, <1>2, <1>4 DEF JournalAgreesWithRequest, RowsOf, Open, OPEN_STATUSES, PhaseFacts
  <2>2. ASSUME NEW status, attempts' = [attempts EXCEPT ![i].status = status],
               \A b \in Approvals : b # a => request'[b] = request[b]
        PROVE  /\ attempts'[i].status = status /\ attempts'[i].approval = a
               /\ \A b \in Approvals : b # a => Phase(b)' = Phase(b)
    <3>1. /\ attempts'[i].status = status
          /\ \A j \in AttemptIds : /\ attempts'[j].approval = attempts[j].approval
                                   /\ j # i => attempts'[j] = attempts[j]
      BY <1>1, <2>2 DEF Attempt
    <3> QED
      BY <1>1, <2>2, <3>1, SamePhase
  <2>3. CASE attempts' = [attempts EXCEPT ![i].status = "EXTERNAL_PENDING"] /\ request' = request
    <3>1. Phase(a)' = "may_have_happened"
      BY <1>1, <1>2, <2>1, <2>2, <2>3 DEF PhaseFacts
    <3>2. Abstract!Cross(a)
      BY <1>1, <2>1, <2>2, <2>3, <3>1, MoveStep DEF Abstract!Cross
    <3> QED
      BY <1>1, <3>2 DEF AbstractStep, Abstract!Next
  <2>4. CASE /\ attempts' = [attempts EXCEPT ![i].status = "ABANDONED"]
             /\ request' = [request EXCEPT ![a] = "FAILED"]
    <3>1. request'[a] = "FAILED" /\ \A b \in Approvals : b # a => request'[b] = request[b]
      BY <1>1, <2>4
    <3>2. Phase(a)' = "did_not_happen"
      BY <1>1, <1>2, <3>1 DEF PhaseFacts
    <3>3. Abstract!GiveUp(a)
      BY <1>1, <2>1, <2>2, <2>4, <3>1, <3>2, MoveStep DEF Abstract!GiveUp
    <3> QED
      BY <1>1, <3>3 DEF AbstractStep, Abstract!Next
  <2> QED
    BY <1>4, <2>3, <2>4 DEF BeginExternal
<1> QED
  BY <1>3, <1>4

\* The one step that touches the world.
LEMMA CallStep ==
    ASSUME TruthInv, TruthInv', NEW t \in Tasks, NEW a, task[t].approval = a,
           NEW i, task[t].attempt = i, CallAdapter(t)
    PROVE  AbstractStep
<1>1. /\ a \in Approvals /\ i \in AttemptIds /\ attempts[i].approval = a
      /\ attempts[i].status = "EXTERNAL_PENDING" /\ effects[a] = 0
      /\ UNCHANGED <<attempts, request>> /\ effects \in [Approvals -> 0 .. 2]
      /\ JournalAgreesWithRequest
  BY DEF TruthInv, WorkInv, AgreedInv, Agreed, OwnRow, Wellformed, TypeOK, HeldTask, HasRow,
     CallAdapter, Held, TaskHolds, Early, requestVars
<1>2. \A b \in Approvals : Phase(b)' = Phase(b)
  BY <1>1, SamePhase
<1>3. Phase(a) = "may_have_happened"
  <2>1. request[a] = "EXECUTING"
    BY <1>1 DEF JournalAgreesWithRequest, RowsOf, Open, OPEN_STATUSES
  <2> QED
    BY <1>1, <2>1, PhaseReads DEF TruthInv, WorkInv, PhaseFacts
<1>4. effects' = effects \/ effects' = [effects EXCEPT ![a] = 1]
  BY <1>1 DEF CallAdapter, AdapterAnswer, Happens
<1>5. CASE effects' = effects
  BY <1>2, <1>5, Stutter
<1>6. CASE effects' = [effects EXCEPT ![a] = 1]
  <2>1. [b \in Approvals |-> Phase(b)]' = [b \in Approvals |-> Phase(b)]
    BY <1>2
  <2>2. Abstract!TakeEffect(a)
    BY <1>1, <1>3, <1>6, <2>1 DEF Abstract!TakeEffect
  <2> QED
    BY <1>1, <2>2 DEF AbstractStep, Abstract!Next
<1> QED
  BY <1>4, <1>5, <1>6

LEMMA TaskRefines ==
    ASSUME TruthInv, TruthInv', NEW t \in Tasks,
           TaskStep(t) \/ (\E a \in Approvals : ReadApproved(t, a))
    PROVE  AbstractStep
<1>1. CASE PassGate(t) \/ Preflight(t) \/ \E a \in Approvals : ReadApproved(t, a)
  BY <1>1, SamePhase, Stutter DEF PassGate, Preflight, ReadApproved, requestVars
<1>2. CASE Claim(t)
  BY <1>2, ClaimStep
<1>3. CASE BeginExternal(t)
  BY <1>3, CrossStep
<1>4. CASE CallAdapter(t)
  BY <1>4, CallStep
<1>5. CASE CloseUnstarted(t)
  <2>1. /\ task[t].attempt \in AttemptIds /\ attempts[task[t].attempt].status = "ABANDONED"
        /\ FinishAttempt(task[t].attempt, "ABANDONED", OPEN_STATUSES, "FAILED")
        /\ UNCHANGED effects
    BY <1>5 DEF CloseUnstarted, TruthInv, WorkInv, AgreedInv, Wellformed, HeldTask, Held, TaskHolds,
       tables
  <2> QED
    BY <2>1, SettleStep DEF Settles, OPEN_STATUSES
<1>6. CASE RecordRun(t)
  <2>1. /\ task[t].attempt \in AttemptIds
        /\ attempts[task[t].attempt].status = "EXTERNAL_PENDING"
        /\ attempts[task[t].attempt].approval = task[t].approval
        /\ task[t].outcome = "ok" => effects[task[t].approval] > 0
        /\ task[t].outcome = "safe" => effects[task[t].approval] = 0
        /\ task[t].outcome \in Outcomes
        /\ RecordOutcome(task[t].attempt, task[t].outcome)
        /\ UNCHANGED effects
    BY <1>6 DEF RecordRun, TruthInv, WorkInv, AgreedInv, OwnRow, HasRow, Wellformed, HeldTask, Held,
       TaskHolds, Known, TaskKnows, tables
  <2>2. CASE task[t].outcome = "ok"
    BY <2>1, <2>2, SettleStep DEF RecordOutcome, Settles
  <2>3. CASE task[t].outcome = "safe"
    BY <2>1, <2>3, SettleStep DEF RecordOutcome, Settles
  <2>4. CASE task[t].outcome = "ambiguous"
    BY <2>1, <2>4, SettleStep DEF RecordOutcome, Settles
  <2> QED
    BY <2>1, <2>2, <2>3, <2>4 DEF Outcomes
<1> QED
  BY <1>1, <1>2, <1>3, <1>4, <1>5, <1>6 DEF TaskStep

LEMMA ScanRefines ==
    ASSUME TruthInv, TruthInv', NEW s \in Scanners, ScanStep(s)
    PROVE  AbstractStep
<1>1. /\ attempts \in [AttemptIds -> Attempt] /\ UNCHANGED effects
      /\ rec[s] \in HeldRec
  BY DEF TruthInv, WorkInv, AgreedInv, Wellformed, TypeOK, Recoverers, ScanStep, ScanRead, ScanLease,
     ScanReread, ScanFinish, ScanDone, tables
<1>2. CASE ScanRead(s) \/ ScanReread(s) \/ ScanDone(s)
  BY <1>1, <1>2, SamePhase, Stutter DEF ScanRead, ScanReread, ScanDone
<1>3. CASE ScanFinish(s)
  <2>1. rec[s].attempt \in AttemptIds
    BY <1>1, <1>3 DEF ScanFinish, HeldRec
  <2> QED
    BY <1>1, <1>3, <2>1, SettleStep DEF ScanFinish, Settles
<1>4. ASSUME NEW i \in AttemptIds, ScanLease(s, i) PROVE AbstractStep
  <2>1. \A j \in AttemptIds : /\ attempts'[j].status = attempts[j].status
                              /\ attempts'[j].approval = attempts[j].approval
    <3>1. CASE AcquireLease(s, i)
      <4>1. attempts' = [attempts EXCEPT ![i] = [attempts[i] EXCEPT !.owner = s, !.live = TRUE]]
        BY <1>1, <3>1 DEF AcquireLease
      <4> QED
        BY <1>1, <4>1 DEF Attempt
    <3> QED
      BY <1>4, <3>1 DEF ScanLease
  <2> QED
    BY <1>1, <1>4, <2>1, SamePhase, Stutter DEF ScanLease
<1> QED
  BY <1>2, <1>3, <1>4 DEF ScanStep

LEMMA DecisionRefines ==
    ASSUME TruthInv, TruthInv', DecisionStep \/ OrphanStep
    PROVE  AbstractStep
<1>1. /\ request \in [Approvals -> RequestStates]
      /\ UNCHANGED <<attempts, effects>>
  BY DEF TruthInv, WorkInv, AgreedInv, Wellformed, TypeOK, DecisionStep, ExpireDue, CreateRequest,
     ConfirmToGate, DeadlinePasses, Abandon, CommitApprove, CommitDeny, elsewhere, OrphanStep,
     ListOrphans, AbandonOrphan, StartServing, tables
<1>2. PhaseFacts /\ PhaseFacts'
  BY PhaseReads, PhaseReadsNext DEF TruthInv, WorkInv
<1>3. ASSUME NEW a \in Approvals, request[a] \in {"PENDING", "APPROVED"}, NEW state,
             state \in {"DENIED", "EXPIRED"}, request' = [request EXCEPT ![a] = state]
      PROVE  AbstractStep
  <2>1. /\ {a} \in SUBSET Approvals /\ request'[a] = state
        /\ \A b \in Approvals \ {a} : request'[b] = request[b]
    BY <1>1, <1>3
  <2> QED
    BY <1>1, <1>3, <2>1, RefuseStep
<1>4. CASE UNCHANGED request
  BY <1>1, <1>4, SamePhase, Stutter
<1>5. ASSUME NEW due \in SUBSET Approvals, \A a \in due : request[a] \in {"PENDING", "APPROVED"},
             request' = [a \in Approvals |-> IF a \in due THEN "EXPIRED" ELSE request[a]]
      PROVE  AbstractStep
  BY <1>1, <1>5, RefuseStep
<1>6. CASE ExpireDue \/ ListOrphans
  <2>1. \E due \in SUBSET Approvals :
            /\ \A a \in due : request[a] \in {"PENDING", "APPROVED"}
            /\ request' = [a \in Approvals |-> IF a \in due THEN "EXPIRED" ELSE request[a]]
    BY <1>6 DEF ExpireDue, ListOrphans
  <2> QED
    BY <1>5, <2>1
<1>7. ASSUME NEW a \in Approvals, NEW from, NEW to, NEW before, NEW after,
             request[a] = before, request' = [request EXCEPT ![a] = after],
             \/ before = "NEW" /\ after = "PENDING" /\ from = "unasked" /\ to = "asked"
             \/ before = "PENDING" /\ after = "APPROVED" /\ from = "asked" /\ to = "approved"
      PROVE  Abstract!Move(a, from, to)
  <2>1. request'[a] = after /\ \A b \in Approvals : b # a => request'[b] = request[b]
    BY <1>1, <1>7
  <2>2. Phase(a) = from /\ Phase(a)' = to
    BY <1>2, <1>7, <2>1 DEF PhaseFacts
  <2>3. \A b \in Approvals : b # a => Phase(b)' = Phase(b)
    BY <1>1, <2>1, SamePhase
  <2> QED
    BY <1>1, <2>2, <2>3, MoveStep
<1>8. ASSUME NEW a \in Approvals, CreateRequest(a) PROVE AbstractStep
  <2>1. Abstract!Ask(a)
    BY <1>7, <1>8 DEF CreateRequest, Abstract!Ask
  <2> QED
    BY <2>1 DEF AbstractStep, Abstract!Next
<1>9. ASSUME NEW a \in Approvals, NEW d \in Devices, CommitApprove(a, d) PROVE AbstractStep
  <2>1. Abstract!Approve(a)
    BY <1>7, <1>9 DEF CommitApprove, Abstract!Approve
  <2> QED
    BY <2>1 DEF AbstractStep, Abstract!Next
<1>10. ASSUME NEW a \in Approvals,
              Abandon(a) \/ (\E d \in Devices : CommitDeny(a, d)) \/ AbandonOrphan(a)
       PROVE  AbstractStep
  <2>1. CASE ~(request[a] \in {"PENDING", "APPROVED"})
    BY <1>1, <1>4, <1>10, <2>1 DEF Abandon, CommitDeny, AbandonOrphan
  <2>2. CASE request[a] \in {"PENDING", "APPROVED"}
    BY <1>3, <1>10, <2>2 DEF Abandon, CommitDeny, AbandonOrphan
  <2> QED
    BY <2>1, <2>2
<1>11. CASE StartServing \/ \E a \in Approvals : ConfirmToGate(a) \/ DeadlinePasses(a)
  BY <1>4, <1>11 DEF StartServing, ConfirmToGate, DeadlinePasses, requestVars
<1> QED
  BY <1>6, <1>8, <1>9, <1>10, <1>11 DEF DecisionStep, OrphanStep

LEMMA OthersRefine ==
    ASSUME TruthInv,
           DeviceStep \/ Failure \/ (\E i \in AttemptIds : LeaseLapses(i)) \/ UNCHANGED vars
    PROVE  AbstractStep
<1>1. attempts \in [AttemptIds -> Attempt]
  BY DEF TruthInv, WorkInv, AgreedInv, Wellformed, TypeOK
<1>2. UNCHANGED <<request, effects>>
  BY DEF DeviceStep, BeginEnrollment, FinalizeAttestation, RevokeDevice, RevokeKey, requestsAndWork,
     requestVars, Failure, CrashCore, CancelTask, CrashRecoverer, LeaseLapses, vars
<1>3. \A j \in AttemptIds : /\ attempts'[j].approval = attempts[j].approval
                            /\ attempts'[j].status = attempts[j].status
  <2>1. CASE \E i \in AttemptIds : LeaseLapses(i)
    <3>1. PICK i \in AttemptIds : attempts' = [attempts EXCEPT ![i].live = FALSE]
      BY <2>1 DEF LeaseLapses
    <3>2. attempts' = [attempts EXCEPT ![i] = [attempts[i] EXCEPT !.live = FALSE]]
      BY <3>1
    <3> QED
      BY <1>1, <3>2 DEF Attempt
  <2>2. CASE ~\E i \in AttemptIds : LeaseLapses(i)
    BY <2>2 DEF DeviceStep, BeginEnrollment, FinalizeAttestation, RevokeDevice, RevokeKey,
       requestsAndWork, Failure, CrashCore, CancelTask, CrashRecoverer, vars
  <2> QED
    BY <2>1, <2>2
<1> QED
  BY <1>2, <1>3, SamePhase, Stutter

\* Where only the program itself recovers, a reader of the two tables sees one action being
\* asked for, decided, taken up at most once and truthfully settled: whatever executors,
\* scans, devices, leases and crashes do.
THEOREM RefinesApprovedAction ==
    ASSUME Admins = {}
    PROVE  Spec => ImplementsApprovedAction
<1>1. Init => Abstract!Init
  <2> SUFFICES ASSUME Init PROVE Abstract!Init
    OBVIOUS
  <2>1. \A a \in Approvals : Phase(a) = "unasked"
    BY InitTruth, PhaseReads DEF Init, TruthInv, WorkInv, PhaseFacts
  <2> QED
    BY <2>1 DEF Init, Abstract!Init
<1>2. TruthInv /\ TruthInv' /\ [Next]_vars => AbstractStep
  <2> SUFFICES ASSUME TruthInv, TruthInv', [Next]_vars PROVE AbstractStep
    OBVIOUS
  <2> QED
    BY TaskRefines, ScanRefines, DecisionRefines, OthersRefine DEF Next
<1> QED
  BY <1>1, <1>2, InitTruth, NextTruth, PTL
  DEF Spec, AbstractStep, ImplementsApprovedAction, Abstract!Spec

-----------------------------------------------------------------------------
(* Whose row crosses the durable boundary: never one of a revoked device.  *)

\* A row that somebody names has been written, and an executor's row is its own device's.
Named ==
    /\ \A t \in Tasks : task[t].attempt \in AttemptIds => attempts[task[t].attempt].status # "NONE"
    /\ \A r \in Recoverers : rec[r].attempt \in AttemptIds => attempts[rec[r].attempt].status # "NONE"
    /\ \A t \in Tasks : task[t].pc \in HasRow => attempts[task[t].attempt].device = task[t].device

NamedInv == AgreedInv /\ Named

LEMMA InitNamed == Init => NamedInv
<1> SUFFICES ASSUME Init PROVE NamedInv
  OBVIOUS
<1>1. Named
  BY ConstantsAssumption
  DEF Init, Named, NoAttempt, IdleTask, IdleRec, HasRow
<1> QED
  BY <1>1, InitAgreed DEF NamedInv

----------------------------------------------------------------------------
\* The step formula of RevokedDeviceNeverCrosses.
Guarded ==
    \A i \in AttemptIds :
        attempts[i].status = "CLAIMED" /\ attempts'[i].status = "EXTERNAL_PENDING"
            => <<attempts[i].device, 0>> \notin revocations

\* What every step owes.
Fine == Guarded /\ Named'

\* A row stays its owner's, an executor goes on with the row it has or lets go of it, and so
\* does a recovery, or it reads an open row it has yet to lease.
RowQuiet(i) ==
    attempts[i].status # "NONE" =>
        attempts'[i].status # "NONE" /\ attempts'[i].device = attempts[i].device

TaskQuiet(t) ==
    /\ task'[t].attempt \in {task[t].attempt, NULL}
    /\ task'[t].pc \in HasRow => /\ task[t].pc \in HasRow
                                 /\ task'[t].attempt = task[t].attempt
                                 /\ task'[t].device = task[t].device

RecQuiet(r) ==
    \/ rec'[r].attempt = rec[r].attempt /\ (rec[r].pc = "lease" => rec'[r].pc = "lease")
    \/ rec'[r].attempt = NULL
    \/ rec'[r].pc = "lease" /\ rec'[r].attempt \in AttemptIds /\ Open(rec'[r].attempt)

LEMMA QuietFine ==
    ASSUME NamedInv, Guarded,
           \A i \in AttemptIds : RowQuiet(i),
           \A t \in Tasks : TaskQuiet(t),
           \A r \in Recoverers : RecQuiet(r)
    PROVE  Fine
<1>1. NULL \notin AttemptIds
  BY ConstantsAssumption
<1>2. \A t \in Tasks : task[t].pc \in HasRow =>
          task[t].attempt \in AttemptIds /\ attempts[task[t].attempt].status # "NONE"
  BY DEF NamedInv, AgreedInv, Wellformed, HeldTask, HasRow, OwnRow
<1>3. Named'
  <2>1. \A t \in Tasks : task'[t].attempt \in AttemptIds => attempts'[task'[t].attempt].status # "NONE"
    BY <1>1 DEF NamedInv, Named, RowQuiet, TaskQuiet
  <2>2. \A r \in Recoverers : rec'[r].attempt \in AttemptIds => attempts'[rec'[r].attempt].status # "NONE"
    BY <1>1 DEF NamedInv, Named, RowQuiet, RecQuiet, Open, OPEN_STATUSES
  <2>3. \A t \in Tasks : task'[t].pc \in HasRow => attempts'[task'[t].attempt].device = task'[t].device
    BY <1>2 DEF NamedInv, Named, RowQuiet, TaskQuiet
  <2> QED
    BY <2>1, <2>2, <2>3 DEF Named
<1> QED
  BY <1>3 DEF Fine

\* A lease changes who holds a row, never its status or its device.
LEMMA LeaseFine ==
    ASSUME NamedInv, NEW r \in Recoverers, NEW i \in AttemptIds,
           LeaseFree(i, r), AcquireLease(r, i), UNCHANGED task,
           rec'[r].attempt = i, \A q \in Recoverers : q # r => rec'[q] = rec[q]
    PROVE  Fine
<1>1. attempts \in [AttemptIds -> Attempt] /\ attempts[i] \in Attempt /\ Open(i)
  BY DEF NamedInv, AgreedInv, Wellformed, TypeOK, LeaseFree
<1>2. attempts' = [attempts EXCEPT ![i] = [attempts[i] EXCEPT !.owner = r, !.live = TRUE]]
  BY <1>1 DEF AcquireLease
<1>3. /\ attempts'[i].owner = r /\ attempts'[i].live = TRUE
      /\ \A j \in AttemptIds : /\ attempts'[j].status = attempts[j].status
                               /\ attempts'[j].device = attempts[j].device
                               /\ j # i => attempts'[j] = attempts[j]
  BY <1>1, <1>2 DEF Attempt
<1>4. Guarded
  BY <1>3 DEF Guarded
<1>5. Named'
  <2>1. \A t \in Tasks : task[t].pc \in HasRow => task[t].attempt \in AttemptIds
    BY DEF NamedInv, AgreedInv, Wellformed, HeldTask, HasRow
  <2> QED
    BY <1>1, <1>3, <2>1 DEF NamedInv, Named, Open, OPEN_STATUSES
<1> QED
  BY <1>4, <1>5 DEF Fine

\* Who closes or marks a row lets go of it.
LEMMA FinishFine ==
    ASSUME NamedInv, NEW i \in AttemptIds, NEW outcome, NEW expected, NEW final,
           Settles(outcome, final), FinishAttempt(i, outcome, expected, final), NEW x,
           \A t \in Tasks : IF t = x THEN task'[t].attempt = NULL /\ task'[t].pc \notin HasRow
                            ELSE task'[t] = task[t],
           \A r \in Recoverers : IF r = x THEN rec'[r].attempt = NULL ELSE rec'[r] = rec[r]
    PROVE  Fine
<1>1. /\ \A j \in AttemptIds : j # i => attempts'[j] = attempts[j]
      /\ \/ attempts'[i] = attempts[i]
         \/ attempts'[i].status = outcome /\ Open(i)
  BY FinishRow DEF NamedInv, AgreedInv, Open
<1>2. /\ outcome \notin {"NONE", "EXTERNAL_PENDING"}
      /\ \A j \in AttemptIds : attempts[j].status # "NONE" => attempts'[j].status # "NONE"
  BY <1>1 DEF Settles
<1>3. \A j \in AttemptIds : attempts'[j].device = attempts[j].device
  <2>1. attempts \in [AttemptIds -> Attempt] /\ attempts[i] \in Attempt
    BY DEF NamedInv, AgreedInv, Wellformed, TypeOK
  <2>2. CASE attempts' = attempts
    BY <2>2
  <2>3. CASE attempts' = [attempts EXCEPT ![i].status = outcome, ![i].owner = NULL,
                                          ![i].live = FALSE]
    <3>1. attempts' = [attempts EXCEPT ![i] = [attempts[i] EXCEPT !.status = outcome,
                                                    !.owner = NULL, !.live = FALSE]]
      BY <2>1, <2>3 DEF Attempt
    <3> QED
      BY <2>1, <3>1 DEF Attempt
  <2> QED
    BY <2>2, <2>3 DEF FinishAttempt
<1>4. Guarded
  BY <1>1, <1>2 DEF Guarded
<1>5. Named'
  <2>1. \A t \in Tasks : task[t].pc \in HasRow => task[t].attempt \in AttemptIds
    BY DEF NamedInv, AgreedInv, Wellformed, HeldTask, HasRow
  <2> QED
    BY <1>2, <1>3, <2>1, ConstantsAssumption DEF NamedInv, Named
<1> QED
  BY <1>4, <1>5 DEF Fine

LEMMA RecordFine ==
    ASSUME NamedInv, NEW i \in AttemptIds, NEW answer \in Outcomes, RecordOutcome(i, answer), NEW x,
           \A t \in Tasks : IF t = x THEN task'[t].attempt = NULL /\ task'[t].pc \notin HasRow
                            ELSE task'[t] = task[t],
           \A r \in Recoverers : IF r = x THEN rec'[r].attempt = NULL ELSE rec'[r] = rec[r]
    PROVE  Fine
<1>1. \/ FinishAttempt(i, "SUCCEEDED", OPEN_STATUSES, "CONSUMED")
      \/ FinishAttempt(i, "FAILED_SAFE", OPEN_STATUSES, "FAILED")
      \/ FinishAttempt(i, "UNKNOWN", OPEN_STATUSES, "KEEP")
  BY DEF RecordOutcome, Outcomes
<1> QED
  BY <1>1, FinishFine DEF Settles

----------------------------------------------------------------------------
LEMMA TaskFine ==
    ASSUME NamedInv, NEW t \in Tasks,
           TaskStep(t) \/ (\E a \in Approvals : ReadApproved(t, a))
    PROVE  Fine
<1> DEFINE i == task[t].attempt
<1>1. /\ Wellformed /\ attempts \in [AttemptIds -> Attempt]
      /\ task \in [Tasks -> HeldTask] /\ task[t] \in HeldTask
      /\ Recoverers \cap Tasks = {}
  BY ConstantsAssumption DEF NamedInv, AgreedInv, Wellformed, TypeOK, Recoverers
<1>2. ASSUME UNCHANGED attempts PROVE Guarded /\ \A j \in AttemptIds : RowQuiet(j)
  BY <1>2 DEF Guarded, RowQuiet, Open
<1>3. ASSUME UNCHANGED rec PROVE \A r \in Recoverers : RecQuiet(r)
  BY <1>3 DEF RecQuiet
<1>4. ASSUME TaskQuiet(t), \A u \in Tasks : u # t => task'[u] = task[u]
      PROVE  \A u \in Tasks : TaskQuiet(u)
  BY <1>4 DEF TaskQuiet
<1>5. ASSUME UNCHANGED <<attempts, rec>>, TaskQuiet(t), \A u \in Tasks : u # t => task'[u] = task[u]
      PROVE  Fine
  BY <1>2, <1>3, <1>4, <1>5, QuietFine
<1>6. ASSUME task'[t].attempt \in {task[t].attempt, NULL}, task'[t].pc \notin HasRow
      PROVE  TaskQuiet(t)
  BY <1>6 DEF TaskQuiet
<1>7. ASSUME NEW a \in Approvals, ReadApproved(t, a) PROVE Fine
  <2>1. /\ task'[t].attempt = NULL /\ task'[t].pc = "gate" /\ UNCHANGED <<attempts, rec>>
        /\ \A u \in Tasks : u # t => task'[u] = task[u]
    BY <1>1, <1>7 DEF ReadApproved, IdleTask
  <2> QED
    BY <1>5, <1>6, <2>1 DEF HasRow
<1>8. CASE PassGate(t) \/ Preflight(t)
  <2>1. /\ UNCHANGED <<attempts, rec>> /\ \A u \in Tasks : u # t => task'[u] = task[u]
        /\ \/ task'[t] = IdleTask
           \/ task'[t].attempt = task[t].attempt /\ task'[t].pc \in {"preflight", "claim"}
    BY <1>1, <1>8 DEF PassGate, Preflight, HeldTask, Task
  <2> QED
    BY <1>5, <1>6, <2>1 DEF HasRow, IdleTask
<1>9. CASE Claim(t)
  <2>1. UNCHANGED rec
    BY <1>9 DEF Claim
  <2>2. CASE ~ClaimHolds(t)
    <3>1. /\ task'[t].attempt = NULL /\ task'[t].pc = "idle" /\ UNCHANGED <<attempts, rec>>
          /\ \A u \in Tasks : u # t => task'[u] = task[u]
      BY <1>1, <1>9, <2>2 DEF Claim, IdleTask
    <3> QED
      BY <1>5, <1>6, <3>1 DEF HasRow
  <2>3. CASE ClaimHolds(t)
    <3>1. PICK j \in AttemptIds :
              /\ attempts[j].status = "NONE"
              /\ attempts' = [attempts EXCEPT ![j] =
                     [approval |-> task[t].approval, device |-> task[t].device,
                      gen |-> dev[task[t].device].gen, status |-> "CLAIMED", owner |-> t,
                      live |-> TRUE]]
              /\ task' = [task EXCEPT ![t].pc = "boundary", ![t].attempt = j]
      BY <1>9, <2>3 DEF Claim
    <3>2. /\ attempts'[j].status = "CLAIMED" /\ attempts'[j].owner = t /\ attempts'[j].live = TRUE
          /\ attempts'[j].device = task[t].device
          /\ \A k \in AttemptIds : k # j => attempts'[k] = attempts[k]
          /\ task'[t].attempt = j /\ task'[t].device = task[t].device
          /\ \A u \in Tasks : u # t => task'[u] = task[u]
      BY <1>1, <3>1 DEF HeldTask, Task
    <3>3. /\ \A u \in Tasks : task[u].attempt # j
          /\ \A r \in Recoverers : rec[r].attempt # j
      BY <3>1 DEF NamedInv, Named
    <3>4. Guarded
      BY <3>1, <3>2 DEF Guarded
    <3>5. Named'
      <4>1. \A u \in Tasks : task[u].pc \in HasRow => task[u].attempt \in AttemptIds
        BY <1>1 DEF HeldTask, HasRow
      <4> QED
        BY <2>1, <3>2, <3>3, <4>1 DEF NamedInv, Named
    <3> QED
      BY <3>4, <3>5 DEF Fine
  <2> QED
    BY <2>2, <2>3
<1>10. CASE BeginExternal(t)
  <2>1. /\ task[t].pc \in HasRow /\ i \in AttemptIds /\ attempts[i] \in Attempt
        /\ attempts[i].device = task[t].device /\ UNCHANGED rec
    BY <1>1, <1>10 DEF BeginExternal, HasRow, HeldTask, NamedInv, Named
  <2>2. /\ task'[t].attempt = i /\ task'[t].device = task[t].device
        /\ \A u \in Tasks : u # t => task'[u] = task[u]
    BY <1>1, <1>10 DEF BeginExternal, HeldTask, Task
  <2>3. \/ UNCHANGED attempts
        \/ /\ attempts[i].status = "CLAIMED"
           /\ \E status \in {"EXTERNAL_PENDING", "ABANDONED"} :
                  attempts' = [attempts EXCEPT ![i].status = status]
    BY <1>10 DEF BeginExternal
  <2>4. /\ \A j \in AttemptIds : j # i => attempts'[j] = attempts[j]
        /\ attempts'[i].device = attempts[i].device
        /\ attempts'[i].owner = attempts[i].owner /\ attempts'[i].live = attempts[i].live
        /\ \/ attempts'[i].status = attempts[i].status
           \/ attempts[i].status = "CLAIMED" /\ attempts'[i].status # "NONE"
    BY <1>1, <2>1, <2>3 DEF Attempt
  <2>5. Guarded
    <3> SUFFICES ASSUME attempts[i].status = "CLAIMED", attempts'[i].status = "EXTERNAL_PENDING"
                 PROVE  <<attempts[i].device, 0>> \notin revocations
      BY <2>4 DEF Guarded
    <3>1. attempts' # [attempts EXCEPT ![i].status = "ABANDONED"] /\ attempts' # attempts
      BY <1>1, <2>1 DEF Attempt
    <3>2. ~RevokedAny(IdentitiesOf(task[t].device, task[t].gen))
      BY <1>10, <3>1 DEF BeginExternal
    <3> QED
      BY <2>1, <3>2 DEF RevokedAny, IdentitiesOf
  <2>6. \A j \in AttemptIds : RowQuiet(j)
    BY <2>4 DEF RowQuiet, Open, OPEN_STATUSES
  <2>7. TaskQuiet(t)
    BY <2>1, <2>2 DEF TaskQuiet
  <2> QED
    BY <1>3, <1>4, <2>1, <2>2, <2>5, <2>6, <2>7, QuietFine
<1>11. CASE CallAdapter(t)
  <2>1. /\ UNCHANGED <<attempts, rec>> /\ \A u \in Tasks : u # t => task'[u] = task[u]
        /\ task'[t].attempt = task[t].attempt /\ task'[t].device = task[t].device
        /\ task[t].pc \in HasRow
    BY <1>1, <1>11 DEF CallAdapter, HeldTask, Task, HasRow
  <2> QED
    BY <1>5, <2>1 DEF TaskQuiet
<1>12. CASE CloseUnstarted(t) \/ RecordRun(t)
  <2>1. i \in AttemptIds /\ UNCHANGED rec /\ task' = [task EXCEPT ![t] = IdleTask]
    BY <1>1, <1>12 DEF CloseUnstarted, RecordRun, HeldTask
  <2>2. /\ \A u \in Tasks : IF u = t THEN task'[u].attempt = NULL /\ task'[u].pc \notin HasRow
                            ELSE task'[u] = task[u]
        /\ \A r \in Recoverers : r # t /\ rec'[r] = rec[r]
    BY <1>1, <2>1 DEF IdleTask, HasRow
  <2>3. CASE CloseUnstarted(t)
    BY <2>1, <2>2, <2>3, FinishFine DEF CloseUnstarted, Settles
  <2>4. CASE RecordRun(t)
    <3>1. task[t].outcome \in Outcomes /\ RecordOutcome(i, task[t].outcome)
      BY <1>1, <2>4 DEF RecordRun, HeldTask
    <3> QED
      BY <2>1, <2>2, <3>1, RecordFine
  <2> QED
    BY <1>12, <2>3, <2>4
<1> QED
  BY <1>7, <1>8, <1>9, <1>10, <1>11, <1>12 DEF TaskStep

LEMMA RecoveryFine ==
    ASSUME NamedInv,
           \/ \E s \in Scanners : ScanStep(s)
           \/ \E r \in Admins : RecoverStep(r) \/ \E i \in AttemptIds : RecoverRead(r, i)
    PROVE  Fine
<1>1. PICK r \in Recoverers :
          \/ ScanStep(r) /\ r \in Scanners
          \/ (RecoverStep(r) \/ \E i \in AttemptIds : RecoverRead(r, i)) /\ r \in Admins
  BY DEF Recoverers
<1> DEFINE i == rec[r].attempt
<1>2. /\ rec \in [Recoverers -> HeldRec] /\ rec[r] \in HeldRec
      /\ attempts \in [AttemptIds -> Attempt] /\ Recoverers \cap Tasks = {}
      /\ NULL \notin AttemptIds
  BY ConstantsAssumption DEF NamedInv, AgreedInv, Wellformed, TypeOK, Recoverers
<1>4. ASSUME UNCHANGED <<attempts, task>>, RecQuiet(r),
             \A q \in Recoverers : q # r => rec'[q] = rec[q]
      PROVE  Fine
  <2>1. /\ Guarded /\ \A j \in AttemptIds : RowQuiet(j)
        /\ \A t \in Tasks : TaskQuiet(t)
        /\ \A q \in Recoverers : RecQuiet(q)
    BY <1>4 DEF Guarded, RowQuiet, Open, TaskQuiet, RecQuiet
  <2> QED
    BY <2>1, QuietFine
<1>5. ASSUME UNCHANGED task, i \in AttemptIds, rec[r].pc # "lease", rec'[r].attempt = NULL,
             \A q \in Recoverers : q # r => rec'[q] = rec[q]
      PROVE  /\ \A t \in Tasks : IF t = r THEN task'[t].attempt = NULL /\ task'[t].pc \notin HasRow
                                 ELSE task'[t] = task[t]
             /\ \A q \in Recoverers : IF q = r THEN rec'[q].attempt = NULL ELSE rec'[q] = rec[q]
  BY <1>2, <1>5
<1>6. rec[r].pc \notin {"idle", "scan", "orphans", "abandon"} => i \in AttemptIds
  BY <1>2 DEF HeldRec
<1>7. CASE ScanRead(r) \/ ScanReread(r) \/ ScanDone(r)
  <2>1. /\ UNCHANGED <<attempts, task>> /\ rec[r].pc # "lease"
        /\ \A q \in Recoverers : q # r => rec'[q] = rec[q]
    BY <1>2, <1>7 DEF ScanRead, ScanReread, ScanDone
  <2>2. rec'[r].attempt \in {rec[r].attempt, NULL}
    <3>1. CASE ScanReread(r)
      BY <1>2, <3>1 DEF ScanReread, HeldRec, Recoverer
    <3>2. CASE ScanRead(r) \/ ScanDone(r)
      BY <1>2, <3>2 DEF ScanRead, ScanDone, HeldRec, Recoverer
    <3> QED
      BY <1>7, <3>1, <3>2
  <2> QED
    BY <1>4, <2>1, <2>2 DEF RecQuiet
<1>8. CASE ScanFinish(r)
  <2>1. /\ UNCHANGED task /\ i \in AttemptIds /\ rec[r].pc # "lease" /\ rec'[r].attempt = NULL
        /\ \A q \in Recoverers : q # r => rec'[q] = rec[q]
    BY <1>2, <1>6, <1>8 DEF ScanFinish, HeldRec, Recoverer
  <2>2. FinishAttempt(i, "ABANDONED", {"CLAIMED"}, "FAILED") /\ Settles("ABANDONED", "FAILED")
    BY <1>8 DEF ScanFinish, Settles
  <2>3. /\ \A t \in Tasks : t # r /\ task'[t] = task[t]
        /\ \A q \in Recoverers : IF q = r THEN rec'[q].attempt = NULL ELSE rec'[q] = rec[q]
    BY <1>2, <2>1
  <2> QED
    BY <2>1, <2>2, <2>3, FinishFine
<1>9. ASSUME NEW j \in AttemptIds, ScanLease(r, j) PROVE Fine
  <2>1. UNCHANGED task /\ rec[r].pc = "scan"
    BY <1>9 DEF ScanLease
  <2>2. CASE LeaseFree(j, r)
    <3>1. /\ AcquireLease(r, j) /\ rec'[r].attempt = j
          /\ \A q \in Recoverers : q # r => rec'[q] = rec[q]
      BY <1>2, <1>9, <2>2 DEF ScanLease, HeldRec, Recoverer
    <3> QED
      BY <2>1, <2>2, <3>1, LeaseFine
  <2>3. CASE ~LeaseFree(j, r)
    <3>1. /\ UNCHANGED attempts /\ rec'[r].attempt = rec[r].attempt
          /\ \A q \in Recoverers : q # r => rec'[q] = rec[q]
      BY <1>2, <1>9, <2>3 DEF ScanLease, HeldRec, Recoverer
    <3> QED
      BY <1>4, <2>1, <3>1 DEF RecQuiet
  <2> QED
    BY <2>2, <2>3
<1>10. ASSUME NEW j \in AttemptIds, RecoverRead(r, j) PROVE Fine
  <2>1. /\ UNCHANGED <<attempts, task>> /\ Open(j)
        /\ rec'[r].pc = "lease" /\ rec'[r].attempt = j
        /\ \A q \in Recoverers : q # r => rec'[q] = rec[q]
    BY <1>2, <1>10 DEF RecoverRead, HeldRec, Recoverer
  <2> QED
    BY <1>4, <2>1 DEF RecQuiet
<1>11. CASE RecoverLease(r)
  <2>1. UNCHANGED task /\ i \in AttemptIds
    BY <1>6, <1>11 DEF RecoverLease
  <2>2. CASE LeaseFree(i, r)
    <3>1. /\ AcquireLease(r, i) /\ rec'[r].attempt = i
          /\ \A q \in Recoverers : q # r => rec'[q] = rec[q]
      BY <1>2, <1>11, <2>2 DEF RecoverLease, HeldRec, Recoverer
    <3> QED
      BY <2>1, <2>2, <3>1, LeaseFine
  <2>3. CASE ~LeaseFree(i, r)
    <3>1. /\ UNCHANGED attempts /\ rec'[r].attempt = NULL
          /\ \A q \in Recoverers : q # r => rec'[q] = rec[q]
      BY <1>2, <1>11, <2>3 DEF RecoverLease, Idle, IdleRec
    <3> QED
      BY <1>4, <2>1, <3>1 DEF RecQuiet
  <2> QED
    BY <2>2, <2>3
<1>12. CASE RecoverFurther(r) \/ Reconcile(r) \/ Recheck(r) \/ Retry(r)
  <2>1. /\ UNCHANGED <<attempts, task>> /\ rec[r].pc # "lease"
        /\ \A q \in Recoverers : q # r => rec'[q] = rec[q]
    BY <1>2, <1>12 DEF RecoverFurther, Reconcile, Recheck, Retry, Idle
  <2>2. rec'[r].attempt \in {rec[r].attempt, NULL}
    BY <1>2, <1>12
    DEF RecoverFurther, Reconcile, Recheck, Retry, Idle, IdleRec, HeldRec, Recoverer
  <2> QED
    BY <1>4, <2>1, <2>2 DEF RecQuiet
<1>13. CASE \/ RecoverClose(r) \/ RecoverManually(r) \/ RecordReconciled(r) \/ Park(r)
            \/ RecordRetry(r)
  <2>1. /\ UNCHANGED task /\ i \in AttemptIds /\ rec[r].pc # "lease" /\ rec'[r].attempt = NULL
        /\ \A q \in Recoverers : q # r => rec'[q] = rec[q]
    BY <1>2, <1>6, <1>13
    DEF RecoverClose, RecoverManually, RecordReconciled, Park, RecordRetry, Idle, IdleRec
  <2>2. ASSUME NEW outcome, NEW expected, NEW final, Settles(outcome, final),
               FinishAttempt(i, outcome, expected, final)
        PROVE  Fine
    BY <1>5, <2>1, <2>2, FinishFine
  <2>3. CASE RecoverClose(r)
    BY <2>2, <2>3 DEF RecoverClose, Settles
  <2>4. CASE RecoverManually(r)
    BY <2>2, <2>4 DEF RecoverManually, Settles
  <2>5. CASE RecordReconciled(r)
    BY <2>2, <2>5 DEF RecordReconciled, Settles
  <2>6. CASE Park(r)
    BY <2>2, <2>6 DEF Park, Settles
  <2>7. CASE RecordRetry(r)
    <3>1. rec[r].outcome \in Outcomes /\ RecordOutcome(i, rec[r].outcome)
      BY <1>2, <2>7 DEF RecordRetry, HeldRec
    <3> QED
      BY <1>5, <2>1, <3>1, RecordFine
  <2> QED
    BY <1>13, <2>3, <2>4, <2>5, <2>6, <2>7
<1> QED
  BY <1>1, <1>7, <1>8, <1>9, <1>10, <1>11, <1>12, <1>13 DEF ScanStep, RecoverStep

LEMMA OthersFine ==
    ASSUME NamedInv, DecisionStep \/ DeviceStep \/ Failure \/ OrphanStep \/ UNCHANGED vars
    PROVE  Fine
<1>1. /\ task \in [Tasks -> HeldTask] /\ rec \in [Recoverers -> HeldRec] /\ Core \in Recoverers
  BY ConstantsAssumption DEF NamedInv, AgreedInv, Wellformed, Recoverers
<1>2. UNCHANGED attempts
  BY DEF DecisionStep, ExpireDue, CreateRequest, ConfirmToGate, DeadlinePasses, Abandon,
     CommitApprove, CommitDeny, elsewhere, DeviceStep, BeginEnrollment, FinalizeAttestation,
     RevokeDevice, RevokeKey, requestsAndWork, Failure, CrashCore, CancelTask, CrashRecoverer,
     OrphanStep, ListOrphans, AbandonOrphan, StartServing, vars
<1>3. Guarded /\ \A i \in AttemptIds : RowQuiet(i)
  BY <1>2 DEF Guarded, RowQuiet, Open
<1>4. ASSUME \A t \in Tasks : task'[t] \in {task[t], IdleTask},
             \A r \in Recoverers : rec'[r] \in {rec[r], IdleRec}
      PROVE  Fine
  <2>1. \A t \in Tasks : TaskQuiet(t)
    BY <1>4 DEF TaskQuiet, IdleTask, HasRow
  <2>2. \A r \in Recoverers : RecQuiet(r)
    BY <1>4 DEF RecQuiet, IdleRec
  <2> QED
    BY <1>3, <2>1, <2>2, QuietFine
<1>5. CASE DecisionStep \/ DeviceStep \/ UNCHANGED vars
  BY <1>4, <1>5
  DEF DecisionStep, ExpireDue, CreateRequest, ConfirmToGate, DeadlinePasses, Abandon,
      CommitApprove, CommitDeny, elsewhere, DeviceStep, BeginEnrollment, FinalizeAttestation,
      RevokeDevice, RevokeKey, requestsAndWork, vars
<1>6. CASE Failure
  <2>1. \A t \in Tasks : task'[t] \in {task[t], IdleTask}
    BY <1>1, <1>6 DEF Failure, CrashCore, CancelTask, CrashRecoverer
  <2>2. \A r \in Recoverers : rec'[r] \in {rec[r], IdleRec}
    BY <1>1, <1>6 DEF Failure, CrashCore, CancelTask, CrashRecoverer, Idle
  <2> QED
    BY <1>4, <2>1, <2>2
<1>7. CASE OrphanStep
  <2>1. /\ UNCHANGED task /\ rec[Core].pc # "lease"
        /\ rec'[Core].attempt \in {rec[Core].attempt, NULL}
        /\ \A r \in Recoverers : r # Core => rec'[r] = rec[r]
    BY <1>1, <1>7
    DEF OrphanStep, ListOrphans, AbandonOrphan, StartServing, IdleRec, HeldRec, Recoverer
  <2>2. /\ \A t \in Tasks : TaskQuiet(t)
        /\ \A r \in Recoverers : RecQuiet(r)
    BY <2>1 DEF TaskQuiet, RecQuiet
  <2> QED
    BY <1>3, <2>2, QuietFine
<1> QED
  BY <1>5, <1>6, <1>7

\* A lease may lapse at any time, under work too.
LEMMA LapseFine ==
    ASSUME NamedInv, NEW i \in AttemptIds, LeaseLapses(i)
    PROVE  Fine
<1>1. /\ attempts \in [AttemptIds -> Attempt] /\ attempts[i] \in Attempt
      /\ UNCHANGED <<task, rec>>
  BY DEF NamedInv, AgreedInv, Wellformed, TypeOK, LeaseLapses
<1>2. attempts' = [attempts EXCEPT ![i] = [attempts[i] EXCEPT !.live = FALSE]]
  BY <1>1 DEF LeaseLapses
<1>3. /\ \A j \in AttemptIds : /\ attempts'[j].status = attempts[j].status
                               /\ attempts'[j].device = attempts[j].device
                               /\ j # i => attempts'[j] = attempts[j]
  BY <1>1, <1>2 DEF Attempt
<1>4. Guarded
  BY <1>3 DEF Guarded
<1>5. Named'
  <2>1. \A t \in Tasks : task[t].pc \in HasRow => task[t].attempt \in AttemptIds
    BY DEF NamedInv, AgreedInv, Wellformed, HeldTask, HasRow
  <2> QED
    BY <1>1, <1>3, <2>1 DEF NamedInv, Named
<1> QED
  BY <1>4, <1>5 DEF Fine

LEMMA NextFine == NamedInv /\ [Next]_vars => Fine /\ NamedInv'
<1> SUFFICES ASSUME NamedInv, [Next]_vars PROVE Fine /\ NamedInv'
  OBVIOUS
<1>1. Fine
  BY TaskFine, RecoveryFine, OthersFine, LapseFine DEF Next
<1>2. AgreedInv'
  BY NextAgreed DEF NamedInv
<1> QED
  BY <1>1, <1>2 DEF NamedInv, Fine

----------------------------------------------------------------------------
\* From the commit of revoke_device on, no row of that device crosses the durable boundary:
\* begin_external_execution asks again, for the device its row was claimed for.
THEOREM RevokedStaysOut == Spec => RevokedDeviceNeverCrosses
<1>1. NamedInv /\ [Next]_vars => [Guarded]_vars
  BY NextFine DEF Fine
<1>2. Guarded <=> \A i \in AttemptIds :
                      attempts[i].status = "CLAIMED" /\ attempts'[i].status = "EXTERNAL_PENDING"
                          => <<attempts[i].device, 0>> \notin revocations
  BY DEF Guarded
<1> QED
  BY <1>1, <1>2, InitNamed, NextFine, PTL DEF Spec, RevokedDeviceNeverCrosses
=============================================================================
