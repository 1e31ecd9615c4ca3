-------------------------- MODULE ExecutionJournal --------------------------
(***************************************************************************)
(* The execution side of the mobile approval path: how an action a human   *)
(* approved is claimed, run, and closed in the durable journal             *)
(* (bridge.py, execution.py and the journal part of store.py).             *)
(*                                                                         *)
(* Several processes share approval_control.sqlite3: the core, whose tasks *)
(* run execute_approved and which scans the journal when it starts; the    *)
(* stand-alone approval gateway, which scans it too; and the admin CLI,    *)
(* which runs recover_execution.  A method of the store is one write       *)
(* transaction and so one action here; between two methods an actor holds  *)
(* what it has read while everybody else moves, may be cancelled, or dies. *)
(*                                                                         *)
(* Clocks are abstracted to the flags they drive: a request becomes        *)
(* overdue once, a lease stops being live once.                            *)
(***************************************************************************)
EXTENDS Naturals, FiniteSets

CONSTANTS
    Approvals,        \* approval requests
    Devices,          \* approver devices
    Tasks,            \* asyncio tasks of the core that may call execute_approved
    Core,             \* the scan the core runs when it starts
    Scanners,         \* processes that run startup_recovery_scan; Core is one
    Admins,           \* processes that run recover_execution
    Equipped,         \* the admins whose caller supplied an executor and a reconciler
    AttemptIds,       \* identities of journal rows
    SemanticsInUse,   \* execution semantics the registered capabilities declare
    LeaseOutlivesRun, \* TRUE if no lease lapses while its owner is still at work
    MaxGen,           \* bound: enrolment generations of a device
    MaxCrashes,       \* bound: process deaths and cancellations
    NULL              \* no approval, device, attempt or owner

Semantics == {"READ_ONLY", "IDEMPOTENT_WRITE", "RECONCILABLE_WRITE", "NON_IDEMPOTENT_WRITE"}

Recoverers == Scanners \cup Admins

ASSUME ConstantsAssumption ==
    /\ Core \in Scanners
    /\ Scanners \cap Admins = {} /\ Tasks \cap (Scanners \cup Admins) = {}
    /\ Equipped \subseteq Admins
    /\ SemanticsInUse \subseteq Semantics
    /\ LeaseOutlivesRun \in BOOLEAN
    /\ MaxGen \in Nat \ {0}
    /\ MaxCrashes \in Nat
    /\ NULL \notin Approvals \cup Devices \cup AttemptIds \cup Tasks \cup Recoverers

RequestStates == {"NEW", "PENDING", "APPROVED", "DENIED", "EXPIRED", "EXECUTING", "CONSUMED",
                  "FAILED"}
OPEN_STATUSES     == {"CLAIMED", "EXTERNAL_PENDING", "UNKNOWN"}
TERMINAL_STATUSES == {"SUCCEEDED", "FAILED_SAFE", "ABANDONED"}

Gens == 0 .. MaxGen

\* <<d, 0>> is the device itself, <<d, g>> the key material of its g-th enrolment.
Identities == Devices \X Gens

VARIABLES
    request,     \* approval_requests.state; NEW: no such row yet
    decidedBy,   \* approval_requests.decided_device
    overdue,     \* approval_requests.expires_at has passed
    semantics,   \* what CAPABILITY_SEMANTICS declares for the requested tool
    dev,         \* the devices table and device_identity_history
    revocations, \* the revocations table
    attempts,    \* the execution_attempts table
    effects,     \* how often the external effect happened; 2 stands for "more than once"
    applying,    \* apply_mobile_decision calls between their commit and their confirm
    confirmed,   \* MobileApprover._confirmed, lost with the process
    serving,     \* the core has finished starting up
    task,        \* what each task of the core is doing and holds
    rec,         \* what each recovery process is doing and holds
    crashes      \* deaths and cancellations so far

requestVars == <<request, decidedBy, overdue, semantics>>
deviceVars  == <<dev, revocations>>
memory      == <<applying, confirmed, serving>>
\* What a decision, and what an executor or a recovery, leaves alone.
elsewhere   == <<deviceVars, attempts, effects, task, rec, crashes>>
tables      == <<decidedBy, overdue, semantics, deviceVars, effects>>
vars == <<requestVars, deviceVars, attempts, effects, memory, task, rec, crashes>>

----------------------------------------------------------------------------
NoAttempt == [approval |-> NULL, device |-> NULL, gen |-> 0, status |-> "NONE",
              owner |-> NULL, live |-> FALSE]
IdleTask  == [pc |-> "idle", approval |-> NULL, device |-> NULL, gen |-> 0, attempt |-> NULL,
              outcome |-> "none"]
IdleRec   == [pc |-> "idle", rows |-> {}, attempt |-> NULL, status |-> "NONE", outcome |-> "none",
              orphans |-> {}]

Outcomes == {"ok", "safe", "ambiguous"}

Attempt == [approval : Approvals \cup {NULL}, device : Devices \cup {NULL}, gen : Gens,
            status : OPEN_STATUSES \cup TERMINAL_STATUSES \cup {"NONE"},
            owner : Tasks \cup Recoverers \cup {NULL}, live : BOOLEAN]

Task == [pc : {"idle", "gate", "preflight", "claim", "boundary", "unstarted", "external", "outcome"},
         approval : Approvals \cup {NULL}, device : Devices \cup {NULL}, gen : Gens,
         attempt : AttemptIds \cup {NULL}, outcome : Outcomes \cup {"none"}]

Recoverer == [pc : {"idle", "scan", "reread", "finish", "orphans", "abandon", "lease", "decide",
                    "reconcile", "reconciled", "recheck", "park", "retry", "outcome"},
              rows : SUBSET AttemptIds, attempt : AttemptIds \cup {NULL},
              status : OPEN_STATUSES \cup {"NONE"}, outcome : Outcomes \cup {"none"},
              orphans : SUBSET Approvals]

DeviceRow == [status : {"ACTIVE", "REVOKED"}, attested : BOOLEAN, gen : Gens,
              history : SUBSET Gens]

TypeOK ==
    /\ request \in [Approvals -> RequestStates]
    /\ decidedBy \in [Approvals -> Devices \cup {NULL}]
    /\ overdue \in [Approvals -> BOOLEAN]
    /\ semantics \in [Approvals -> SemanticsInUse]
    /\ dev \in [Devices -> DeviceRow]
    /\ revocations \subseteq Identities
    /\ attempts \in [AttemptIds -> Attempt]
    /\ effects \in [Approvals -> 0 .. 2]
    /\ applying \subseteq Approvals
    /\ confirmed \subseteq Approvals
    /\ serving \in BOOLEAN
    /\ task \in [Tasks -> Task]
    /\ rec \in [Recoverers -> Recoverer]
    /\ crashes \in 0 .. MaxCrashes

----------------------------------------------------------------------------
(* Helpers on the tables.                                                  *)

Open(i) == attempts[i].status \in OPEN_STATUSES

\* The identities control._identities derives from a device row read at generation g.
IdentitiesOf(d, g) == {<<d, 0>>, <<d, g>>}

\* Mutant: an empty predicate list, so that nothing ever counts as revoked.
RevokedAny_NoPredicate(ids) == FALSE

RevokedAny(ids) == ids \cap revocations # {}

\* _execution_authority: what a decision commit and a recovery retry both require.
Authority(d) ==
    /\ ~RevokedAny(IdentitiesOf(d, dev[d].gen))
    /\ dev[d].status = "ACTIVE"
    /\ dev[d].attested

\* Mutants: the outcome without the request's state; the status compare forgotten.
FinishAttempt_OutcomeOnly(i, outcome, expected, final) ==
    /\ attempts' = IF attempts[i].status \in expected \cap OPEN_STATUSES
                   THEN [attempts EXCEPT ![i].status = outcome, ![i].owner = NULL]
                   ELSE attempts
    /\ UNCHANGED request
FinishAttempt_NoCompare(i, outcome, expected, final) ==
    LET a       == attempts[i].approval
        applies == Open(i) /\ (final = "KEEP" \/ request[a] = "EXECUTING")
    IN  /\ attempts' = IF applies THEN [attempts EXCEPT ![i].status = outcome] ELSE attempts
        /\ request' = IF applies /\ final # "KEEP" THEN [request EXCEPT ![a] = final]
                      ELSE request

\* _finish_attempt: outcome and request state move together, never out of a terminal status,
\* and only from the status the caller expects where it names one.
FinishAttempt(i, outcome, expected, final) ==
    LET a       == attempts[i].approval
        applies == /\ attempts[i].status \in expected \cap OPEN_STATUSES
                   /\ final = "KEEP" \/ request[a] = "EXECUTING"
    IN  /\ attempts' = IF applies
                       THEN [attempts EXCEPT ![i].status = outcome, ![i].owner = NULL,
                                             ![i].live = FALSE]
                       ELSE attempts
        /\ request' = IF applies /\ final # "KEEP"
                      THEN [request EXCEPT ![a] = final]
                      ELSE request

\* Mutant: a falsy answer or an exception is taken for success.
RecordOutcome_Optimistic(i, answer) ==
    IF answer = "safe" THEN FinishAttempt(i, "FAILED_SAFE", OPEN_STATUSES, "FAILED")
    ELSE FinishAttempt(i, "SUCCEEDED", OPEN_STATUSES, "CONSUMED")

\* What a caller does with the adapter's answer (bridge._run_attempt, recover_execution).
RecordOutcome(i, answer) ==
    CASE answer = "ok"        -> FinishAttempt(i, "SUCCEEDED", OPEN_STATUSES, "CONSUMED")
      [] answer = "safe"      -> FinishAttempt(i, "FAILED_SAFE", OPEN_STATUSES, "FAILED")
      [] answer = "ambiguous" -> FinishAttempt(i, "UNKNOWN", OPEN_STATUSES, "KEEP")

\* Mutants: any open row can be leased; a lease of somebody else never lapses.
LeaseFree_AnyOpen(i, who)     == Open(i)
LeaseFree_NeverLapses(i, who) == Open(i) /\ attempts[i].owner \in {NULL, who}

\* _acquire_lease: open, and free, ours already, or lapsed.
LeaseFree(i, who) ==
    Open(i) /\ (attempts[i].owner \in {NULL, who} \/ ~attempts[i].live)

\* Mutant: whatever is ambiguous is simply tried again.
RecoveryDecision_RetryAll(status, sem) ==
    IF status = "CLAIMED" THEN "CLOSED_NO_EFFECT" ELSE "RETRY_SAME_KEY"

\* recovery_decision, for the statuses a journal row can be found open in.
RecoveryDecision(status, sem) ==
    CASE status = "CLAIMED" -> "CLOSED_NO_EFFECT"
      [] status # "CLAIMED" /\ sem \in {"READ_ONLY", "IDEMPOTENT_WRITE"} -> "RETRY_SAME_KEY"
      [] status # "CLAIMED" /\ sem = "RECONCILABLE_WRITE" -> "RECONCILE_FIRST"
      [] OTHER -> "MANUAL_RECOVERY_REQUIRED"

----------------------------------------------------------------------------
(* Requests and the human's decision.                                      *)

CreateRequest(a) ==
    /\ serving
    /\ request[a] = "NEW"
    /\ request' = [request EXCEPT ![a] = "PENDING"]
    /\ UNCHANGED <<decidedBy, overdue, semantics, memory, elsewhere>>

\* Who takes a decision of the phone: the core, or a stand-alone gateway beside it.
Reachable == serving \/ Scanners # {Core}

\* Mutant: the column gets the enrolment instead of the device.
CommitApprove_WrongColumn(a, d) ==
    /\ serving /\ request[a] = "PENDING" /\ ~overdue[a] /\ Authority(d)
    /\ request' = [request EXCEPT ![a] = "APPROVED"]
    /\ decidedBy' = [decidedBy EXCEPT ![a] = dev[d].gen]
    /\ applying' = applying \cup {a}
    /\ UNCHANGED <<overdue, semantics, confirmed, serving, elsewhere>>

\* _commit_decision for an APPROVE: authority is re-read under the write lock.  Only a decision
\* that the core itself took will be confirmed to its gate.
CommitApprove(a, d) ==
    /\ Reachable
    /\ request[a] = "PENDING"
    /\ ~overdue[a]
    /\ Authority(d)
    /\ request' = [request EXCEPT ![a] = "APPROVED"]
    /\ decidedBy' = [decidedBy EXCEPT ![a] = d]
    /\ \/ serving /\ applying' = applying \cup {a}
       \/ Scanners # {Core} /\ UNCHANGED applying
    /\ UNCHANGED <<overdue, semantics, confirmed, serving, elsewhere>>

\* Mutant: the transition without its compare-and-swap on PENDING.
CommitDeny_NoSwap(a, d) ==
    /\ Reachable /\ request[a] # "NEW" /\ ~overdue[a] /\ Authority(d)
    /\ request' = [request EXCEPT ![a] = "DENIED"]
    /\ decidedBy' = [decidedBy EXCEPT ![a] = d]
    /\ UNCHANGED <<overdue, semantics, memory, elsewhere>>

CommitDeny(a, d) ==
    /\ Reachable
    /\ request[a] = "PENDING"
    /\ ~overdue[a]
    /\ Authority(d)
    /\ request' = [request EXCEPT ![a] = "DENIED"]
    /\ decidedBy' = [decidedBy EXCEPT ![a] = d]
    /\ UNCHANGED <<overdue, semantics, memory, elsewhere>>

\* apply_mobile_decision after its await: the confirmation exists only in this process.
ConfirmToGate(a) ==
    /\ a \in applying
    /\ applying' = applying \ {a}
    /\ confirmed' = confirmed \cup {a}
    /\ UNCHANGED <<requestVars, serving, elsewhere>>

DeadlinePasses(a) ==
    /\ request[a] # "NEW"
    /\ ~overdue[a]
    /\ overdue' = [overdue EXCEPT ![a] = TRUE]
    /\ UNCHANGED <<request, decidedBy, semantics, memory, elsewhere>>

\* Mutant: the sweep without its state predicate.
ExpireDue_AnyState ==
    LET due == {a \in Approvals : request[a] \notin {"NEW", "EXPIRED"} /\ overdue[a]}
    IN  /\ due # {}
        /\ request' = [a \in Approvals |-> IF a \in due THEN "EXPIRED" ELSE request[a]]
        /\ UNCHANGED <<decidedBy, overdue, semantics, memory, elsewhere>>

\* _expire_due: the sweep every list_pending starts with.
ExpireDue ==
    LET due == {a \in Approvals : request[a] \in {"PENDING", "APPROVED"} /\ overdue[a]}
    IN  /\ due # {}
        /\ request' = [a \in Approvals |-> IF a \in due THEN "EXPIRED" ELSE request[a]]
        /\ UNCHANGED <<decidedBy, overdue, semantics, memory, elsewhere>>

\* CapabilityApprovals.abandon: the transition may also take an approved request, and the
\* confirmation goes with it.
Abandon(a) ==
    /\ serving
    /\ request[a] \in {"PENDING", "APPROVED"}
    /\ request' = [request EXCEPT ![a] = "EXPIRED"]
    /\ confirmed' = confirmed \ {a}
    /\ UNCHANGED <<decidedBy, overdue, semantics, applying, serving, elsewhere>>

----------------------------------------------------------------------------
(* Device authority, as the other processes of the store may change it.    *)

requestsAndWork == <<requestVars, attempts, effects, memory, task, rec, crashes>>

\* begin_enrollment_atomic: the row is taken over by a new generation awaiting attestation.
BeginEnrollment(d) ==
    /\ dev[d].gen < MaxGen
    /\ ~RevokedAny(IdentitiesOf(d, dev[d].gen + 1))
    /\ dev[d].status = "ACTIVE"
    /\ dev' = [dev EXCEPT ![d].gen = @ + 1, ![d].attested = FALSE]
    /\ UNCHANGED <<revocations, requestsAndWork>>

FinalizeAttestation(d) ==
    /\ ~RevokedAny(IdentitiesOf(d, dev[d].gen))
    /\ dev[d].status = "ACTIVE"
    /\ ~dev[d].attested
    /\ dev' = [dev EXCEPT ![d].attested = TRUE, ![d].history = @ \cup {dev[d].gen}]
    /\ UNCHANGED <<revocations, requestsAndWork>>

\* revoke_device: the device, its present key material and all it was ever attested with.
RevokeDevice(d) ==
    /\ <<d, 0>> \notin revocations
    /\ revocations' = revocations \cup {<<d, g>> : g \in {0, dev[d].gen} \cup dev[d].history}
    /\ dev' = [dev EXCEPT ![d].status = "REVOKED"]
    /\ UNCHANGED requestsAndWork

\* revoke_approval_key / revoke_app_attest_key: dooms the rows that carry the key now.
RevokeKey(d, g) ==
    /\ g # 0
    /\ <<d, g>> \notin revocations
    /\ revocations' = revocations \cup {<<d, g>>}
    /\ dev' = [dev EXCEPT ![d].status = IF dev[d].gen = g THEN "REVOKED" ELSE @]
    /\ UNCHANGED requestsAndWork

----------------------------------------------------------------------------
(* MobileApprovalCoordinator.execute_approved, one action per await.       *)

\* get_request
ReadApproved(t, a) ==
    /\ serving
    /\ task[t].pc = "idle"
    /\ request[a] = "APPROVED"
    /\ task' = [task EXCEPT ![t] = [IdleTask EXCEPT !.pc = "gate", !.approval = a,
                                                     !.device = decidedBy[a]]]
    /\ UNCHANGED <<requestVars, deviceVars, attempts, effects, memory, rec, crashes>>

\* S1 request / approve / take_approved run without an await: they pass if and only if the
\* request is still confirmed.
PassGate(t) ==
    /\ task[t].pc = "gate"
    /\ task' = [task EXCEPT ![t] = IF task[t].approval \in confirmed
                                   THEN [task[t] EXCEPT !.pc = "preflight"]
                                   ELSE IdleTask]
    /\ UNCHANGED <<requestVars, deviceVars, attempts, effects, memory, rec, crashes>>

\* execution_preflight reads the device row; the identities it derives are used until the end.
\* An enrolment that awaits attestation has no environment, so it fails the environment check.
Preflight(t) ==
    LET d == task[t].device IN
    /\ task[t].pc = "preflight"
    /\ IF dev[d].status = "ACTIVE" /\ dev[d].attested
       THEN /\ task' = [task EXCEPT ![t].pc = "claim", ![t].gen = dev[d].gen]
            /\ UNCHANGED confirmed
       ELSE /\ task' = [task EXCEPT ![t] = IdleTask]
            /\ confirmed' = confirmed \ {task[t].approval}
    /\ UNCHANGED <<requestVars, deviceVars, attempts, effects, applying, serving, rec, crashes>>

\* Mutant: the request's state and the journal were read before the transaction.
ClaimHolds_CheckedBefore(t) ==
    LET d == task[t].device
    IN  dev[d].status = "ACTIVE" /\ dev[d].attested /\ ~RevokedAny(IdentitiesOf(d, task[t].gen))

\* Why claim_execution_attempt may refuse: the journal, then the one claiming UPDATE.
ClaimHolds(t) ==
    LET a == task[t].approval
        d == task[t].device
    IN  /\ \A i \in AttemptIds :
               attempts[i].approval = a => attempts[i].status \in {"FAILED_SAFE", "ABANDONED"}
        /\ request[a] = "APPROVED"
        /\ decidedBy[a] = d
        /\ ~overdue[a]
        /\ dev[d].status = "ACTIVE"
        /\ dev[d].attested
        /\ ~RevokedAny(IdentitiesOf(d, task[t].gen))

\* claim_execution_attempt: claim and journal row in one transaction; either way the
\* confirmation is spent.
Claim(t) ==
    LET a == task[t].approval
        d == task[t].device
    IN  /\ task[t].pc = "claim"
        /\ confirmed' = confirmed \ {a}
        /\ \/ /\ ClaimHolds(t)
              /\ \E i \in AttemptIds :
                     /\ attempts[i].status = "NONE"
                     /\ attempts' = [attempts EXCEPT ![i] =
                            [approval |-> a, device |-> d, gen |-> dev[d].gen,
                             status |-> "CLAIMED", owner |-> t, live |-> TRUE]]
                     /\ task' = [task EXCEPT ![t].pc = "boundary", ![t].attempt = i]
              /\ request' = [request EXCEPT ![a] = "EXECUTING"]
           \/ /\ ~ClaimHolds(t)
              /\ task' = [task EXCEPT ![t] = IdleTask]
              /\ UNCHANGED <<attempts, request>>
        /\ UNCHANGED <<tables, applying, serving, rec, crashes>>

\* begin_external_execution: the durable boundary, or the attempt and its request are closed.
BeginExternal(t) ==
    LET i       == task[t].attempt
        claimed == attempts[i].status = "CLAIMED"
        revoked == RevokedAny(IdentitiesOf(task[t].device, task[t].gen))
    IN  /\ task[t].pc = "boundary"
        /\ \/ /\ claimed /\ ~revoked
              /\ attempts' = [attempts EXCEPT ![i].status = "EXTERNAL_PENDING"]
              /\ task' = [task EXCEPT ![t].pc = "external"]
              /\ UNCHANGED request
           \/ /\ claimed /\ revoked
              /\ attempts' = [attempts EXCEPT ![i].status = "ABANDONED"]
              /\ request' = [request EXCEPT ![task[t].approval] = "FAILED"]
              /\ task' = [task EXCEPT ![t].pc = "unstarted"]
           \/ /\ ~claimed
              /\ task' = [task EXCEPT ![t].pc = "unstarted"]
              /\ UNCHANGED <<attempts, request>>
        /\ UNCHANGED <<tables, memory, rec, crashes>>

\* _run_attempt after a refused boundary: close what is still open.
CloseUnstarted(t) ==
    /\ task[t].pc = "unstarted"
    /\ FinishAttempt(task[t].attempt, "ABANDONED", OPEN_STATUSES, "FAILED")
    /\ task' = [task EXCEPT ![t] = IdleTask]
    /\ UNCHANGED <<tables, memory, rec, crashes>>

\* The far side: a repeat under the same idempotency key changes nothing where the declared
\* semantics say so.
Happens(a) ==
    effects' = [effects EXCEPT ![a] =
        IF @ = 0 THEN 1
        ELSE IF semantics[a] \in {"READ_ONLY", "IDEMPOTENT_WRITE"} THEN @ ELSE 2]

\* An adapter answers "ok" only when the effect is there and claims safety only when it is not;
\* an exception or a falsy answer may hide either.
AdapterAnswer(a, answer) ==
    \/ answer \in {"ok", "ambiguous"} /\ Happens(a)
    \/ answer = "ambiguous" /\ UNCHANGED effects
    \/ answer = "safe" /\ effects[a] = 0 /\ UNCHANGED effects

CallAdapter(t) ==
    /\ task[t].pc = "external"
    /\ \E answer \in Outcomes :
           /\ AdapterAnswer(task[t].approval, answer)
           /\ task' = [task EXCEPT ![t].pc = "outcome", ![t].outcome = answer]
    /\ UNCHANGED <<requestVars, deviceVars, attempts, memory, rec, crashes>>

RecordRun(t) ==
    /\ task[t].pc = "outcome"
    /\ RecordOutcome(task[t].attempt, task[t].outcome)
    /\ task' = [task EXCEPT ![t] = IdleTask]
    /\ UNCHANGED <<tables, memory, rec, crashes>>

----------------------------------------------------------------------------
(* startup_recovery_scan: it may only close what is provably still CLAIMED. *)

AcquireLease(r, i) ==
    attempts' = [attempts EXCEPT ![i].owner = r, ![i].live = TRUE]

\* open_execution_attempts; every row that is not CLAIMED is only reported.
ScanRead(s) ==
    /\ rec[s].pc = "idle"
    /\ s = Core => ~serving
    /\ rec' = [rec EXCEPT ![s].pc = "scan",
                          ![s].rows = {i \in AttemptIds : attempts[i].status = "CLAIMED"}]
    /\ UNCHANGED <<tables, request, attempts, memory, task, crashes>>

\* acquire_recovery_lease for one row of the snapshot; a held lease is reported as contended.
ScanLease(s, i) ==
    /\ rec[s].pc = "scan"
    /\ i \in rec[s].rows
    /\ \/ /\ LeaseFree(i, s)
          /\ AcquireLease(s, i)
          /\ rec' = [rec EXCEPT ![s].pc = "reread", ![s].attempt = i, ![s].rows = @ \ {i}]
       \/ /\ ~LeaseFree(i, s)
          /\ rec' = [rec EXCEPT ![s].rows = @ \ {i}]
          /\ UNCHANGED attempts
    /\ UNCHANGED <<tables, request, memory, task, crashes>>

\* Mutant: a row that moved meanwhile is looked at again and again.
ScanReread_Insist(s) ==
    /\ rec[s].pc = "reread"
    /\ rec' = [rec EXCEPT ![s].pc = IF attempts[rec[s].attempt].status = "CLAIMED" THEN "finish"
                                    ELSE @]
    /\ UNCHANGED <<tables, request, attempts, memory, task, crashes>>

\* open_attempt_by_id under the lease; a row that moved meanwhile is reported.
ScanReread(s) ==
    /\ rec[s].pc = "reread"
    /\ rec' = [rec EXCEPT ![s] = IF attempts[@.attempt].status = "CLAIMED"
                                 THEN [@ EXCEPT !.pc = "finish"]
                                 ELSE [@ EXCEPT !.pc = "scan", !.attempt = NULL]]
    /\ UNCHANGED <<tables, request, attempts, memory, task, crashes>>

\* The close itself compares the status once more.
ScanFinish(s) ==
    /\ rec[s].pc = "finish"
    /\ FinishAttempt(rec[s].attempt, "ABANDONED", {"CLAIMED"}, "FAILED")
    /\ rec' = [rec EXCEPT ![s].pc = "scan", ![s].attempt = NULL]
    /\ UNCHANGED <<tables, memory, task, crashes>>

ScanDone(s) ==
    /\ rec[s].pc = "scan"
    /\ rec[s].rows = {}
    /\ rec' = [rec EXCEPT ![s].pc = IF s = Core THEN "orphans" ELSE "idle"]
    /\ UNCHANGED <<tables, request, attempts, memory, task, crashes>>

\* abandon_orphans: list_pending, which sweeps first; then one transition per request it listed,
\* decided or not by now; then the core serves.  Nothing is confirmed to its gate yet.
ListOrphans ==
    LET due == {a \in Approvals : request[a] \in {"PENDING", "APPROVED"} /\ overdue[a]}
    IN  /\ rec[Core].pc = "orphans"
        /\ request' = [a \in Approvals |-> IF a \in due THEN "EXPIRED" ELSE request[a]]
        /\ rec' = [rec EXCEPT ![Core].pc = "abandon",
                              ![Core].orphans = {a \in Approvals \ due : request[a] = "PENDING"}]
        /\ UNCHANGED <<tables, attempts, memory, task, crashes>>

AbandonOrphan(a) ==
    /\ rec[Core].pc = "abandon"
    /\ a \in rec[Core].orphans
    /\ request' = [request EXCEPT ![a] = IF @ \in {"PENDING", "APPROVED"} THEN "EXPIRED" ELSE @]
    /\ rec' = [rec EXCEPT ![Core].orphans = @ \ {a}]
    /\ UNCHANGED <<tables, attempts, memory, task, crashes>>

StartServing ==
    /\ rec[Core].pc = "abandon"
    /\ rec[Core].orphans = {}
    /\ rec' = [rec EXCEPT ![Core] = IdleRec]
    /\ serving' = TRUE
    /\ UNCHANGED <<tables, request, attempts, applying, confirmed, task, crashes>>

----------------------------------------------------------------------------
(* recover_execution.  What to do is decided from the row read first.      *)

Idle(r) == rec' = [rec EXCEPT ![r] = IdleRec]

\* open_attempt_for
RecoverRead(r, i) ==
    /\ rec[r].pc = "idle"
    /\ Open(i)
    /\ rec' = [rec EXCEPT ![r].pc = "lease", ![r].attempt = i, ![r].status = attempts[i].status]
    /\ UNCHANGED <<tables, request, attempts, memory, task, crashes>>

RecoverLease(r) ==
    /\ rec[r].pc = "lease"
    /\ \/ /\ LeaseFree(rec[r].attempt, r)
          /\ AcquireLease(r, rec[r].attempt)
          /\ rec' = [rec EXCEPT ![r].pc = "decide"]
       \/ /\ ~LeaseFree(rec[r].attempt, r)
          /\ Idle(r)
          /\ UNCHANGED attempts
    /\ UNCHANGED <<tables, request, memory, task, crashes>>

Decision(r) == RecoveryDecision(rec[r].status, semantics[attempts[rec[r].attempt].approval])

RecoverClose(r) ==
    /\ rec[r].pc = "decide"
    /\ Decision(r) = "CLOSED_NO_EFFECT"
    /\ FinishAttempt(rec[r].attempt, "ABANDONED", OPEN_STATUSES, "FAILED")
    /\ Idle(r)
    /\ UNCHANGED <<tables, memory, task, crashes>>

\* MANUAL_RECOVERY_REQUIRED: name the uncertainty, unless the row read already did.
RecoverManually(r) ==
    /\ rec[r].pc = "decide"
    /\ Decision(r) = "MANUAL_RECOVERY_REQUIRED"
    /\ FinishAttempt(rec[r].attempt, "UNKNOWN",
                     IF rec[r].status = "UNKNOWN" THEN {} ELSE OPEN_STATUSES, "KEEP")
    /\ Idle(r)
    /\ UNCHANGED <<tables, memory, task, crashes>>

\* Without a reconciler or an executor the caller is told what is missing.
RecoverFurther(r) ==
    /\ rec[r].pc = "decide"
    /\ Decision(r) \in {"RECONCILE_FIRST", "RETRY_SAME_KEY"}
    /\ IF r \notin Equipped THEN Idle(r)
       ELSE rec' = [rec EXCEPT ![r].pc = IF Decision(r) = "RECONCILE_FIRST" THEN "reconcile"
                                         ELSE "recheck"]
    /\ UNCHANGED <<tables, request, attempts, memory, task, crashes>>

\* Mutant: a row behind the boundary is taken for executed without looking.
Reconcile_Assume(r) ==
    /\ rec[r].pc = "reconcile"
    /\ rec' = [rec EXCEPT ![r].pc = "reconciled", ![r].outcome = "ok"]
    /\ UNCHANGED <<tables, request, attempts, memory, task, crashes>>

\* The reconciler looks at the far side; recording what it saw is a later step.
Reconcile(r) ==
    /\ rec[r].pc = "reconcile"
    /\ rec' = [rec EXCEPT ![r].pc = "reconciled",
           ![r].outcome = IF effects[attempts[rec[r].attempt].approval] > 0 THEN "ok" ELSE "safe"]
    /\ UNCHANGED <<tables, request, attempts, memory, task, crashes>>

RecordReconciled(r) ==
    /\ rec[r].pc = "reconciled"
    /\ IF rec[r].outcome = "ok"
       THEN FinishAttempt(rec[r].attempt, "SUCCEEDED", OPEN_STATUSES, "CONSUMED")
       ELSE FinishAttempt(rec[r].attempt, "ABANDONED", OPEN_STATUSES, "FAILED")
    /\ Idle(r)
    /\ UNCHANGED <<tables, memory, task, crashes>>

\* recheck_execution_authority with _claim_binding_mismatch: today's authority must hold and
\* be the one the attempt was claimed under.
RecheckHolds(i) ==
    LET a == attempts[i].approval
        d == attempts[i].device
    IN  /\ Open(i)
        /\ request[a] \in {"EXECUTING", "APPROVED"}
        /\ ~overdue[a]
        /\ decidedBy[a] = d
        /\ Authority(d)
        /\ dev[d].gen = attempts[i].gen

Recheck(r) ==
    /\ rec[r].pc = "recheck"
    /\ rec' = [rec EXCEPT ![r].pc = IF RecheckHolds(rec[r].attempt) THEN "retry" ELSE "park"]
    /\ UNCHANGED <<tables, request, attempts, memory, task, crashes>>

\* _authority_for_retry: a refused retry leaves the attempt ambiguous.
Park(r) ==
    /\ rec[r].pc = "park"
    /\ FinishAttempt(rec[r].attempt, "UNKNOWN",
                     IF rec[r].status = "UNKNOWN" THEN {} ELSE OPEN_STATUSES, "KEEP")
    /\ Idle(r)
    /\ UNCHANGED <<tables, memory, task, crashes>>

Retry(r) ==
    /\ rec[r].pc = "retry"
    /\ \E answer \in Outcomes :
           /\ AdapterAnswer(attempts[rec[r].attempt].approval, answer)
           /\ rec' = [rec EXCEPT ![r].pc = "outcome", ![r].outcome = answer]
    /\ UNCHANGED <<requestVars, deviceVars, attempts, memory, task, crashes>>

RecordRetry(r) ==
    /\ rec[r].pc = "outcome"
    /\ RecordOutcome(rec[r].attempt, rec[r].outcome)
    /\ Idle(r)
    /\ UNCHANGED <<tables, memory, task, crashes>>

----------------------------------------------------------------------------
(* Time and failures.                                                      *)

\* Somebody still acts on the lease it took: an executor past its claim, a recoverer past
\* its compare-and-swap.
AtWork(i) ==
    \/ \E t \in Tasks : task[t].attempt = i /\ attempts[i].owner = t
    \/ \E r \in Recoverers :
           rec[r].attempt = i /\ rec[r].pc # "lease" /\ attempts[i].owner = r

LeaseLapses(i) ==
    /\ attempts[i].live
    /\ LeaseOutlivesRun => ~AtWork(i)
    /\ attempts' = [attempts EXCEPT ![i].live = FALSE]
    /\ UNCHANGED <<requestVars, deviceVars, effects, memory, task, rec, crashes>>

\* A cancelled asyncio task: CancelledError passes every `except Exception`, nothing is recorded.
CancelTask(t) ==
    /\ crashes < MaxCrashes
    /\ task[t].pc # "idle"
    /\ task' = [task EXCEPT ![t] = IdleTask]
    /\ crashes' = crashes + 1
    /\ UNCHANGED <<requestVars, deviceVars, attempts, effects, memory, rec>>

\* The core dies: its tasks, its start-up scan and every confirmation are gone.
CrashCore ==
    /\ crashes < MaxCrashes
    /\ crashes' = crashes + 1
    /\ task' = [t \in Tasks |-> IdleTask]
    /\ rec' = [rec EXCEPT ![Core] = IdleRec]
    /\ applying' = {} /\ confirmed' = {} /\ serving' = FALSE
    /\ UNCHANGED <<requestVars, deviceVars, attempts, effects>>

CrashRecoverer(r) ==
    /\ crashes < MaxCrashes
    /\ r # Core
    /\ rec[r].pc # "idle"
    /\ Idle(r)
    /\ crashes' = crashes + 1
    /\ UNCHANGED <<requestVars, deviceVars, attempts, effects, memory, task>>

----------------------------------------------------------------------------
Init ==
    /\ request = [a \in Approvals |-> "NEW"]
    /\ decidedBy = [a \in Approvals |-> NULL]
    /\ overdue = [a \in Approvals |-> FALSE]
    /\ semantics \in [Approvals -> SemanticsInUse]
    /\ dev = [d \in Devices |-> [status |-> "ACTIVE", attested |-> TRUE, gen |-> 1,
                                 history |-> {1}]]
    /\ revocations = {}
    /\ attempts = [i \in AttemptIds |-> NoAttempt]
    /\ effects = [a \in Approvals |-> 0]
    /\ applying = {} /\ confirmed = {} /\ serving = TRUE
    /\ task = [t \in Tasks |-> IdleTask]
    /\ rec = [r \in Recoverers |-> IdleRec]
    /\ crashes = 0

TaskStep(t) ==
    PassGate(t) \/ Preflight(t) \/ Claim(t) \/ BeginExternal(t) \/ CloseUnstarted(t)
        \/ CallAdapter(t) \/ RecordRun(t)

ScanStep(s) ==
    \/ ScanRead(s) \/ ScanReread(s) \/ ScanFinish(s) \/ ScanDone(s)
    \/ \E i \in AttemptIds : ScanLease(s, i)

OrphanStep == ListOrphans \/ StartServing \/ \E a \in Approvals : AbandonOrphan(a)

RecoverStep(r) ==
    \/ RecoverLease(r) \/ RecoverClose(r) \/ RecoverManually(r) \/ RecoverFurther(r)
    \/ Reconcile(r) \/ RecordReconciled(r) \/ Recheck(r) \/ Park(r) \/ Retry(r) \/ RecordRetry(r)

DecisionStep ==
    \/ ExpireDue
    \/ \E a \in Approvals :
           \/ CreateRequest(a) \/ ConfirmToGate(a) \/ DeadlinePasses(a) \/ Abandon(a)
           \/ \E d \in Devices : CommitApprove(a, d) \/ CommitDeny(a, d)

DeviceStep ==
    \E d \in Devices :
        \/ BeginEnrollment(d) \/ FinalizeAttestation(d) \/ RevokeDevice(d)
        \/ \E g \in Gens : RevokeKey(d, g)

Failure ==
    \/ CrashCore
    \/ \E t \in Tasks : CancelTask(t)
    \/ \E r \in Recoverers : CrashRecoverer(r)

Next ==
    \/ DecisionStep \/ DeviceStep \/ Failure \/ OrphanStep
    \/ \E t \in Tasks : TaskStep(t) \/ \E a \in Approvals : ReadApproved(t, a)
    \/ \E s \in Scanners : ScanStep(s)
    \/ \E r \in Admins : RecoverStep(r) \/ \E i \in AttemptIds : RecoverRead(r, i)
    \/ \E i \in AttemptIds : LeaseLapses(i)

Spec == Init /\ [][Next]_vars

\* A scan that has begun goes on to its end.
ScanGoesOn(s) == rec[s].pc # "idle" /\ ScanStep(s)

\* What the start of a process gives, and no more: launchd restarts a core that is gone, the
\* start-up scan of a process that goes on starting is carried through, and so are the core's
\* orphans.  Nothing makes an idle gateway scan again, a serving core never rescans, and neither
\* an adapter's answer nor the lapse of a lease is assumed.
Fairness ==
    /\ WF_vars(ScanRead(Core))
    /\ \A s \in Scanners : WF_vars(ScanGoesOn(s))
    /\ WF_vars(OrphanStep)

LiveSpec == Spec /\ Fairness

----------------------------------------------------------------------------
(* Properties.                                                             *)

RowsOf(a) == {i \in AttemptIds : attempts[i].approval = a}

\* The request row and the journal are written by different statements of many callers
\* (_claim_execution_attempt, _begin_external, _finish_attempt, _expire_due, transition), yet
\* they never disagree: a request is EXECUTING, CONSUMED or FAILED exactly when it has an
\* attempt, it has at most one, and its state says how that attempt stands.
JournalAgreesWithRequest ==
    \A a \in Approvals :
        /\ RowsOf(a) # {} <=> request[a] \in {"EXECUTING", "CONSUMED", "FAILED"}
        /\ \A i, j \in RowsOf(a) : i = j
        /\ \A i \in RowsOf(a) :
               /\ Open(i) <=> request[a] = "EXECUTING"
               /\ attempts[i].status = "SUCCEEDED" <=> request[a] = "CONSUMED"

\* An attempt recorded as ABANDONED or FAILED_SAFE states that the outside world was not
\* touched (execution.py): no effect of it is ever found, whoever closed it and whoever was
\* still running it.
NoEffectWhereRuledOut ==
    \A i \in AttemptIds :
        attempts[i].status \in {"ABANDONED", "FAILED_SAFE"} => effects[attempts[i].approval] = 0

\* An effect in the world has a row that crossed the durable boundary first, and a success in
\* the journal has an effect in the world.
EffectsAreJournalled ==
    \A a \in Approvals :
        /\ effects[a] > 0 =>
               \E i \in RowsOf(a) : attempts[i].status \notin {"NONE", "CLAIMED"}
        /\ \A i \in RowsOf(a) : attempts[i].status = "SUCCEEDED" => effects[a] > 0

\* One approval acts on the world at most once, through crashes, concurrent resumes of the same
\* approval and every recovery path (bridge.py, execution.py).
AtMostOnce == \A a \in Approvals : effects[a] <= 1

\* Once revoke_device has committed, no attempt of that device crosses the durable boundary,
\* even if it was approved, gated and claimed before (begin_external_execution).
RevokedDeviceNeverCrosses ==
    [][\A i \in AttemptIds :
           attempts[i].status = "CLAIMED" /\ attempts'[i].status = "EXTERNAL_PENDING"
               => <<attempts[i].device, 0>> \notin revocations]_vars

\* The docstring of begin_external_execution for a device row that any revocation has doomed:
\* "if the authority died while the attempt was merely CLAIMED, no external effect has happened
\* yet and none will".
DeadAuthorityNeverCrosses ==
    [][\A i \in AttemptIds :
           attempts[i].status = "CLAIMED" /\ attempts'[i].status = "EXTERNAL_PENDING"
               => dev[attempts[i].device].status = "ACTIVE"]_vars

\* What the journal has closed stays as it was closed, a terminal request never leaves its
\* state, and an ambiguous attempt never turns back into one that provably did not start.
ClosedIsFinal ==
    [][/\ \A i \in AttemptIds :
              /\ attempts[i].status \in TERMINAL_STATUSES =>
                     attempts'[i].status = attempts[i].status
              /\ attempts[i].status \in {"EXTERNAL_PENDING", "UNKNOWN"} =>
                     attempts'[i].status \notin {"NONE", "CLAIMED"}
       /\ \A a \in Approvals :
              request[a] \in {"DENIED", "EXPIRED", "CONSUMED", "FAILED"} =>
                  request'[a] = request[a]]_vars

\* While leases outlive the work done under them, whoever acts on an attempt acts alone:
\* executor, start-up scans and recoveries exclude each other (acquire_recovery_lease).
OneActorPerAttempt ==
    \A i \in AttemptIds :
        Cardinality({t \in Tasks : task[t].attempt = i /\ Open(i)}
                    \cup {r \in Recoverers : rec[r].attempt = i /\ rec[r].pc # "lease" /\ Open(i)})
            <= 1

\* What a start-up scan that has begun owes the rows of its snapshot: one whose lease has lapsed
\* is closed, or moves, unless the process or the work on the row is cut off once more
\* (startup_recovery_scan).  A row whose lease still runs is only reported, and waits for the
\* next start.
ClaimedIsResolved ==
    \A s \in Scanners, i \in AttemptIds, n \in 0..MaxCrashes :
        i \in rec[s].rows /\ ~attempts[i].live /\ crashes = n
            ~> attempts[i].status # "CLAIMED" \/ crashes > n

\* The core always comes back to serving: its start-up scan never waits for a lease that a
\* dead process left behind.
CoreServesAgain == ~serving ~> serving

----------------------------------------------------------------------------
(* The abstract action this implements.                                    *)

Phase(a) ==
    CASE request[a] = "NEW"                   -> "unasked"
      [] request[a] = "PENDING"               -> "asked"
      [] request[a] = "APPROVED"              -> "approved"
      [] request[a] \in {"DENIED", "EXPIRED"} -> "refused"
      [] request[a] = "CONSUMED"              -> "happened"
      [] request[a] = "FAILED"                -> "did_not_happen"
      [] request[a] = "EXECUTING"             ->
             IF \E i \in RowsOf(a) : attempts[i].status = "CLAIMED" THEN "claimed"
             ELSE "may_have_happened"

Abstract == INSTANCE ApprovedAction WITH phase <- [a \in Approvals |-> Phase(a)]

\* Whatever devices, processes, leases and crashes do, a reader of the two tables sees one
\* action being asked for, decided, taken up at most once and truthfully settled.
ImplementsApprovedAction == Abstract!Spec
=============================================================================
