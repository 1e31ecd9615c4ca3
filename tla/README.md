# A TLA+ development of Solvio Core

Solvio Core is a personal assistant that runs on one machine, talks to a model,
and acts on the world through capabilities. What keeps an action from happening
without its owner is the *mobile approval path*: an iPhone, paired and attested,
signs a decision on one exact action, and a durable journal records what became
of the action. Around it stand the components that act (calls, payments,
telephone, portals), that work by themselves (agents, autopilot, proactive tasks,
research), that talk (voice, learning) and that keep things (backups, vault,
memory). The modules here model them, TLC checks them on small instances, and
TLAPS proves what the approval path promises for instances of any size.

Paths below are relative to `src/src/solvio/`; `store.py`, `bridge.py`,
`control.py`, `execution.py`, `gateway.py` and `admin_cli.py` are in
`security/mobile_approval/`.

Sections: 1 the system, 2 the modules, 3 the runs, 4 where the code does
otherwise than it says, 5 the proofs, 6 what is left, 7 what is not modelled.

## 1. The system

### 1.1 The approval path

| Component | State | Operations | Interacts with |
|---|---|---|---|
| Execution journal (`bridge.py`, `execution.py`, `store.py`) | `approval_requests`, `execution_attempts` in SQLite; `MobileApprover._confirmed` in memory | create request, commit decision, claim, cross the boundary, finish, lease, start-up scan, recovery | core tasks, the gateway process and the admin CLI share the database file; adapters are called between two transactions |
| Device authority (`control.py`, `store.py`) | `devices`, `attestation_challenges`, `enrollment_tokens`, `device_identity_history`, `revocations` | mint and redeem token, begin enrolment, complete attestation, three revocations | requests of phones (gateway), revocations of the CLI; decisions and executions read its tables |
| Approval decision (`control.py`, `store.py`) | `challenges`, `approval_requests`, the assertion counter of a device | issue a challenge, submit a decision, expire | the phone signs; the commit reads device authority under the write lock |
| Router and gateway of the capabilities (`capabilities/router.py`, `policy.py`, `preauth.py`, `approval_gateway.py`) | in-memory outstanding and pending calls | classify, decide, run, ask, resume, withdraw | calls of dialogues, automations and agents; the phone behind the gateway |
| S1 broker (`security/approval.py`) | in-memory pending requests, TTL, a limit | request, approve, take once, cancel | is asked by `execute_approved` and by the local approver |

What is hard: every store method is one transaction, but an operation is several
of them with awaits in between; an executor, two start-up scans and a recovery from
the CLI may hold one row; the process may die, or a task be cancelled, at each
await; an adapter may raise after its effect. Two phones redeem one token, two
enrolments of one device overlap, late outcomes arrive, and a revocation races all of
it. Decisions are replayed and reordered.

### 1.2 What acts, works, talks and keeps

| Component | What it keeps and does | What makes it correct |
|---|---|---|
| `payment/` | intents, limits of instruments, an append-only ledger | one charge per intent; the book says what the provider did; a charge the provider knows is not closed as failed; a lower limit never widens |
| `telephony/`, `communication/` | contacts, calls over a wire, a ledger | whom a call rings is whom the owner was shown; every ring is on record; the outcome told is the one there was |
| `cognition/` | a decision book, fences against repetition, model calls | one large look per commission, every token booked, the same work not twice |
| `agent_runtime/` | runs, steps, waiting starts, one loop | no success with open steps, no way around a denial, nothing uncertain repeated |
| `autopilot/` | a milestone's ledger, a driver, a command line in another process | ready only when measured |
| `proactive/` | scheduled tasks, claims, items | once per occurrence, one catch-up after a gap |
| `provider_broker/` | tokens, leases, daily caps, a book | caps and book part only by a request over midnight, a cage's file holds a good token, buffers come back |
| `deep/` | a journal of tasks, pumps, readers; a jail with its executor | one end per task, what is open is driven, what is cancelled is stopped |
| `background/`, `nodes/`, `research/` | remote jobs, nodes, a public research run | a node runs a job again only when it has forgotten it, data stay within their zone, evidence was fetched |
| `doctor/`, `control_center/health.py` | incidents, repairs, notices | one repair at a time, attempts bounded also over a restart |
| `realtime/`, `voice_endpoint.py`, `conversation/` | conversations, turns, connections | nothing more of a response that was cut off, no audio and no task of an older conversation, a call is made as who is connected |
| `memory/adaptive/` | candidates, adoption, suppression | what is inferred was heard twice and never overrides what the owner said |
| `storage/` | the backup at home | sets are whole, the last success can be restored as long as its set is not pruned |
| `storage/offsite/` | the backup outside the house | verified means read back, healthy means restorable with what is still held |
| `secret_vault/` | an envelope, its key, values that wait | released under the policy they were sealed under, no key made beside older entries |
| `portal/`, `browser/` | sessions of a signed-in browser, one-time permits | one writing request per approval, the one that was approved, secrets on pages of the binding only, what is read of a living session shows none |
| `memory/` | records, a ledger of purges, vectors | what was purged stays away, an incomplete search says so |

Hardness is of one kind nearly everywhere: one event loop, an await between the
look and the act, a second actor at the same row, and a process that ends between two
commits. PROJECT.json lists the hazards at their lines, with the properties
that watch them.

## 2. Modules

```
ApprovedAction            abstract: one action, asked, decided, taken up, settled
  ^ refined by
ExecutionJournal          journal, executors, scans, recoveries, crashes
  ^ ExecutionJournalProofs
DeviceAuthority           pairing, enrolment, attestation, revocation
  ^ DeviceAuthorityProofs
ApprovalDecision          challenges, signatures, the decision commit
  ^ ApprovalDecisionProofs
MCExecutionJournal, MCDeviceAuthority, MCApprovalDecision   instances for TLC

ActionPolicy <- CapabilityCall, Payment, Telephony, Cognition           -> MCActing
                  ^ CapabilityCallProofs  ^ PaymentProofs
AgentRun, Autopilot, Proactive, ProviderBroker, Deep, DeepService,
Voice, VoiceTurns, VoiceDoor, Learning, Doctor, Remote                  -> MCWorking
                                ^ WorkingProofs (of AgentRun, Deep and DeepService)
Backup, Offsite, Vault, Memory, Portal                                  -> MCKeeping
                    ^ VaultProofs    ^ PortalProofs
                      (of Vault and Memory)
ten of them again, under fairness                                       -> MCEnding
```

All modules follow one rule: *what the code does between two awaits, and what a
store does in one transaction, is one action*, and *what an operation read before an
await is state of the actor* (`task[t]`, `rec[r]`, `handler[h]`, `call[c]`,
`drv`, `pump[t]`), so that the rest of the world moves between read and use.
Where a store commits statement by statement (autopilot, payment) each
statement is a step or a crash may fall between two of them.

**ExecutionJournal.** `request`, `decidedBy`, `overdue` are the columns of
`approval_requests`; `attempts` is `execution_attempts` with the lease reduced to
`owner` and `live`; `dev`, `revocations` are the device tables at the grain the
journal reads them (generation of an enrolment instead of keys; `<<d, 0>>` is
the device itself, `<<d, g>>` the keys of its g-th enrolment). `confirmed` and
`applying` live in the memory of the core and are lost in `CrashCore`.
`effects` is the outside world: how often the effect took place. The steps of
`execute_approved` are `ReadApproved`, `PassGate` (the S1 request, approve,
take: no await between them), `Preflight`, `Claim`, `BeginExternal`,
`CloseUnstarted`, `CallAdapter`, `RecordRun`; those of the scan `ScanRead`,
`ScanLease`, `ScanReread`, `ScanFinish`, `ScanDone`, and for the core `ListOrphans`,
`AbandonOrphan`, `StartServing`; those of
`recover_execution` are `RecoverRead` to `RecordRetry`. An adapter is external: it keeps
the contract of `SafeExecutionFailure` (safe only when nothing happened) and of
a true result (the effect is there); anything else may hide either.
A repeat under the same idempotency key changes nothing where the capability
declares READ_ONLY or IDEMPOTENT_WRITE.

A decision may be committed by the core or by a stand-alone gateway
(`scripts/run_approval_gateway.py`); only the core's own commit goes on to
confirm the request at its gate, so one taken by the gateway leaves an approval
that nobody executes and the next start abandons.

Abstractions: the in-memory line that follows an awaited store call (such as
`revoke_confirmation` after the claim) belongs to that call's action, so a
cancellation during a store call counts as one after it; the confirmation
it could leave behind is that of a request no longer `APPROVED`, which no
claim accepts. Lease owners are one per actor (the code's owner string is process
and thread, so tasks of one event loop share it; a task never leases a row another
task holds, since its claim creates the row); principal, environment and the
digests of the action are equal for all actors and left out; audit rows are left
out; time is a flag per deadline that turns once.

**DeviceAuthority** keeps the five tables of enrolment. A handler redeems a token and
begins an enrolment in two transactions; verification of an attestation
is a choice between `finalize` and `fail`, made on the challenge as it was peeked. The
`token` of a challenge row exists for the property `TokenBindsOnce` only.

**ApprovalDecision** has the handlers of `issue_challenge` and
`submit_decision`, the phone (external) that signs with the keys of its current
enrolment, a set `sent` of everything ever signed, from which any message may be
delivered late, twice or never, and `accepted`, the decisions the control plane
acknowledged (a set: the same signed decision acknowledged once more, `store.py:1528`, adds nothing). Revocations and enrolments are single actions here; their own races
are DeviceAuthority's.

**ApprovedAction** is what a reader of the two tables may believe of one action:
asked, approved or refused, claimed, may have happened, happened or did not
happen, where the last two must agree with the world. `ExecutionJournal!Phase` is
the refinement mapping.

**CapabilityCall** (with the table of **ActionPolicy**) is `CapabilityRouter.execute`: a call is
classified at the device its arguments resolve to, decided, and then runs
directly, under a bound grant, or after a human said yes; `outstanding`
and `closing` are the router's memory, lost in `Restart`, `req` are the requests at the phone, and
`world` is where a name resolves now. The device protocol and the journal are
one step each here; their own races are those of the modules above.

**Payment**: `intent`, `inst`, `charged`, `refunds` are the three tables, `prov` is the external provider
(idempotent by key, it may charge and never answer). **Telephony**: contacts, a call from
its description to its outcome, the ledger, a redial after a restart. **Cognition**: a
commission of the cognitive router from its view of the decision book over the
fences and at most three model calls to a capability and its row.

**AgentRun**: `run`, `rows`, `start` are durable; `ctx`, `holder`, `loop` die
with the process. **Autopilot**: the statements of the ledger, the driver and the
command line. **Proactive**: rows are read whole and written back whole, which is
where its races come from. **ProviderBroker**: registry, leases, gates, forwards, book.
**Deep** has the journal and its pumps, **DeepService** the jail around the executor.
**Remote** has the jobs given to nodes outside and a research run on them.
**Doctor** is the supervisor with its visits to one component. **Learning** is the
worker that adopts what it has heard. **Voice** is the life of a conversation on a
connection, **VoiceTurns** what happens inside it, **VoiceDoor** who may connect.

**Backup** and **Offsite** are the two backups, **Vault** one secret with its key, **Memory**
the records with their vectors, and **Portal** a session of the signed-in browser
from the capability over the wire and the worker to the page's network guard.
Its page is foreign: it changes by itself and sends requests anywhere when it likes.

Every module says in its head what it leaves out. External parts (providers,
nodes, executors, phones, models, pages, the world) do what they like within what
the code relies on.

*Umbrellas.* The components share no state, so `MCActing`, `MCWorking`, `MCKeeping` and
`MCEnding` check several at once: `part` names the instance a behaviour is of,
the variables of the others stay `Off`. An umbrella property is a conjunction
`part = x => X!Property`; the parts' own properties are stated, with comments, in
their modules.

## 3. Runs

| Run | Question | Instance |
|---|---|---|
| `JournalStartup` | Does the journal stay truthful with two executors, the scans of core and gateway, revocation, re-enrolment, a crash or a cancellation, and leases that lapse under a running executor? Does it implement `ApprovedAction`? | 1 request, 1 device, 2 enrolments, 2 tasks, 2 rows, 1 failure |
| `JournalRecovery` | Is the effect unique and the actor alone when recovery runs by hand, under all four semantics? | 1 request, 1 task, core scan, a bare CLI and a caller with executor and reconciler, 1 failure, leases outlive work |
| `JournalLiveness` | Does a start-up scan close the dead claims it finds free, and does the core come back? | 1 request, 1 task, 2 scanners, 2 failures |
| `StaleRecovery` | (violation) Does recovery decide on what is true? | 1 task, 1 CLI |
| `DeadAuthority` | (violation) Does dead authority stop at the boundary? | as `JournalStartup` |
| `Devices` | Are trust and revocation exact under concurrent enrolment? | 2 devices, 2 approval keys, 1 attest key, 3 tokens, 3 enrolments, 2 handlers |
| `DecisionRaces` | Is there one answer, under live authority, whatever races it? | 1 request, 1 challenge, 2 keys, 2 enrolments, 2 handlers |
| `DecisionReplays` | Do replays and reordering change an answer or a counter? | 2 requests, 2 challenges, counters to 2, 2 handlers |
| `Acting` | Does anything act that was not approved, and is what happened booked? | parts below, 1.7 million states |
| `Working` | Is work that goes on by itself settled, measured and counted, and does a conversation stay with who has it? | parts below, 1.7 million states |
| `Keeping` | Are copies good, secrets kept, and purged records gone? | parts below, 1.8 million states |
| `Ending` | Does what was begun come to an end? | parts below, 0.4 million states |

*Parts of the umbrellas* (the bounds of each are in its `INSTANCE ... WITH`).

| Run | Parts |
|---|---|
| `Acting` | *calls*: `table` (every capability and every way to call it, one call), `races` (two calls, a name that may mean a lock, a restart), `turns` (one call at a time, three requests, a drifting device), `grants` (automations); *payment*: `pay` (two executions race for one intent, a charge that arrives after its caller gave up), `alone` (two intents, one handler, so that what a crash between two writes does is seen by itself); *telephone*: `contact` (contacts change while a call is described), `redial` (a ring, a restart, another look); *commissions*: `assessed` (every answer of a model and every result), `repeated` (four times the same words), `resumed` (a follow-up over an approval, in two conversations), `questioned` (a question and its answer, a restart, a broken book), `measured` (shadow measurements and their cap) |
| `Working` | `agent` (plans of every kind of step, two crashes), `queue` (two runs for one slot); `milestone`, `asking`, `quota` (crashes, the owner's answers and stop, an exhausted budget); `two`, `catch up` (two tasks and one slot, a gap over several occurrences); `cage`, `core` (the token in the file of a cage, tokens of single calls, a request over midnight); `cut`, `deep crash`, `jail` (a stream cut anywhere, a crash, three cores for one jail); `voice`, `interrupted`, `remembering`, `door`, `callers`, `lost`, `regained` (the provider is lost, and is there again); `habit`, `truth` (what is inferred, what contradicts); `doctor`, `notices`; `job`, `forgetting`, `zones`, `study` |
| `Keeping` | `sets` (two processes, an item of each kind, one fault), `retention` (seven sets of one database); `runs`, `looks`, `restores` (three or four days, an object store that expires and loses); `changes` (two devices, two requests, a use), `key` (a script of the owner, two faults); `memory`, `purged` (two or three operations at once, a crash), `copied` (a copy is put back while others search and forget); `login`, `two logins`, `aging`, `long session`, `new code`, `keychain` (one caller or two at one session, up to four calls) |
| `Ending` | calls, runs of agents, proactive tasks, rounds of the autopilot, streams of the broker, the lock of the backup, research in depth, conversations, turns, the door |

*Why the bounds suffice.* Rows and requests of the journal interact only through their own
device, lease and request, so one request shows every race of it; two
tasks are the smallest number that race for a claim, two scanners the smallest that race for
a lease. A second row is there for a second attempt, which the claim refuses. Two
enrolments give a stale one and a current one; one crash is enough to leave a
row at every await, two for a crash during the recovery of the first. In `Devices` the
third enrolment lets a key wander from a superseded enrolment to another
device. `MaxRevoked` caps the revocations of `DecisionRaces`, `MaxCounter` the assertions
a phone can sign, the number of nonces the challenges issued. For these modules the proofs
take every bound away. In the umbrellas a part has the two actors its race needs, one
row for them to race for, and one fault (two where the recovery from the first is what
is looked at); counters and limits are set to one or two, so that both
sides of the limit are reached. Each property has a mutant of the code it
watches (a dropped guard, a missing reset, a stale read) that TLC finds within these bounds, and the umbrella
properties have one for each of their parts' main conjuncts.
`CHECK_DEADLOCK FALSE` is set where every request can be closed and every
bound spent.

*Symmetry* is used among tasks, devices, keys, tokens, handlers, executions and enrolment
ids, in runs of safety properties only; scanners and recoverers are named.

*Fairness.* `LiveSpec` (run `JournalLiveness`) is what the start of a process gives: `launchd` keeps
the core alive (`KeepAlive`, `doctor/playbooks.py:166`), so a core that is gone begins its
scan; a scan that has begun is carried through (`ScanGoesOn`), and so is the
abandonment that ends the start of the core. Nothing makes the gateway scan again, which does it once before it serves
(`scripts/run_approval_gateway.py`), a serving core never rescans, and neither an adapter's answer nor the lapse of a lease is assumed.
`ClaimedIsResolved` is therefore about a scan that has begun and a row it lists whose lease is free; what this leaves out is in section 4.
`MCEnding`: weak fairness of the steps the code takes by itself (the loop, a pump, a worker, a timer) and of
deadlines, expiry and time-outs (time passes; a forward of the broker ends by its total time-out, or closes its response
when it is aborted, `provider_broker/service.py:580`). Nothing is assumed of humans, phones, models, providers, the volume of
the backup, other processes or the CLI; strong fairness is nowhere needed.

### Findings

- `StaleRecovery`: `recover_execution` reads the row as CLAIMED, then takes
  the lease, then closes without `expected_status`. If the executor crossed the
  boundary, had its effect and recorded UNKNOWN in between (which frees the lease), the
  row is closed as ABANDONED although the effect is there. The start-up scan does
  it right (re-read under the lease, close with the expected status), as
  `JournalStartup` shows.
- `DeadAuthority`: `_begin_external` compares revocations with the identities read by the
  preflight. A device enrolled again after the claim and then doomed by a
  revocation of its *new* key is REVOKED, yet the old attempt crosses. A
  revocation of the device itself is seen (`RevokedDeviceNeverCrosses`).

## 4. Where the code does otherwise than it says

While modelling, a comment, a docstring or an invariant one would expect was often
found not to hold of the code. Each such sentence is a definition of its module, at the
end of the properties, with a comment that says so; no run checks it, because it is violated. The two that concern the
approval path itself are the runs `StaleRecovery` and `DeadAuthority`. Where a property that is checked stops short
of such a sentence, it names the exception itself, and the instances reach the exception.

*Journal.* A row that was claimed and not begun stays CLAIMED until the next start when the core is back within the 120 seconds of
the lease (the scan only reports it as contended, `bridge.py:238`), and also when its task is cancelled in a core that goes on serving.
`OneActorPerAttempt` is checked for leases that outlive the work, which the code intends and does not enforce: 120 seconds, never
renewed (`bridge.py:61`). In `JournalStartup` leases lapse under a running executor; what the journal says stays true there.

*Calls* (`CapabilityCall`). Two entries for one capability may wait on the phone: two calls that are both being described
each put one up (`capabilities/router.py:518`). What is checked, with two calls and with one, is `EntriesAreFollowed`: no entry is
put up while the one it replaces waits, and none that waits is lost sight of, but where a call names an approval or meets the
note of another one.
`NoAskAfterNo`: a refusal between `resume` and the withdrawal is a no-op and the call asks again (505).
`GrantReachesItsDevice`: the grant is checked at the device the classifier resolved, the
handler resolves the name again (`capabilities/home_assistant.py:453`). The registry says that what reads is not
in it (`capabilities/policy.py:199`); `payment_reconcile` is, as critical, and that entry is never asked (266).

*Payment.* A charge may arrive after the provider denied knowing it, be its caller gone or still waiting: `reconcile` then has closed the
intent as FAILED, and nobody sees the charge (`payment/executor.py:602`). What is checked is `KnownChargeIsKept`: no intent
is closed as failed or cancelled over a charge the provider knows at that moment. `OnTheMap`: a whole intent is
written from a snapshot of before an await, `with_state` checks no transition (628). `DailyLimitHolds`: the day is summed before
the call and booked after it (275).

*Telephone.* `RingsAsShown` allows another number where the alias was described again between the look and the wire (`telephony.py:189`). `RingsTheApproved`: what was described is kept by alias, so a run may use a number described for
another request. `FailedNeverRang`: every status from 400 on is booked as a refusal, a 502 after
the ring too. `NotDeliveredIsSo`: a row begins as NOT_DELIVERED, and a core that dies
while it dials leaves it there.

*Cognitive router.* `EscalationIsBooked`: later steps overwrite the tier and the event of the assessment in the row.
`OneTaskPerWords`: two overlapping commissions of the same words both dispatch; work under approval is in no row (`set_produced_ref` and `prune` have no callers);
a refused repeat renews the window it was refused by; a commission cut after its
capability ran leaves no row; `origin` is measured at the gate's current turn,
trust at the captured one.

*Agents.* `SuccessHasWork`: a run interrupted before its first step ends SUCCEEDED after the
restart (`agent_runtime/orchestrator.py:420`). `StepsAreFresh`: every second try of a step meets the unique key of the first (426).
`EveryRunStarts`: two runs created between two ticks block each other (220).
A call without an approval that raised or timed out after its effect (`system_heal`) is answered with a failure, the row is booked as
failed, and the planner may order it again (`capabilities/router.py:745`, 794): `NothingUncertainRepeated` excepts it (`Unbooked`).

*Autopilot.* `StopIsFinal`: the driver writes over a stop from the command line (`autopilot/machine.py:222`). `WaitingHasAQuestion`,
`BlockedCanWake`: two commits with a crash or an answer between them (`scripts/autopilot.py:110`, `machine.py:213`).
`ProposalIsAsked`, `ProofIsOfTheCommit`: a proposal of the last round is not read, and evidence of an older commit
counts (`driver.py:181`, `machine.py:132`).

*Proactive tasks.* `PauseHolds`, `DeletedStays`: a run writes back the row it read, over a pause and after a delete
(`proactive/scheduler.py:205`, `store.py:263`). `CompletedDid`: the retry after a failure is refused by the key of the first try. `ChangeIsReported`: from A to
B and back to A is reported once (`store.py:480`). `InterruptedIsOver`: a repair by the doctor marks runs that go on (`doctor/playbooks.py:130`).

*Provider broker.* `HolderIsKnown`, `TokenEndsWithTheJob`, `CapSeesTheDay`, `InflightIsCapped`, `OutsInALease`,
`BuffersAreCounted`, `ReasonIsTold`: a new call takes the token of the one under way, a lapsed
lease rotates nothing, a request over midnight empties the counters of today (the one exception of `BookIsTheCap`), what is
admitted before the body is read is counted after it (`provider_broker/session.py:293`, 345, `service.py:650`, 375, 390, 694, 618).

*Deep tasks.* `PauseHolds`, `ResultAgrees`, `NoHole`: a pause done may leave a task open, a deadline in a
write leaves a row nobody was told of, and a reader may end without having seen the end. `OwnExecutor`
(`DeepService`): with an executor left behind at the port, a core serves with that of another.

*Remote jobs.* `CancelledIsStopped`: a cancellation that finds no remote id is booked at once, while the submission is
on its way, so `EndIsTrue` speaks of the other ends only. `EndIsFinal`: an answer given before the end is written after it. `RunIsWorkedOn`: an exception or a crash leaves a run where it
was, and reconcile only counts it. `ReadyHasItsReport` holds for one runner at a time. A node that has
forgotten a job runs it again when it is sent again (`OneRemotePerJob` excepts it). Nothing in the core calls
the background manager, the research manager or `allow()` of the breaker yet.

*Doctor.* `OnlyTroubleIsTold`, `WellIsMeasured`, `OnlyTheSickAreTouched`, `FlappingIsOneIncident`, `RestIsKept`,
`NeedIsTold`: the board's last state is taken for a fresh measurement, a list of repairs is old when its turn comes, a closed
incident is not read back after a restart, rest begins only after the look that follows, and a notice hides another kind of notice.

*Voice.* `OneWorker`, `AlwaysAnswered`, `OpensWhenAsked`, `HeldEndsWithIt` (`Voice`): a session started while the last one closes
is not answered, a reconnect leaves the old timer and worker (`core_server.py:628`; two starts and a drop leave even two readers). `OneGeneration` excepts
a conversation that lost its provider, which `lost` reaches. `TextIsTheTurns`,
`PermitIsTheTurns`, `SilentMeansSilent` (`VoiceTurns`): a late transcript is judged under the next turn, an interruption in a
tool round does not stop the answer, so `SilentAfterBargeIn` speaks of the response that was cut off. `OneInside`, `CallIsItsTurns`, `AdviceIsItsTurns` (`VoiceDoor`):
`_busy` is read before an await, and one context of an invocation serves all. A watch whose look at the
store raises ends, and a phone revoked after that stays connected (`voice_endpoint.py:234`; `Unwatched`, the exception of `RevokedLeaves`).

*Learning.* `ForgottenStaysAway`: what the owner forgets while a turn about it is worked on comes back.
`DeclinedIsNotStored`, `ForgottenIsNoted`, `StoredOnce`: a decline races a confirm, a crash falls between forgetting and
its note, a candidate is stored twice.

*Backup.* `SuccessIsKept` (`storage/job.py:202`), `RotIsNotShared` (`engine.py:249`), `LastSuccessIsThere` (`job.py:131`), `HomeAssistantIsNoCore` (`engine.py:657`):
the book is read before the lock is taken, a linked block is not read again, failed sets count in retention.

*Offsite.* `ForeignIsUnknown`, `FailureReachesTheBook`, `SkippedDayIsVerified`, `SuccessIsForgiven`,
`HeldIsRestorable`, `OldGenerationsOpen` (`storage/offsite/verify.py:456`, `job.py:556`, `ledger.py:75`, `health.py:208`, `restore.py:144`, 173).

*Vault.* `DisableHolds`: a secret an owner disabled becomes usable without an enable. `RescopeIsTheSeen` holds only while no script runs and nothing is deleted.
`assess` (`secret_vault/health.py:42`) compares the envelope with the key and neither with an entry. When the later key an
entry was sealed under is lost and the older envelope is installed, it says `healthy`
of an entry nobody can open; `HealthySurvives` names this case as its exception.

*Memory.* `NoVectorOfPurged`: a vector written while its record is purged stays. `OneSuccessor`, `NoTwins`: two corrections of one record
both stand, two calls remember one text twice. A lost ledger file is recreated empty although the module says it fails closed.
After `restore` nobody looks, until the next start, for the records that came back without a vector: its `reconcile` only drops
vectors (`memory/semantic.py:284`; nothing in the core calls it). And a rebuild that drops the vector of a record just written and then
fails to embed it may be followed by another one that read the records before and takes the flag back. `unsaid` holds exactly
these records; `IncompleteIsSaid` speaks of all others; `copied` reaches the first of the two cases, the theorem includes both.

*Portal.* `SecretsOnTheApproved`, `NoPermitLeftOpen`, `StatusIsCurrent`, `NothingDoneIsToldSo`, `NothingIsReadOut`, `NoBrowserIsLost`:
the form is compared before the fields are filled, a browser that breaks at the click leaves its
permit until it expires, `status` reports a login of earlier, and a restart that meets a session
just taken down ends half way. Two tasks at one session change the pending form under each other
(`capabilities/portal.py:268`), which is the one exception of `ExecutedIsApproved`; a page that turns while its fields are filled is that of
`FilledAsCompared` (`portal/service.py:430`). Closing any session withdraws every outstanding login, also that of another session, and
a close that timed out may be carried out after the next login was prepared: `NoTrap` promises only that a task that closes
leaves nothing behind that was asked.

## 5. Proofs

All theorems hold for every value of the constants that satisfies
`ConstantsAssumption` of the module (disjointness of the kinds of names, at
least one enrolment, a core scan among the scanners); what else one assumes stands in its
statement. Every property that a run checks of `ExecutionJournal`, `DeviceAuthority`,
`ApprovalDecision` and `CapabilityCall` is a theorem, but for liveness, `OneActorPerAttempt` and the two violations, and so is what
is checked of `Payment`, but for the sums over refunds, of `Portal`, of `Vault`, of `Memory`, of `AgentRun`,
of `Deep` and of `DeepService`.

*Journal.*

- `ExecutionJournalProofs!TypeCorrect`. `TypeOK` alone is not inductive: an
  action writes through a row its actor holds. `Wellformed` adds that an actor behind
  its claim or its lease holds a row, and that an approved request names a device.
- `ExecutionJournalProofs!JournalAgreement`. A request has a row exactly when its
  state says so, has one at most, and its state is what the row says. The
  inductive invariant `AgreedInv` is `Wellformed`, the agreement itself, and
  `OwnRow`: a task holds only rows of its own approval, so a refused boundary closes the right
  request. Actions fall into those that touch neither table (`Quiet`),
  those that move a request without a row (`Moves`) and those that move both.
- `ExecutionJournalProofs!Finality`. No step reopens a closed row, lets an
  ambiguous row become provably unstarted, or moves a terminal request. It
  rests on `AgreedInv`: the boundary step writes a request's state without a
  compare of its own, and only the agreement says that it was EXECUTING.
- `ExecutionJournalProofs!EffectsJournalled` and `ActsAtMostOnce`. Both are about the world and the
  memory of actors at once, so the inductive invariant `WorkInv` adds `Known` (what an actor
  remembers of its row and of an answer is still true) and `Once` (two tasks never
  share a row; before its call an executor acts on an untouched world, unless a
  repeat is harmless). It holds with recoveries by hand and with leases that lapse:
  an executor loses its lease, never its row, and a recovery repeats only what may be.
- `ExecutionJournalProofs!RuledOutTruly` and `RefinesApprovedAction`, with `Admins = {}`:
  as `StaleRecovery` shows, both are false when a recovery is run by hand, so the
  hypothesis is what the code needs. `TruthInv` adds `Held`: where a row stands follows
  from where its executor is, since only a scan may have closed it meanwhile and only before the
  boundary. The refinement maps every action to one step of `ApprovedAction` or to a
  stutter, one lemma per kind of action.
- `ExecutionJournalProofs!RevokedStaysOut`, without further hypothesis: `NamedInv` says that a row somebody names was
  written and that an executor's row is its own device's, so the identities the boundary compares
  contain the device.

*Device authority* (`DeviceAuthorityProofs`).

- `TypeCorrect`; `RevocationReaches`, `TrustProved`,
  `LiveEnrolment`, `PastRevoked`, `RevocationIsTerminal`. The four
  invariants are inductive only together (`Authority`): that a finalised row is proved
  needs the live enrolment, that it carries nothing revoked needs
  the check at begin, which needs the history to have been doomed.
- `TokenPaysOnce`: a challenge names its token, a token named is consumed, and a handler
  between redeeming and beginning holds a token no challenge names and no other handler holds.
- `OwnerDecides`: a late outcome leaves the row of another enrolment alone, from `Owned`: the enrolment of a
  row has begun, so one that begins now is another.

*Decision* (`ApprovalDecisionProofs`).

- `TypeCorrect`, with `Wellformed`: what a phone signed answers a challenge that was issued, and a handler works
  on what was signed.
- `OneChallenge`: only an issuance opens a challenge, and it closes the others of its request.
- `NonceSpent` and `AnsweredOnce`, from `Shown`: what is accepted was signed, is the only answer of its request and
  of its nonce, spent the nonce, and is what the request shows; an answered request has an accepted answer.
- `LiveAuthority`, `CounterRises`: action properties of the one commit, which reads the device row under the write lock.

*Calls* (`CapabilityCallProofs`), from `Premises`: `ConstantsOK`, and `RegistryOK`, which says of the
capabilities what their registration does: the class registry (`policy.py:201`) calls nothing reading and nothing
that reads very critical, and only the switches of the house have a classifier
(`home_assistant.py:533`; the one of `background_create` is left out). TLC evaluates both for
every instance of `MCActing`.

- The inductive invariant `IInv` is one sentence per call and one per effect: `Sound` says what a call may rely on
  where it stands (at `run` the policy allowed it, at `claim` the request shows what the call shows, at
  `exec` the request is EXECUTING and its own), `Carried` what stays true of an effect once its call is done. A step of one
  call (`StepKeeps`) and a step around the calls (`AroundKeeps`) disturb the others only
  through the requests, and `Later` says how little: none is gone or shows something else, and a settled one stays.
- `AloneIsAllowed` rests on `FloorHolds` and `DecideHolds`, the two facts about the policy: what
  the floor leaves harmless was harmless before, and who acts at once on more than reading was commanded.
- `ApprovedOnceAsShown`, `GrantsAreBound`, `ApprovalsAreUsed` and `TypeCorrect` follow from `IInv`.
- `EntriesFollowed` is `[][EntriesAreFollowed]_vars`, for any number of calls at once. `Replaced` says that a call
  about to ask has settled the entry it replaces; the rest is by cases on who could lose sight of an entry: a call that settles
  it, withdraws it, or notes another one.

*Payment* (`PaymentProofs`), from `ConstantsOK`; crashes between two writes, late charges and any number of
concurrent calls included.

- `IInv` ties the three tables to what a call remembers: an intent before its claim has no execution, one that is paid
  has a charge of the provider behind it, and `Sound` says what a call may rely on while it waits (a charge or a
  lookup works on the execution its intent names, a refund on an intent that was booked, and no two calls wait for the
  quote of one intent). All answers are one lemma, `AnswersKeep`: executions stay, the provider forgets no
  charge, the book grows by charges that were made, and a new state is true of its execution (`Becomes`). Only
  the claim (`PurchaseClaimsKeeps`) sends anything, under an execution nobody used.
- `MoneyMovesOnce`, `BookHoldsCharges` and `PaidWasCharged` are `OneChargePerIntent` and the first parts of
  `BookIsTrue` and `SettledIsTrue`. What these two say of amounts are sums over rows, which is
  induction over data, and so is the `already` of a refund in `TypeOK`.
- `KnownChargesAreKept` is `[][KnownChargeIsKept]_vars`, for any number of callers and with late charges: an intent is given up only
  on an answer about its own execution, and a provider that answers so knows no charge of it (`Loses`).
- `LoweringIsSafe` is an action property of every step, `[][LowerNeverWidens]_vars`.

*Portal* (`PortalProofs`), from `ConstantsOK`: the page before the first asks for nothing, the login page
belongs to the binding, and there is at least one field. Any number of tasks, sessions and operations at once, with
lost answers, broken browsers, expired sessions, restarts and deliveries; TLC evaluates the premises for
the instances of `MCKeeping`.

- `IInv` has a half for each process. `WorkInv` is the worker's: `OpSound` says what an operation may rely on where it
  stands although others destroy its session meanwhile (what is being typed is remembered first, as long
  as the wire is up), `SessSound` what a session is (typed is remembered while it lives; a page with a form
  is of the binding, which is the guard's doing), `PermitSound` that a permit is of an execute of this
  session, at the click or broken off, that has sent nothing yet, and `LeftSound` the same of what has left.
  `CoreInv` is the Core's: `Held` says that a claimed approval belongs to one task and to no execute yet.
- The halves meet in little. A step of the Core only adds operations or drops answers already heard (`OpsGrow`), and a
  step of the worker leaves what an operation was sent for (`OrdersStay`). `GoesOn` is what an
  operation loses at most when another one changes its session under it.
- `OneWrite` is the one that needs both: a permit is consumed by the write it lets pass, is never issued twice to one
  operation, and operations do not share approvals. `ShortPermits`, `SecretsStay`, `ScrubbedReads`,
  `MeasuredLogin`, `CurrentCode`, `EachApprovalOnce` and `TypeCorrect` follow from `IInv` directly.
- `ApprovedAsShown` is `[][ExecutedIsApproved]_vars`, for any number of tasks: by `LogInv` a task waits for an execute under the approval it claimed, and no step of
  the worker or of another task touches the manifest of a session, of an approval or of an execute, but the one that is excepted (`Faithful`).
- `NoneForgotten` is `NoOrphan` for any number of tasks: `DownInv` says who takes a browser down. A session that is gone
  while its browser still runs is being wiped by some operation (`TakenDown`), a session a restart found on its
  list is still to come, down, or going down at its hands (`Clears`), and what a task has heard before it asks is over (`HeardOut`).
- `ClosedIsNotAsked` is `[][NoTrap]_vars`, for any number of tasks and with late answers: by `OneHeld` only what the router holds as outstanding is pending,
  since asking anew abandons what was asked before, and closing withdraws it.

*Vault* (`VaultProofs`), from `ConstantsOK`; changes of the app, uses, commands of the owner, lost and
restored keys all at once.

- `IInv` is one sentence per table. `RowInv`: what is stored is what was sealed, under the policy beside it, which gives
  `EnvelopeFits`. `KeyInv` orders the keys: one beside an entry is the entry's or the recovered one, and what a command has
  seen of the key still holds when it writes; `NoSecondKey` and `HealthyIsRecoverable` follow from it.
- `Relies` says what a change may rely on where it stands and `FreshInv` that a value that waits is the one its
  device sent and has been seen nowhere else: `StoredOnce`. `UseSound` says the same of a use
  between its two reads, `law` remembering what was ever stored together: `ReleasedAsAllowed`. `PlainInv` says that a
  line is struck out only of a value that the vault held under an active policy: `PlaintextGoesLast`.
- `RescopeAsSeen` has an invariant of its own on top, `SeenInv`: as long as only the app changes entries the handlers run one
  after the other, versions rise, and a version names one policy, so the `expected_version` of the approval
  tells whether the policy is still the one that was shown.

*Memory* (`VaultProofs`, as the instance `Mem`), from `ConstantsOK`: a call is none of the old records, and nothing is
taken for `NONE`. Any number of calls, records, profiles, copies and faults.

- `MemoryInv`: `Denied` (what was purged stands in the ledger unless that was lost, and the store that runs knows
  the ledger), `Meant` (who deletes has written the tombstone), `Written` (a call writes its record once, so a record of
  its name is there only after that, also in a copy) and `Followable`. `PurgedIsGone` is `PurgedStaysGone`,
  `SuccessorIsThere` is `SuccessorKnown`; the second needs the copy to be as good as the rows, since `restore` leaves
  out of it exactly what the ledger names.
- `MissingIsSaid` is `IncompleteIsSaid`, restores and rebuilds that fail included; what nobody looks for any more is in `unsaid` (section 4).
  `SaidInv` names for each record without a vector who will announce it: a flag, its own writer, a call that has not looked for the
  last time (`Announces`), or one that has seen it and still has to compare (`Sought`); `Held` is a flag nobody is about to take back,
  and `Passive` says that a vector is taken away only of a record that no search may find.

*Deep tasks* (`WorkingProofs`), from `ConstantsOK`: the tasks are finitely many, which the list of `PauseLists` and
of a start needs. Any number of tasks, callers, runs and crashes, with every fault of the model.

- `IInv` ties a row to its pump: `PumpSound` says that a pump leaves only behind an end and that one at a run is at
  the run its row names; `TurnSound` that who creates a task is alone with it; `Recovers` that after a
  crash no pump is left and what is open is on the list, so nothing is open when the service is up again.
- `EndsOnlyOnce` is `OneEnd`, `DrivenToItsEnd` is `OpenIsDriven`, and `CancelledMeansStopped` is
  `CancelledIsStopped`, from `Halted` and `Heeded`: the run of a cancelled row has ended or was told, or its pump is about to
  tell it, or the turn that cancelled is. `TypeCorrect` says of the leases that they are held exactly while a pump runs.
- The jail (`DeepService`, as the instance `Jail`, from `CoresOK`), for any number of cores and starts: by `CoreSound` a core past the lock
  holds it, the file of credentials is its own once it is written, and before its launch it has no executor left, so only the
  holder launches. `OneInTheJail` is `JailIsItsOwn` and `AskedBeforeServing` is `PostureWasAsked`.
- All moves of a pump are one lemma, `PumpMoves`: it looks at its row, its runs and itself, and the runs only grow
  (`Grown`). A write is the same lemma twice, since the deadline may cut it off (`PumpWrites`).

*Runs of agents* (`WorkingProofs`, as the instance `Agent`), from `ConstantsOK`: the runs are finitely many, and every plan
has a step. Any number of runs, plans, revisions and restarts; TLC evaluates the premises for the instances of `MCWorking`.

- `AgentInv` is one sentence per run, `RunFits`, and one about the loop, `TickFits`. `RunFits` relates the run's state, its
  rows, the slot, the note of its start, its context and the place where the loop stands with it (`Place`): a run that
  waits for a human holds the slot, a call that is under way has an unanswered last row, who may still act has no row in doubt.
- A tick works through what it saw at its start while people cancel and resume. `TickFits` says how far that still holds:
  a run it has not come to is in the state it was seen in, or cancelled, or was parked and resumed (`StillSo`), so a run
  that was seen waiting still has its row (`Seen`).
- `SlotHeld` is `SlotIsTheWaiters`, `SuccessShown` is `SuccessIsSettled`. The two action properties rest on `WhoActs`: a row is
  opened or an effect happens only for a run in RUNNING that the loop has come to, or inside its own call. `DenialHolds` is
  `NoWayAroundDenial`, and `UncertainStays` is `NothingUncertainRepeated`. The latter had excused every row of a run
  during its call; the attempt to prove it showed that only the row of that call needs the excuse, and the property now says so. Direct calls that failed after their effect are
  excepted (section 4).

*What stays with TLC, and why.* Liveness and `ENABLED` are out of the proof system's
reach. The properties of the umbrellas are compounds of instances with concrete constants, so a
theorem about one of them would say no more than the run; of the modules behind them
`CapabilityCall`, `Payment`, `Portal`, `Vault`, `Memory`, `AgentRun`, `Deep` and
`DeepService` are proved, the others are checked only. `WorkInv`, `TruthInv`, `NamedInv` and the invariants
of the other proofs were checked by TLC before they were proved.

## 6. What is left

1. Proofs for further modules of the umbrellas: `Autopilot` and `Proactive` first.
2. Components without a module: the handlers of the house (`capabilities/home_assistant.py`, calendar),
   the builders of the autopilot, mail to contacts, knowledge.
3. `Voice` and `VoiceTurns` composed, so that an interruption meets a reconnect.

## 7. Not modelled

Cryptography, canonical encodings and the parsing of App Attest objects (the
models use what a verification establishes); schema migrations; audit and
logging; the environment and principal compares, which are equalities of
constants in one installation; SQLite itself, whose `BEGIN IMMEDIATE` is taken as
atomic and durable; retries inside an adapter; a reconciler whose answer is made
stale by a call still in flight; prompts, wording, audio and the ranking of texts. The components and what
is left out of each are listed with reasons in PROJECT.json.
