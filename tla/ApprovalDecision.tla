-------------------------- MODULE ApprovalDecision --------------------------
(***************************************************************************)
(* How a human's answer reaches the request it was given for: the Mac      *)
(* issues a one-time challenge (issue_challenge), the phone signs a        *)
(* decision over it, the Mac checks the decision and commits it            *)
(* (submit_decision, commit_decision).                                     *)
(*                                                                         *)
(* Both handlers read the request, the device and the revocations in       *)
(* separate awaits before they write, so all of these move meanwhile: the  *)
(* device is enrolled again or revoked, the request expires, a second      *)
(* challenge is issued, the other answer is committed.  A signed decision  *)
(* stays with whoever saw it and may be delivered late, again, or never.   *)
(*                                                                         *)
(* A challenge binds approval, device and displayed text by its nonce, so  *)
(* the nonce stands for the payload hash; action digest and principal are  *)
(* those of the request.  DeviceAuthority models how a row is enrolled.    *)
(***************************************************************************)
EXTENDS Naturals, FiniteSets

CONSTANTS
    Approvals,     \* approval requests
    Devices,       \* approver devices, attested from the start
    ApprovalKeys,  \* approval keys of phones; a new enrolment may keep the old one
    AttestKeys,    \* App Attest keys of phones
    Nonces,        \* challenge nonces; their number bounds the challenges issued
    Handlers,      \* request handlers of the gateway
    MaxCounter,    \* bound: assertions a phone signs
    MaxGen,        \* bound: enrolments of a device
    MaxRevoked,    \* bound: no further revocation once so many identities are revoked
    NULL           \* an absent value

ASSUME ConstantsAssumption ==
    /\ MaxCounter \in Nat
    /\ MaxGen \in Nat \ {0}
    /\ MaxRevoked \in Nat
    /\ NULL \notin Approvals \cup Devices \cup ApprovalKeys \cup AttestKeys \cup Nonces

VARIABLES
    state,       \* approval_requests.state
    decided,     \* approval_requests.decided_at is set, with decided_device
    overdue,     \* approval_requests.expires_at has passed
    row,         \* the devices table
    revocations, \* the revocations table
    challenges,  \* the challenges table
    phone,       \* each phone's assertion counter
    sent,        \* the decisions phones have signed, which may arrive at any time
    handler,     \* what each request handler is doing and holds
    accepted     \* ghost: the decisions a handler has answered with "ok", in order of approval

vars == <<state, decided, overdue, row, revocations, challenges, phone, sent, handler, accepted>>
requestVars == <<state, decided, overdue>>
deviceVars  == <<row, revocations>>

NoChallenge == [approval |-> NULL, device |-> NULL, status |-> "NONE", expired |-> FALSE]
NoDecision  == [answer |-> "NONE", approval |-> NULL, device |-> NULL, nonce |-> NULL,
                key |-> NULL, attestKey |-> NULL, counter |-> 0]
NoRow       == [status |-> "NONE", attested |-> FALSE, gen |-> 0, key |-> NULL,
                attestKey |-> NULL, counter |-> 0]
IdleHandler == [pc |-> "idle", approval |-> NULL, device |-> NULL, seen |-> NoRow,
                msg |-> NoDecision]

Row == [status : {"NONE", "ACTIVE", "REVOKED"}, attested : BOOLEAN, gen : 0 .. MaxGen,
        key : ApprovalKeys \cup {NULL}, attestKey : AttestKeys \cup {NULL},
        counter : 0 .. MaxCounter]
ChallengeRow == [approval : Approvals \cup {NULL}, device : Devices \cup {NULL},
                 status : {"NONE", "OPEN", "CONSUMED"}, expired : BOOLEAN]
Decision == [answer : {"APPROVE", "DENY", "NONE"}, approval : Approvals \cup {NULL},
             device : Devices \cup {NULL}, nonce : Nonces \cup {NULL},
             key : ApprovalKeys \cup {NULL}, attestKey : AttestKeys \cup {NULL},
             counter : 0 .. MaxCounter]
Handler == [pc : {"idle", "issue_device", "issue_revoked", "issue_add", "decide_revoked",
                  "decide_request", "decide_commit"},
            approval : Approvals \cup {NULL}, device : Devices \cup {NULL}, seen : Row,
            msg : Decision]

TypeOK ==
    /\ state \in [Approvals -> {"PENDING", "APPROVED", "DENIED", "EXPIRED"}]
    /\ decided \in [Approvals -> Devices \cup {NULL}]
    /\ overdue \in [Approvals -> BOOLEAN]
    /\ row \in [Devices -> Row]
    /\ revocations \subseteq Devices \cup ApprovalKeys \cup AttestKeys
    /\ challenges \in [Nonces -> ChallengeRow]
    /\ phone \in [Devices -> 0 .. MaxCounter]
    /\ sent \subseteq Decision
    /\ handler \in [Handlers -> Handler]
    /\ accepted \subseteq Decision

----------------------------------------------------------------------------
Revoked(d, r) == {d, r.key, r.attestKey} \cap revocations # {}

Idle(h) == handler' = [handler EXCEPT ![h] = IdleHandler]

\* The row read before is not looked at again.
LastStep(h, pc) == handler' = [handler EXCEPT ![h].pc = pc, ![h].seen = NoRow]

----------------------------------------------------------------------------
(* issue_challenge                                                         *)

IssueReadRequest(h, a, d) ==
    /\ handler[h].pc = "idle"
    /\ state[a] = "PENDING"
    /\ ~overdue[a]
    /\ handler' = [handler EXCEPT ![h] = [IdleHandler EXCEPT !.pc = "issue_device",
                                                             !.approval = a, !.device = d]]
    /\ UNCHANGED <<requestVars, deviceVars, challenges, phone, sent, accepted>>

IssueReadDevice(h) ==
    LET r == row[handler[h].device] IN
    /\ handler[h].pc = "issue_device"
    /\ IF r.status = "ACTIVE" /\ r.attested
       THEN handler' = [handler EXCEPT ![h].pc = "issue_revoked", ![h].seen = r]
       ELSE Idle(h)
    /\ UNCHANGED <<requestVars, deviceVars, challenges, phone, sent, accepted>>

\* The identities are those of the row read before.
IssueCheckRevoked(h) ==
    /\ handler[h].pc = "issue_revoked"
    /\ IF Revoked(handler[h].device, handler[h].seen) THEN Idle(h) ELSE LastStep(h, "issue_add")
    /\ UNCHANGED <<requestVars, deviceVars, challenges, phone, sent, accepted>>

\* Mutant: the older challenges are swept in a transaction of another method.
AddChallenge_NoSweep(h, n) ==
    /\ handler[h].pc = "issue_add"
    /\ challenges[n].status = "NONE"
    /\ challenges' = [challenges EXCEPT ![n] =
           [approval |-> handler[h].approval, device |-> handler[h].device, status |-> "OPEN",
            expired |-> FALSE]]
    /\ Idle(h)
    /\ UNCHANGED <<requestVars, deviceVars, phone, sent, accepted>>

\* add_challenge: every open challenge of the approval is spent, the new one inserted.
AddChallenge(h, n) ==
    LET a == handler[h].approval IN
    /\ handler[h].pc = "issue_add"
    /\ challenges[n].status = "NONE"
    /\ challenges' = [m \in Nonces |->
           IF m = n
           THEN [approval |-> a, device |-> handler[h].device, status |-> "OPEN",
                 expired |-> FALSE]
           ELSE IF challenges[m].approval = a THEN [challenges[m] EXCEPT !.status = "CONSUMED"]
                ELSE challenges[m]]
    /\ Idle(h)
    /\ UNCHANGED <<requestVars, deviceVars, phone, sent, accepted>>

----------------------------------------------------------------------------
(* The phone.  It signs with the keys of its present enrolment, an approval *)
(* together with a fresh assertion; it may answer a challenge twice.       *)

Sign(n, answer) ==
    LET d    == challenges[n].device
        next == IF answer = "APPROVE" THEN phone[d] + 1 ELSE 0
    IN  /\ challenges[n].status # "NONE"
        /\ next <= MaxCounter
        /\ sent' = sent \cup {[answer |-> answer, approval |-> challenges[n].approval,
                               device |-> d, nonce |-> n, key |-> row[d].key,
                               attestKey |-> IF answer = "APPROVE" THEN row[d].attestKey
                                             ELSE NULL,
                               counter |-> next]}
        /\ phone' = IF answer = "APPROVE" THEN [phone EXCEPT ![d] = next] ELSE phone
        /\ UNCHANGED <<requestVars, deviceVars, challenges, handler, accepted>>

----------------------------------------------------------------------------
(* submit_decision                                                         *)

SubmitReadDevice(h, m) ==
    LET r == row[m.device] IN
    /\ handler[h].pc = "idle"
    /\ m \in sent
    /\ r.status = "ACTIVE"
    /\ handler' = [handler EXCEPT ![h] = [IdleHandler EXCEPT
           !.pc = "decide_revoked", !.device = m.device, !.seen = r, !.msg = m]]
    /\ UNCHANGED <<requestVars, deviceVars, challenges, phone, sent, accepted>>

\* Revocation, attestation status and the signature under the key of the row read before.
SubmitCheckRevoked(h) ==
    LET seen == handler[h].seen IN
    /\ handler[h].pc = "decide_revoked"
    /\ IF /\ ~Revoked(handler[h].device, seen)
          /\ seen.attested
          /\ handler[h].msg.key = seen.key
       THEN handler' = [handler EXCEPT ![h].pc = "decide_request"]
       ELSE Idle(h)
    /\ UNCHANGED <<requestVars, deviceVars, challenges, phone, sent, accepted>>

\* get_request; an APPROVE also needs an assertion newer than the counter of the row read.
SubmitReadRequest(h) ==
    LET m == handler[h].msg IN
    /\ handler[h].pc = "decide_request"
    /\ IF /\ state[m.approval] = "PENDING"
          /\ m.answer = "APPROVE" => /\ m.attestKey = handler[h].seen.attestKey
                                     /\ m.counter > handler[h].seen.counter
       THEN LastStep(h, "decide_commit")
       ELSE Idle(h)
    /\ UNCHANGED <<requestVars, deviceVars, challenges, phone, sent, accepted>>

\* Mutants: authority as it was read before; the state of request and nonce as it was read
\* before.
CommitHolds_StaleAuthority(h) ==
    LET m == handler[h].msg
    IN  /\ state[m.approval] = "PENDING" /\ ~overdue[m.approval]
        /\ challenges[m.nonce].status = "OPEN" /\ ~challenges[m.nonce].expired
CommitHolds_StaleState(h) ==
    LET m == handler[h].msg
        r == row[m.device]
    IN  /\ ~overdue[m.approval]
        /\ ~Revoked(m.device, r) /\ r.status = "ACTIVE" /\ r.attested /\ m.key = r.key
        /\ challenges[m.nonce].status # "NONE" /\ ~challenges[m.nonce].expired

\* Every reason commit_decision has to refuse, read again under the write lock.
CommitHolds(h) ==
    LET m == handler[h].msg
        r == row[m.device]
        c == challenges[m.nonce]
    IN  /\ state[m.approval] = "PENDING"
        /\ ~overdue[m.approval]
        /\ ~Revoked(m.device, r)
        /\ r.status = "ACTIVE"
        /\ r.attested
        /\ m.key = r.key
        /\ m.answer = "APPROVE" => m.attestKey = r.attestKey
        /\ c.status = "OPEN" /\ ~c.expired
        /\ c.approval = m.approval /\ c.device = m.device

\* Mutant: the counter is stored as it comes.
NewCounter_Overwrite(stored, m) == IF m.answer = "APPROVE" THEN m.counter ELSE stored

\* UPDATE devices ... WHERE app_attest_counter < ?
NewCounter(stored, m) == IF m.answer = "APPROVE" /\ stored < m.counter THEN m.counter ELSE stored

\* commit_decision: nonce, counter, state and the time of the decision, together or not at all.
CommitDecision(h) ==
    LET m == handler[h].msg IN
    /\ handler[h].pc = "decide_commit"
    /\ IF CommitHolds(h)
       THEN /\ challenges' = [challenges EXCEPT ![m.nonce].status = "CONSUMED"]
            /\ row' = [row EXCEPT ![m.device].counter = NewCounter(@, m)]
            /\ state' = [state EXCEPT ![m.approval] = IF m.answer = "APPROVE" THEN "APPROVED"
                                                      ELSE "DENIED"]
            /\ decided' = [decided EXCEPT ![m.approval] = m.device]
            /\ accepted' = accepted \cup {m}
       ELSE UNCHANGED <<challenges, row, state, decided, accepted>>
    /\ Idle(h)
    /\ UNCHANGED <<overdue, revocations, phone, sent>>

----------------------------------------------------------------------------
(* Everything that moves meanwhile.                                        *)

\* Only a pending request is ever asked whether it is overdue.
DeadlinePasses(a) ==
    /\ state[a] = "PENDING"
    /\ ~overdue[a]
    /\ overdue' = [overdue EXCEPT ![a] = TRUE]
    /\ UNCHANGED <<state, decided, deviceVars, challenges, phone, sent, handler, accepted>>

\* Mutants: the sweep stamps a decision nobody made; the sweep takes any state.
ExpireRequest_Stamps(a) ==
    /\ state[a] \in {"PENDING", "APPROVED"}
    /\ state' = [state EXCEPT ![a] = "EXPIRED"]
    /\ decided' = [decided EXCEPT ![a] = IF @ = NULL THEN CHOOSE d \in Devices : TRUE ELSE @]
    /\ UNCHANGED <<overdue, deviceVars, challenges, phone, sent, handler, accepted>>
ExpireRequest_WrongState(a) ==
    /\ state[a] \in {"PENDING", "APPROVED"}
    /\ state' = [state EXCEPT ![a] = "CANCELLED"]
    /\ UNCHANGED <<decided, overdue, deviceVars, challenges, phone, sent, handler, accepted>>

\* The sweep of _expire_due once the deadline has passed, or a transition to EXPIRED before
\* (CapabilityApprovals.abandon): neither stamps a decision.
ExpireRequest(a) ==
    /\ state[a] \in {"PENDING", "APPROVED"}
    /\ state' = [state EXCEPT ![a] = "EXPIRED"]
    /\ UNCHANGED <<decided, overdue, deviceVars, challenges, phone, sent, handler, accepted>>

ChallengeExpires(n) ==
    /\ challenges[n].status = "OPEN"
    /\ ~challenges[n].expired
    /\ challenges' = [challenges EXCEPT ![n].expired = TRUE]
    /\ UNCHANGED <<requestVars, deviceVars, phone, sent, handler, accepted>>

\* begin_enrollment_atomic; the phone may bring its old keys or new ones.
BeginEnrollment(d, p, k) ==
    /\ row[d].status = "ACTIVE"
    /\ row[d].gen < MaxGen
    /\ {d, p, k} \cap revocations = {}
    /\ row' = [row EXCEPT ![d] = [status |-> "ACTIVE", attested |-> FALSE, gen |-> @.gen + 1,
                                  key |-> p, attestKey |-> k, counter |-> 0]]
    /\ UNCHANGED <<requestVars, revocations, challenges, phone, sent, handler, accepted>>

\* finalize_attestation stores the counter the attestation carried.
FinalizeAttestation(d) ==
    /\ row[d].status = "ACTIVE"
    /\ ~row[d].attested
    /\ row' = [row EXCEPT ![d].attested = TRUE]
    /\ UNCHANGED <<requestVars, revocations, challenges, phone, sent, handler, accepted>>

\* _revoke_planned: the identities and every row that carries one of them.
Revoke(ids) ==
    /\ Cardinality(revocations) < MaxRevoked
    /\ revocations' = revocations \cup ids
    /\ row' = [d \in Devices |->
           IF row[d].status # "NONE" /\ {d, row[d].key, row[d].attestKey} \cap ids # {}
           THEN [row[d] EXCEPT !.status = "REVOKED"]
           ELSE row[d]]
    /\ UNCHANGED <<requestVars, challenges, phone, sent, handler, accepted>>

RevokeDevice(d) == Revoke({d, row[d].key, row[d].attestKey})

RevokeApprovalKey(p) == Revoke({p})

RevokeAppAttestKey(k) == Revoke({k})

\* The connection is gone or the gateway restarts between two awaits.
Drop(h) ==
    /\ handler[h].pc # "idle"
    /\ Idle(h)
    /\ UNCHANGED <<requestVars, deviceVars, challenges, phone, sent, accepted>>

----------------------------------------------------------------------------
Init ==
    /\ state = [a \in Approvals |-> "PENDING"]
    /\ decided = [a \in Approvals |-> NULL]
    /\ overdue = [a \in Approvals |-> FALSE]
    /\ \E p \in ApprovalKeys, k \in AttestKeys :
           row = [d \in Devices |-> [status |-> "ACTIVE", attested |-> TRUE, gen |-> 1,
                                     key |-> p, attestKey |-> k, counter |-> 0]]
    /\ revocations = {}
    /\ challenges = [n \in Nonces |-> NoChallenge]
    /\ phone = [d \in Devices |-> 0]
    /\ sent = {}
    /\ handler = [h \in Handlers |-> IdleHandler]
    /\ accepted = {}

IssueStep(h) ==
    \/ \E a \in Approvals, d \in Devices : IssueReadRequest(h, a, d)
    \/ IssueReadDevice(h) \/ IssueCheckRevoked(h)
    \/ \E n \in Nonces : AddChallenge(h, n)

SubmitStep(h) ==
    \/ \E m \in sent : SubmitReadDevice(h, m)
    \/ SubmitCheckRevoked(h) \/ SubmitReadRequest(h) \/ CommitDecision(h)

DeviceStep ==
    \/ \E d \in Devices :
           \/ \E p \in ApprovalKeys, k \in AttestKeys : BeginEnrollment(d, p, k)
           \/ FinalizeAttestation(d) \/ RevokeDevice(d)
    \/ \E p \in ApprovalKeys : RevokeApprovalKey(p)
    \/ \E k \in AttestKeys : RevokeAppAttestKey(k)

Next ==
    \/ \E h \in Handlers : IssueStep(h) \/ SubmitStep(h) \/ Drop(h)
    \/ \E n \in Nonces : ChallengeExpires(n) \/ \E x \in {"APPROVE", "DENY"} : Sign(n, x)
    \/ \E a \in Approvals : DeadlinePasses(a) \/ ExpireRequest(a)
    \/ DeviceStep

Spec == Init /\ [][Next]_vars

----------------------------------------------------------------------------
(* Properties.                                                             *)

\* Concurrent issuances and decisions leave an approval at most one challenge that can still be
\* answered (_add_challenge).
OneOpenChallenge ==
    \A m, n \in Nonces :
        /\ challenges[m].status = "OPEN" /\ challenges[n].status = "OPEN"
        /\ challenges[m].approval = challenges[n].approval
        => m = n

\* At most one answer per request is ever acknowledged, however often, late or concurrently
\* decisions arrive; the row names its device, carries a time of decision exactly when there is
\* one, and shows that answer until it expires (_commit_decision, _cas_transition).
OneAnswer ==
    \A a \in Approvals :
        LET answers == {m \in accepted : m.approval = a}
        IN  /\ Cardinality(answers) <= 1
            /\ decided[a] # NULL <=> answers # {}
            /\ state[a] \in {"APPROVED", "DENIED"} => answers # {}
            /\ \A m \in answers :
                   /\ decided[a] = m.device
                   /\ state[a] = "DENIED" <=> m.answer = "DENY"
                   /\ m.answer = "APPROVE" => state[a] \in {"APPROVED", "EXPIRED"}

\* One burned nonce has let at most one decision through, and that decision is a signed one for
\* the approval and device the challenge was issued for (_cas_consume_challenge).
NonceSpentOnce ==
    /\ \A m, n \in accepted : m.nonce = n.nonce => m = n
    /\ \A m \in accepted :
           /\ m \in sent
           /\ challenges[m.nonce].status = "CONSUMED"
           /\ challenges[m.nonce].approval = m.approval /\ challenges[m.nonce].device = m.device

\* When an answer is committed, the device is trusted at that moment and carries the very keys
\* that signed, whatever was enrolled or revoked since the checks of submit_decision.
DecidedUnderLiveAuthority ==
    [][\A m \in accepted' \ accepted :
           LET r == row[m.device]
           IN  /\ r.status = "ACTIVE" /\ r.attested
               /\ {m.device, m.key, m.attestKey} \cap revocations = {}
               /\ m.key = r.key
               /\ m.answer = "APPROVE" => m.attestKey = r.attestKey]_vars

\* Within one enrolment the stored assertion counter never falls, in whatever order concurrent
\* approvals commit (the UPDATE in _commit_decision).
CounterNeverFalls ==
    [][\A d \in Devices :
           row'[d].gen = row[d].gen => row'[d].counter >= row[d].counter]_vars
=============================================================================
