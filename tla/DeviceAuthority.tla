--------------------------- MODULE DeviceAuthority ---------------------------
(***************************************************************************)
(* How an approver device gains and loses its authority: pairing tokens,   *)
(* the two-step enrolment (begin_enrollment, complete_attestation) and the *)
(* three revocations of control.py, over the tables of store.py.           *)
(*                                                                         *)
(* A method of the store is one write transaction.  The gateway's request  *)
(* handlers call several of them, with awaits in between, and the admin    *)
(* CLI revokes from another process at any moment.  Keys may turn up under *)
(* more than one device.  Principal and environment are left out: one      *)
(* principal, and an environment the policy allows.                        *)
(***************************************************************************)
EXTENDS FiniteSets

CONSTANTS
    Devices,       \* device ids
    ApprovalKeys,  \* fingerprints of approval keys
    AttestKeys,    \* identities of App Attest keys
    Tokens,        \* one-time pairing tokens
    Handlers,      \* request handlers of the gateway
    Enrollments,   \* enrolment ids; their number bounds the enrolments begun
    NULL           \* an absent value

Identities == Devices \cup ApprovalKeys \cup AttestKeys

\* A revocation names its kind; here the value tells the kind.
ASSUME ConstantsAssumption ==
    /\ Devices \cap ApprovalKeys = {}
    /\ Devices \cap AttestKeys = {}
    /\ ApprovalKeys \cap AttestKeys = {}
    /\ NULL \notin Identities \cup Tokens \cup Enrollments

VARIABLES
    token,       \* enrollment_tokens: unminted, then open until consumed or expired
    device,      \* the devices table
    challenge,   \* the attestation_challenges table
    history,     \* device_identity_history: every binding that was ever trusted
    revocations, \* the revocations table
    handler      \* what each request handler is doing and holds

vars == <<token, device, challenge, history, revocations, handler>>

NoDevice    == [status |-> "NONE", attestation |-> "NONE", approvalKey |-> NULL,
                attestKey |-> NULL, verifiedKey |-> NULL, enrollment |-> NULL]
NoChallenge == [state |-> "NONE", expired |-> FALSE, device |-> NULL, approvalKey |-> NULL,
                attestKey |-> NULL, token |-> NULL]
IdleHandler == [pc |-> "idle", token |-> NULL, device |-> NULL, approvalKey |-> NULL,
                attestKey |-> NULL, enrollment |-> NULL]

DeviceRow == [status : {"NONE", "ACTIVE", "REVOKED"},
              attestation : {"NONE", "PENDING", "ATTESTED", "FAILED"},
              approvalKey : ApprovalKeys \cup {NULL}, attestKey : AttestKeys \cup {NULL},
              verifiedKey : AttestKeys \cup {NULL}, enrollment : Enrollments \cup {NULL}]

\* The token of a challenge is kept for the properties only; the table does not store it.
ChallengeRow == [state : {"NONE", "OPEN", "CONSUMED", "SUPERSEDED"}, expired : BOOLEAN,
                 device : Devices \cup {NULL}, approvalKey : ApprovalKeys \cup {NULL},
                 attestKey : AttestKeys \cup {NULL}, token : Tokens \cup {NULL}]

Handler == [pc : {"idle", "begin", "finalize", "fail"}, token : Tokens \cup {NULL},
            device : Devices \cup {NULL}, approvalKey : ApprovalKeys \cup {NULL},
            attestKey : AttestKeys \cup {NULL}, enrollment : Enrollments \cup {NULL}]

TypeOK ==
    /\ token \in [Tokens -> {"UNMINTED", "OPEN", "CONSUMED", "EXPIRED"}]
    /\ device \in [Devices -> DeviceRow]
    /\ challenge \in [Enrollments -> ChallengeRow]
    /\ history \subseteq Devices \X ApprovalKeys \X AttestKeys
    /\ revocations \subseteq Identities
    /\ handler \in [Handlers -> Handler]

\* control._identities: everything a device record carries.
IdentitiesOf(d) == {d, device[d].approvalKey, device[d].attestKey} \ {NULL}

----------------------------------------------------------------------------
(* Pairing tokens and begin_enrollment.                                    *)

MintToken(k) ==
    /\ token[k] = "UNMINTED"
    /\ token' = [token EXCEPT ![k] = "OPEN"]
    /\ UNCHANGED <<device, challenge, history, revocations, handler>>

TokenExpires(k) ==
    /\ token[k] = "OPEN"
    /\ token' = [token EXCEPT ![k] = "EXPIRED"]
    /\ UNCHANGED <<device, challenge, history, revocations, handler>>

\* Mutant: read, then an update that no longer asks for consumed = 0.
Redeem_NoPredicate(h, k, d, p, a) ==
    /\ handler[h].pc = "idle"
    /\ token[k] \in {"OPEN", "CONSUMED"}
    /\ token' = [token EXCEPT ![k] = "CONSUMED"]
    /\ handler' = [handler EXCEPT ![h] = [IdleHandler EXCEPT
           !.pc = "begin", !.token = k, !.device = d, !.approvalKey = p, !.attestKey = a]]
    /\ UNCHANGED <<device, challenge, history, revocations>>

\* consume_enrollment_token, then the caller's device id and keys are canonicalised.
Redeem(h, k, d, p, a) ==
    /\ handler[h].pc = "idle"
    /\ token[k] = "OPEN"
    /\ token' = [token EXCEPT ![k] = "CONSUMED"]
    /\ handler' = [handler EXCEPT ![h] = [IdleHandler EXCEPT
           !.pc = "begin", !.token = k, !.device = d, !.approvalKey = p, !.attestKey = a]]
    /\ UNCHANGED <<device, challenge, history, revocations>>

\* A key or device id that does not parse: the token is spent all the same.
RedeemMalformed(k) ==
    /\ token[k] = "OPEN"
    /\ token' = [token EXCEPT ![k] = "CONSUMED"]
    /\ UNCHANGED <<device, challenge, history, revocations, handler>>

\* Mutant: the supersede sweep forgotten.
TakeOver_NoSupersede(h, e) ==
    LET r == handler[h] IN
    /\ device' = [device EXCEPT ![r.device] =
           [status |-> "ACTIVE", attestation |-> "PENDING", approvalKey |-> r.approvalKey,
            attestKey |-> r.attestKey, verifiedKey |-> NULL, enrollment |-> e]]
    /\ challenge' = [challenge EXCEPT ![e] =
           [state |-> "OPEN", expired |-> FALSE, device |-> r.device,
            approvalKey |-> r.approvalKey, attestKey |-> r.attestKey, token |-> r.token]]

\* What begin_enrollment_atomic writes: the row is taken over by enrolment e, every older open
\* challenge of the device loses, e's challenge is issued.
TakeOver(h, e) ==
    LET r == handler[h] IN
    /\ device' = [device EXCEPT ![r.device] =
           [status |-> "ACTIVE", attestation |-> "PENDING", approvalKey |-> r.approvalKey,
            attestKey |-> r.attestKey, verifiedKey |-> NULL, enrollment |-> e]]
    /\ challenge' = [f \in Enrollments |->
           IF f = e
           THEN [state |-> "OPEN", expired |-> FALSE, device |-> r.device,
                 approvalKey |-> r.approvalKey, attestKey |-> r.attestKey, token |-> r.token]
           ELSE IF challenge[f].device = r.device /\ challenge[f].state = "OPEN"
                THEN [challenge[f] EXCEPT !.state = "SUPERSEDED"]
                ELSE challenge[f]]

\* Mutants: the revocation check made before the transaction; the upsert without its WHERE.
BeginEnrollment_CheckedBefore(h, e) ==
    /\ handler[h].pc = "begin" /\ challenge[e].state = "NONE"
    /\ IF device[handler[h].device].status # "REVOKED" THEN TakeOver(h, e)
       ELSE UNCHANGED <<device, challenge>>
    /\ handler' = [handler EXCEPT ![h] = IdleHandler]
    /\ UNCHANGED <<token, history, revocations>>
BeginEnrollment_Upsert(h, e) ==
    LET r == handler[h] IN
    /\ r.pc = "begin" /\ challenge[e].state = "NONE"
    /\ IF {r.device, r.approvalKey, r.attestKey} \cap revocations = {} THEN TakeOver(h, e)
       ELSE UNCHANGED <<device, challenge>>
    /\ handler' = [handler EXCEPT ![h] = IdleHandler]
    /\ UNCHANGED <<token, history, revocations>>

\* begin_enrollment_atomic: nothing revoked, and a revoked row is terminal.
BeginEnrollment(h, e) ==
    LET r == handler[h] IN
    /\ r.pc = "begin"
    /\ challenge[e].state = "NONE"
    /\ IF /\ {r.device, r.approvalKey, r.attestKey} \cap revocations = {}
          /\ device[r.device].status # "REVOKED"
       THEN TakeOver(h, e)
       ELSE UNCHANGED <<device, challenge>>
    /\ handler' = [handler EXCEPT ![h] = IdleHandler]
    /\ UNCHANGED <<token, history, revocations>>

----------------------------------------------------------------------------
(* complete_attestation.                                                   *)

ChallengeExpires(e) ==
    /\ challenge[e].state = "OPEN"
    /\ ~challenge[e].expired
    /\ challenge' = [challenge EXCEPT ![e].expired = TRUE]
    /\ UNCHANGED <<token, device, history, revocations, handler>>

\* peek_attestation_challenge and the verification, which either proves the App Attest key the
\* challenge names or fails.
Attest(h, e) ==
    /\ handler[h].pc = "idle"
    /\ challenge[e].state = "OPEN"
    /\ ~challenge[e].expired
    /\ \E result \in {"finalize", "fail"} :
           handler' = [handler EXCEPT ![h] = [IdleHandler EXCEPT
               !.pc = result, !.enrollment = e, !.device = challenge[e].device,
               !.attestKey = challenge[e].attestKey]]
    /\ UNCHANGED <<token, device, challenge, history, revocations>>

\* Mutant: no compare of the enrolment generation.
FinalizeHolds_NoGeneration(h) ==
    LET c == challenge[handler[h].enrollment]
    IN  /\ ~c.expired /\ c.state # "CONSUMED"
        /\ {c.device, device[c.device].approvalKey, handler[h].attestKey} \cap revocations = {}
        /\ device[c.device].status = "ACTIVE" /\ device[c.device].attestation = "PENDING"

\* Every reason finalize_attestation has to refuse, read under the write lock from the challenge
\* and from the device row.
FinalizeHolds(h) ==
    LET e == handler[h].enrollment
        c == challenge[e]
        row == device[c.device]
    IN  /\ c.state = "OPEN"
        /\ ~c.expired
        /\ {c.device, row.approvalKey, handler[h].attestKey} \cap revocations = {}
        /\ row.enrollment = e
        /\ row.approvalKey = c.approvalKey
        /\ row.attestKey = handler[h].attestKey
        /\ c.attestKey = handler[h].attestKey
        /\ row.status = "ACTIVE"
        /\ row.attestation = "PENDING"

FinalizeAttestation(h) ==
    LET e   == handler[h].enrollment
        d   == challenge[e].device
        key == handler[h].attestKey
    IN  /\ handler[h].pc = "finalize"
        /\ IF FinalizeHolds(h)
           THEN /\ device' = [device EXCEPT ![d].attestation = "ATTESTED",
                                            ![d].verifiedKey = key]
                /\ challenge' = [challenge EXCEPT ![e].state = "CONSUMED"]
                /\ history' = history \cup {<<d, device[d].approvalKey, key>>}
           ELSE UNCHANGED <<device, challenge, history>>
        /\ handler' = [handler EXCEPT ![h] = IdleHandler]
        /\ UNCHANGED <<token, revocations>>

\* Mutants: by device id only; into the wrong column.
MarkFailed_ByDevice(h) ==
    /\ handler[h].pc = "fail"
    /\ device' = [device EXCEPT ![handler[h].device].attestation = "FAILED"]
    /\ handler' = [handler EXCEPT ![h] = IdleHandler]
    /\ UNCHANGED <<token, challenge, history, revocations>>
MarkFailed_WrongColumn(h) ==
    /\ handler[h].pc = "fail"
    /\ device' = [device EXCEPT ![handler[h].device].status = "FAILED"]
    /\ handler' = [handler EXCEPT ![h] = IdleHandler]
    /\ UNCHANGED <<token, challenge, history, revocations>>

\* set_device_attestation_failed: only for the enrolment that owns the device.
MarkFailed(h) ==
    LET d == handler[h].device IN
    /\ handler[h].pc = "fail"
    /\ device' = IF /\ device[d].enrollment = handler[h].enrollment
                    /\ device[d].attestation = "PENDING"
                 THEN [device EXCEPT ![d].attestation = "FAILED"]
                 ELSE device
    /\ handler' = [handler EXCEPT ![h] = IdleHandler]
    /\ UNCHANGED <<token, challenge, history, revocations>>

\* The connection or the gateway is gone between two awaits.
Drop(h) ==
    /\ handler[h].pc # "idle"
    /\ handler' = [handler EXCEPT ![h] = IdleHandler]
    /\ UNCHANGED <<token, device, challenge, history, revocations>>

----------------------------------------------------------------------------
(* Revocation: what to revoke and whom it dooms is decided under the lock. *)

\* _revoke_planned: the identities, and every row that carries one of them.
Revoke(ids) ==
    /\ revocations' = revocations \cup ids
    /\ device' = [d \in Devices |->
           IF device[d].status # "NONE" /\ IdentitiesOf(d) \cap ids # {}
           THEN [device[d] EXCEPT !.status = "REVOKED"]
           ELSE device[d]]
    /\ UNCHANGED <<token, challenge, history, handler>>

HistoryOf(d) ==
    UNION {{b[2], b[3]} : b \in {x \in history : x[1] = d}}

\* Mutant: only the binding the row carries now.
RevokeDevice_CurrentOnly(d) == Revoke(IdentitiesOf(d))

\* The device, its current binding, and every binding it was ever trusted with.
RevokeDevice(d) == Revoke(IdentitiesOf(d) \cup HistoryOf(d))

RevokeApprovalKey(p) == Revoke({p})

RevokeAppAttestKey(a) == Revoke({a})

----------------------------------------------------------------------------
Init ==
    /\ token = [k \in Tokens |-> "UNMINTED"]
    /\ device = [d \in Devices |-> NoDevice]
    /\ challenge = [e \in Enrollments |-> NoChallenge]
    /\ history = {}
    /\ revocations = {}
    /\ handler = [h \in Handlers |-> IdleHandler]

Next ==
    \/ \E k \in Tokens : MintToken(k) \/ TokenExpires(k) \/ RedeemMalformed(k)
    \/ \E h \in Handlers, k \in Tokens, d \in Devices, p \in ApprovalKeys, a \in AttestKeys :
           Redeem(h, k, d, p, a)
    \/ \E h \in Handlers, e \in Enrollments : BeginEnrollment(h, e) \/ Attest(h, e)
    \/ \E h \in Handlers : FinalizeAttestation(h) \/ MarkFailed(h) \/ Drop(h)
    \/ \E e \in Enrollments : ChallengeExpires(e)
    \/ \E d \in Devices : RevokeDevice(d)
    \/ \E p \in ApprovalKeys : RevokeApprovalKey(p)
    \/ \E a \in AttestKeys : RevokeAppAttestKey(a)

Spec == Init /\ [][Next]_vars

----------------------------------------------------------------------------
(* Properties.                                                             *)

\* A row that counts as ACTIVE carries no revoked identity, whichever device, key or earlier
\* enrolment the revocation was aimed at and however it raced an enrolment (_revoke_planned,
\* _begin_enrollment_atomic).
NoRevokedAuthority ==
    \A d \in Devices : device[d].status = "ACTIVE" => IdentitiesOf(d) \cap revocations = {}

\* A trusted row was proved: the challenge of its own enrolment was consumed, for this device
\* and these very keys, and the key that signs its assertions is the one a revocation would
\* name (_finalize_attestation).
TrustWasProved ==
    \A d \in Devices :
        device[d].attestation = "ATTESTED" =>
            /\ device[d].enrollment # NULL
            /\ LET c == challenge[device[d].enrollment]
               IN  /\ c.state = "CONSUMED" /\ c.device = d
                   /\ c.approvalKey = device[d].approvalKey
                   /\ c.attestKey = device[d].attestKey
            /\ device[d].verifiedKey = device[d].attestKey
            /\ <<d, device[d].approvalKey, device[d].attestKey>> \in history

\* Exactly one enrolment owns a device: a challenge that can still be completed is the one of
\* the enrolment that took the row over last (begin_enrollment_atomic).
OneLiveEnrolment ==
    \A e \in Enrollments :
        challenge[e].state = "OPEN" => device[challenge[e].device].enrollment = e

\* Revoking a device reaches all it was ever trusted with, so that no key of it can be paired
\* again under a fresh device id (revoke_device).
RevokedWithItsPast ==
    \A d \in Devices : d \in revocations => HistoryOf(d) \subseteq revocations

\* One pairing token never pays for two enrolments (_consume_enroll).
TokenBindsOnce ==
    \A e, f \in Enrollments :
        challenge[e].token = challenge[f].token /\ challenge[e].token # NULL => e = f

\* A revoked row never comes back, not even through a fresh enrolment with other keys.
RevokedIsTerminal ==
    [][\A d \in Devices : device[d].status = "REVOKED" => device'[d].status = "REVOKED"]_vars

\* A late answer for an enrolment that no longer owns the device neither promotes it nor locks
\* its owner out: within one enrolment the attestation status moves only in a call made for it.
OnlyTheOwnerDecides ==
    [][\A d \in Devices :
           /\ device'[d].attestation # device[d].attestation
           /\ device'[d].enrollment = device[d].enrollment
           => \E h \in Handlers :
                  handler[h].enrollment = device[d].enrollment /\ handler'[h].pc = "idle"]_vars
=============================================================================
