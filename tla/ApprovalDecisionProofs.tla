----------------------- MODULE ApprovalDecisionProofs -----------------------
(***************************************************************************)
(* What ApprovalDecision promises, for any number of requests, devices,    *)
(* keys, nonces and handlers.                                              *)
(***************************************************************************)
EXTENDS ApprovalDecision, FiniteSetTheorems, TLAPS

\* A device row always carries keys.
Placed == \A d \in Devices : row[d].key \in ApprovalKeys /\ row[d].attestKey \in AttestKeys

\* A challenge names its request and device exactly when it was issued.
Issued ==
    \A n \in Nonces :
        IF challenges[n].status = "NONE" THEN challenges[n].approval = NULL
        ELSE challenges[n].approval \in Approvals /\ challenges[n].device \in Devices

\* What a phone signed answers a challenge that was issued, for its request and device; only an
\* approval names an App Attest key.
Signed(m) ==
    /\ m.answer \in {"APPROVE", "DENY"}
    /\ m.approval \in Approvals /\ m.device \in Devices /\ m.nonce \in Nonces
    /\ challenges[m.nonce].status # "NONE"
    /\ challenges[m.nonce].approval = m.approval /\ challenges[m.nonce].device = m.device
    /\ m.answer = "DENY" => m.attestKey = NULL

\* What a handler works on: an issuance for a request and device, or a decision that was signed.
Works(x) ==
    /\ x.pc \in {"issue_device", "issue_revoked", "issue_add"} =>
           x.approval \in Approvals /\ x.device \in Devices
    /\ x.pc \in {"decide_revoked", "decide_request", "decide_commit"} => x.msg \in sent

Wellformed ==
    /\ TypeOK /\ Placed /\ Issued
    /\ \A m \in sent : Signed(m)
    /\ \A h \in Handlers : Works(handler[h])

----------------------------------------------------------------------------
(* Well-formedness.                                                        *)

LEMMA InitWellformed == Init => Wellformed
<1> SUFFICES ASSUME Init PROVE Wellformed
  OBVIOUS
<1> USE ConstantsAssumption DEF Init
<1>1. IdleHandler \in Handler
  BY DEF IdleHandler, Handler, NoRow, Row, NoDecision, Decision
<1>2. NoChallenge \in ChallengeRow
  BY DEF NoChallenge, ChallengeRow
<1>3. PICK p \in ApprovalKeys, k \in AttestKeys :
        row = [d \in Devices |-> [status |-> "ACTIVE", attested |-> TRUE, gen |-> 1,
                                  key |-> p, attestKey |-> k, counter |-> 0]]
  OBVIOUS
<1>4. [status |-> "ACTIVE", attested |-> TRUE, gen |-> 1, key |-> p, attestKey |-> k,
       counter |-> 0] \in Row
  BY DEF Row
<1>5. row \in [Devices -> Row]
  BY <1>3, <1>4
<1>6. Placed
  BY <1>3 DEF Placed
<1>7. TypeOK
  <2>1. handler \in [Handlers -> Handler] /\ challenges \in [Nonces -> ChallengeRow]
    BY <1>1, <1>2
  <2>2. phone \in [Devices -> 0 .. MaxCounter]
    OBVIOUS
  <2> QED
    BY <1>5, <2>1, <2>2 DEF TypeOK
<1>8. Issued
  BY DEF Issued, NoChallenge
<1>9. \A h \in Handlers : Works(handler[h])
  BY DEF Works, IdleHandler
<1> QED
  BY <1>6, <1>7, <1>8, <1>9 DEF Wellformed

LEMMA IdleTyped == IdleHandler \in Handler /\ IdleHandler.pc = "idle" /\ NoRow \in Row
  BY ConstantsAssumption DEF IdleHandler, Handler, NoRow, Row, NoDecision, Decision

\* One handler moves on, the tables stay as they were.
LEMMA HandlerMoves ==
    ASSUME Wellformed, NEW h \in Handlers, NEW x \in Handler, handler' = [handler EXCEPT ![h] = x],
           Works(x), UNCHANGED <<requestVars, deviceVars, challenges, phone, sent, accepted>>
    PROVE  Wellformed'
<1>1. handler' \in [Handlers -> Handler]
  BY DEF Wellformed, TypeOK
<1>2. \A g \in Handlers : Works(handler'[g])
  BY DEF Wellformed, TypeOK
<1>3. \A g \in Handlers : Works(handler[g])'
  BY <1>2 DEF Works
<1>4. (\A m \in sent : Signed(m))'
  BY DEF Wellformed, Signed
<1>5. TypeOK' /\ Placed' /\ Issued'
  BY <1>1 DEF Wellformed, TypeOK, Placed, Issued, requestVars, deviceVars
<1> QED
  BY <1>3, <1>4, <1>5 DEF Wellformed

LEMMA DropWellformed ==
    ASSUME Wellformed, NEW h \in Handlers, Idle(h),
           UNCHANGED <<requestVars, deviceVars, challenges, phone, sent, accepted>>
    PROVE  Wellformed'
<1>1. Works(IdleHandler)
  BY IdleTyped DEF Works
<1> QED
  BY <1>1, IdleTyped, HandlerMoves DEF Idle

LEMMA ReadsWellformed ==
    ASSUME Wellformed, NEW h \in Handlers,
           \/ \E a \in Approvals, d \in Devices : IssueReadRequest(h, a, d)
           \/ IssueReadDevice(h) \/ IssueCheckRevoked(h)
           \/ \E m \in sent : SubmitReadDevice(h, m)
           \/ SubmitCheckRevoked(h) \/ SubmitReadRequest(h) \/ Drop(h)
    PROVE  Wellformed'
<1> DEFINE same == UNCHANGED <<requestVars, deviceVars, challenges, phone, sent, accepted>>
<1>1. handler[h] \in Handler /\ Works(handler[h]) /\ handler \in [Handlers -> Handler]
  BY DEF Wellformed, TypeOK
<1>2. row \in [Devices -> Row] /\ sent \subseteq Decision /\ \A m \in sent : m.device \in Devices
  BY DEF Wellformed, TypeOK, Signed
<1> USE <1>1, <1>2, IdleTyped
<1>3. ASSUME NEW a \in Approvals, NEW d \in Devices, IssueReadRequest(h, a, d) PROVE Wellformed'
  <2> DEFINE x == [IdleHandler EXCEPT !.pc = "issue_device", !.approval = a, !.device = d]
  <2>1. x \in Handler /\ Works(x)
    BY DEF IdleHandler, Handler, Works
  <2>2. handler' = [handler EXCEPT ![h] = x] /\ same
    BY <1>3 DEF IssueReadRequest
  <2> HIDE DEF x
  <2> QED
    BY <2>1, <2>2, HandlerMoves
<1>4. CASE IssueReadDevice(h)
  <2> DEFINE r == row[handler[h].device]
             x == [handler[h] EXCEPT !.pc = "issue_revoked", !.seen = r]
  <2>1. same /\ (Idle(h) \/ handler' = [handler EXCEPT ![h] = x])
    BY <1>4 DEF IssueReadDevice
  <2>2. r \in Row
    BY <1>4 DEF IssueReadDevice, Works
  <2>3. x \in Handler /\ Works(x)
    <3> HIDE DEF r
    <3> QED
      BY <1>4, <2>2 DEF IssueReadDevice, Handler, Works
  <2> HIDE DEF x
  <2> QED
    BY <2>1, <2>3, HandlerMoves, DropWellformed
<1>5. ASSUME NEW pc \in {"issue_add", "decide_commit"}, LastStep(h, pc), same,
             pc = "issue_add" => handler[h].pc = "issue_revoked",
             pc = "decide_commit" => handler[h].pc = "decide_request"
      PROVE  Wellformed'
  <2> DEFINE x == [handler[h] EXCEPT !.pc = pc, !.seen = NoRow]
  <2>1. x \in Handler /\ Works(x)
    BY <1>5 DEF Handler, Works
  <2>2. handler' = [handler EXCEPT ![h] = x]
    BY <1>5 DEF LastStep
  <2> HIDE DEF x
  <2> QED
    BY <1>5, <2>1, <2>2, HandlerMoves
<1>6. CASE IssueCheckRevoked(h)
  BY <1>5, <1>6, DropWellformed DEF IssueCheckRevoked
<1>7. ASSUME NEW m \in sent, SubmitReadDevice(h, m) PROVE Wellformed'
  <2> DEFINE x == [IdleHandler EXCEPT !.pc = "decide_revoked", !.device = m.device,
                                      !.seen = row[m.device], !.msg = m]
  <2>1. row[m.device] \in Row /\ m \in Decision /\ m.device \in Devices
    OBVIOUS
  <2>2. x \in Handler /\ Works(x)
    BY <2>1 DEF IdleHandler, Handler, Works
  <2>3. handler' = [handler EXCEPT ![h] = x] /\ same
    BY <1>7 DEF SubmitReadDevice
  <2> HIDE DEF x
  <2> QED
    BY <2>2, <2>3, HandlerMoves
<1>8. CASE SubmitCheckRevoked(h)
  <2> DEFINE x == [handler[h] EXCEPT !.pc = "decide_request"]
  <2>1. same /\ (Idle(h) \/ handler' = [handler EXCEPT ![h] = x])
    BY <1>8 DEF SubmitCheckRevoked
  <2>2. x \in Handler /\ Works(x)
    BY <1>8 DEF SubmitCheckRevoked, Handler, Works
  <2> HIDE DEF x
  <2> QED
    BY <2>1, <2>2, HandlerMoves, DropWellformed
<1>9. CASE SubmitReadRequest(h)
  BY <1>5, <1>9, DropWellformed DEF SubmitReadRequest
<1>10. CASE Drop(h)
  BY <1>10, DropWellformed DEF Drop
<1> QED
  BY <1>3, <1>4, <1>6, <1>7, <1>8, <1>9, <1>10

\* The challenges move on, what is signed stays backed by them.
LEMMA ChallengesMove ==
    ASSUME Wellformed, NEW h \in Handlers, Idle(h) \/ UNCHANGED handler,
           challenges' \in [Nonces -> ChallengeRow],
           \A n \in Nonces :
               challenges[n].status # "NONE" => /\ challenges'[n].status # "NONE"
                                                /\ challenges'[n].approval = challenges[n].approval
                                                /\ challenges'[n].device = challenges[n].device,
           Issued',
           state' \in [Approvals -> {"PENDING", "APPROVED", "DENIED", "EXPIRED"}],
           decided' \in [Approvals -> Devices \cup {NULL}],
           row' \in [Devices -> Row], Placed',
           accepted' \subseteq Decision,
           UNCHANGED <<overdue, revocations, phone, sent>>
    PROVE  Wellformed'
<1>1. handler' \in [Handlers -> Handler] /\ \A g \in Handlers : Works(handler[g])'
  <2>1. CASE Idle(h)
    BY <2>1, IdleTyped DEF Wellformed, TypeOK, Idle, Works
  <2>2. CASE UNCHANGED handler
    BY <2>2 DEF Wellformed, TypeOK, Works
  <2> QED
    BY <2>1, <2>2
<1>2. (\A m \in sent : Signed(m))'
  BY DEF Wellformed, Signed
<1>3. TypeOK'
  BY <1>1 DEF Wellformed, TypeOK
<1> QED
  BY <1>1, <1>2, <1>3 DEF Wellformed

LEMMA AddChallengeWellformed ==
    ASSUME Wellformed, NEW h \in Handlers, NEW n \in Nonces, AddChallenge(h, n)
    PROVE  Wellformed'
<1> DEFINE a == handler[h].approval
           new == [approval |-> a, device |-> handler[h].device, status |-> "OPEN",
                   expired |-> FALSE]
<1>1. a \in Approvals /\ handler[h].device \in Devices
  BY DEF Wellformed, Works, AddChallenge
<1>2. challenges \in [Nonces -> ChallengeRow] /\ challenges[n].status = "NONE"
  BY DEF Wellformed, TypeOK, AddChallenge
<1>3. new \in ChallengeRow
  BY <1>1 DEF ChallengeRow
<1>4. challenges' = [m \in Nonces |->
          IF m = n THEN new
          ELSE IF challenges[m].approval = a THEN [challenges[m] EXCEPT !.status = "CONSUMED"]
               ELSE challenges[m]]
  BY DEF AddChallenge
<1>5. challenges' \in [Nonces -> ChallengeRow]
  <2>1. \A m \in Nonces : [challenges[m] EXCEPT !.status = "CONSUMED"] \in ChallengeRow
    BY <1>2 DEF ChallengeRow
  <2> HIDE DEF new, a
  <2> QED
    BY <1>2, <1>3, <1>4, <2>1
<1>6. ASSUME NEW m \in Nonces, challenges[m].status # "NONE"
      PROVE  /\ challenges'[m].status # "NONE"
             /\ challenges'[m].approval = challenges[m].approval
             /\ challenges'[m].device = challenges[m].device
  BY <1>2, <1>4, <1>6 DEF ChallengeRow
<1>7. Issued'
  <2> SUFFICES ASSUME NEW m \in Nonces
               PROVE  IF challenges'[m].status = "NONE" THEN challenges'[m].approval = NULL
                      ELSE challenges'[m].approval \in Approvals /\ challenges'[m].device \in Devices
    BY DEF Issued
  <2>1. IF challenges[m].status = "NONE" THEN challenges[m].approval = NULL
        ELSE challenges[m].approval \in Approvals /\ challenges[m].device \in Devices
    BY DEF Wellformed, Issued
  <2>2. a # NULL
    BY <1>1, ConstantsAssumption
  <2> HIDE DEF a
  <2> QED
    BY <1>1, <1>2, <1>4, <2>1, <2>2 DEF ChallengeRow
<1> HIDE DEF a, new
<1>8. Idle(h) /\ UNCHANGED <<requestVars, deviceVars, phone, sent, accepted>>
  BY DEF AddChallenge
<1> QED
  BY <1>5, <1>6, <1>7, <1>8, ChallengesMove DEF Wellformed, TypeOK, Placed, requestVars, deviceVars

LEMMA CommitWellformed ==
    ASSUME Wellformed, NEW h \in Handlers, CommitDecision(h)
    PROVE  Wellformed'
<1> DEFINE m == handler[h].msg
           c == challenges[m.nonce]
           r == row[m.device]
<1>1. CASE ~CommitHolds(h)
  BY <1>1, DropWellformed DEF CommitDecision, requestVars, deviceVars
<1>2. CASE CommitHolds(h)
  <2>1. m \in sent /\ Signed(m)
    BY DEF CommitDecision, Wellformed, Works
  <2>2. m.nonce \in Nonces /\ m.device \in Devices /\ m.approval \in Approvals /\ m \in Decision
    BY <2>1 DEF Signed, Wellformed, TypeOK
  <2>3. c \in ChallengeRow /\ r \in Row
    BY <2>2 DEF Wellformed, TypeOK
  <2>4. NewCounter(r.counter, m) \in 0 .. MaxCounter
    BY <2>2, <2>3 DEF NewCounter, Row, Decision
  <2>5. [c EXCEPT !.status = "CONSUMED"] \in ChallengeRow
        /\ [r EXCEPT !.counter = NewCounter(r.counter, m)] \in Row
    <3> HIDE DEF c, r, m
    <3> QED
      BY <2>3, <2>4 DEF ChallengeRow, Row
  <2>6. /\ challenges' = [challenges EXCEPT ![m.nonce] = [c EXCEPT !.status = "CONSUMED"]]
        /\ row' = [row EXCEPT ![m.device] = [r EXCEPT !.counter = NewCounter(r.counter, m)]]
        /\ state' = [state EXCEPT ![m.approval] = IF m.answer = "APPROVE" THEN "APPROVED" ELSE "DENIED"]
        /\ decided' = [decided EXCEPT ![m.approval] = m.device]
        /\ accepted' = accepted \cup {m}
        /\ Idle(h) /\ UNCHANGED <<overdue, revocations, phone, sent>>
    BY <1>2 DEF CommitDecision
  <2>7. /\ challenges \in [Nonces -> ChallengeRow] /\ row \in [Devices -> Row] /\ Placed /\ Issued
        /\ state \in [Approvals -> {"PENDING", "APPROVED", "DENIED", "EXPIRED"}]
        /\ decided \in [Approvals -> Devices \cup {NULL}] /\ accepted \subseteq Decision
    BY DEF Wellformed, TypeOK
  <2> HIDE DEF m
  <2>8. /\ challenges' \in [Nonces -> ChallengeRow] /\ row' \in [Devices -> Row]
        /\ state' \in [Approvals -> {"PENDING", "APPROVED", "DENIED", "EXPIRED"}]
        /\ decided' \in [Approvals -> Devices \cup {NULL}] /\ accepted' \subseteq Decision
    <3> HIDE DEF c, r
    <3> QED
      BY <2>2, <2>5, <2>6, <2>7
  <2>9. \A n \in Nonces : /\ challenges'[n].approval = challenges[n].approval
                          /\ challenges'[n].device = challenges[n].device
                          /\ challenges'[n].status # challenges[n].status =>
                                 n = m.nonce /\ challenges'[n].status = "CONSUMED"
    BY <2>2, <2>3, <2>6, <2>7 DEF ChallengeRow
  <2>10. challenges[m.nonce].status = "OPEN"
    BY <1>2 DEF CommitHolds, m
  <2>11. Issued'
    BY <2>7, <2>9, <2>10, <2>2 DEF Issued
  <2>12. Placed'
    BY <2>2, <2>3, <2>6, <2>7 DEF Placed, Row
  <2> QED
    BY <2>6, <2>8, <2>9, <2>10, <2>11, <2>12, ChallengesMove
<1> QED
  BY <1>1, <1>2

LEMMA SignWellformed ==
    ASSUME Wellformed, NEW n \in Nonces, NEW answer \in {"APPROVE", "DENY"}, Sign(n, answer)
    PROVE  Wellformed'
<1> DEFINE d == challenges[n].device
           next == IF answer = "APPROVE" THEN phone[d] + 1 ELSE 0
           m == [answer |-> answer, approval |-> challenges[n].approval, device |-> d, nonce |-> n,
                 key |-> row[d].key, attestKey |-> IF answer = "APPROVE" THEN row[d].attestKey ELSE NULL,
                 counter |-> next]
<1>1. challenges[n].status # "NONE" /\ next <= MaxCounter
  BY DEF Sign
<1>2. d \in Devices /\ challenges[n].approval \in Approvals
  BY <1>1 DEF Wellformed, Issued
<1>3. row[d].key \in ApprovalKeys /\ row[d].attestKey \in AttestKeys
  BY <1>2 DEF Wellformed, Placed
<1>4. phone \in [Devices -> 0 .. MaxCounter]
  BY DEF Wellformed, TypeOK
<1>5. next \in 0 .. MaxCounter
  BY <1>1, <1>2, <1>4, ConstantsAssumption
<1>6. m \in Decision /\ Signed(m)
  <2> HIDE DEF d, next
  <2>1. m \in Decision
    BY <1>2, <1>3, <1>5 DEF Decision
  <2>2. Signed(m)
    BY <1>1, <1>2 DEF Signed, d
  <2> QED
    BY <2>1, <2>2
<1>7. /\ sent' = sent \cup {m}
      /\ phone' = IF answer = "APPROVE" THEN [phone EXCEPT ![d] = next] ELSE phone
      /\ UNCHANGED <<requestVars, deviceVars, challenges, handler, accepted>>
  BY DEF Sign
<1> HIDE DEF m
<1>8. phone' \in [Devices -> 0 .. MaxCounter]
  <2> HIDE DEF d, next
  <2> QED
    BY <1>4, <1>5, <1>7
<1>9. (\A x \in sent : Signed(x))'
  <2>1. \A x \in sent' : Signed(x)
    BY <1>6, <1>7 DEF Wellformed
  <2> QED
    BY <1>7, <2>1 DEF Signed
<1>10. (\A h \in Handlers : Works(handler[h]))'
  BY <1>7 DEF Wellformed, Works
<1>11. TypeOK'
  <2>1. sent' \subseteq Decision
    BY <1>6, <1>7 DEF Wellformed, TypeOK
  <2> QED
    BY <1>7, <1>8, <2>1 DEF Wellformed, TypeOK, requestVars, deviceVars
<1>12. Placed' /\ Issued'
  BY <1>7 DEF Wellformed, Placed, Issued, deviceVars
<1> QED
  BY <1>9, <1>10, <1>11, <1>12 DEF Wellformed

\* A request or a device changes, by the deadline, the sweep, an enrolment or a revocation.
LEMMA WorldMoves ==
    ASSUME Wellformed,
           state' \in [Approvals -> {"PENDING", "APPROVED", "DENIED", "EXPIRED"}],
           overdue' \in [Approvals -> BOOLEAN],
           row' \in [Devices -> Row], Placed',
           revocations' \subseteq Devices \cup ApprovalKeys \cup AttestKeys,
           UNCHANGED <<decided, challenges, phone, sent, handler, accepted>>
    PROVE  Wellformed'
<1>1. TypeOK'
  BY DEF Wellformed, TypeOK
<1>2. Issued'
  BY DEF Wellformed, Issued
<1>3. (\A m \in sent : Signed(m))' /\ (\A h \in Handlers : Works(handler[h]))'
  BY DEF Wellformed, Signed, Works
<1> QED
  BY <1>1, <1>2, <1>3 DEF Wellformed

LEMMA DeviceWellformed == Wellformed /\ DeviceStep => Wellformed'
<1> SUFFICES ASSUME Wellformed, DeviceStep PROVE Wellformed'
  OBVIOUS
<1>1. /\ row \in [Devices -> Row] /\ Placed
      /\ revocations \subseteq Devices \cup ApprovalKeys \cup AttestKeys
      /\ state \in [Approvals -> {"PENDING", "APPROVED", "DENIED", "EXPIRED"}]
      /\ overdue \in [Approvals -> BOOLEAN]
  BY DEF Wellformed, TypeOK
<1> USE <1>1
<1>2. ASSUME NEW d \in Devices, NEW p \in ApprovalKeys, NEW k \in AttestKeys, BeginEnrollment(d, p, k)
      PROVE  Wellformed'
  <2> DEFINE r == [status |-> "ACTIVE", attested |-> FALSE, gen |-> row[d].gen + 1, key |-> p,
                   attestKey |-> k, counter |-> 0]
  <2>1. row[d] \in Row /\ row[d].gen < MaxGen
    BY <1>2 DEF BeginEnrollment
  <2>2. r \in Row
    BY <2>1, ConstantsAssumption DEF Row
  <2>3. row' = [row EXCEPT ![d] = r]
    BY <1>2 DEF BeginEnrollment
  <2>4. row' \in [Devices -> Row]
    BY <2>2, <2>3
  <2>5. Placed'
    BY <2>3 DEF Placed
  <2> QED
    BY <1>2, <2>4, <2>5, WorldMoves DEF BeginEnrollment, requestVars
<1>3. ASSUME NEW d \in Devices, FinalizeAttestation(d) PROVE Wellformed'
  <2>1. row' = [row EXCEPT ![d] = [row[d] EXCEPT !.attested = TRUE]]
    BY <1>3 DEF FinalizeAttestation
  <2>2. [row[d] EXCEPT !.attested = TRUE] \in Row
    BY DEF Row
  <2>3. row' \in [Devices -> Row] /\ Placed'
    BY <2>1, <2>2 DEF Placed, Row
  <2> QED
    BY <1>3, <2>3, WorldMoves DEF FinalizeAttestation, requestVars
<1>4. ASSUME NEW ids \in SUBSET (Devices \cup ApprovalKeys \cup AttestKeys), Revoke(ids) PROVE Wellformed'
  <2>1. row' = [d \in Devices |->
           IF row[d].status # "NONE" /\ {d, row[d].key, row[d].attestKey} \cap ids # {}
           THEN [row[d] EXCEPT !.status = "REVOKED"] ELSE row[d]]
        /\ revocations' = revocations \cup ids
    BY <1>4 DEF Revoke
  <2>2. \A d \in Devices : [row[d] EXCEPT !.status = "REVOKED"] \in Row
    BY DEF Row
  <2>3. row' \in [Devices -> Row]
    BY <2>1, <2>2
  <2>4. Placed'
    BY <2>1 DEF Placed, Row
  <2> QED
    BY <1>4, <2>1, <2>3, <2>4, WorldMoves DEF Revoke, requestVars
<1>5. ASSUME NEW d \in Devices, RevokeDevice(d) PROVE Wellformed'
  BY <1>4, <1>5 DEF RevokeDevice, Placed
<1>6. ASSUME NEW p \in ApprovalKeys, RevokeApprovalKey(p) PROVE Wellformed'
  BY <1>4, <1>6 DEF RevokeApprovalKey
<1>7. ASSUME NEW k \in AttestKeys, RevokeAppAttestKey(k) PROVE Wellformed'
  BY <1>4, <1>7 DEF RevokeAppAttestKey
<1> QED
  BY <1>2, <1>3, <1>5, <1>6, <1>7 DEF DeviceStep

LEMMA NextWellformed == Wellformed /\ [Next]_vars => Wellformed'
<1> SUFFICES ASSUME Wellformed, [Next]_vars PROVE Wellformed'
  OBVIOUS
<1>1. ASSUME NEW h \in Handlers, IssueStep(h) PROVE Wellformed'
  BY <1>1, ReadsWellformed, AddChallengeWellformed DEF IssueStep
<1>2. ASSUME NEW h \in Handlers, SubmitStep(h) PROVE Wellformed'
  BY <1>2, ReadsWellformed, CommitWellformed DEF SubmitStep
<1>3. ASSUME NEW h \in Handlers, Drop(h) PROVE Wellformed'
  BY <1>3, ReadsWellformed
<1>4. ASSUME NEW n \in Nonces, ChallengeExpires(n) PROVE Wellformed'
  <2>1. challenges \in [Nonces -> ChallengeRow]
    BY DEF Wellformed, TypeOK
  <2>2. challenges' = [challenges EXCEPT ![n] = [challenges[n] EXCEPT !.expired = TRUE]]
        /\ UNCHANGED <<requestVars, deviceVars, phone, sent, handler, accepted>>
    BY <1>4 DEF ChallengeExpires
  <2>3. [challenges[n] EXCEPT !.expired = TRUE] \in ChallengeRow
    BY <2>1 DEF ChallengeRow
  <2>4. challenges' \in [Nonces -> ChallengeRow]
    BY <2>1, <2>2, <2>3
  <2>5. \A m \in Nonces : /\ challenges'[m].status = challenges[m].status
                          /\ challenges'[m].approval = challenges[m].approval
                          /\ challenges'[m].device = challenges[m].device
    BY <2>1, <2>2 DEF ChallengeRow
  <2>6. Issued' /\ (\A m \in sent : Signed(m))'
    BY <2>2, <2>5 DEF Wellformed, Issued, Signed
  <2>7. TypeOK' /\ Placed' /\ (\A h \in Handlers : Works(handler[h]))'
    BY <2>2, <2>4 DEF Wellformed, TypeOK, Placed, Works, requestVars, deviceVars
  <2> QED
    BY <2>6, <2>7 DEF Wellformed
<1>5. ASSUME NEW n \in Nonces, NEW x \in {"APPROVE", "DENY"}, Sign(n, x) PROVE Wellformed'
  BY <1>5, SignWellformed
<1>6. ASSUME NEW a \in Approvals, DeadlinePasses(a) \/ ExpireRequest(a) PROVE Wellformed'
  <2>1. /\ state' \in [Approvals -> {"PENDING", "APPROVED", "DENIED", "EXPIRED"}]
        /\ overdue' \in [Approvals -> BOOLEAN]
        /\ UNCHANGED <<decided, deviceVars, challenges, phone, sent, handler, accepted>>
    BY <1>6 DEF DeadlinePasses, ExpireRequest, Wellformed, TypeOK
  <2> QED
    BY <2>1, WorldMoves DEF Wellformed, TypeOK, Placed, deviceVars
<1>7. CASE UNCHANGED vars
  BY <1>7, WorldMoves DEF vars, requestVars, deviceVars, Wellformed, TypeOK, Placed
<1> QED
  BY <1>1, <1>2, <1>3, <1>4, <1>5, <1>6, <1>7, DeviceWellformed DEF Next

LEMMA WellformedAlways == Spec => []Wellformed
  BY InitWellformed, NextWellformed, PTL DEF Spec

\* The tables of a decision and what every handler holds are well typed, whatever interleaves.
THEOREM TypeCorrect == Spec => []TypeOK
<1>1. Wellformed => TypeOK
  BY DEF Wellformed
<1> QED
  BY <1>1, WellformedAlways, PTL

----------------------------------------------------------------------------
(* How a step changes the challenges and what was accepted.                *)

\* Outside of a commit that holds nothing is accepted, decided or answered.
LEMMA OnlyCommitsAccept ==
    ASSUME [Next]_vars, \A h \in Handlers : ~(CommitDecision(h) /\ CommitHolds(h))
    PROVE  UNCHANGED <<accepted, decided>>
<1>1. ASSUME NEW h \in Handlers, IssueStep(h) PROVE UNCHANGED <<accepted, decided>>
  BY <1>1 DEF IssueStep, IssueReadRequest, IssueReadDevice, IssueCheckRevoked, AddChallenge, requestVars
<1>2. ASSUME NEW h \in Handlers, SubmitStep(h) PROVE UNCHANGED <<accepted, decided>>
  BY <1>2 DEF SubmitStep, SubmitReadDevice, SubmitCheckRevoked, SubmitReadRequest, CommitDecision,
              requestVars
<1>3. ASSUME NEW h \in Handlers, Drop(h) PROVE UNCHANGED <<accepted, decided>>
  BY <1>3 DEF Drop, requestVars
<1>4. ASSUME NEW n \in Nonces, ChallengeExpires(n) \/ \E x \in {"APPROVE", "DENY"} : Sign(n, x)
      PROVE UNCHANGED <<accepted, decided>>
  BY <1>4 DEF ChallengeExpires, Sign, requestVars
<1>5. ASSUME NEW a \in Approvals, DeadlinePasses(a) \/ ExpireRequest(a) PROVE UNCHANGED <<accepted, decided>>
  BY <1>5 DEF DeadlinePasses, ExpireRequest
<1>6. CASE DeviceStep
  BY <1>6 DEF DeviceStep, BeginEnrollment, FinalizeAttestation, RevokeDevice, RevokeApprovalKey,
              RevokeAppAttestKey, Revoke, requestVars
<1>7. CASE UNCHANGED vars
  BY <1>7 DEF vars
<1> QED
  BY <1>1, <1>2, <1>3, <1>4, <1>5, <1>6, <1>7 DEF Next

\* A challenge keeps what it was issued for, and a spent one stays spent; one is open afterwards
\* only if it was open before or has just been issued, with all the others of its request spent.
LEMMA ChallengeSteps ==
    ASSUME Wellformed, [Next]_vars, NEW n \in Nonces
    PROVE  /\ challenges[n].status # "NONE" => /\ challenges'[n].approval = challenges[n].approval
                                               /\ challenges'[n].device = challenges[n].device
           /\ challenges[n].status = "CONSUMED" => challenges'[n].status = "CONSUMED"
           /\ challenges'[n].status = "OPEN" /\ challenges[n].status # "OPEN" =>
                  \A m \in Nonces : m # n /\ challenges'[m].approval = challenges'[n].approval =>
                                        challenges'[m].status # "OPEN"
<1>1. challenges \in [Nonces -> ChallengeRow]
  BY DEF Wellformed, TypeOK
<1>2. CASE UNCHANGED challenges
  BY <1>2
<1>3. ASSUME NEW h \in Handlers, NEW m \in Nonces, AddChallenge(h, m)
      PROVE  /\ challenges[n].status # "NONE" => /\ challenges'[n].approval = challenges[n].approval
                                                 /\ challenges'[n].device = challenges[n].device
             /\ challenges[n].status = "CONSUMED" => challenges'[n].status = "CONSUMED"
             /\ challenges'[n].status = "OPEN" /\ challenges[n].status # "OPEN" =>
                    \A k \in Nonces : k # n /\ challenges'[k].approval = challenges'[n].approval =>
                                          challenges'[k].status # "OPEN"
  BY <1>1, <1>3 DEF AddChallenge, ChallengeRow
<1>4. ASSUME NEW h \in Handlers, CommitDecision(h), CommitHolds(h)
      PROVE  /\ challenges'[n].approval = challenges[n].approval
             /\ challenges'[n].device = challenges[n].device
             /\ challenges'[n].status \in {challenges[n].status, "CONSUMED"}
  BY <1>1, <1>4 DEF CommitDecision, ChallengeRow
<1>5. ASSUME NEW m \in Nonces, ChallengeExpires(m)
      PROVE  /\ challenges'[n].approval = challenges[n].approval
             /\ challenges'[n].device = challenges[n].device
             /\ challenges'[n].status = challenges[n].status
  BY <1>1, <1>5 DEF ChallengeExpires, ChallengeRow
<1>6. \/ UNCHANGED challenges
      \/ \E h \in Handlers, m \in Nonces : AddChallenge(h, m)
      \/ \E h \in Handlers : CommitDecision(h) /\ CommitHolds(h)
      \/ \E m \in Nonces : ChallengeExpires(m)
  <2>1. ASSUME NEW h \in Handlers, IssueStep(h)
        PROVE  UNCHANGED challenges \/ \E m \in Nonces : AddChallenge(h, m)
    BY <2>1 DEF IssueStep, IssueReadRequest, IssueReadDevice, IssueCheckRevoked
  <2>2. ASSUME NEW h \in Handlers, SubmitStep(h)
        PROVE  UNCHANGED challenges \/ (CommitDecision(h) /\ CommitHolds(h))
    BY <2>2 DEF SubmitStep, SubmitReadDevice, SubmitCheckRevoked, SubmitReadRequest, CommitDecision
  <2>3. ASSUME NEW h \in Handlers, Drop(h) PROVE UNCHANGED challenges
    BY <2>3 DEF Drop
  <2>4. ASSUME NEW m \in Nonces, NEW x \in {"APPROVE", "DENY"}, Sign(m, x) PROVE UNCHANGED challenges
    BY <2>4 DEF Sign
  <2>5. ASSUME NEW a \in Approvals, DeadlinePasses(a) \/ ExpireRequest(a) PROVE UNCHANGED challenges
    BY <2>5 DEF DeadlinePasses, ExpireRequest
  <2>6. CASE DeviceStep
    BY <2>6 DEF DeviceStep, BeginEnrollment, FinalizeAttestation, RevokeDevice, RevokeApprovalKey,
                RevokeAppAttestKey, Revoke
  <2>7. CASE UNCHANGED vars
    BY <2>7 DEF vars
  <2> QED
    BY <2>1, <2>2, <2>3, <2>4, <2>5, <2>6, <2>7 DEF Next
<1> QED
  BY <1>1, <1>2, <1>3, <1>4, <1>5, <1>6

----------------------------------------------------------------------------
(* The challenges.                                                         *)

\* However many issuances and decisions of an approval interleave, at most one of its challenges
\* can still be answered.
THEOREM OneChallenge == Spec => []OneOpenChallenge
<1>1. Init => OneOpenChallenge
  BY DEF Init, OneOpenChallenge, NoChallenge
<1>2. ASSUME Wellformed, OneOpenChallenge, [Next]_vars PROVE OneOpenChallenge'
  <2> SUFFICES ASSUME NEW m \in Nonces, NEW n \in Nonces,
                      challenges'[m].status = "OPEN", challenges'[n].status = "OPEN",
                      challenges'[m].approval = challenges'[n].approval
               PROVE  m = n
    BY DEF OneOpenChallenge
  <2>1. CASE challenges[m].status = "OPEN" /\ challenges[n].status = "OPEN"
    BY <1>2, <2>1, ChallengeSteps DEF OneOpenChallenge
  <2>2. CASE challenges[m].status # "OPEN"
    BY <1>2, <2>2, ChallengeSteps
  <2>3. CASE challenges[n].status # "OPEN"
    BY <1>2, <2>3, ChallengeSteps
  <2> QED
    BY <2>1, <2>2, <2>3
<1> QED
  BY <1>1, <1>2, WellformedAlways, PTL DEF Spec

----------------------------------------------------------------------------
(* What was accepted.                                                      *)

\* What is accepted was signed, for a request it is the only one, its nonce is spent, and the
\* request shows it.
Shown ==
    /\ accepted \subseteq sent
    /\ \A m \in accepted : challenges[m.nonce].status = "CONSUMED"
    /\ \A m, n \in accepted : m.approval = n.approval \/ m.nonce = n.nonce => m = n
    /\ \A m \in accepted : /\ decided[m.approval] = m.device
                           /\ m.answer = "DENY" => state[m.approval] = "DENIED"
                           /\ m.answer = "APPROVE" => state[m.approval] \in {"APPROVED", "EXPIRED"}
    /\ \A a \in Approvals :
           decided[a] # NULL \/ state[a] \in {"APPROVED", "DENIED"} => \E m \in accepted : m.approval = a

LEMMA CommitShown ==
    ASSUME Wellformed, Shown, NEW h \in Handlers, CommitDecision(h), CommitHolds(h)
    PROVE  Shown'
<1> DEFINE m == handler[h].msg
<1>1. m \in sent /\ Signed(m)
  BY DEF Wellformed, Works, CommitDecision
<1>2. /\ m.nonce \in Nonces /\ m.device \in Devices /\ m.approval \in Approvals
      /\ m.answer \in {"APPROVE", "DENY"}
  BY <1>1 DEF Signed
<1>3. /\ state[m.approval] = "PENDING" /\ challenges[m.nonce].status = "OPEN"
  BY DEF CommitHolds
<1>4. /\ challenges \in [Nonces -> ChallengeRow] /\ decided \in [Approvals -> Devices \cup {NULL}]
      /\ state \in [Approvals -> {"PENDING", "APPROVED", "DENIED", "EXPIRED"}]
  BY DEF Wellformed, TypeOK
<1>5. /\ challenges' = [challenges EXCEPT ![m.nonce] = [challenges[m.nonce] EXCEPT !.status = "CONSUMED"]]
      /\ state' = [state EXCEPT ![m.approval] = IF m.answer = "APPROVE" THEN "APPROVED" ELSE "DENIED"]
      /\ decided' = [decided EXCEPT ![m.approval] = m.device]
      /\ accepted' = accepted \cup {m} /\ sent' = sent
  BY DEF CommitDecision
<1>6. \A n \in accepted : n.approval \in Approvals /\ n.nonce \in Nonces /\ Signed(n)
  BY DEF Wellformed, Shown, Signed
<1> HIDE DEF m
<1>7. \A n \in accepted : n.approval # m.approval /\ n.nonce # m.nonce
  BY <1>3, <1>6 DEF Shown, Signed
<1>8. \A n \in Nonces : challenges[n].status = "CONSUMED" \/ n = m.nonce => challenges'[n].status = "CONSUMED"
  BY <1>2, <1>4, <1>5 DEF ChallengeRow
<1>9. accepted' \subseteq sent'
  BY <1>1, <1>5 DEF Shown, m
<1>10. \A n \in accepted' : challenges'[n.nonce].status = "CONSUMED"
  BY <1>2, <1>5, <1>6, <1>8 DEF Shown
<1>11. \A n, k \in accepted' : n.approval = k.approval \/ n.nonce = k.nonce => n = k
  BY <1>5, <1>7 DEF Shown
<1>12. \A n \in accepted' : /\ decided'[n.approval] = n.device
                            /\ n.answer = "DENY" => state'[n.approval] = "DENIED"
                            /\ n.answer = "APPROVE" => state'[n.approval] \in {"APPROVED", "EXPIRED"}
  BY <1>2, <1>4, <1>5, <1>6, <1>7 DEF Shown
<1>13. \A a \in Approvals :
          decided'[a] # NULL \/ state'[a] \in {"APPROVED", "DENIED"} => \E n \in accepted' : n.approval = a
  <2> TAKE a \in Approvals
  <2>1. CASE a = m.approval
    BY <1>5, <2>1
  <2>2. CASE a # m.approval
    BY <1>4, <1>5, <2>2 DEF Shown
  <2> QED
    BY <2>1, <2>2
<1> QED
  BY <1>9, <1>10, <1>11, <1>12, <1>13 DEF Shown

\* Only a commit and the expiry move a request, and the expiry takes no denial back.
LEMMA RequestSteps ==
    ASSUME Wellformed, [Next]_vars, \A h \in Handlers : ~(CommitDecision(h) /\ CommitHolds(h)),
           NEW a \in Approvals
    PROVE  state'[a] = state[a] \/ (state[a] \in {"PENDING", "APPROVED"} /\ state'[a] = "EXPIRED")
<1>1. ASSUME NEW h \in Handlers, IssueStep(h) PROVE UNCHANGED state
  BY <1>1 DEF IssueStep, IssueReadRequest, IssueReadDevice, IssueCheckRevoked, AddChallenge, requestVars
<1>2. ASSUME NEW h \in Handlers, SubmitStep(h) PROVE UNCHANGED state
  BY <1>2 DEF SubmitStep, SubmitReadDevice, SubmitCheckRevoked, SubmitReadRequest, CommitDecision,
              requestVars
<1>3. ASSUME NEW h \in Handlers, Drop(h) PROVE UNCHANGED state
  BY <1>3 DEF Drop, requestVars
<1>4. ASSUME NEW n \in Nonces, ChallengeExpires(n) \/ \E x \in {"APPROVE", "DENY"} : Sign(n, x)
      PROVE UNCHANGED state
  BY <1>4 DEF ChallengeExpires, Sign, requestVars
<1>5. ASSUME NEW b \in Approvals, DeadlinePasses(b) \/ ExpireRequest(b)
      PROVE  state'[a] = state[a] \/ (state[a] \in {"PENDING", "APPROVED"} /\ state'[a] = "EXPIRED")
  BY <1>5 DEF DeadlinePasses, ExpireRequest, Wellformed, TypeOK
<1>6. CASE DeviceStep
  BY <1>6 DEF DeviceStep, BeginEnrollment, FinalizeAttestation, RevokeDevice, RevokeApprovalKey,
              RevokeAppAttestKey, Revoke, requestVars
<1>7. CASE UNCHANGED vars
  BY <1>7 DEF vars
<1> QED
  BY <1>1, <1>2, <1>3, <1>4, <1>5, <1>6, <1>7 DEF Next

\* A signed decision is never taken back.
LEMMA SentStays == [Next]_vars => sent \subseteq sent'
<1> SUFFICES ASSUME [Next]_vars PROVE sent \subseteq sent'
  OBVIOUS
<1>1. ASSUME NEW h \in Handlers, IssueStep(h) \/ SubmitStep(h) \/ Drop(h) PROVE UNCHANGED sent
  BY <1>1 DEF IssueStep, SubmitStep, Drop, IssueReadRequest, IssueReadDevice, IssueCheckRevoked, AddChallenge,
              SubmitReadDevice, SubmitCheckRevoked, SubmitReadRequest, CommitDecision
<1>2. ASSUME NEW n \in Nonces, ChallengeExpires(n) \/ \E x \in {"APPROVE", "DENY"} : Sign(n, x)
      PROVE  sent \subseteq sent'
  BY <1>2 DEF ChallengeExpires, Sign
<1>3. ASSUME NEW a \in Approvals, DeadlinePasses(a) \/ ExpireRequest(a) PROVE UNCHANGED sent
  BY <1>3 DEF DeadlinePasses, ExpireRequest
<1>4. CASE DeviceStep
  BY <1>4 DEF DeviceStep, BeginEnrollment, FinalizeAttestation, RevokeDevice, RevokeApprovalKey,
              RevokeAppAttestKey, Revoke
<1>5. CASE UNCHANGED vars
  BY <1>5 DEF vars
<1> QED
  BY <1>1, <1>2, <1>3, <1>4, <1>5 DEF Next

LEMMA ShownAlways == Spec => []Shown
<1>1. Init => Shown
  BY ConstantsAssumption DEF Init, Shown
<1>2. ASSUME Wellformed, Shown, [Next]_vars PROVE Shown'
  <2>1. CASE \E h \in Handlers : CommitDecision(h) /\ CommitHolds(h)
    BY <1>2, <2>1, CommitShown
  <2>2. CASE \A h \in Handlers : ~(CommitDecision(h) /\ CommitHolds(h))
    <3>1. UNCHANGED <<accepted, decided>> /\ sent \subseteq sent'
      BY <1>2, <2>2, OnlyCommitsAccept, SentStays
    <3>2. \A m \in accepted : m.approval \in Approvals /\ m.nonce \in Nonces
      BY <1>2 DEF Wellformed, Shown, Signed
    <3>3. \A n \in Nonces : challenges[n].status = "CONSUMED" => challenges'[n].status = "CONSUMED"
      BY <1>2, ChallengeSteps
    <3>4. \A a \in Approvals : \/ state'[a] = state[a]
                               \/ state[a] \in {"PENDING", "APPROVED"} /\ state'[a] = "EXPIRED"
      BY <1>2, <2>2, RequestSteps
    <3>5. \A m \in accepted' : challenges'[m.nonce].status = "CONSUMED"
      BY <1>2, <3>1, <3>2, <3>3 DEF Shown
    <3>6. \A m \in accepted' : /\ decided'[m.approval] = m.device
                               /\ m.answer = "DENY" => state'[m.approval] = "DENIED"
                               /\ m.answer = "APPROVE" => state'[m.approval] \in {"APPROVED", "EXPIRED"}
      BY <1>2, <3>1, <3>2, <3>4 DEF Shown
    <3> QED
      BY <1>2, <3>1, <3>4, <3>5, <3>6 DEF Shown
  <2> QED
    BY <2>1, <2>2
<1> QED
  BY <1>1, <1>2, WellformedAlways, PTL DEF Spec

\* One nonce has let at most one decision through: one that was signed, for the approval and the
\* device its challenge was issued for.
THEOREM NonceSpent == Spec => []NonceSpentOnce
<1>1. Wellformed /\ Shown => NonceSpentOnce
  BY DEF Wellformed, Shown, NonceSpentOnce, Signed
<1> QED
  BY <1>1, WellformedAlways, ShownAlways, PTL

\* A request is answered at most once, it says so exactly when it was, names the device, and shows
\* that answer until it expires.
THEOREM AnsweredOnce == Spec => []OneAnswer
<1>1. ASSUME Wellformed, Shown, NEW a \in Approvals
      PROVE  LET answers == {m \in accepted : m.approval = a}
             IN  /\ Cardinality(answers) <= 1
                 /\ decided[a] # NULL <=> answers # {}
                 /\ state[a] \in {"APPROVED", "DENIED"} => answers # {}
                 /\ \A m \in answers :
                        /\ decided[a] = m.device
                        /\ state[a] = "DENIED" <=> m.answer = "DENY"
                        /\ m.answer = "APPROVE" => state[a] \in {"APPROVED", "EXPIRED"}
  <2> DEFINE answers == {m \in accepted : m.approval = a}
  <2>1. \A m, n \in answers : m = n
    BY <1>1 DEF Shown
  <2>2. Cardinality(answers) <= 1
    <3>1. CASE answers = {}
      BY <3>1, FS_EmptySet
    <3>2. CASE answers # {}
      <4>1. PICK m : answers = {m}
        BY <2>1, <3>2
      <4> HIDE DEF answers
      <4> QED
        BY <4>1, FS_Singleton
    <3> QED
      BY <3>1, <3>2
  <2>3. \A m \in answers : m.device \in Devices /\ m.answer \in {"APPROVE", "DENY"}
    BY <1>1 DEF Shown, Wellformed, Signed
  <2>4. \A m \in answers : /\ decided[a] = m.device
                           /\ state[a] = "DENIED" <=> m.answer = "DENY"
                           /\ m.answer = "APPROVE" => state[a] \in {"APPROVED", "EXPIRED"}
    BY <1>1, <2>3 DEF Shown
  <2>5. decided[a] # NULL <=> answers # {}
    BY <1>1, <2>3, <2>4, ConstantsAssumption DEF Shown
  <2>6. state[a] \in {"APPROVED", "DENIED"} => answers # {}
    BY <1>1 DEF Shown
  <2> QED
    BY <2>2, <2>4, <2>5, <2>6
<1>2. Wellformed /\ Shown => OneAnswer
  BY <1>1 DEF OneAnswer
<1> QED
  BY <1>2, WellformedAlways, ShownAlways, PTL

----------------------------------------------------------------------------
(* Steps.                                                                  *)

\* When an answer is committed, the device is trusted at that moment and carries the very keys that
\* signed, whatever was enrolled or revoked since the checks of submit_decision.
THEOREM LiveAuthority == Spec => DecidedUnderLiveAuthority
<1> DEFINE Live == \A m \in accepted' \ accepted :
              LET r == row[m.device]
              IN  /\ r.status = "ACTIVE" /\ r.attested
                  /\ {m.device, m.key, m.attestKey} \cap revocations = {}
                  /\ m.key = r.key
                  /\ m.answer = "APPROVE" => m.attestKey = r.attestKey
<1>1. ASSUME Wellformed, [Next]_vars PROVE [Live]_vars
  <2>1. CASE \A h \in Handlers : ~(CommitDecision(h) /\ CommitHolds(h))
    BY <1>1, <2>1, OnlyCommitsAccept
  <2>2. ASSUME NEW h \in Handlers, CommitDecision(h), CommitHolds(h) PROVE Live
    <3> DEFINE m == handler[h].msg
    <3>1. accepted' = accepted \cup {m}
      BY <2>2 DEF CommitDecision
    <3>2. /\ row[m.device].status = "ACTIVE" /\ row[m.device].attested
          /\ m.key = row[m.device].key
          /\ m.answer = "APPROVE" => m.attestKey = row[m.device].attestKey
          /\ {m.device, row[m.device].key, row[m.device].attestKey} \cap revocations = {}
      BY <2>2 DEF CommitHolds, Revoked
    <3>3. Signed(m)
      BY <1>1, <2>2 DEF Wellformed, Works, CommitDecision
    <3>4. NULL \notin revocations
      BY <1>1, ConstantsAssumption DEF Wellformed, TypeOK
    <3> HIDE DEF m
    <3>5. {m.device, m.key, m.attestKey} \cap revocations = {}
      BY <3>2, <3>3, <3>4 DEF Signed
    <3> QED
      BY <3>1, <3>2, <3>5
  <2> QED
    BY <2>1, <2>2
<1>2. Spec => [][Live]_vars
  BY <1>1, WellformedAlways, PTL DEF Spec
<1> QED
  BY <1>2 DEF DecidedUnderLiveAuthority

\* Within one enrolment the stored assertion counter never falls, in whatever order concurrent
\* approvals commit.
THEOREM CounterRises == Spec => CounterNeverFalls
<1> DEFINE Rises == \A d \in Devices : row'[d].gen = row[d].gen => row'[d].counter >= row[d].counter
<1>1. ASSUME Wellformed, [Next]_vars PROVE Rises
  <2> SUFFICES ASSUME NEW d \in Devices, row'[d].gen = row[d].gen
               PROVE  row'[d].counter >= row[d].counter
    OBVIOUS
  <2>1. row \in [Devices -> Row] /\ row[d] \in Row /\ row[d].counter \in Nat /\ row[d].gen \in Nat
    BY <1>1, ConstantsAssumption DEF Wellformed, TypeOK, Row
  <2>2. CASE UNCHANGED row
    BY <2>1, <2>2
  <2>3. ASSUME NEW h \in Handlers, CommitDecision(h), CommitHolds(h) PROVE row'[d].counter >= row[d].counter
    <3> DEFINE m == handler[h].msg
    <3>1. m \in Decision /\ m.counter \in Nat /\ m.device \in Devices
      BY <1>1, <2>3, ConstantsAssumption DEF Wellformed, TypeOK, Works, Signed, CommitDecision, Decision
    <3>2. row' = [row EXCEPT ![m.device] = [row[m.device] EXCEPT !.counter = NewCounter(row[m.device].counter, m)]]
      BY <2>3 DEF CommitDecision
    <3> HIDE DEF m
    <3>3. CASE d = m.device
      <4>1. row'[d].counter = NewCounter(row[d].counter, m)
        BY <2>1, <3>2, <3>3 DEF Row
      <4> QED
        BY <2>1, <3>1, <4>1 DEF NewCounter
    <3>4. CASE d # m.device
      BY <2>1, <3>2, <3>4
    <3> QED
      BY <3>3, <3>4
  <2>4. ASSUME NEW c \in Devices, NEW p \in ApprovalKeys, NEW k \in AttestKeys, BeginEnrollment(c, p, k)
        PROVE  row'[d].counter >= row[d].counter
    BY <2>1, <2>4 DEF BeginEnrollment
  <2>5. ASSUME NEW c \in Devices, FinalizeAttestation(c) PROVE row'[d].counter >= row[d].counter
    BY <2>1, <2>5 DEF FinalizeAttestation, Row
  <2>6. ASSUME NEW ids, Revoke(ids) PROVE row'[d].counter >= row[d].counter
    BY <2>1, <2>6 DEF Revoke, Row
  <2>7. \/ UNCHANGED row
        \/ \E h \in Handlers : CommitDecision(h) /\ CommitHolds(h)
        \/ DeviceStep
    <3>1. ASSUME NEW h \in Handlers, IssueStep(h) \/ Drop(h) PROVE UNCHANGED row
      BY <3>1 DEF IssueStep, Drop, IssueReadRequest, IssueReadDevice, IssueCheckRevoked, AddChallenge, deviceVars
    <3>2. ASSUME NEW h \in Handlers, SubmitStep(h)
          PROVE  UNCHANGED row \/ (CommitDecision(h) /\ CommitHolds(h))
      BY <3>2 DEF SubmitStep, SubmitReadDevice, SubmitCheckRevoked, SubmitReadRequest, CommitDecision, deviceVars
    <3>3. ASSUME NEW n \in Nonces, ChallengeExpires(n) \/ \E x \in {"APPROVE", "DENY"} : Sign(n, x)
          PROVE  UNCHANGED row
      BY <3>3 DEF ChallengeExpires, Sign, deviceVars
    <3>4. ASSUME NEW a \in Approvals, DeadlinePasses(a) \/ ExpireRequest(a) PROVE UNCHANGED row
      BY <3>4 DEF DeadlinePasses, ExpireRequest, deviceVars
    <3>5. CASE UNCHANGED vars
      BY <3>5 DEF vars
    <3> QED
      BY <1>1, <3>1, <3>2, <3>3, <3>4, <3>5 DEF Next
  <2> QED
    BY <2>2, <2>3, <2>4, <2>5, <2>6, <2>7 DEF DeviceStep, RevokeDevice, RevokeApprovalKey, RevokeAppAttestKey
<1>2. Spec => [][Rises]_vars
  BY <1>1, WellformedAlways, PTL DEF Spec
<1> QED
  BY <1>2 DEF CounterNeverFalls
=============================================================================
