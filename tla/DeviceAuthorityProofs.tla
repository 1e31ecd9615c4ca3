------------------------ MODULE DeviceAuthorityProofs ------------------------
(* What DeviceAuthority promises, for any number of devices, keys, tokens  *)
(* and handlers.                                                           *)
EXTENDS DeviceAuthority, TLAPS

\* A handler names what its step is about, and so does every challenge that was issued.
Held ==
    /\ \A h \in Handlers :
           /\ handler[h].pc = "begin" =>
                  /\ handler[h].device \in Devices
                  /\ handler[h].approvalKey \in ApprovalKeys
                  /\ handler[h].attestKey \in AttestKeys
           /\ handler[h].pc \in {"finalize", "fail"} =>
                  handler[h].enrollment \in Enrollments /\ handler[h].device \in Devices
    /\ \A e \in Enrollments :
           challenge[e].state # "NONE" => /\ challenge[e].device \in Devices
                                          /\ challenge[e].approvalKey \in ApprovalKeys
                                          /\ challenge[e].attestKey \in AttestKeys

Wellformed == TypeOK /\ Held

\* The steps that touch no table but the tokens.
Aside == UNCHANGED <<device, challenge, history, revocations>>

----------------------------------------------------------------------------
(* Type correctness.                                                       *)

LEMMA InitWellformed == Init => Wellformed
  BY ConstantsAssumption
  DEF Init, Wellformed, TypeOK, Held, NoDevice, NoChallenge, IdleHandler, DeviceRow, ChallengeRow,
      Handler

LEMMA IdleTyped == IdleHandler \in Handler /\ IdleHandler.pc = "idle"
  BY DEF IdleHandler, Handler

\* One handler moves on; what it holds is typed.
LEMMA HandlerMoves ==
    ASSUME Wellformed, NEW h \in Handlers, NEW x \in Handler, handler' = [handler EXCEPT ![h] = x],
           x.pc = "begin" => /\ x.device \in Devices
                             /\ x.approvalKey \in ApprovalKeys
                             /\ x.attestKey \in AttestKeys,
           x.pc \in {"finalize", "fail"} => x.enrollment \in Enrollments /\ x.device \in Devices,
           token' \in [Tokens -> {"UNMINTED", "OPEN", "CONSUMED", "EXPIRED"}],
           device' \in [Devices -> DeviceRow],
           challenge' \in [Enrollments -> ChallengeRow],
           \A e \in Enrollments :
               challenge'[e].state # "NONE" => /\ challenge'[e].device \in Devices
                                               /\ challenge'[e].approvalKey \in ApprovalKeys
                                               /\ challenge'[e].attestKey \in AttestKeys,
           history' \subseteq Devices \X ApprovalKeys \X AttestKeys,
           revocations' \subseteq Identities
    PROVE  Wellformed'
<1>1. handler' \in [Handlers -> Handler]
  BY DEF Wellformed, TypeOK
<1>2. ASSUME NEW g \in Handlers
      PROVE  /\ handler'[g].pc = "begin" =>
                    /\ handler'[g].device \in Devices
                    /\ handler'[g].approvalKey \in ApprovalKeys
                    /\ handler'[g].attestKey \in AttestKeys
             /\ handler'[g].pc \in {"finalize", "fail"} =>
                    handler'[g].enrollment \in Enrollments /\ handler'[g].device \in Devices
  BY DEF Wellformed, TypeOK, Held
<1> QED
  BY <1>1, <1>2 DEF Wellformed, TypeOK, Held

LEMMA TakeOverTyped ==
    ASSUME Wellformed, NEW h \in Handlers, NEW e \in Enrollments, handler[h].pc = "begin",
           TakeOver(h, e)
    PROVE  /\ device' \in [Devices -> DeviceRow]
           /\ challenge' \in [Enrollments -> ChallengeRow]
           /\ \A f \in Enrollments :
                  challenge'[f].state # "NONE" => /\ challenge'[f].device \in Devices
                                                  /\ challenge'[f].approvalKey \in ApprovalKeys
                                                  /\ challenge'[f].attestKey \in AttestKeys
<1> DEFINE r == handler[h]
           row == [status |-> "ACTIVE", attestation |-> "PENDING", approvalKey |-> r.approvalKey,
                   attestKey |-> r.attestKey, verifiedKey |-> NULL, enrollment |-> e]
           new == [state |-> "OPEN", expired |-> FALSE, device |-> r.device,
                   approvalKey |-> r.approvalKey, attestKey |-> r.attestKey, token |-> r.token]
<1>1. /\ r \in Handler
      /\ r.device \in Devices /\ r.approvalKey \in ApprovalKeys /\ r.attestKey \in AttestKeys
  BY DEF Wellformed, TypeOK, Held
<1>2. row \in DeviceRow
  BY <1>1 DEF DeviceRow
<1>3. new \in ChallengeRow
  BY <1>1 DEF ChallengeRow, Handler
<1>4. \A f \in Enrollments : /\ challenge[f] \in ChallengeRow
                             /\ [challenge[f] EXCEPT !.state = "SUPERSEDED"] \in ChallengeRow
  BY DEF Wellformed, TypeOK, ChallengeRow
<1>5. device' = [device EXCEPT ![r.device] = row]
  BY DEF TakeOver
<1>6. challenge' = [f \in Enrollments |->
          IF f = e THEN new
          ELSE IF challenge[f].device = r.device /\ challenge[f].state = "OPEN"
               THEN [challenge[f] EXCEPT !.state = "SUPERSEDED"]
               ELSE challenge[f]]
  BY DEF TakeOver
<1>7. device' \in [Devices -> DeviceRow]
  BY <1>2, <1>5 DEF Wellformed, TypeOK
<1>8. challenge' \in [Enrollments -> ChallengeRow]
  BY <1>3, <1>4, <1>6
<1>9. ASSUME NEW f \in Enrollments, challenge'[f].state # "NONE"
      PROVE  /\ challenge'[f].device \in Devices
             /\ challenge'[f].approvalKey \in ApprovalKeys
             /\ challenge'[f].attestKey \in AttestKeys
  <2>1. CASE f = e
    BY <1>1, <1>6, <2>1
  <2>2. CASE f # e
    <3>1. /\ challenge[f].state # "NONE"
          /\ challenge'[f].device = challenge[f].device
          /\ challenge'[f].approvalKey = challenge[f].approvalKey
          /\ challenge'[f].attestKey = challenge[f].attestKey
      BY <1>4, <1>6, <1>9, <2>2 DEF ChallengeRow
    <3> QED
      BY <3>1 DEF Wellformed, Held
  <2> QED
    BY <2>1, <2>2
<1> QED
  BY <1>7, <1>8, <1>9

LEMMA NextWellformed == Wellformed /\ [Next]_vars => Wellformed'
<1> SUFFICES ASSUME Wellformed, [Next]_vars PROVE Wellformed'
  OBVIOUS
<1>1. /\ token \in [Tokens -> {"UNMINTED", "OPEN", "CONSUMED", "EXPIRED"}]
      /\ device \in [Devices -> DeviceRow]
      /\ challenge \in [Enrollments -> ChallengeRow]
      /\ history \subseteq Devices \X ApprovalKeys \X AttestKeys
      /\ revocations \subseteq Identities
      /\ handler \in [Handlers -> Handler]
      /\ \A e \in Enrollments :
             challenge[e].state # "NONE" => /\ challenge[e].device \in Devices
                                            /\ challenge[e].approvalKey \in ApprovalKeys
                                            /\ challenge[e].attestKey \in AttestKeys
  BY DEF Wellformed, TypeOK, Held
<1> USE <1>1, IdleTyped
<1>2. ASSUME NEW k \in Tokens, MintToken(k) \/ TokenExpires(k) \/ RedeemMalformed(k)
      PROVE  Wellformed'
  BY <1>2 DEF MintToken, TokenExpires, RedeemMalformed, Wellformed, TypeOK, Held
<1>3. ASSUME NEW h \in Handlers, NEW k \in Tokens, NEW d \in Devices, NEW p \in ApprovalKeys,
             NEW a \in AttestKeys, Redeem(h, k, d, p, a)
      PROVE  Wellformed'
  <2> DEFINE next == [IdleHandler EXCEPT !.pc = "begin", !.token = k, !.device = d,
                                         !.approvalKey = p, !.attestKey = a]
  <2>1. /\ next \in Handler /\ next.pc = "begin"
        /\ next.device = d /\ next.approvalKey = p /\ next.attestKey = a
    BY DEF IdleHandler, Handler
  <2>2. handler' = [handler EXCEPT ![h] = next] /\ Aside
    BY <1>3 DEF Redeem, Aside
  <2>3. token' \in [Tokens -> {"UNMINTED", "OPEN", "CONSUMED", "EXPIRED"}]
    BY <1>3 DEF Redeem
  <2> HIDE DEF next
  <2> QED
    BY <2>1, <2>2, <2>3, HandlerMoves DEF Aside
<1>4. ASSUME NEW h \in Handlers, NEW e \in Enrollments, BeginEnrollment(h, e) PROVE Wellformed'
  <2>1. handler[h].pc = "begin" /\ handler' = [handler EXCEPT ![h] = IdleHandler]
    BY <1>4 DEF BeginEnrollment
  <2>2. CASE TakeOver(h, e)
    BY <1>4, <2>1, <2>2, TakeOverTyped, HandlerMoves DEF BeginEnrollment
  <2>3. CASE UNCHANGED <<device, challenge>>
    BY <1>4, <2>1, <2>3, HandlerMoves DEF BeginEnrollment
  <2> QED
    BY <1>4, <2>2, <2>3 DEF BeginEnrollment
<1>5. ASSUME NEW h \in Handlers, NEW e \in Enrollments, Attest(h, e) PROVE Wellformed'
  <2>1. challenge[e] \in ChallengeRow /\ challenge[e].device \in Devices
    BY <1>5 DEF Attest
  <2>2. PICK result \in {"finalize", "fail"} :
            handler' = [handler EXCEPT ![h] = [IdleHandler EXCEPT
                !.pc = result, !.enrollment = e, !.device = challenge[e].device,
                !.attestKey = challenge[e].attestKey]]
    BY <1>5 DEF Attest
  <2> DEFINE next == [IdleHandler EXCEPT !.pc = result, !.enrollment = e,
                          !.device = challenge[e].device, !.attestKey = challenge[e].attestKey]
  <2>3. /\ next \in Handler /\ next.pc = result
        /\ next.enrollment = e /\ next.device = challenge[e].device
    BY <2>1 DEF IdleHandler, Handler, ChallengeRow
  <2>4. handler' = [handler EXCEPT ![h] = next] /\ Aside /\ UNCHANGED token
    BY <1>5, <2>2 DEF Attest, Aside
  <2> HIDE DEF next
  <2> QED
    BY <2>1, <2>3, <2>4, HandlerMoves DEF Aside
<1>6. ASSUME NEW h \in Handlers, FinalizeAttestation(h) PROVE Wellformed'
  <2> DEFINE e == handler[h].enrollment
             d == challenge[e].device
             key == handler[h].attestKey
             proved == [device[d] EXCEPT !.attestation = "ATTESTED", !.verifiedKey = key]
             used == [challenge[e] EXCEPT !.state = "CONSUMED"]
  <2>1. e \in Enrollments /\ handler' = [handler EXCEPT ![h] = IdleHandler]
    BY <1>6 DEF FinalizeAttestation, Wellformed, Held
  <2>2. CASE ~FinalizeHolds(h)
    BY <1>6, <2>1, <2>2, HandlerMoves DEF FinalizeAttestation
  <2>3. CASE FinalizeHolds(h)
    <3>1. /\ d \in Devices /\ challenge[e].state # "NONE"
          /\ device[d].approvalKey \in ApprovalKeys /\ key \in AttestKeys
      BY <2>1, <2>3 DEF FinalizeHolds
    <3>2. proved \in DeviceRow
      <4>1. device[d] \in DeviceRow /\ key \in AttestKeys
        BY <3>1
      <4> HIDE DEF d, key
      <4> QED
        BY <4>1 DEF DeviceRow
    <3>3. used \in ChallengeRow
      BY <2>1 DEF ChallengeRow
    <3>4. device' = [device EXCEPT ![d] = proved] /\ challenge' = [challenge EXCEPT ![e] = used]
      BY <1>6, <2>3, <3>1, <2>1 DEF FinalizeAttestation, DeviceRow
    <3>5. history' \subseteq Devices \X ApprovalKeys \X AttestKeys
      BY <1>6, <2>3, <3>1 DEF FinalizeAttestation
    <3>6. \A f \in Enrollments : challenge'[f].state # "NONE" =>
              /\ challenge'[f].device \in Devices
              /\ challenge'[f].approvalKey \in ApprovalKeys
              /\ challenge'[f].attestKey \in AttestKeys
      BY <2>1, <3>1, <3>4 DEF ChallengeRow
    <3>7. device' \in [Devices -> DeviceRow] /\ challenge' \in [Enrollments -> ChallengeRow]
      BY <3>2, <3>3, <3>4
    <3> QED
      BY <1>6, <2>1, <3>5, <3>6, <3>7, HandlerMoves DEF FinalizeAttestation
  <2> QED
    BY <2>2, <2>3
<1>7. ASSUME NEW h \in Handlers, MarkFailed(h) PROVE Wellformed'
  <2> DEFINE d == handler[h].device
  <2>1. d \in Devices
    BY <1>7 DEF MarkFailed, Wellformed, Held
  <2>2. [device[d] EXCEPT !.attestation = "FAILED"] \in DeviceRow
    BY <2>1 DEF DeviceRow
  <2>3. device' = device \/ device' = [device EXCEPT ![d] = [device[d] EXCEPT !.attestation = "FAILED"]]
    BY <1>7 DEF MarkFailed
  <2>4. device' \in [Devices -> DeviceRow]
    BY <2>2, <2>3
  <2> QED
    BY <1>7, <2>4, HandlerMoves DEF MarkFailed
<1>8. ASSUME NEW h \in Handlers, Drop(h) PROVE Wellformed'
  BY <1>8, HandlerMoves DEF Drop
<1>9. ASSUME NEW e \in Enrollments, ChallengeExpires(e) PROVE Wellformed'
  <2>1. [challenge[e] EXCEPT !.expired = TRUE] \in ChallengeRow
    BY DEF ChallengeRow
  <2>2. challenge' = [challenge EXCEPT ![e] = [challenge[e] EXCEPT !.expired = TRUE]]
    BY <1>9 DEF ChallengeExpires
  <2>3. challenge' \in [Enrollments -> ChallengeRow]
    BY <2>1, <2>2
  <2>4. \A f \in Enrollments : challenge'[f].state # "NONE" =>
            /\ challenge'[f].device \in Devices
            /\ challenge'[f].approvalKey \in ApprovalKeys
            /\ challenge'[f].attestKey \in AttestKeys
    BY <2>2 DEF ChallengeRow
  <2> QED
    BY <1>9, <2>3, <2>4 DEF ChallengeExpires, Wellformed, TypeOK, Held
<1>10. ASSUME NEW ids \in SUBSET Identities, Revoke(ids) PROVE Wellformed'
  <2>1. \A d \in Devices : [device[d] EXCEPT !.status = "REVOKED"] \in DeviceRow
    BY DEF DeviceRow
  <2>2. device' \in [Devices -> DeviceRow] /\ revocations' \subseteq Identities
    BY <1>10, <2>1 DEF Revoke
  <2> QED
    BY <1>10, <2>2 DEF Revoke, Wellformed, TypeOK, Held
<1>11. ASSUME NEW d \in Devices PROVE IdentitiesOf(d) \cup HistoryOf(d) \in SUBSET Identities
  <2>1. IdentitiesOf(d) \subseteq Identities
    BY DEF IdentitiesOf, Identities, DeviceRow
  <2>2. ASSUME NEW x \in HistoryOf(d) PROVE x \in Identities
    BY <2>2 DEF HistoryOf, Identities
  <2> QED
    BY <2>1, <2>2
<1>12. CASE UNCHANGED vars
  BY <1>12 DEF vars, Wellformed, TypeOK, Held
<1>13. ASSUME NEW d \in Devices, RevokeDevice(d) PROVE Wellformed'
  BY <1>10, <1>11, <1>13 DEF RevokeDevice
<1>14. ASSUME NEW p \in ApprovalKeys, RevokeApprovalKey(p) PROVE Wellformed'
  BY <1>10, <1>14 DEF RevokeApprovalKey, Identities
<1>15. ASSUME NEW a \in AttestKeys, RevokeAppAttestKey(a) PROVE Wellformed'
  BY <1>10, <1>15 DEF RevokeAppAttestKey, Identities
<1> QED
  BY <1>2, <1>3, <1>4, <1>5, <1>6, <1>7, <1>8, <1>9, <1>12, <1>13, <1>14, <1>15 DEF Next

\* Every table and all that a handler holds keep their types.
THEOREM TypeCorrect == Spec => []TypeOK
<1>1. Wellformed => TypeOK
  BY DEF Wellformed
<1> QED
  BY <1>1, InitWellformed, NextWellformed, PTL DEF Spec

----------------------------------------------------------------------------
(* Authority.  The invariants below hold each other up: a trusted row was  *)
(* proved only if the challenge it was proved with was still its own.      *)

Authority ==
    /\ NoRevokedAuthority
    /\ TrustWasProved
    /\ OneLiveEnrolment
    /\ RevokedWithItsPast

LEMMA InitAuthority == Init => Authority
  BY DEF Init, Authority, NoRevokedAuthority, TrustWasProved, OneLiveEnrolment,
         RevokedWithItsPast, NoDevice, NoChallenge

LEMMA BeginAuthority ==
    ASSUME Wellformed, Authority, NEW h \in Handlers, NEW e \in Enrollments, BeginEnrollment(h, e)
    PROVE  Authority'
<1> DEFINE r == handler[h]
<1>1. CASE UNCHANGED <<device, challenge>>
  BY <1>1 DEF BeginEnrollment, Authority, NoRevokedAuthority, TrustWasProved, OneLiveEnrolment,
              RevokedWithItsPast, IdentitiesOf, HistoryOf
<1>2. ASSUME ~UNCHANGED <<device, challenge>> PROVE Authority'
  <2>1. /\ r.device \in Devices /\ r.approvalKey \in ApprovalKeys /\ r.attestKey \in AttestKeys
        /\ {r.device, r.approvalKey, r.attestKey} \cap revocations = {}
        /\ challenge[e].state = "NONE"
        /\ UNCHANGED <<history, revocations>>
    BY <1>2 DEF BeginEnrollment, Wellformed, Held
  <2>2. /\ device' = [device EXCEPT ![r.device] =
               [status |-> "ACTIVE", attestation |-> "PENDING", approvalKey |-> r.approvalKey,
                attestKey |-> r.attestKey, verifiedKey |-> NULL, enrollment |-> e]]
        /\ \A f \in Enrollments :
               challenge'[f] =
                   IF f = e
                   THEN [state |-> "OPEN", expired |-> FALSE, device |-> r.device,
                         approvalKey |-> r.approvalKey, attestKey |-> r.attestKey,
                         token |-> r.token]
                   ELSE IF challenge[f].device = r.device /\ challenge[f].state = "OPEN"
                        THEN [challenge[f] EXCEPT !.state = "SUPERSEDED"]
                        ELSE challenge[f]
    BY <1>2 DEF BeginEnrollment, TakeOver
  <2>3. device \in [Devices -> DeviceRow] /\ challenge \in [Enrollments -> ChallengeRow]
    BY DEF Wellformed, TypeOK
  <2>4. NoRevokedAuthority'
    <3> SUFFICES ASSUME NEW d \in Devices, device'[d].status = "ACTIVE"
                 PROVE  {d, device'[d].approvalKey, device'[d].attestKey} \cap revocations = {}
      BY <2>1 DEF NoRevokedAuthority, IdentitiesOf
    <3>1. NULL \notin revocations
      BY ConstantsAssumption DEF Wellformed, TypeOK
    <3>2. CASE d = r.device
      BY <2>1, <2>2, <2>3, <3>2
    <3>3. CASE d # r.device
      <4>1. device'[d] = device[d]
        BY <2>2, <2>3, <3>3
      <4> QED
        BY <3>1, <4>1 DEF Authority, NoRevokedAuthority, IdentitiesOf
    <3> QED
      BY <3>2, <3>3
  <2>5. TrustWasProved'
    <3> SUFFICES ASSUME NEW d \in Devices, device'[d].attestation = "ATTESTED"
                 PROVE  /\ device'[d].enrollment # NULL
                        /\ LET c == challenge'[device'[d].enrollment]
                           IN  /\ c.state = "CONSUMED" /\ c.device = d
                               /\ c.approvalKey = device'[d].approvalKey
                               /\ c.attestKey = device'[d].attestKey
                        /\ device'[d].verifiedKey = device'[d].attestKey
                        /\ <<d, device'[d].approvalKey, device'[d].attestKey>> \in history'
      BY DEF TrustWasProved
    <3>1. d # r.device /\ device'[d] = device[d]
      BY <2>1, <2>2, <2>3
    <3>2. /\ device[d].enrollment \in Enrollments
          /\ challenge[device[d].enrollment].state = "CONSUMED"
      BY <2>3, <3>1 DEF Authority, TrustWasProved, DeviceRow
    <3>3. challenge'[device[d].enrollment] = challenge[device[d].enrollment]
      BY <2>1, <2>2, <3>2
    <3> QED
      BY <2>1, <3>1, <3>3 DEF Authority, TrustWasProved
  <2>6. OneLiveEnrolment'
    <3> SUFFICES ASSUME NEW f \in Enrollments, challenge'[f].state = "OPEN"
                 PROVE  device'[challenge'[f].device].enrollment = f
      BY DEF OneLiveEnrolment
    <3>1. CASE f = e
      <4>1. challenge'[e].device = r.device
        <5>1. challenge'[e] = [state |-> "OPEN", expired |-> FALSE, device |-> r.device,
                               approvalKey |-> r.approvalKey, attestKey |-> r.attestKey,
                               token |-> r.token]
          BY <2>2, Zenon
        <5> QED
          BY <5>1
      <4>2. device'[r.device].enrollment = e
        <5>1. r.device \in DOMAIN device
          BY <2>1, <2>3
        <5> QED
          BY <2>2, <5>1
      <4> QED
        BY <3>1, <4>1, <4>2
    <3>2. CASE f # e
      <4>1. ~(challenge[f].device = r.device /\ challenge[f].state = "OPEN")
        BY <2>2, <2>3, <3>2 DEF ChallengeRow
      <4>2. challenge'[f] = challenge[f] /\ challenge[f].device # r.device
        BY <2>2, <3>2, <4>1
      <4>3. challenge[f].device \in Devices /\ device[challenge[f].device].enrollment = f
        BY <4>2 DEF Authority, OneLiveEnrolment, Wellformed, Held
      <4> QED
        BY <2>2, <2>3, <4>2, <4>3
    <3> QED
      BY <3>1, <3>2
  <2>7. RevokedWithItsPast'
    BY <2>1 DEF Authority, RevokedWithItsPast, HistoryOf
  <2> QED
    BY <2>4, <2>5, <2>6, <2>7 DEF Authority
<1> QED
  BY <1>1, <1>2

LEMMA FinalizeAuthority ==
    ASSUME Wellformed, Authority, NEW h \in Handlers, FinalizeAttestation(h)
    PROVE  Authority'
<1> DEFINE e == handler[h].enrollment
           d == challenge[e].device
           key == handler[h].attestKey
<1>1. CASE ~FinalizeHolds(h)
  BY <1>1 DEF FinalizeAttestation, Authority, NoRevokedAuthority, TrustWasProved, OneLiveEnrolment,
              RevokedWithItsPast, IdentitiesOf, HistoryOf
<1>2. CASE FinalizeHolds(h)
  <2>1. device \in [Devices -> DeviceRow] /\ challenge \in [Enrollments -> ChallengeRow]
    BY DEF Wellformed, TypeOK
  <2>2. e \in Enrollments
    BY DEF FinalizeAttestation, Wellformed, Held
  <2>3. /\ challenge[e].state = "OPEN" /\ d \in Devices /\ d \notin revocations
        /\ device[d].enrollment = e
        /\ device[d].approvalKey = challenge[e].approvalKey
        /\ device[d].attestKey = key /\ challenge[e].attestKey = key
        /\ device[d].status = "ACTIVE"
    BY <1>2, <2>2 DEF FinalizeHolds, Wellformed, Held
  <2>4. /\ device' = [device EXCEPT ![d] = [device[d] EXCEPT !.attestation = "ATTESTED",
                                                             !.verifiedKey = key]]
        /\ challenge' = [challenge EXCEPT ![e] = [challenge[e] EXCEPT !.state = "CONSUMED"]]
    <3>1. /\ device' = [device EXCEPT ![d].attestation = "ATTESTED", ![d].verifiedKey = key]
          /\ challenge' = [challenge EXCEPT ![e].state = "CONSUMED"]
      BY <1>2 DEF FinalizeAttestation
    <3>2. d \in Devices /\ device[d] \in DeviceRow
      BY <2>1, <2>3
    <3> HIDE DEF d, e, key
    <3> QED
      BY <2>1, <3>1, <3>2 DEF DeviceRow
  <2>5. /\ history' = history \cup {<<d, device[d].approvalKey, key>>}
        /\ UNCHANGED revocations
    BY <1>2 DEF FinalizeAttestation
  <2>6. \A x \in Devices : /\ device'[x].status = device[x].status
                           /\ device'[x].enrollment = device[x].enrollment
                           /\ device'[x].approvalKey = device[x].approvalKey
                           /\ device'[x].attestKey = device[x].attestKey
                           /\ x # d => device'[x] = device[x]
    BY <2>1, <2>3, <2>4 DEF DeviceRow
  <2>7. /\ device'[d].attestation = "ATTESTED" /\ device'[d].verifiedKey = key
        /\ challenge'[e].state = "CONSUMED"
        /\ \A f \in Enrollments : f # e => challenge'[f] = challenge[f]
        /\ \A f \in Enrollments : /\ challenge'[f].device = challenge[f].device
                                  /\ challenge'[f].approvalKey = challenge[f].approvalKey
                                  /\ challenge'[f].attestKey = challenge[f].attestKey
    BY <2>1, <2>2, <2>3, <2>4 DEF DeviceRow, ChallengeRow
  <2>8. NoRevokedAuthority'
    BY <2>5, <2>6 DEF Authority, NoRevokedAuthority, IdentitiesOf
  <2>9. TrustWasProved'
    <3> SUFFICES ASSUME NEW x \in Devices, device'[x].attestation = "ATTESTED"
                 PROVE  /\ device'[x].enrollment # NULL
                        /\ LET c == challenge'[device'[x].enrollment]
                           IN  /\ c.state = "CONSUMED" /\ c.device = x
                               /\ c.approvalKey = device'[x].approvalKey
                               /\ c.attestKey = device'[x].attestKey
                        /\ device'[x].verifiedKey = device'[x].attestKey
                        /\ <<x, device'[x].approvalKey, device'[x].attestKey>> \in history'
      BY DEF TrustWasProved
    <3>1. CASE x = d
      <4>1. e # NULL
        BY <2>2, ConstantsAssumption
      <4>2. device'[d].enrollment = e /\ device'[d].attestKey = key
        BY <2>3, <2>6
      <4>3. device'[d].approvalKey = challenge'[e].approvalKey /\ challenge'[e].attestKey = key
        BY <2>2, <2>3, <2>6, <2>7
      <4>4. <<d, device'[d].approvalKey, key>> \in history'
        BY <2>3, <2>5, <2>6
      <4>5. challenge'[e].device = d
        BY <2>2, <2>7
      <4> HIDE DEF d, e, key
      <4> QED
        BY <2>7, <3>1, <4>1, <4>2, <4>3, <4>4, <4>5
    <3>2. CASE x # d
      <4>1. device'[x] = device[x] /\ device[x].enrollment \in Enrollments
        BY <2>1, <2>6, <3>2 DEF Authority, TrustWasProved, DeviceRow
      <4>2. device[x].enrollment # e
        BY <2>3, <4>1 DEF Authority, TrustWasProved
      <4> QED
        BY <2>5, <2>7, <4>1, <4>2 DEF Authority, TrustWasProved
    <3> QED
      BY <3>1, <3>2
  <2>10. OneLiveEnrolment'
    <3> SUFFICES ASSUME NEW f \in Enrollments, challenge'[f].state = "OPEN"
                 PROVE  device'[challenge'[f].device].enrollment = f
      BY DEF OneLiveEnrolment
    <3>1. f # e /\ challenge'[f] = challenge[f] /\ challenge[f].device \in Devices
      BY <2>7 DEF Wellformed, Held
    <3> QED
      BY <2>6, <3>1 DEF Authority, OneLiveEnrolment
  <2>11. RevokedWithItsPast'
    <3>1. \A x \in Devices : x # d => HistoryOf(x)' = HistoryOf(x)
      BY <2>5 DEF HistoryOf
    <3> QED
      BY <2>3, <2>5, <3>1 DEF Authority, RevokedWithItsPast
  <2> QED
    BY <2>8, <2>9, <2>10, <2>11 DEF Authority
<1> QED
  BY <1>1, <1>2

\* A revocation may name keys alone, or a device with all its history.
LEMMA RevokeAuthority ==
    ASSUME Wellformed, Authority, NEW ids, Revoke(ids),
           \A d \in Devices : d \in ids => HistoryOf(d) \subseteq ids
    PROVE  Authority'
<1>1. /\ device \in [Devices -> DeviceRow]
      /\ \A d \in Devices : device'[d] = IF device[d].status # "NONE" /\ IdentitiesOf(d) \cap ids # {}
                                         THEN [device[d] EXCEPT !.status = "REVOKED"]
                                         ELSE device[d]
      /\ revocations' = revocations \cup ids
      /\ UNCHANGED <<challenge, history>>
  BY DEF Revoke, Wellformed, TypeOK
<1>2. \A d \in Devices : /\ device'[d].attestation = device[d].attestation
                         /\ device'[d].approvalKey = device[d].approvalKey
                         /\ device'[d].attestKey = device[d].attestKey
                         /\ device'[d].verifiedKey = device[d].verifiedKey
                         /\ device'[d].enrollment = device[d].enrollment
  BY <1>1 DEF DeviceRow
<1>3. NoRevokedAuthority'
  <2> SUFFICES ASSUME NEW d \in Devices, device'[d].status = "ACTIVE"
               PROVE  IdentitiesOf(d)' \cap revocations' = {}
    BY DEF NoRevokedAuthority
  <2>1. device'[d] = device[d] /\ IdentitiesOf(d) \cap ids = {}
    BY <1>1 DEF DeviceRow
  <2> QED
    BY <1>1, <2>1 DEF Authority, NoRevokedAuthority, IdentitiesOf
<1>4. TrustWasProved'
  BY <1>1, <1>2 DEF Authority, TrustWasProved
<1>5. OneLiveEnrolment'
  BY <1>1, <1>2 DEF Authority, OneLiveEnrolment, Wellformed, Held
<1>6. RevokedWithItsPast'
  BY <1>1 DEF Authority, RevokedWithItsPast, HistoryOf
<1> QED
  BY <1>3, <1>4, <1>5, <1>6 DEF Authority

LEMMA NextAuthority == Wellformed /\ Authority /\ [Next]_vars => Authority'
<1> SUFFICES ASSUME Wellformed, Authority, [Next]_vars PROVE Authority'
  OBVIOUS
<1>1. device \in [Devices -> DeviceRow] /\ challenge \in [Enrollments -> ChallengeRow]
  BY DEF Wellformed, TypeOK
<1>2. ASSUME Aside PROVE Authority'
  BY <1>2 DEF Aside, Authority, NoRevokedAuthority, TrustWasProved, OneLiveEnrolment,
              RevokedWithItsPast, IdentitiesOf, HistoryOf
<1>3. ASSUME NEW k \in Tokens, MintToken(k) \/ TokenExpires(k) \/ RedeemMalformed(k)
      PROVE  Authority'
  BY <1>2, <1>3 DEF MintToken, TokenExpires, RedeemMalformed, Aside
<1>4. ASSUME NEW h \in Handlers, NEW k \in Tokens, NEW d \in Devices, NEW p \in ApprovalKeys,
             NEW a \in AttestKeys, Redeem(h, k, d, p, a)
      PROVE  Authority'
  BY <1>2, <1>4 DEF Redeem, Aside
<1>5. ASSUME NEW h \in Handlers, NEW e \in Enrollments, Attest(h, e) PROVE Authority'
  BY <1>2, <1>5 DEF Attest, Aside
<1>6. ASSUME NEW h \in Handlers, Drop(h) PROVE Authority'
  BY <1>2, <1>6 DEF Drop, Aside
<1>7. ASSUME NEW h \in Handlers, MarkFailed(h) PROVE Authority'
  <2> DEFINE d == handler[h].device
  <2>1. /\ d \in Devices
        /\ device' = device \/ device' = [device EXCEPT ![d] = [device[d] EXCEPT !.attestation = "FAILED"]]
        /\ UNCHANGED <<challenge, history, revocations>>
    BY <1>7 DEF MarkFailed, Wellformed, Held
  <2>2. \A x \in Devices :
            /\ device'[x].status = device[x].status
            /\ device'[x].enrollment = device[x].enrollment
            /\ device'[x].approvalKey = device[x].approvalKey
            /\ device'[x].attestKey = device[x].attestKey
            /\ device'[x].verifiedKey = device[x].verifiedKey
            /\ device'[x].attestation = "ATTESTED" => device[x].attestation = "ATTESTED"
    BY <1>1, <2>1 DEF DeviceRow
  <2>3. TrustWasProved'
    BY <2>1, <2>2 DEF Authority, TrustWasProved
  <2>4. OneLiveEnrolment'
    BY <2>1, <2>2 DEF Authority, OneLiveEnrolment, Wellformed, Held
  <2> QED
    BY <2>1, <2>2, <2>3, <2>4 DEF Authority, NoRevokedAuthority, RevokedWithItsPast, IdentitiesOf,
                                  HistoryOf
<1>8. ASSUME NEW e \in Enrollments, ChallengeExpires(e) PROVE Authority'
  <2>1. challenge' = [challenge EXCEPT ![e] = [challenge[e] EXCEPT !.expired = TRUE]]
    BY <1>8 DEF ChallengeExpires
  <2>2. /\ UNCHANGED <<device, history, revocations>>
        /\ \A f \in Enrollments : /\ challenge'[f].state = challenge[f].state
                                  /\ challenge'[f].device = challenge[f].device
                                  /\ challenge'[f].approvalKey = challenge[f].approvalKey
                                  /\ challenge'[f].attestKey = challenge[f].attestKey
    BY <1>1, <1>8, <2>1 DEF ChallengeExpires, ChallengeRow
  <2>3. TrustWasProved'
    BY <1>1, <2>2 DEF Authority, TrustWasProved, DeviceRow
  <2> QED
    BY <2>2, <2>3 DEF Authority, NoRevokedAuthority, OneLiveEnrolment, RevokedWithItsPast,
                      IdentitiesOf, HistoryOf
<1>9. ASSUME NEW d \in Devices, RevokeDevice(d) PROVE Authority'
  <2>1. \A x \in Devices : x \in IdentitiesOf(d) \cup HistoryOf(d) => x = d
    <3>2. \A x \in Devices : x \in IdentitiesOf(d) => x = d
      BY <1>1, ConstantsAssumption DEF IdentitiesOf, DeviceRow, Identities
    <3>3. \A x \in HistoryOf(d) : x \in ApprovalKeys \cup AttestKeys
      BY DEF HistoryOf, Wellformed, TypeOK
    <3> QED
      BY <3>2, <3>3, ConstantsAssumption
  <2> QED
    BY <1>9, <2>1, RevokeAuthority DEF RevokeDevice
<1>10. ASSUME NEW p \in ApprovalKeys, RevokeApprovalKey(p) PROVE Authority'
  BY <1>10, RevokeAuthority, ConstantsAssumption DEF RevokeApprovalKey
<1>11. ASSUME NEW a \in AttestKeys, RevokeAppAttestKey(a) PROVE Authority'
  BY <1>11, RevokeAuthority, ConstantsAssumption DEF RevokeAppAttestKey
<1>12. CASE UNCHANGED vars
  BY <1>2, <1>12 DEF vars, Aside
<1> QED
  BY <1>3, <1>4, <1>5, <1>6, <1>7, <1>8, <1>9, <1>10, <1>11, <1>12, BeginAuthority,
     FinalizeAuthority
  DEF Next

LEMMA AuthorityKept == Spec => [](Wellformed /\ Authority)
<1>1. Init => Wellformed /\ Authority
  BY InitWellformed, InitAuthority
<1>2. (Wellformed /\ Authority) /\ [Next]_vars => (Wellformed /\ Authority)'
  BY NextWellformed, NextAuthority
<1> QED
  BY <1>1, <1>2, PTL DEF Spec

\* However revocations race enrolments, no row counts as ACTIVE with a revoked identity.
THEOREM RevocationReaches == Spec => []NoRevokedAuthority
  BY AuthorityKept, PTL DEF Authority

\* Every trusted row is backed by the challenge of its own enrolment.
THEOREM TrustProved == Spec => []TrustWasProved
  BY AuthorityKept, PTL DEF Authority

\* A challenge that can still be completed belongs to the enrolment that took the row over last.
THEOREM LiveEnrolment == Spec => []OneLiveEnrolment
  BY AuthorityKept, PTL DEF Authority

\* A revoked device takes every key it was ever trusted with along.
THEOREM PastRevoked == Spec => []RevokedWithItsPast
  BY AuthorityKept, PTL DEF Authority

\* Whatever is enrolled later, with whatever keys, a revoked row stays revoked.
THEOREM RevocationIsTerminal == Spec => RevokedIsTerminal
<1>1. Wellformed /\ [Next]_vars =>
          [\A d \in Devices : device[d].status = "REVOKED" => device'[d].status = "REVOKED"]_vars
  <2> SUFFICES ASSUME Wellformed, Next, NEW d \in Devices, device[d].status = "REVOKED"
               PROVE  device'[d].status = "REVOKED"
    OBVIOUS
  <2>1. device \in [Devices -> DeviceRow]
    BY DEF Wellformed, TypeOK
  <2>2. CASE device' = device
    BY <2>2
  <2>3. ASSUME NEW h \in Handlers, NEW e \in Enrollments, BeginEnrollment(h, e)
        PROVE  device'[d].status = "REVOKED"
    <3>1. CASE TakeOver(h, e) /\ device[handler[h].device].status # "REVOKED"
      BY <2>1, <3>1 DEF TakeOver
    <3>2. CASE UNCHANGED <<device, challenge>>
      BY <3>2
    <3> QED
      BY <2>3, <3>1, <3>2 DEF BeginEnrollment
  <2>4. ASSUME NEW h \in Handlers, MarkFailed(h) PROVE device'[d].status = "REVOKED"
    BY <2>1, <2>4 DEF MarkFailed, DeviceRow
  <2>6. ASSUME NEW h \in Handlers, FinalizeAttestation(h) PROVE device'[d].status = "REVOKED"
    <3> DEFINE c == challenge[handler[h].enrollment]
    <3>1. CASE FinalizeHolds(h)
      <4>1. device[c.device].status = "ACTIVE"
        BY <3>1 DEF FinalizeHolds
      <4>2. device'[d] = device[d]
        BY <2>1, <2>6, <3>1, <4>1 DEF FinalizeAttestation
      <4> QED
        BY <4>2
    <3>2. CASE ~FinalizeHolds(h)
      BY <2>6, <3>2 DEF FinalizeAttestation
    <3> QED
      BY <3>1, <3>2
  <2>5. ASSUME NEW ids, Revoke(ids) PROVE device'[d].status = "REVOKED"
    BY <2>1, <2>5 DEF Revoke, DeviceRow
  <2> QED
    BY <2>2, <2>3, <2>4, <2>5, <2>6
    DEF Next, MintToken, TokenExpires, RedeemMalformed, Redeem, Attest, Drop, ChallengeExpires,
        RevokeDevice, RevokeApprovalKey, RevokeAppAttestKey
<1> QED
  BY <1>1, InitWellformed, NextWellformed, PTL DEF Spec, RevokedIsTerminal

----------------------------------------------------------------------------
(* Tokens.  A spent token is carried by one handler that is about to begin *)
(* an enrolment, or by one challenge, and never by both.                   *)

Payment ==
    /\ \A e \in Enrollments :
           challenge[e].token # NULL => token[challenge[e].token] = "CONSUMED"
    /\ \A h \in Handlers : handler[h].pc = "begin" =>
           /\ handler[h].token \in Tokens
           /\ token[handler[h].token] = "CONSUMED"
           /\ \A e \in Enrollments : challenge[e].token # handler[h].token
    /\ \A g, h \in Handlers :
           handler[g].pc = "begin" /\ handler[h].pc = "begin" /\ handler[g].token = handler[h].token
           => g = h
    /\ TokenBindsOnce

LEMMA InitPayment == Init => Payment
  BY DEF Init, Payment, TokenBindsOnce, NoChallenge, IdleHandler

\* A step that begins no enrolment, spends no token and unspends none.
LEMMA PaymentStays ==
    ASSUME Payment, Wellformed, Wellformed',
           \A k \in Tokens : token[k] = "CONSUMED" => token'[k] = "CONSUMED",
           \A e \in Enrollments : challenge'[e].token = challenge[e].token,
           \A h \in Handlers : handler'[h].pc = "begin" => handler'[h] = handler[h]
    PROVE  Payment'
<1>1. \A e \in Enrollments : challenge[e].token \in Tokens \cup {NULL}
  BY DEF Wellformed, TypeOK, ChallengeRow
<1> QED
  BY <1>1 DEF Payment, TokenBindsOnce

LEMMA RedeemPayment ==
    ASSUME Payment, Wellformed, NEW h \in Handlers, NEW k \in Tokens, NEW d \in Devices,
           NEW p \in ApprovalKeys, NEW a \in AttestKeys, Redeem(h, k, d, p, a)
    PROVE  Payment'
<1>1. /\ token \in [Tokens -> {"UNMINTED", "OPEN", "CONSUMED", "EXPIRED"}]
      /\ handler \in [Handlers -> Handler]
      /\ \A e \in Enrollments : challenge[e].token \in Tokens \cup {NULL}
  BY DEF Wellformed, TypeOK, ChallengeRow
<1>2. /\ token[k] = "OPEN" /\ token' = [token EXCEPT ![k] = "CONSUMED"]
      /\ handler'[h].pc = "begin" /\ handler'[h].token = k
      /\ \A g \in Handlers \ {h} : handler'[g] = handler[g]
      /\ UNCHANGED challenge
  BY <1>1 DEF Redeem, IdleHandler
<1>3. \A e \in Enrollments : challenge[e].token # k
  BY <1>2, ConstantsAssumption DEF Payment
<1>4. \A g \in Handlers : handler[g].pc = "begin" => handler[g].token # k
  BY <1>2 DEF Payment
<1>5. \A j \in Tokens : token[j] = "CONSUMED" => token'[j] = "CONSUMED"
  BY <1>1, <1>2
<1>6. token'[k] = "CONSUMED"
  BY <1>1, <1>2
<1>7. ASSUME NEW g \in Handlers, handler'[g].pc = "begin"
      PROVE  /\ handler'[g].token \in Tokens
             /\ token'[handler'[g].token] = "CONSUMED"
             /\ \A e \in Enrollments : challenge'[e].token # handler'[g].token
  BY <1>2, <1>3, <1>5, <1>6, <1>7 DEF Payment
<1>8. ASSUME NEW g \in Handlers, NEW i \in Handlers, handler'[g].pc = "begin",
             handler'[i].pc = "begin", handler'[g].token = handler'[i].token
      PROVE  g = i
  BY <1>2, <1>4, <1>8 DEF Payment
<1>9. \A e \in Enrollments : challenge'[e].token # NULL => token'[challenge'[e].token] = "CONSUMED"
  BY <1>1, <1>2, <1>5 DEF Payment
<1> QED
  BY <1>2, <1>7, <1>8, <1>9 DEF Payment, TokenBindsOnce

LEMMA BeginPayment ==
    ASSUME Payment, Wellformed, Wellformed', NEW h \in Handlers, NEW e \in Enrollments,
           BeginEnrollment(h, e)
    PROVE  Payment'
<1>1. /\ handler \in [Handlers -> Handler] /\ handler[h].pc = "begin"
      /\ handler'[h].pc = "idle" /\ \A g \in Handlers \ {h} : handler'[g] = handler[g]
      /\ UNCHANGED token
  BY DEF BeginEnrollment, IdleHandler, Wellformed, TypeOK
<1>2. CASE UNCHANGED <<device, challenge>>
  BY <1>1, <1>2, PaymentStays
<1>3. CASE TakeOver(h, e)
  <2> DEFINE k == handler[h].token
  <2>1. /\ challenge'[e].token = k
        /\ \A f \in Enrollments \ {e} : challenge'[f].token = challenge[f].token
    BY <1>3 DEF TakeOver, Wellformed, TypeOK, ChallengeRow
  <2>2. /\ k \in Tokens /\ token[k] = "CONSUMED"
        /\ \A f \in Enrollments : challenge[f].token # k
        /\ \A g \in Handlers \ {h} : handler[g].pc = "begin" => handler[g].token # k
    BY <1>1 DEF Payment
  <2> HIDE DEF k
  <2>3. ASSUME NEW f \in Enrollments, challenge'[f].token # NULL
        PROVE  token'[challenge'[f].token] = "CONSUMED"
    BY <1>1, <2>1, <2>2, <2>3 DEF Payment
  <2>4. ASSUME NEW g \in Handlers, handler'[g].pc = "begin"
        PROVE  /\ handler'[g].token \in Tokens
               /\ token'[handler'[g].token] = "CONSUMED"
               /\ \A f \in Enrollments : challenge'[f].token # handler'[g].token
    BY <1>1, <2>1, <2>2, <2>4 DEF Payment
  <2>5. TokenBindsOnce'
    BY <2>1, <2>2 DEF Payment, TokenBindsOnce
  <2>6. \A g, i \in Handlers :
            handler'[g].pc = "begin" /\ handler'[i].pc = "begin"
            /\ handler'[g].token = handler'[i].token => g = i
    BY <1>1 DEF Payment
  <2> QED
    BY <2>3, <2>4, <2>5, <2>6 DEF Payment
<1> QED
  BY <1>2, <1>3 DEF BeginEnrollment

LEMMA NextPayment == Payment /\ Wellformed /\ Wellformed' /\ [Next]_vars => Payment'
<1> SUFFICES ASSUME Payment, Wellformed, Wellformed', [Next]_vars PROVE Payment'
  OBVIOUS
<1>1. /\ token \in [Tokens -> {"UNMINTED", "OPEN", "CONSUMED", "EXPIRED"}]
      /\ challenge \in [Enrollments -> ChallengeRow]
      /\ handler \in [Handlers -> Handler]
  BY DEF Wellformed, TypeOK
<1>2. ASSUME NEW k \in Tokens, MintToken(k) \/ TokenExpires(k) \/ RedeemMalformed(k)
      PROVE  Payment'
  BY <1>1, <1>2, PaymentStays DEF MintToken, TokenExpires, RedeemMalformed
<1>3. ASSUME NEW h \in Handlers, handler'[h].pc # "begin", UNCHANGED token,
             \A g \in Handlers \ {h} : handler'[g] = handler[g],
             \A e \in Enrollments : challenge'[e].token = challenge[e].token
      PROVE  Payment'
  BY <1>1, <1>3, PaymentStays
<1>4. ASSUME NEW h \in Handlers, NEW e \in Enrollments, Attest(h, e) PROVE Payment'
  <2>1. PICK result \in {"finalize", "fail"} :
            handler' = [handler EXCEPT ![h] = [IdleHandler EXCEPT
                !.pc = result, !.enrollment = e, !.device = challenge[e].device,
                !.attestKey = challenge[e].attestKey]]
    BY <1>4 DEF Attest
  <2>2. handler'[h].pc # "begin" /\ \A g \in Handlers \ {h} : handler'[g] = handler[g]
    BY <1>1, <2>1 DEF IdleHandler
  <2> QED
    BY <1>3, <1>4, <2>2 DEF Attest
<1>5. ASSUME NEW h \in Handlers, FinalizeAttestation(h) PROVE Payment'
  <2>1. \A e \in Enrollments : challenge'[e].token = challenge[e].token
    BY <1>1, <1>5 DEF FinalizeAttestation, ChallengeRow
  <2>2. handler'[h].pc # "begin" /\ \A g \in Handlers \ {h} : handler'[g] = handler[g]
    BY <1>1, <1>5 DEF FinalizeAttestation, IdleHandler
  <2> QED
    BY <1>3, <1>5, <2>1, <2>2 DEF FinalizeAttestation
<1>6. ASSUME NEW h \in Handlers, MarkFailed(h) \/ Drop(h) PROVE Payment'
  <2>1. handler'[h].pc # "begin" /\ \A g \in Handlers \ {h} : handler'[g] = handler[g]
    BY <1>1, <1>6 DEF MarkFailed, Drop, IdleHandler
  <2> QED
    BY <1>3, <1>6, <2>1 DEF MarkFailed, Drop
<1>7. ASSUME NEW e \in Enrollments, ChallengeExpires(e) PROVE Payment'
  <2>1. \A f \in Enrollments : challenge'[f].token = challenge[f].token
    BY <1>1, <1>7 DEF ChallengeExpires, ChallengeRow
  <2> QED
    BY <1>7, <2>1, PaymentStays DEF ChallengeExpires
<1>8. ASSUME NEW ids, Revoke(ids) PROVE Payment'
  BY <1>8, PaymentStays DEF Revoke
<1>9. CASE UNCHANGED vars
  BY <1>9, PaymentStays DEF vars
<1> QED
  BY <1>2, <1>4, <1>5, <1>6, <1>7, <1>8, <1>9, RedeemPayment, BeginPayment
  DEF Next, RevokeDevice, RevokeApprovalKey, RevokeAppAttestKey

\* However many handlers redeem at once, a pairing token pays for one enrolment at the most.
THEOREM TokenPaysOnce == Spec => []TokenBindsOnce
<1>1. Payment => TokenBindsOnce
  BY DEF Payment
<1> QED
  BY <1>1, InitWellformed, NextWellformed, InitPayment, NextPayment, PTL DEF Spec

----------------------------------------------------------------------------
(* Ownership.  An enrolment that begins is a new one, so that a row which  *)
(* keeps its enrolment was not taken over in that step.                    *)

Owned ==
    \A d \in Devices :
        device[d].enrollment # NULL => challenge[device[d].enrollment].state # "NONE"

LEMMA InitOwned == Init => Owned
  BY DEF Init, Owned, NoDevice

LEMMA NextOwned == Owned /\ Wellformed /\ [Next]_vars => Owned'
<1> SUFFICES ASSUME Owned, Wellformed, [Next]_vars PROVE Owned'
  OBVIOUS
<1>1. /\ device \in [Devices -> DeviceRow]
      /\ challenge \in [Enrollments -> ChallengeRow]
      /\ \A d \in Devices : device[d].enrollment \in Enrollments \cup {NULL}
  BY DEF Wellformed, TypeOK, DeviceRow
<1>2. ASSUME \A d \in Devices : device'[d].enrollment = device[d].enrollment,
             \A e \in Enrollments : challenge[e].state # "NONE" => challenge'[e].state # "NONE"
      PROVE  Owned'
  BY <1>1, <1>2 DEF Owned
<1>3. CASE UNCHANGED <<device, challenge>>
  BY <1>2, <1>3
<1>4. ASSUME NEW h \in Handlers, NEW e \in Enrollments, TakeOver(h, e) PROVE Owned'
  <2>1. /\ \A d \in Devices : device'[d].enrollment \in {e, device[d].enrollment}
        /\ challenge'[e].state = "OPEN"
        /\ \A f \in Enrollments : challenge[f].state # "NONE" => challenge'[f].state # "NONE"
    BY <1>1, <1>4 DEF TakeOver, ChallengeRow
  <2> QED
    BY <1>1, <2>1 DEF Owned
<1>5. ASSUME NEW h \in Handlers, FinalizeAttestation(h) PROVE Owned'
  <2>1. \A d \in Devices : device'[d].enrollment = device[d].enrollment
    BY <1>1, <1>5 DEF FinalizeAttestation, DeviceRow
  <2>2. \A e \in Enrollments : challenge[e].state # "NONE" => challenge'[e].state # "NONE"
    BY <1>1, <1>5 DEF FinalizeAttestation, ChallengeRow
  <2> QED
    BY <1>2, <2>1, <2>2
<1>6. ASSUME NEW h \in Handlers, MarkFailed(h) PROVE Owned'
  <2>1. \A d \in Devices : device'[d].enrollment = device[d].enrollment
    BY <1>1, <1>6 DEF MarkFailed, DeviceRow
  <2> QED
    BY <1>2, <1>6, <2>1 DEF MarkFailed
<1>7. ASSUME NEW e \in Enrollments, ChallengeExpires(e) PROVE Owned'
  <2>1. \A f \in Enrollments : challenge'[f].state = challenge[f].state
    BY <1>1, <1>7 DEF ChallengeExpires, ChallengeRow
  <2> QED
    BY <1>2, <1>7, <2>1 DEF ChallengeExpires
<1>8. ASSUME NEW ids, Revoke(ids) PROVE Owned'
  <2>1. \A d \in Devices : device'[d].enrollment = device[d].enrollment
    BY <1>1, <1>8 DEF Revoke, DeviceRow
  <2> QED
    BY <1>2, <1>8, <2>1 DEF Revoke
<1> QED
  BY <1>3, <1>4, <1>5, <1>6, <1>7, <1>8
  DEF Next, MintToken, TokenExpires, RedeemMalformed, Redeem, BeginEnrollment, Attest, Drop,
      RevokeDevice, RevokeApprovalKey, RevokeAppAttestKey, vars

\* A late answer of an enrolment that lost the device moves nothing: within one enrolment the
\* attestation status moves only in a call made for that very enrolment.
THEOREM OwnerDecides == Spec => OnlyTheOwnerDecides
<1> DEFINE Decided(d) ==
        /\ device'[d].attestation # device[d].attestation
        /\ device'[d].enrollment = device[d].enrollment
        => \E h \in Handlers :
               handler[h].enrollment = device[d].enrollment /\ handler'[h].pc = "idle"
<1>1. Owned /\ Wellformed /\ [Next]_vars => [\A d \in Devices : Decided(d)]_vars
  <2> SUFFICES ASSUME Owned, Wellformed, Next, NEW d \in Devices PROVE Decided(d)
    OBVIOUS
  <2>1. /\ device \in [Devices -> DeviceRow] /\ handler \in [Handlers -> Handler]
    BY DEF Wellformed, TypeOK
  <2>2. CASE device' = device
    BY <2>2
  <2>3. ASSUME NEW h \in Handlers, NEW e \in Enrollments, BeginEnrollment(h, e) PROVE Decided(d)
    <3>1. CASE TakeOver(h, e)
      <4>1. challenge[e].state = "NONE" /\ device[d].enrollment # e
        BY <2>3, ConstantsAssumption DEF BeginEnrollment, Owned
      <4>2. device'[d].enrollment = e \/ device'[d] = device[d]
        BY <2>1, <3>1 DEF TakeOver
      <4> QED
        BY <4>1, <4>2
    <3>2. CASE UNCHANGED <<device, challenge>>
      BY <3>2
    <3> QED
      BY <2>3, <3>1, <3>2 DEF BeginEnrollment
  <2>4. ASSUME NEW h \in Handlers, FinalizeAttestation(h) PROVE Decided(d)
    <3>1. handler'[h].pc = "idle"
      BY <2>1, <2>4 DEF FinalizeAttestation, IdleHandler
    <3>2. device'[d] = device[d] \/ device[d].enrollment = handler[h].enrollment
      BY <2>1, <2>4 DEF FinalizeAttestation, FinalizeHolds
    <3> QED
      BY <3>1, <3>2
  <2>5. ASSUME NEW h \in Handlers, MarkFailed(h) PROVE Decided(d)
    <3>1. handler'[h].pc = "idle"
      BY <2>1, <2>5 DEF MarkFailed, IdleHandler
    <3>2. device'[d] = device[d] \/ device[d].enrollment = handler[h].enrollment
      BY <2>1, <2>5 DEF MarkFailed
    <3> QED
      BY <3>1, <3>2
  <2>6. ASSUME NEW ids, Revoke(ids) PROVE Decided(d)
    BY <2>1, <2>6 DEF Revoke, DeviceRow
  <2> QED
    BY <2>2, <2>3, <2>4, <2>5, <2>6
    DEF Next, MintToken, TokenExpires, RedeemMalformed, Redeem, Attest, Drop, ChallengeExpires,
        RevokeDevice, RevokeApprovalKey, RevokeAppAttestKey
<1> QED
  BY <1>1, InitWellformed, NextWellformed, InitOwned, NextOwned, PTL DEF Spec, OnlyTheOwnerDecides
=============================================================================
