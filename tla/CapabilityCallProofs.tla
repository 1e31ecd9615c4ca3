------------------------ MODULE CapabilityCallProofs ------------------------
(***************************************************************************)
(* What CapabilityRouter lets happen, for any number of calls, requests,   *)
(* devices and capabilities: nothing without a human that the policy does  *)
(* not allow, nothing under a grant that was not measured on its device,   *)
(* and nothing under an approval but once and as it was shown.             *)
(*                                                                         *)
(* Sound says of one call what it may rely on at the step it has reached,  *)
(* Carried what has to stay true of an effect after it happened.           *)
(***************************************************************************)
EXTENDS CapabilityCall, SequenceTheorems, FiniteSetTheorems, TLAPS

Premises == ConstantsOK /\ RegistryOK

Targets == Worlds \cup {None}
Shown == (Origins \X Targets) \cup {None}
States == {"PENDING", "APPROVED", "DENIED", "EXPIRED", "EXECUTING", "CONSUMED", "FAILED"}
CallRec == [pc : Steps \cup {"idle", "done"}, in : Inputs \cup {None}, given : Nat, class : Classes,
            device : Targets, pre : BOOLEAN, shown : Shown, prev : Nat,
            status : {"none", "approval_drift", "not_approved"}, out : Outcomes \cup {"none"}]
ReqRec == [state : States, shown : Shown, confirmed : BOOLEAN]
EffectRec == [call : Calls, by : {"direct", "grant", "approval"}, device : Worlds, req : Nat]

\* What the policy asks of a call s of capability k that acts by itself.
MayAct(k, s, by) ==
    \/ s.class = "read_only" /\ k.reads /\ ~k.born /\ k.risk < 2
    \/ /\ s.in.authority /\ s.in.commanded /\ ~s.in.untrusted
       /\ s.in.origin \notin {"external_untrusted", "unspecified"}
       /\ ~k.born /\ k.registered # "very_critical"
       /\ s.in.origin = "background_automation" =>
            by = "grant" /\ s.class = "ha_normal" /\ k.risk < 2

Bound(g, device) == g # None /\ g.device = device

\* A call that waits for its automation was measured as a harmless change in the house.
Small(k, s) == s.class = "ha_normal" /\ k.risk < 2 /\ k.registered = "ha_normal" /\ ~k.born /\ ~k.reads

\* The call s may stand where it stands, given the requests rq and the grant g.
Sound(k, s, rq, g) ==
    /\ s \in CallRec
    /\ s.given \in DOMAIN rq \cup {0} /\ s.prev \in DOMAIN rq \cup {0}
    /\ s.pc \in Steps => s.in \in Inputs /\ (~k.reads \/ k.risk >= 2 => s.in.authority)
    /\ s.pc \in {"task", "grant"} => Small(k, s)
    /\ s.pc = "run" => MayAct(k, s, IF s.pre THEN "grant" ELSE "direct")
    /\ s.pc = "run" /\ s.pre => Bound(g, s.device)
    /\ s.pc \in {"probe", "drop", "claim", "exec"} => s.prev \in DOMAIN rq
    /\ s.pc \in {"claim", "exec"} => s.shown = rq[s.prev].shown
    /\ s.pc = "exec" => rq[s.prev].state = "EXECUTING"
    /\ s.pc = "drop" => s.status = "not_approved" \/ s.shown # rq[s.prev].shown

\* The effect e of the call s happened as it may.
Carried(k, e, s, rq, g) ==
    /\ s.pc = "done"
    /\ e.by # "approval" => MayAct(k, s, e.by)
    /\ e.by = "grant" => Bound(g, s.device)
    /\ e.by = "approval" => /\ e.req \in DOMAIN rq /\ rq[e.req].state \in {"CONSUMED", "FAILED"}
                            /\ s.shown = rq[e.req].shown

Typed ==
    /\ cap \in Caps /\ world \in Worlds
    /\ call \in [Calls -> CallRec]
    /\ req \in Seq(ReqRec) /\ effects \in Seq(EffectRec)
    /\ outstanding \in Requests \cup {0} /\ closing \in Requests \cup {0}
    /\ auto \in [running : BOOLEAN, grant : Grant \cup {None}]

\* Two calls never carry out the same request.
OneClaim == \A c, d \in Calls : call[c].pc = "exec" /\ call[d].pc = "exec" /\ c # d
                                  => call[c].prev # call[d].prev

OneEffect == \A n, m \in DOMAIN effects :
                effects[n].by = "approval" /\ effects[m].by = "approval" /\ n # m
                  => effects[n].req # effects[m].req

IInv ==
    /\ Typed
    /\ \A c \in Calls : Sound(cap, call[c], req, auto.grant)
    /\ \A n \in DOMAIN effects : Carried(cap, effects[n], call[effects[n].call], req, auto.grant)
    /\ OneClaim /\ OneEffect

-----------------------------------------------------------------------------
(* The policy.                                                             *)

\* A class the floor leaves harmless was harmless before; the strictest stays.
LEMMA FloorHolds ==
    ASSUME NEW k \in Classes, NEW risk \in Risks
    PROVE  /\ apply_floor(k, risk) \in Classes
           /\ apply_floor(k, risk) \in {"ha_normal", "read_only"} => apply_floor(k, risk) = k /\ risk < 2
           /\ k = "very_critical" => apply_floor(k, risk) = "very_critical"
  BY DEF apply_floor, RiskFloor, ClassRank, Classes, Risks

\* Who acts at once was commanded, or only reads; an automation that changes
\* something acts under a grant and on the house alone.
LEMMA DecideHolds ==
    ASSUME NEW o \in Origins, NEW k \in Classes, NEW commanded \in BOOLEAN,
           NEW untrusted \in BOOLEAN, NEW pre \in BOOLEAN,
           decide(o, k, commanded, untrusted, pre) \notin {"deny", "require_face_id"},
           k # "read_only"
    PROVE  /\ commanded /\ ~untrusted
           /\ o \notin {"external_untrusted", "unspecified"}
           /\ k \notin {"very_critical", "unclassified"}
           /\ o = "background_automation" => pre /\ k = "ha_normal"
<1>1. MATRIX(o, k) \in Decisions /\ MATRIX(o, "critical") \in Decisions
  BY DEF MATRIX, Decisions
<1>2. Overlay(o, k) \in {"deny", "require_face_id"}
  BY <1>1 DEF Overlay, stricter, Decisions
<1>3. commanded /\ ~untrusted
  BY <1>2 DEF decide
<1>4. \/ pre /\ o = "background_automation" /\ k = "ha_normal"
      \/ MATRIX(o, k) \notin {"deny", "require_face_id"}
  BY <1>3 DEF decide
<1>5. CASE MATRIX(o, k) \notin {"deny", "require_face_id"}
  <2>1. k \in Free(o)
    BY <1>5 DEF MATRIX
  <2> QED
    BY <2>1, <1>3 DEF Free, Origins, Classes
<1> QED
  BY <1>3, <1>4, <1>5 DEF Origins

\* Where a decision sends a call: only its place, class and grant change.
LEMMA DecidedHolds ==
    ASSUME NEW k, NEW rq, NEW g, NEW s, Sound(k, s, rq, g), s.in \in Inputs, Premises,
           s.pc \in Steps, NEW class \in Classes, NEW pre \in BOOLEAN,
           class = "read_only" => k.reads /\ ~k.born /\ k.risk < 2,
           class \notin {"read_only", "very_critical", "unclassified"} =>
               (~k.reads \/ k.risk >= 2) /\ ~k.born /\ k.registered # "very_critical",
           pre => Small(k, s) /\ class = "ha_normal" /\ Bound(g, s.device),
           class = "ha_normal" => k.risk < 2
    PROVE  Sound(k, Decided(s, class, pre), rq, g)
<1> DEFINE i == s.in
           d == decide(i.origin, class, i.commanded, i.untrusted, pre)
           t == Decided(s, class, pre)
<1>1. /\ s \in CallRec /\ s.given \in DOMAIN rq \cup {0} /\ s.prev \in DOMAIN rq \cup {0}
      /\ (~k.reads \/ k.risk >= 2) => i.authority
  BY DEF Sound
<1>2. /\ i.origin \in Origins /\ i.commanded \in BOOLEAN /\ i.untrusted \in BOOLEAN
      /\ i.authority \in BOOLEAN
  BY DEF Premises, ConstantsOK
<1>3. CASE d = "deny"
  <2>1. t = EndedAs(s, "rejected")
    BY <1>3 DEF Decided
  <2>2. /\ t \in CallRec /\ t.given = s.given /\ t.prev = s.prev /\ t.pc = "done"
    BY <2>1, <1>1 DEF EndedAs, CallRec, Outcomes
  <2> QED
    BY <2>2, <1>1 DEF Sound, Steps
<1>4. CASE d = "require_face_id"
  <2>1. t = [s EXCEPT !.pc = "describe", !.class = class, !.pre = FALSE]
    BY <1>4 DEF Decided
  <2>2. /\ t \in CallRec /\ t.given = s.given /\ t.prev = s.prev /\ t.pc = "describe" /\ t.in = s.in
    BY <2>1, <1>1 DEF CallRec, Steps
  <2> QED
    BY <2>2, <1>1 DEF Sound, Steps
<1>5. CASE d \notin {"deny", "require_face_id"}
  <2>1. t = [s EXCEPT !.pc = "run", !.class = class, !.pre = pre]
    BY <1>5 DEF Decided
  <2>2. /\ t \in CallRec /\ t.given = s.given /\ t.prev = s.prev /\ t.pc = "run" /\ t.in = s.in
        /\ t.class = class /\ t.pre = pre /\ t.device = s.device
    BY <2>1, <1>1 DEF CallRec, Steps
  <2>3. MayAct(k, t, IF t.pre THEN "grant" ELSE "direct")
    <3>1. CASE class = "read_only"
      BY <3>1, <2>2 DEF MayAct
    <3>2. CASE class # "read_only"
      <4>1. /\ i.commanded /\ ~i.untrusted /\ i.origin \notin {"external_untrusted", "unspecified"}
            /\ class \notin {"very_critical", "unclassified"}
            /\ i.origin = "background_automation" => pre /\ class = "ha_normal"
        BY <1>2, <1>5, <3>2, DecideHolds
      <4> QED
        BY <4>1, <3>2, <1>1, <2>2 DEF MayAct
    <3> QED
      BY <3>1, <3>2
  <2>4. t.pre => Bound(g, t.device)
    BY <2>2
  <2> QED
    BY <2>2, <2>3, <2>4, <1>1 DEF Sound, Steps
<1> QED
  BY <1>3, <1>4, <1>5

LEMMA MeasuredHolds ==
    ASSUME NEW k \in Caps, cap = k, NEW rq, NEW g, NEW s, Sound(k, s, rq, g), s.pc = "classify", Premises,
           NEW class \in Classes, NEW device \in Targets,
           \/ class = base_class(k.born, k.reads, k.registered)
           \/ k.classifier /\ class = "ha_normal"
    PROVE  Sound(k, Measured(s, class, device), rq, g)
<1> DEFINE i == s.in
           f == apply_floor(class, k.risk)
           u == [s EXCEPT !.device = device]
<1>1. /\ s \in CallRec /\ s.given \in DOMAIN rq \cup {0} /\ s.prev \in DOMAIN rq \cup {0}
      /\ s.pc \in Steps /\ i \in Inputs /\ ((~k.reads \/ k.risk >= 2) => i.authority)
  BY DEF Sound, Steps
<1>2. /\ k.risk \in Risks /\ k.registered \in Classes /\ k.born \in BOOLEAN /\ k.reads \in BOOLEAN
      /\ k.registered # "read_only" /\ (k.reads => k.registered # "very_critical")
      /\ k.classifier => k.registered = "ha_normal" /\ ~k.reads /\ ~k.born
  BY DEF Premises, ConstantsOK, RegistryOK
<1>3. /\ f \in Classes
      /\ f \in {"ha_normal", "read_only"} => f = class /\ k.risk < 2
      /\ class = "very_critical" => f = "very_critical"
  BY <1>2, FloorHolds
<1>4. f = "read_only" => k.reads /\ ~k.born /\ k.risk < 2
  BY <1>2, <1>3 DEF base_class
<1>5. f = "ha_normal" => k.registered = "ha_normal" /\ ~k.born /\ ~k.reads /\ k.risk < 2
  BY <1>2, <1>3 DEF base_class
<1>6. f \notin {"read_only", "very_critical", "unclassified"} =>
          (~k.reads \/ k.risk >= 2) /\ ~k.born /\ k.registered # "very_critical"
  <2>1. SUFFICES ASSUME f \notin {"read_only", "very_critical", "unclassified"}
        PROVE  (~k.reads \/ k.risk >= 2) /\ ~k.born /\ k.registered # "very_critical"
    OBVIOUS
  <2>2. class # "very_critical"
    BY <2>1, <1>3
  <2>3. ~k.born /\ k.registered # "very_critical"
    BY <2>2, <1>2 DEF base_class
  <2>4. k.risk \in {0, 1} => f = class
    BY <1>2 DEF apply_floor, RiskFloor, ClassRank, Classes
  <2>5. k.reads => class = "read_only"
    BY <1>2, <2>3 DEF base_class
  <2> QED
    BY <2>1, <2>3, <2>4, <2>5, <1>2 DEF Risks
<1>7. /\ u \in CallRec /\ u.given = s.given /\ u.prev = s.prev /\ u.in = s.in /\ u.pc = s.pc
      /\ u.shown = s.shown /\ u.device = device /\ u.class = s.class
  BY <1>1 DEF CallRec
<1>8. CASE i.auto /\ i.origin = "background_automation" /\ f = "ha_normal"
  <2> DEFINE t == [s EXCEPT !.pc = "task", !.class = f, !.device = device]
  <2>1. Measured(s, class, device) = t
    BY <1>8 DEF Measured
  <2>2. /\ t \in CallRec /\ t.given = s.given /\ t.prev = s.prev /\ t.in = s.in /\ t.pc = "task"
        /\ t.class = f
    BY <1>1, <1>3 DEF CallRec, Steps
  <2> QED
    BY <2>1, <2>2, <1>1, <1>5, <1>8 DEF Sound, Small, Steps
<1>9. CASE ~(i.auto /\ i.origin = "background_automation" /\ f = "ha_normal")
  <2>1. Measured(s, class, device) = Decided(u, f, FALSE)
    BY <1>9 DEF Measured
  <2>2. Sound(k, u, rq, g)
    BY <1>1, <1>7 DEF Sound
  <2> HIDE DEF u, f
  <2>3. Sound(k, Decided(u, f, FALSE), rq, g)
    BY <2>2, <1>1, <1>3, <1>4, <1>5, <1>6, <1>7, DecidedHolds DEF Steps
  <2> QED
    BY <2>1, <2>3
<1> QED
  BY <1>8, <1>9

-----------------------------------------------------------------------------
(* What a step may change without disturbing the other calls.              *)

\* Requests rq2 come after rq: none is gone or shows something else, and what
\* is settled stays; grants are bound for good.
Later(rq, rq2) ==
    /\ DOMAIN rq \subseteq DOMAIN rq2
    /\ \A r \in DOMAIN rq :
         /\ rq2[r].shown = rq[r].shown
         /\ rq[r].state \in {"CONSUMED", "FAILED"} => rq2[r].state = rq[r].state

Kept(g, g2) == \A device : Bound(g, device) => Bound(g2, device)

LEMMA SoundLater ==
    ASSUME NEW k, NEW s, NEW rq, NEW rq2, NEW g, NEW g2, Sound(k, s, rq, g),
           Later(rq, rq2), Kept(g, g2),
           s.pc = "exec" => rq2[s.prev].state = "EXECUTING"
    PROVE  Sound(k, s, rq2, g2)
  BY DEF Sound, Later, Kept

LEMMA CarriedLater ==
    ASSUME NEW k, NEW e, NEW s, NEW rq, NEW rq2, NEW g, NEW g2, Carried(k, e, s, rq, g),
           Later(rq, rq2), Kept(g, g2)
    PROVE  Carried(k, e, s, rq2, g2)
<1>1. e.by = "grant" => Bound(g2, s.device)
  BY DEF Carried, Kept
<1>2. e.by = "approval" => /\ e.req \in DOMAIN rq2 /\ rq2[e.req].state \in {"CONSUMED", "FAILED"}
                           /\ s.shown = rq2[e.req].shown
  BY DEF Carried, Later
<1> QED
  BY <1>1, <1>2 DEF Carried

\* One call goes on to s, and does at most one thing.
LEMMA StepKeeps ==
    ASSUME IInv, NEW c \in Calls, NEW s, Set(c, s), call[c].pc # "done",
           UNCHANGED <<cap, auto>>, world' \in Worlds,
           req' \in Seq(ReqRec), Later(req, req'),
           outstanding' \in Requests' \cup {0}, closing' \in Requests' \cup {0},
           \A d \in Calls \ {c} : call[d].pc = "exec" =>
               req'[call[d].prev].state = "EXECUTING" /\ (s.pc = "exec" => call[d].prev # s.prev),
           Sound(cap, s, req', auto.grant),
           \/ effects' = effects
           \/ \E e \in EffectRec :
                /\ effects' = Append(effects, e) /\ e.call = c
                /\ Carried(cap, e, s, req', auto.grant)
                /\ e.by = "approval" => req[e.req].state \notin {"CONSUMED", "FAILED"}
    PROVE  IInv'
<1>1. /\ call \in [Calls -> CallRec] /\ req \in Seq(ReqRec) /\ effects \in Seq(EffectRec)
      /\ cap \in Caps /\ auto \in [running : BOOLEAN, grant : Grant \cup {None}]
  BY DEF IInv, Typed
<1>2. s \in CallRec
  BY DEF Sound
<1>3. /\ call' \in [Calls -> CallRec] /\ call'[c] = s
      /\ \A d \in Calls \ {c} : call'[d] = call[d]
  BY <1>1, <1>2 DEF Set
<1>4. Kept(auto.grant, auto.grant)
  BY DEF Kept
<1>5. \A d \in Calls : Sound(cap, call'[d], req', auto.grant)
  <2>1. ASSUME NEW d \in Calls \ {c}
        PROVE  Sound(cap, call[d], req', auto.grant)
    <3>1. Sound(cap, call[d], req, auto.grant)
      BY DEF IInv
    <3>2. call[d].pc = "exec" => req'[call[d].prev].state = "EXECUTING"
      OBVIOUS
    <3> QED
      BY <3>1, <3>2, <1>4, SoundLater
  <2> QED
    BY <2>1, <1>3
<1>6. OneClaim'
  BY <1>3 DEF IInv, OneClaim
<1>7. \A n \in DOMAIN effects :
          /\ effects[n].call \in Calls
          /\ Carried(cap, effects[n], call'[effects[n].call], req', auto.grant)
  <2>1. TAKE n \in DOMAIN effects
  <2>2. effects[n] \in EffectRec
    BY <1>1
  <2>3. Carried(cap, effects[n], call[effects[n].call], req, auto.grant)
    BY DEF IInv
  <2>4. effects[n].call \in Calls /\ effects[n].call # c
    BY <2>2, <2>3 DEF Carried, EffectRec
  <2>5. Carried(cap, effects[n], call[effects[n].call], req', auto.grant)
    BY <2>3, <1>4, CarriedLater
  <2> QED
    BY <2>4, <2>5, <1>3
<1>8. CASE effects' = effects
  <2>1. Typed'
    BY <1>1, <1>3, <1>8 DEF Typed
  <2>2. OneEffect'
    BY <1>8 DEF IInv, OneEffect
  <2> QED
    BY <1>5, <1>6, <1>7, <1>8, <2>1, <2>2 DEF IInv
<1>9. ASSUME NEW e \in EffectRec, effects' = Append(effects, e), e.call = c,
             Carried(cap, e, s, req', auto.grant),
             e.by = "approval" => req[e.req].state \notin {"CONSUMED", "FAILED"}
      PROVE  IInv'
  <2>1. /\ effects' \in Seq(EffectRec)
        /\ DOMAIN effects' = DOMAIN effects \cup {Len(effects) + 1}
        /\ effects'[Len(effects) + 1] = e
        /\ \A n \in DOMAIN effects : effects'[n] = effects[n]
    BY <1>1, <1>9
  <2>2. Typed'
    BY <1>1, <1>3, <2>1 DEF Typed
  <2>3. \A n \in DOMAIN effects : effects[n].by = "approval" /\ e.by = "approval"
                                    => effects[n].req # e.req
    <3>1. \A n \in DOMAIN effects : effects[n].by = "approval" =>
              req[effects[n].req].state \in {"CONSUMED", "FAILED"}
      BY DEF IInv, Carried
    <3> QED
      BY <3>1, <1>9
  <2>4. OneEffect'
    BY <2>1, <2>3 DEF IInv, OneEffect
  <2>5. \A n \in DOMAIN effects' : Carried(cap, effects'[n], call'[effects'[n].call], req', auto.grant)
    BY <1>3, <1>7, <1>9, <2>1
  <2> QED
    BY <1>5, <1>6, <2>2, <2>4, <2>5 DEF IInv
<1> QED
  BY <1>8, <1>9

\* People, the automation, the world and a restart go on; calls at most get lost.
LEMMA AroundKeeps ==
    ASSUME IInv, UNCHANGED <<cap, effects>>, world' \in Worlds,
           call' \in [Calls -> CallRec],
           \A c \in Calls : \/ call'[c] = call[c]
                            \/ call[c].pc \in Steps /\ call'[c] = EndedAs(call[c], "lost"),
           req' \in Seq(ReqRec), Later(req, req'),
           \A r \in Requests : req[r].state = "EXECUTING" => req'[r].state = "EXECUTING",
           outstanding' \in Requests' \cup {0}, closing' \in Requests' \cup {0},
           auto' \in [running : BOOLEAN, grant : Grant \cup {None}], Kept(auto.grant, auto'.grant)
    PROVE  IInv'
<1>1. Typed'
  BY DEF IInv, Typed
<1>0. call \in [Calls -> CallRec] /\ effects \in Seq(EffectRec)
  BY DEF IInv, Typed
<1>2. \A c \in Calls : Sound(cap, call'[c], req', auto'.grant)
  <2>1. TAKE c \in Calls
  <2>2. Sound(cap, call[c], req, auto.grant)
    BY DEF IInv
  <2>3. call[c].pc = "exec" => req'[call[c].prev].state = "EXECUTING"
    BY <2>2 DEF Sound, Requests
  <2>4. Sound(cap, call[c], req', auto'.grant)
    BY <2>2, <2>3, SoundLater
  <2>5. CASE call'[c] = EndedAs(call[c], "lost")
    <3>1. /\ call'[c] \in CallRec /\ call'[c].pc = "done"
          /\ call'[c].given = call[c].given /\ call'[c].prev = call[c].prev
      BY <2>5, <2>4 DEF EndedAs, CallRec, Sound
    <3> QED
      BY <3>1, <2>4 DEF Sound, Steps
  <2> QED
    BY <2>4, <2>5
<1>3. \A c \in Calls : \/ call'[c] = call[c]
                       \/ call[c].pc \in Steps /\ call'[c].pc = "done"
  <2>1. TAKE c \in Calls
  <2>2. call[c] \in CallRec
    BY <1>0
  <2>3. EndedAs(call[c], "lost").pc = "done"
    BY <2>2 DEF EndedAs, CallRec
  <2>4. \/ call'[c] = call[c]
        \/ call[c].pc \in Steps /\ call'[c] = EndedAs(call[c], "lost")
    OBVIOUS
  <2> QED
    BY <2>3, <2>4
<1>4. \A n \in DOMAIN effects : Carried(cap, effects[n], call'[effects[n].call], req', auto'.grant)
  <2>1. TAKE n \in DOMAIN effects
  <2>2. Carried(cap, effects[n], call[effects[n].call], req, auto.grant)
    BY DEF IInv
  <2>4. effects[n] \in EffectRec
    BY <1>0
  <2>5. effects[n].call \in Calls
    BY <2>4 DEF EffectRec
  <2>3. call'[effects[n].call] = call[effects[n].call]
    BY <2>2, <2>5, <1>3 DEF Carried, Steps
  <2> QED
    BY <2>2, <2>3, CarriedLater
<1>5. OneClaim' /\ OneEffect'
  BY <1>3 DEF IInv, OneClaim, OneEffect
<1> QED
  BY <1>1, <1>2, <1>4, <1>5 DEF IInv

LEMMA EndedHolds ==
    ASSUME NEW k, NEW s, NEW rq, NEW g, Sound(k, s, rq, g), NEW o \in Outcomes
    PROVE  /\ Sound(k, EndedAs(s, o), rq, g)
           /\ EndedAs(s, o).pc = "done" /\ EndedAs(s, o).in = s.in /\ EndedAs(s, o).class = s.class
           /\ EndedAs(s, o).device = s.device /\ EndedAs(s, o).shown = s.shown
           /\ EndedAs(s, o).prev = s.prev
<1> DEFINE t == EndedAs(s, o)
<1>1. s \in CallRec
  BY DEF Sound
<1>2. /\ t \in CallRec /\ t.pc = "done" /\ t.in = s.in /\ t.class = s.class
      /\ t.device = s.device /\ t.shown = s.shown /\ t.prev = s.prev /\ t.given = s.given
  BY <1>1 DEF EndedAs, CallRec
<1> HIDE DEF t
<1>3. Sound(k, t, rq, g)
  BY <1>2 DEF Sound, Steps
<1> QED
  BY <1>2, <1>3 DEF t, EndedAs

\* A call moves on, and nothing else happens but that the note changes.
LEMMA MoveKeeps ==
    ASSUME IInv, NEW c \in Calls, NEW s, Set(c, s), call[c].pc # "done",
           UNCHANGED <<cap, closing, req, auto, world, effects>>,
           outstanding' \in Requests \cup {0},
           Sound(cap, s, req, auto.grant), s.pc # "exec"
    PROVE  IInv'
<1>1. /\ req' \in Seq(ReqRec) /\ world' \in Worlds /\ closing' \in Requests' \cup {0}
      /\ outstanding' \in Requests' \cup {0}
  BY DEF IInv, Typed, Requests
<1>2. Later(req, req')
  BY DEF Later
<1>3. \A d \in Calls \ {c} : call[d].pc = "exec" => req'[call[d].prev].state = "EXECUTING"
  BY DEF IInv, Sound
<1> QED
  BY <1>1, <1>2, <1>3, StepKeeps

LEMMA EndKeeps ==
    ASSUME IInv, NEW c \in Calls, NEW o \in Outcomes, Ends(c, o), call[c].pc # "done",
           UNCHANGED <<cap, closing, req, auto, world, effects>>,
           outstanding' \in Requests \cup {0}
    PROVE  IInv'
<1>1. Sound(cap, call[c], req, auto.grant)
  BY DEF IInv
<1>2. Sound(cap, EndedAs(call[c], o), req, auto.grant) /\ EndedAs(call[c], o).pc = "done"
  BY <1>1, EndedHolds
<1>3. Set(c, EndedAs(call[c], o))
  BY DEF Ends
<1> QED
  BY <1>2, <1>3, MoveKeeps

-----------------------------------------------------------------------------
(* The steps of a call.                                                    *)

LEMMA RequestKeeps ==
    ASSUME IInv, NEW c \in Calls, NEW i \in Inputs, NEW given \in Requests \cup {0},
           Premises, Request(c, i, given)
    PROVE  IInv'
<1> DEFINE needs == ~cap.reads \/ cap.risk >= 2
           s == [call[c] EXCEPT !.pc = "classify", !.in = i, !.given = given]
<1>1. /\ call[c].pc = "idle" /\ call[c].pc # "done"
      /\ UNCHANGED <<cap, closing, req, auto, world, effects>> /\ outstanding' = outstanding
  BY DEF Request, counters
<1>2. outstanding' \in Requests \cup {0} /\ req \in Seq(ReqRec)
  BY <1>1 DEF IInv, Typed
<1>3. Sound(cap, call[c], req, auto.grant)
  BY DEF IInv
<1>4. CASE needs /\ ~i.authority
  <2>1. Ends(c, "rejected")
    BY <1>4 DEF Request
  <2> QED
    BY <1>1, <1>2, <2>1, EndKeeps DEF Outcomes
<1>5. CASE ~(needs /\ ~i.authority)
  <2>1. Set(c, s)
    BY <1>5 DEF Request
  <2>2. /\ call[c] \in CallRec /\ given \in Nat
    BY <1>2, <1>3 DEF Sound, Requests
  <2>3. /\ s \in CallRec /\ s.pc = "classify" /\ s.in = i /\ s.given = given /\ s.prev = call[c].prev
    BY <2>2 DEF CallRec, Steps
  <2> HIDE DEF s
  <2>4. Sound(cap, s, req, auto.grant)
    BY <1>3, <1>5, <2>3 DEF Sound, Requests
  <2> QED
    BY <1>1, <1>2, <2>1, <2>3, <2>4, MoveKeeps
<1> QED
  BY <1>4, <1>5

LEMMA ClassifyKeeps ==
    ASSUME IInv, NEW c \in Calls, Premises, Classify(c)
    PROVE  IInv'
<1>1. /\ call[c].pc = "classify" /\ call[c].pc # "done" /\ call[c].pc \in Steps
      /\ UNCHANGED <<cap, closing, req, auto, world, effects>> /\ outstanding' = outstanding
  BY DEF Classify, counters, Steps
<1>2. outstanding' \in Requests \cup {0} /\ cap \in Caps /\ world \in Worlds
  BY <1>1 DEF IInv, Typed
<1>3. Sound(cap, call[c], req, auto.grant)
  BY DEF IInv
<1>4. call[c] \in CallRec /\ call[c].in \in Inputs
  BY <1>1, <1>3 DEF Sound
<1>5. ASSUME NEW class \in Classes, NEW device \in Targets, Set(c, Measured(call[c], class, device)),
             \/ class = base_class(cap.born, cap.reads, cap.registered)
             \/ cap.classifier /\ class = "ha_normal"
      PROVE  IInv'
  <2>1. Sound(cap, Measured(call[c], class, device), req, auto.grant)
    BY <1>1, <1>2, <1>3, <1>5, MeasuredHolds
  <2>2. Measured(call[c], class, device).pc # "exec"
    <3>1. \A s \in CallRec, k \in Classes : Decided(s, k, FALSE).pc # "exec"
      BY DEF Decided, CallRec, EndedAs
    <3>2. [call[c] EXCEPT !.device = device] \in CallRec
      BY <1>4 DEF CallRec
    <3>3. apply_floor(class, cap.risk) \in Classes
      BY <1>2, FloorHolds DEF Premises, ConstantsOK
    <3> QED
      BY <1>4, <3>1, <3>2, <3>3 DEF Measured, CallRec
  <2> QED
    BY <1>1, <1>2, <1>5, <2>1, <2>2, MoveKeeps
<1>6. CASE ~cap.classifier /\ Set(c, Measured(call[c], base_class(cap.born, cap.reads, cap.registered), None))
  <2>1. base_class(cap.born, cap.reads, cap.registered) \in Classes
    BY <1>2 DEF Premises, ConstantsOK, base_class, Classes
  <2> QED
    BY <1>5, <1>6, <2>1 DEF Targets
<1>7. CASE /\ cap.classifier /\ world \in Devices \ Locks
           /\ Set(c, Measured(call[c], "ha_normal", world))
  <2>1. "ha_normal" \in Classes /\ world \in Targets
    BY <1>2 DEF Classes, Targets
  <2> QED
    BY <1>5, <1>7, <2>1
<1>8. CASE \E o \in {"invalid", "rejected", "unavailable"} : Ends(c, o)
  BY <1>1, <1>2, <1>8, EndKeeps DEF Outcomes
<1>9. CASE Set(c, Decided(call[c], "unclassified", FALSE))
  <2>1. Sound(cap, Decided(call[c], "unclassified", FALSE), req, auto.grant)
    BY <1>1, <1>3, <1>4, DecidedHolds DEF Classes
  <2>2. Decided(call[c], "unclassified", FALSE).pc # "exec"
    BY <1>4 DEF Decided, CallRec, EndedAs
  <2> QED
    BY <1>1, <1>2, <1>9, <2>1, <2>2, MoveKeeps
<1> QED
  BY <1>6, <1>7, <1>8, <1>9 DEF Classify

\* A call in the house was made by somebody who may change something.
LEMMA WaitingDecided ==
    ASSUME NEW k, NEW s, NEW rq, NEW g, Sound(k, s, rq, g), Premises, s.pc \in {"task", "grant"},
           NEW pre \in BOOLEAN, pre => Bound(g, s.device)
    PROVE  Sound(k, Decided(s, s.class, pre), rq, g) /\ Decided(s, s.class, pre).pc # "exec"
<1>1. Small(k, s) /\ s \in CallRec /\ s.in \in Inputs /\ s.pc \in Steps
  BY DEF Sound, Steps
<1>2. s.class \in Classes
  BY <1>1 DEF CallRec
<1>3. Sound(k, Decided(s, s.class, pre), rq, g)
  BY <1>1, <1>2, DecidedHolds DEF Small
<1>4. Decided(s, s.class, pre).pc # "exec"
  BY <1>1 DEF Decided, EndedAs, CallRec
<1> QED
  BY <1>3, <1>4

LEMMA VerifyTaskKeeps ==
    ASSUME IInv, NEW c \in Calls, Premises, VerifyTask(c)
    PROVE  IInv'
<1>1. /\ call[c].pc = "task" /\ call[c].pc # "done"
      /\ UNCHANGED <<cap, closing, req, auto, world, effects>> /\ outstanding' = outstanding
  BY DEF VerifyTask, counters
<1>2. outstanding' \in Requests \cup {0} /\ Sound(cap, call[c], req, auto.grant)
  BY <1>1 DEF IInv, Typed
<1>3. CASE auto.running
  <2> DEFINE s == At(c, "grant")
  <2>1. Set(c, s)
    BY <1>3 DEF VerifyTask
  <2>2. call[c] \in CallRec
    BY <1>2 DEF Sound
  <2>3. /\ s \in CallRec /\ s.pc = "grant" /\ s.in = call[c].in /\ s.class = call[c].class
        /\ s.given = call[c].given /\ s.prev = call[c].prev
    BY <2>2 DEF At, CallRec, Steps
  <2> HIDE DEF s
  <2>4. Sound(cap, s, req, auto.grant)
    BY <1>1, <1>2, <2>3 DEF Sound, Steps, Small
  <2> QED
    BY <1>1, <1>2, <2>1, <2>3, <2>4, MoveKeeps
<1>4. CASE ~auto.running
  <2>1. Set(c, Decided(call[c], call[c].class, FALSE))
    BY <1>4 DEF VerifyTask
  <2>2. /\ Sound(cap, Decided(call[c], call[c].class, FALSE), req, auto.grant)
        /\ Decided(call[c], call[c].class, FALSE).pc # "exec"
    BY <1>1, <1>2, WaitingDecided
  <2> QED
    BY <1>1, <1>2, <2>1, <2>2, MoveKeeps
<1> QED
  BY <1>3, <1>4

LEMMA VerifyGrantKeeps ==
    ASSUME IInv, NEW c \in Calls, Premises, VerifyGrant(c)
    PROVE  IInv'
<1> DEFINE pre == Carries(auto.grant, call[c].device)
<1>1. /\ call[c].pc = "grant" /\ call[c].pc # "done"
      /\ UNCHANGED <<cap, closing, req, auto, world, effects>> /\ outstanding' = outstanding
      /\ Set(c, Decided(call[c], call[c].class, pre))
  BY DEF VerifyGrant, counters
<1>2. outstanding' \in Requests \cup {0} /\ Sound(cap, call[c], req, auto.grant)
  BY <1>1 DEF IInv, Typed
<1>3. pre \in BOOLEAN /\ (pre => Bound(auto.grant, call[c].device))
  BY DEF Carries, Bound
<1>4. /\ Sound(cap, Decided(call[c], call[c].class, pre), req, auto.grant)
      /\ Decided(call[c], call[c].class, pre).pc # "exec"
  BY <1>1, <1>2, <1>3, WaitingDecided
<1> QED
  BY <1>1, <1>2, <1>4, MoveKeeps

LEMMA RunKeeps ==
    ASSUME IInv, NEW c \in Calls, Run(c)
    PROVE  IInv'
<1>1. /\ call[c].pc = "run" /\ call[c].pc # "done" /\ call[c].pc # "exec"
      /\ UNCHANGED <<cap, closing, req, auto, world>> /\ outstanding' = outstanding
  BY DEF Run, counters
<1>2. /\ outstanding' \in Requests \cup {0} /\ Sound(cap, call[c], req, auto.grant)
      /\ req \in Seq(ReqRec) /\ world \in Worlds /\ closing \in Requests \cup {0}
  BY <1>1 DEF IInv, Typed
<1>3. CASE \E o \in Unclear \cup {"unavailable", "invalid", "rejected"} : Ends(c, o) /\ UNCHANGED effects
  BY <1>1, <1>2, <1>3, EndKeeps DEF Outcomes, Unclear
<1>4. ASSUME NEW o \in Unclear \cup {"success"}, Ends(c, o),
             Happens(c, IF call[c].pre THEN "grant" ELSE "direct")
      PROVE  IInv'
  <2> DEFINE by == IF call[c].pre THEN "grant" ELSE "direct"
             e == [call |-> c, by |-> by, device |-> world, req |-> call[c].prev]
             s == EndedAs(call[c], o)
  <2>1. o \in Outcomes
    BY DEF Outcomes, Unclear
  <2>2. /\ Sound(cap, s, req, auto.grant) /\ s.pc = "done" /\ s.in = call[c].in
        /\ s.class = call[c].class /\ s.device = call[c].device
    BY <1>2, <2>1, EndedHolds
  <2>3. call[c].prev \in Nat /\ call[c].pre \in BOOLEAN
    BY <1>2 DEF Sound, CallRec
  <2>4. e \in EffectRec /\ effects' = Append(effects, e) /\ e.call = c /\ e.by = by
    BY <1>2, <1>4, <2>3 DEF EffectRec, Happens
  <2>5. MayAct(cap, call[c], by) /\ (by = "grant" => Bound(auto.grant, call[c].device))
    BY <1>1, <1>2, <2>3 DEF Sound
  <2>6. by # "approval"
    OBVIOUS
  <2>7. Set(c, s)
    BY <1>4 DEF Ends
  <2> HIDE DEF s, e, by
  <2>8. Carried(cap, e, s, req', auto.grant)
    BY <1>1, <2>2, <2>4, <2>5, <2>6 DEF Carried, MayAct
  <2>9. /\ Later(req, req') /\ world' \in Worlds /\ req' \in Seq(ReqRec)
        /\ outstanding' \in Requests' \cup {0} /\ closing' \in Requests' \cup {0}
    BY <1>1, <1>2 DEF Later, Requests
  <2>10. \A d \in Calls \ {c} : call[d].pc = "exec" =>
             req'[call[d].prev].state = "EXECUTING" /\ (s.pc = "exec" => call[d].prev # s.prev)
    BY <1>1, <2>2 DEF IInv, Sound
  <2>11. Sound(cap, s, req', auto.grant)
    BY <1>1, <2>2
  <2>12. \E f \in EffectRec :
           /\ effects' = Append(effects, f) /\ f.call = c
           /\ Carried(cap, f, s, req', auto.grant)
           /\ f.by = "approval" => req[f.req].state \notin {"CONSUMED", "FAILED"}
    BY <2>4, <2>6, <2>8
  <2> QED
    BY <1>1, <2>7, <2>9, <2>10, <2>11, <2>12, StepKeeps
<1> QED
  BY <1>3, <1>4 DEF Run

LEMMA DescribeKeeps ==
    ASSUME IInv, NEW c \in Calls, Premises, Describe(c)
    PROVE  IInv'
<1> DEFINE shown == <<call[c].in.origin, IF cap.describer THEN world ELSE None>>
           given == call[c].given
           s == [call[c] EXCEPT !.pc = "probe", !.prev = given, !.shown = shown]
           t == [call[c] EXCEPT !.pc = IF outstanding = 0 THEN "ask" ELSE "probe",
                                !.prev = outstanding, !.shown = shown]
<1>1. /\ call[c].pc = "describe" /\ call[c].pc # "done"
      /\ UNCHANGED <<cap, closing, req, auto, world, effects>>
  BY DEF Describe, counters
<1>2. /\ outstanding \in Requests \cup {0} /\ Sound(cap, call[c], req, auto.grant)
      /\ req \in Seq(ReqRec) /\ world \in Worlds /\ cap \in Caps
  BY DEF IInv, Typed
<1>3. /\ call[c] \in CallRec /\ call[c].in \in Inputs /\ given \in Requests \cup {0}
      /\ outstanding \in Nat /\ given \in Nat
  BY <1>1, <1>2 DEF Sound, Steps, Requests
<1>4. shown \in Shown
  <2>1. call[c].in.origin \in Origins
    BY <1>3 DEF Premises, ConstantsOK
  <2>2. (IF cap.describer THEN world ELSE None) \in Targets
    BY <1>2 DEF Targets
  <2> QED
    BY <2>1, <2>2 DEF Shown
<1> HIDE DEF shown
<1>5. CASE (\E o \in {"invalid", "rejected"} : Ends(c, o)) /\ UNCHANGED outstanding
  BY <1>1, <1>2, <1>5, EndKeeps DEF Outcomes
<1>6. CASE given # 0 /\ outstanding' = 0 /\ Set(c, s)
  <2>1. /\ s \in CallRec /\ s.pc = "probe" /\ s.in = call[c].in /\ s.prev = given /\ s.given = given
    BY <1>3, <1>4 DEF CallRec, Steps
  <2> HIDE DEF s
  <2>2. Sound(cap, s, req, auto.grant)
    BY <1>1, <1>2, <1>3, <1>6, <2>1 DEF Sound, Steps, Requests
  <2> QED
    BY <1>1, <1>6, <2>1, <2>2, MoveKeeps
<1>7. CASE Set(c, t) /\ UNCHANGED outstanding
  <2>1. /\ t \in CallRec /\ t.pc \in {"ask", "probe"} /\ (t.pc = "probe" => outstanding # 0)
        /\ t.in = call[c].in /\ t.prev = outstanding /\ t.given = given
    BY <1>3, <1>4 DEF CallRec, Steps
  <2> HIDE DEF t
  <2>2. Sound(cap, t, req, auto.grant)
    BY <1>1, <1>2, <1>3, <2>1 DEF Sound, Steps, Requests
  <2>3. outstanding' \in Requests \cup {0} /\ t.pc # "exec"
    BY <1>2, <1>7, <2>1
  <2> QED
    BY <1>1, <1>7, <2>2, <2>3, MoveKeeps
<1> QED
  BY <1>5, <1>6, <1>7 DEF Describe, shown

\* A call about a request withdraws it, or goes on.
Dropping(s, status) == [s EXCEPT !.pc = "drop", !.status = status]
Claiming(s) == [s EXCEPT !.pc = "claim"]

LEMMA AboutRequest ==
    ASSUME NEW k, NEW s, NEW rq, NEW g, Sound(k, s, rq, g), s.pc \in {"probe", "claim"},
           NEW status \in {"approval_drift", "not_approved"},
           status = "not_approved" \/ s.shown # rq[s.prev].shown
    PROVE  /\ Sound(k, Dropping(s, status), rq, g) /\ Dropping(s, status).pc # "exec"
<1> DEFINE t == Dropping(s, status)
<1>1. s \in CallRec
  BY DEF Sound
<1>2. /\ t \in CallRec /\ t.pc = "drop" /\ t.in = s.in /\ t.prev = s.prev /\ t.given = s.given
      /\ t.status = status /\ t.shown = s.shown
  BY <1>1 DEF CallRec, Steps, Dropping
<1> HIDE DEF t
<1>3. Sound(k, t, rq, g)
  BY <1>2 DEF Sound, Steps
<1> QED
  BY <1>2, <1>3 DEF t

LEMMA AboutClaim ==
    ASSUME NEW k, NEW s, NEW rq, NEW g, Sound(k, s, rq, g), s.pc = "probe",
           s.shown = rq[s.prev].shown
    PROVE  Sound(k, Claiming(s), rq, g) /\ Claiming(s).pc # "exec"
<1> DEFINE u == Claiming(s)
<1>1. s \in CallRec
  BY DEF Sound
<1>2. /\ u \in CallRec /\ u.pc = "claim" /\ u.in = s.in /\ u.prev = s.prev /\ u.given = s.given
      /\ u.shown = s.shown
  BY <1>1 DEF CallRec, Steps, Claiming
<1> HIDE DEF u
<1>3. Sound(k, u, rq, g)
  BY <1>2 DEF Sound, Steps
<1> QED
  BY <1>2, <1>3 DEF u

LEMMA NotUsableKeeps ==
    ASSUME IInv, NEW c \in Calls, call[c].pc \in {"probe", "claim"},
           NEW status \in {"approval_drift", "not_approved"}, NotUsable(c, status),
           status = "not_approved" \/ call[c].shown # req[call[c].prev].shown,
           UNCHANGED <<cap, closing, req, auto, world, effects>>
    PROVE  IInv'
<1>1. outstanding \in Requests \cup {0} /\ Sound(cap, call[c], req, auto.grant) /\ call[c].pc # "done"
  BY DEF IInv, Typed
<1>2. CASE call[c].given # 0
  BY <1>1, <1>2, EndKeeps DEF NotUsable, Outcomes
<1>3. CASE call[c].given = 0
  <2> DEFINE t == Dropping(call[c], status)
  <2>1. Set(c, t) /\ outstanding' = 0
    BY <1>3 DEF NotUsable, Dropping
  <2>2. Sound(cap, t, req, auto.grant) /\ t.pc # "exec"
    BY <1>1, AboutRequest
  <2> QED
    BY <1>1, <2>1, <2>2, MoveKeeps
<1> QED
  BY <1>2, <1>3

LEMMA ProbeKeeps ==
    ASSUME IInv, NEW c \in Calls, Probe(c)
    PROVE  IInv'
<1> DEFINE r == req[call[c].prev]
<1>1. /\ call[c].pc = "probe" /\ call[c].pc # "done"
      /\ UNCHANGED <<cap, closing, req, auto, world, effects>>
  BY DEF Probe, counters
<1>2. outstanding \in Requests \cup {0} /\ Sound(cap, call[c], req, auto.grant)
  BY DEF IInv, Typed
<1>3. CASE r.state = "DENIED"
  <2>1. Ends(c, "rejected") /\ outstanding' = 0
    BY <1>3 DEF Probe, Answered
  <2> QED
    BY <1>1, <2>1, EndKeeps DEF Outcomes
<1>4. CASE r.state # "DENIED" /\ r.shown # call[c].shown
  <2>1. NotUsable(c, "approval_drift") /\ call[c].shown # req[call[c].prev].shown
    BY <1>4 DEF Probe
  <2> QED
    BY <1>1, <2>1, NotUsableKeeps
<1>5. CASE r.state # "DENIED" /\ r.shown = call[c].shown
  <2>1. Set(c, Claiming(call[c])) /\ UNCHANGED outstanding
    BY <1>5 DEF Probe, At, Claiming
  <2>2. Sound(cap, Claiming(call[c]), req, auto.grant) /\ Claiming(call[c]).pc # "exec"
    BY <1>1, <1>2, <1>5, AboutClaim
  <2> QED
    BY <1>1, <1>2, <2>1, <2>2, MoveKeeps
<1> QED
  BY <1>3, <1>4, <1>5

\* One request changes its state, shows what it showed, and was not settled.
Put(rq, r, x) == [rq EXCEPT ![r] = x]

LEMMA RequestChanges ==
    ASSUME NEW rq \in Seq(ReqRec), NEW r \in DOMAIN rq, NEW x \in ReqRec,
           x.shown = rq[r].shown, rq[r].state \notin {"CONSUMED", "FAILED"}
    PROVE  /\ Put(rq, r, x) \in Seq(ReqRec) /\ DOMAIN Put(rq, r, x) = DOMAIN rq
           /\ Later(rq, Put(rq, r, x)) /\ Put(rq, r, x)[r] = x
           /\ \A q \in DOMAIN rq \ {r} : Put(rq, r, x)[q] = rq[q]
<1> DEFINE rq2 == Put(rq, r, x)
<1>1. /\ rq2 \in Seq(ReqRec) /\ DOMAIN rq2 = DOMAIN rq /\ rq2[r] = x
      /\ \A q \in DOMAIN rq \ {r} : rq2[q] = rq[q]
  BY DEF Put
<1> HIDE DEF rq2
<1>2. Later(rq, rq2)
  BY <1>1 DEF Later
<1> QED
  BY <1>1, <1>2 DEF rq2

LEMMA ClaimKeeps ==
    ASSUME IInv, NEW c \in Calls, Claim(c)
    PROVE  IInv'
<1> DEFINE r == call[c].prev
           x == [req[r] EXCEPT !.state = "EXECUTING", !.confirmed = FALSE]
           s == At(c, "exec")
<1>1. call[c].pc = "claim" /\ call[c].pc # "done" /\ UNCHANGED <<cap, closing, auto, world, effects>>
  BY DEF Claim, counters
<1>2. /\ outstanding \in Requests \cup {0} /\ Sound(cap, call[c], req, auto.grant)
      /\ closing \in Requests \cup {0} /\ req \in Seq(ReqRec) /\ world \in Worlds
  BY DEF IInv, Typed
<1>3. /\ r \in Requests /\ call[c] \in CallRec /\ call[c].shown = req[r].shown /\ req[r] \in ReqRec
  BY <1>1, <1>2 DEF Sound, Requests
<1>4. CASE req[r].state # "APPROVED"
  <2>1. NotUsable(c, "not_approved") /\ UNCHANGED req
    BY <1>4 DEF Claim
  <2> QED
    BY <1>1, <2>1, NotUsableKeeps
<1>5. CASE req[r].state = "APPROVED" /\ ~req[r].confirmed
  <2>1. Ends(c, "rejected") /\ outstanding' = 0 /\ UNCHANGED req
    BY <1>5 DEF Claim, Answered
  <2> QED
    BY <1>1, <2>1, EndKeeps DEF Outcomes
<1>6. CASE req[r].state = "APPROVED" /\ req[r].confirmed
  <2>1. /\ req' = [req EXCEPT ![r].state = "EXECUTING", ![r].confirmed = FALSE]
        /\ Set(c, s) /\ UNCHANGED outstanding
    BY <1>6 DEF Claim
  <2>2. req' = Put(req, r, x)
    BY <1>2, <1>3, <2>1 DEF Requests, Put
  <2>3. x \in ReqRec /\ x.shown = req[r].shown /\ x.state = "EXECUTING"
    BY <1>3 DEF ReqRec, States
  <2>4. /\ s \in CallRec /\ s.pc = "exec" /\ s.in = call[c].in /\ s.prev = r
        /\ s.given = call[c].given /\ s.shown = call[c].shown
    BY <1>3 DEF At, CallRec, Steps
  <2> HIDE DEF x, s
  <2>5. /\ req' \in Seq(ReqRec) /\ Requests' = Requests /\ Later(req, req') /\ req'[r] = x
        /\ \A q \in Requests \ {r} : req'[q] = req[q]
    BY <1>2, <1>3, <1>6, <2>2, <2>3, RequestChanges DEF Requests
  <2>6. \A d \in Calls \ {c} : call[d].pc = "exec" =>
            req'[call[d].prev].state = "EXECUTING" /\ call[d].prev # s.prev
    <3>1. \A d \in Calls \ {c} : call[d].pc = "exec" =>
              call[d].prev \in Requests /\ req[call[d].prev].state = "EXECUTING"
      BY DEF IInv, Sound, Requests
    <3> QED
      BY <1>6, <2>4, <2>5, <3>1
  <2>7. Sound(cap, s, req', auto.grant)
    BY <1>1, <1>2, <1>3, <2>3, <2>4, <2>5 DEF Sound, Steps, Requests
  <2>8. outstanding' \in Requests' \cup {0} /\ closing' \in Requests' \cup {0} /\ world' \in Worlds
    BY <1>1, <1>2, <2>1, <2>5
  <2> QED
    BY <1>1, <2>1, <2>5, <2>6, <2>7, <2>8, StepKeeps
<1> QED
  BY <1>3, <1>4, <1>5, <1>6 DEF ReqRec

LEMMA ExecKeeps ==
    ASSUME IInv, NEW c \in Calls, Exec(c)
    PROVE  IInv'
<1> DEFINE r == call[c].prev
<1>1. call[c].pc = "exec" /\ call[c].pc # "done" /\ UNCHANGED <<cap, closing, auto, world>>
  BY DEF Exec, counters
<1>2. /\ Sound(cap, call[c], req, auto.grant) /\ closing \in Requests \cup {0}
      /\ req \in Seq(ReqRec) /\ world \in Worlds
  BY DEF IInv, Typed
<1>3. /\ r \in Requests /\ r \in Nat /\ call[c].shown = req[r].shown /\ req[r] \in ReqRec
      /\ req[r].state = "EXECUTING"
  BY <1>1, <1>2 DEF Sound, Requests
<1>4. ASSUME NEW o \in Outcomes, NEW final \in {"CONSUMED", "FAILED"},
             Answered(c, o), req' = [req EXCEPT ![r].state = final],
             Happens(c, "approval") \/ UNCHANGED effects
      PROVE  IInv'
  <2> DEFINE x == [req[r] EXCEPT !.state = final]
             s == EndedAs(call[c], o)
             e == [call |-> c, by |-> "approval", device |-> world, req |-> r]
  <2>1. Set(c, s) /\ outstanding' = 0
    BY <1>4 DEF Answered, Ends
  <2>2. req' = Put(req, r, x) /\ x \in ReqRec /\ x.shown = req[r].shown /\ x.state = final
    BY <1>3, <1>4 DEF ReqRec, States, Put
  <2>3. /\ Sound(cap, s, req, auto.grant) /\ s.pc = "done" /\ s.shown = call[c].shown /\ s.prev = r
    BY <1>2, EndedHolds
  <2>4. /\ e \in EffectRec /\ e.call = c /\ e.by = "approval" /\ e.req = r
        /\ Happens(c, "approval") => effects' = Append(effects, e)
    BY <1>2, <1>3 DEF EffectRec, Happens
  <2> HIDE DEF x, s, e
  <2>5. /\ req' \in Seq(ReqRec) /\ Requests' = Requests /\ Later(req, req') /\ req'[r] = x
        /\ \A q \in Requests \ {r} : req'[q] = req[q]
    BY <1>2, <1>3, <2>2, RequestChanges DEF Requests
  <2>6. \A d \in Calls \ {c} : call[d].pc = "exec" =>
            req'[call[d].prev].state = "EXECUTING" /\ (s.pc = "exec" => call[d].prev # s.prev)
    <3>1. \A d \in Calls \ {c} : call[d].pc = "exec" =>
              /\ call[d].prev \in Requests /\ req[call[d].prev].state = "EXECUTING"
              /\ call[d].prev # r
      BY <1>1 DEF IInv, Sound, Requests, OneClaim
    <3> QED
      BY <2>3, <2>5, <3>1
  <2>7. Sound(cap, s, req', auto.grant)
    BY <2>3, <2>5, SoundLater DEF Kept
  <2>8. Carried(cap, e, s, req', auto.grant)
    BY <1>3, <2>2, <2>3, <2>4, <2>5 DEF Carried, Requests
  <2>9. outstanding' \in Requests' \cup {0} /\ closing' \in Requests' \cup {0} /\ world' \in Worlds
    BY <1>1, <1>2, <2>1, <2>5
  <2>10. \/ effects' = effects
         \/ \E f \in EffectRec :
              /\ effects' = Append(effects, f) /\ f.call = c
              /\ Carried(cap, f, s, req', auto.grant)
              /\ f.by = "approval" => req[f.req].state \notin {"CONSUMED", "FAILED"}
    BY <1>3, <1>4, <2>4, <2>8
  <2> QED
    BY <1>1, <2>1, <2>5, <2>6, <2>7, <2>9, <2>10, StepKeeps
<1> QED
  BY <1>4 DEF Exec, Outcomes

LEMMA WithdrawnHolds ==
    ASSUME req \in Seq(ReqRec), NEW r \in Requests, Withdrawn(r)
    PROVE  /\ req' \in Seq(ReqRec) /\ Requests' = Requests /\ Later(req, req')
           /\ \A q \in Requests : req[q].state = "EXECUTING" => req'[q].state = "EXECUTING"
           /\ req'[r].state # "PENDING"
           /\ \A q \in Requests : req'[q].state = "PENDING" => req[q].state = "PENDING"
<1>1. r \in DOMAIN req /\ req[r] \in ReqRec
  BY DEF Requests
<1>2. CASE req[r].state \in {"PENDING", "APPROVED"}
  <2> DEFINE x == [req[r] EXCEPT !.state = "EXPIRED", !.confirmed = FALSE]
  <2>1. req' = Put(req, r, x) /\ x \in ReqRec /\ x.shown = req[r].shown /\ x.state = "EXPIRED"
    BY <1>1, <1>2 DEF Withdrawn, Put, ReqRec, States
  <2> HIDE DEF x
  <2>2. /\ req' \in Seq(ReqRec) /\ DOMAIN req' = DOMAIN req /\ Later(req, req') /\ req'[r] = x
        /\ \A q \in DOMAIN req \ {r} : req'[q] = req[q]
    BY <1>1, <1>2, <2>1, RequestChanges
  <2> QED
    BY <1>2, <2>1, <2>2 DEF Requests
<1>3. CASE req[r].state \notin {"PENDING", "APPROVED"}
  BY <1>3 DEF Withdrawn, Requests, Later
<1> QED
  BY <1>2, <1>3

LEMMA DropKeeps ==
    ASSUME IInv, NEW c \in Calls, Drop(c)
    PROVE  IInv'
<1> DEFINE s == At(c, "ask")
<1>1. /\ call[c].pc = "drop" /\ call[c].pc # "done" /\ Withdrawn(call[c].prev) /\ Set(c, s)
      /\ UNCHANGED <<cap, outstanding, closing, auto, world, effects>>
  BY DEF Drop, counters
<1>2. /\ outstanding \in Requests \cup {0} /\ Sound(cap, call[c], req, auto.grant)
      /\ closing \in Requests \cup {0} /\ req \in Seq(ReqRec) /\ world \in Worlds
  BY DEF IInv, Typed
<1>3. call[c].prev \in Requests /\ call[c] \in CallRec
  BY <1>1, <1>2 DEF Sound, Requests
<1>4. /\ req' \in Seq(ReqRec) /\ Requests' = Requests /\ Later(req, req')
      /\ \A q \in Requests : req[q].state = "EXECUTING" => req'[q].state = "EXECUTING"
  BY <1>1, <1>2, <1>3, WithdrawnHolds
<1>5. /\ s \in CallRec /\ s.pc = "ask" /\ s.in = call[c].in /\ s.prev = call[c].prev
      /\ s.given = call[c].given
  BY <1>3 DEF At, CallRec, Steps
<1> HIDE DEF s
<1>6. Sound(cap, s, req', auto.grant)
  BY <1>1, <1>2, <1>4, <1>5 DEF Sound, Steps, Requests
<1>7. \A d \in Calls \ {c} : call[d].pc = "exec" =>
          req'[call[d].prev].state = "EXECUTING" /\ (s.pc = "exec" => call[d].prev # s.prev)
  BY <1>4, <1>5 DEF IInv, Sound, Requests
<1>8. outstanding' \in Requests' \cup {0} /\ closing' \in Requests' \cup {0} /\ world' \in Worlds
  BY <1>1, <1>2, <1>4
<1> QED
  BY <1>1, <1>4, <1>6, <1>7, <1>8, StepKeeps

LEMMA AskKeeps ==
    ASSUME IInv, NEW c \in Calls, Ask(c)
    PROVE  IInv'
<1> DEFINE x == [state |-> "PENDING", shown |-> call[c].shown, confirmed |-> FALSE]
           n == Len(req) + 1
           s == [call[c] EXCEPT !.pc = "note", !.prev = n]
<1>1. /\ call[c].pc = "ask" /\ call[c].pc # "done"
      /\ UNCHANGED <<cap, outstanding, closing, auto, world, effects>>
  BY DEF Ask, counters
<1>2. /\ outstanding \in Requests \cup {0} /\ Sound(cap, call[c], req, auto.grant)
      /\ closing \in Requests \cup {0} /\ req \in Seq(ReqRec) /\ world \in Worlds
  BY DEF IInv, Typed
<1>3. CASE Ends(c, "rejected") /\ UNCHANGED req
  BY <1>1, <1>2, <1>3, EndKeeps DEF Outcomes
<1>4. CASE req' = Append(req, x) /\ Set(c, s)
  <2>1. call[c] \in CallRec /\ n \in Nat
    BY <1>2 DEF Sound
  <2>2. x \in ReqRec
    BY <2>1 DEF CallRec, ReqRec, States
  <2> HIDE DEF x
  <2>3. /\ req' \in Seq(ReqRec) /\ DOMAIN req' = DOMAIN req \cup {n}
        /\ \A q \in DOMAIN req : req'[q] = req[q]
    BY <1>2, <1>4, <2>2
  <2>4. Later(req, req') /\ Requests \subseteq Requests'
    BY <2>3 DEF Later, Requests
  <2> HIDE DEF n
  <2>5. /\ s \in CallRec /\ s.pc = "note" /\ s.in = call[c].in /\ s.prev = n
        /\ s.given = call[c].given
    BY <2>1 DEF CallRec, Steps
  <2> HIDE DEF s
  <2>6. Sound(cap, s, req', auto.grant)
    BY <1>1, <1>2, <2>3, <2>5 DEF Sound, Steps
  <2>7. \A d \in Calls \ {c} : call[d].pc = "exec" =>
            req'[call[d].prev].state = "EXECUTING" /\ (s.pc = "exec" => call[d].prev # s.prev)
    BY <2>3, <2>5 DEF IInv, Sound
  <2>8. outstanding' \in Requests' \cup {0} /\ closing' \in Requests' \cup {0} /\ world' \in Worlds
    BY <1>1, <1>2, <2>4
  <2> QED
    BY <1>1, <1>4, <2>3, <2>4, <2>6, <2>7, <2>8, StepKeeps
<1> QED
  BY <1>3, <1>4 DEF Ask

LEMMA NoteKeeps ==
    ASSUME IInv, NEW c \in Calls, Note(c)
    PROVE  IInv'
<1>1. /\ call[c].pc # "done" /\ Ends(c, "approval_required") /\ outstanding' = call[c].prev
      /\ UNCHANGED <<cap, closing, req, auto, world, effects>>
  BY DEF Note, counters
<1>2. outstanding' \in Requests \cup {0}
  BY <1>1 DEF IInv, Sound, Requests
<1> QED
  BY <1>1, <1>2, EndKeeps DEF Outcomes

-----------------------------------------------------------------------------
(* People, the automation, the world and the process around the calls.     *)

\* Nothing but the requests, the notes, the world and the automation changes.
LEMMA QuietKeeps ==
    ASSUME IInv, UNCHANGED <<cap, call, effects>>, world' \in Worlds,
           req' \in Seq(ReqRec), Later(req, req'),
           \A r \in Requests : req[r].state = "EXECUTING" => req'[r].state = "EXECUTING",
           outstanding' \in Requests' \cup {0}, closing' \in Requests' \cup {0},
           auto' \in [running : BOOLEAN, grant : Grant \cup {None}], Kept(auto.grant, auto'.grant)
    PROVE  IInv'
<1>1. call' \in [Calls -> CallRec]
  BY DEF IInv, Typed
<1> QED
  BY <1>1, AroundKeeps

LEMMA PeopleKeep ==
    ASSUME IInv, NEW r \in Requests, Approve(r) \/ Deny(r) \/ Expire(r)
    PROVE  IInv'
<1>1. /\ UNCHANGED <<cap, call, outstanding, closing, auto, world, effects>>
      /\ req[r].state \in {"PENDING", "APPROVED"}
  BY DEF Approve, Deny, Expire, counters
<1>2. /\ outstanding \in Requests \cup {0} /\ closing \in Requests \cup {0} /\ world \in Worlds
      /\ req \in Seq(ReqRec) /\ auto \in [running : BOOLEAN, grant : Grant \cup {None}]
  BY DEF IInv, Typed
<1>3. r \in DOMAIN req /\ req[r] \in ReqRec
  BY <1>2 DEF Requests
<1>4. PICK x \in ReqRec : req' = Put(req, r, x) /\ x.shown = req[r].shown
  <2>1. CASE Approve(r)
    <3> DEFINE x == [req[r] EXCEPT !.state = "APPROVED", !.confirmed = TRUE]
    <3>1. req' = Put(req, r, x) /\ x \in ReqRec /\ x.shown = req[r].shown
      BY <1>2, <1>3, <2>1 DEF Approve, Put, ReqRec, States
    <3> QED
      BY <3>1
  <2>2. ASSUME NEW st \in {"DENIED", "EXPIRED"}, req' = [req EXCEPT ![r].state = st]
        PROVE  \E x \in ReqRec : req' = Put(req, r, x) /\ x.shown = req[r].shown
    <3> DEFINE x == [req[r] EXCEPT !.state = st]
    <3>1. req' = Put(req, r, x) /\ x \in ReqRec /\ x.shown = req[r].shown
      BY <1>2, <1>3, <2>2 DEF Put, ReqRec, States
    <3> QED
      BY <3>1
  <2> QED
    BY <2>1, <2>2 DEF Deny, Expire
<1>5. /\ req' \in Seq(ReqRec) /\ DOMAIN req' = DOMAIN req /\ Later(req, req')
      /\ \A q \in DOMAIN req \ {r} : req'[q] = req[q]
  BY <1>1, <1>2, <1>3, <1>4, RequestChanges
<1>6. \A q \in Requests : req[q].state = "EXECUTING" => req'[q].state = "EXECUTING"
  BY <1>1, <1>5 DEF Requests
<1>7. /\ outstanding' \in Requests' \cup {0} /\ closing' \in Requests' \cup {0} /\ world' \in Worlds
      /\ auto' \in [running : BOOLEAN, grant : Grant \cup {None}] /\ Kept(auto.grant, auto'.grant)
  BY <1>1, <1>2, <1>5 DEF Kept, Requests
<1> QED
  BY <1>1, <1>5, <1>6, <1>7, QuietKeeps

LEMMA ClosingKeeps ==
    ASSUME IInv, GiveUp \/ Close
    PROVE  IInv'
<1>1. UNCHANGED <<cap, call, auto, world, effects>>
  BY DEF GiveUp, Close, counters
<1>2. /\ outstanding \in Requests \cup {0} /\ closing \in Requests \cup {0} /\ world \in Worlds
      /\ req \in Seq(ReqRec) /\ auto \in [running : BOOLEAN, grant : Grant \cup {None}]
  BY DEF IInv, Typed
<1>3. /\ req' \in Seq(ReqRec) /\ Requests' = Requests /\ Later(req, req')
      /\ \A q \in Requests : req[q].state = "EXECUTING" => req'[q].state = "EXECUTING"
  <2>1. CASE GiveUp
    BY <1>2, <2>1 DEF GiveUp, Requests, Later
  <2>2. CASE Close
    BY <1>2, <2>2, WithdrawnHolds DEF Close
  <2> QED
    BY <2>1, <2>2
<1>4. outstanding' \in Requests' \cup {0} /\ closing' \in Requests' \cup {0}
  BY <1>2, <1>3 DEF GiveUp, Close
<1>5. /\ world' \in Worlds
      /\ auto' \in [running : BOOLEAN, grant : Grant \cup {None}] /\ Kept(auto.grant, auto'.grant)
  BY <1>1, <1>2 DEF Kept
<1> QED
  BY <1>1, <1>3, <1>4, <1>5, QuietKeeps

LEMMA AutomationKeeps ==
    ASSUME IInv, Premises, CreateAutomation \/ Pause \/ Revoke \/ Drift
    PROVE  IInv'
<1>1. UNCHANGED <<cap, call, outstanding, closing, req, effects>>
  BY DEF CreateAutomation, Pause, Revoke, Drift, counters
<1>2. /\ outstanding \in Requests \cup {0} /\ closing \in Requests \cup {0} /\ world \in Worlds
      /\ req \in Seq(ReqRec) /\ auto \in [running : BOOLEAN, grant : Grant \cup {None}]
  BY DEF IInv, Typed
<1>3. None \notin Grant
  BY DEF Premises, ConstantsOK
<1>4. /\ world' \in Worlds /\ auto' \in [running : BOOLEAN, grant : Grant \cup {None}]
      /\ Kept(auto.grant, auto'.grant)
  <2>1. CASE CreateAutomation
    <3>1. auto.grant = None /\ world' = world
      BY <2>1 DEF CreateAutomation
    <3>2. auto' \in [running : BOOLEAN, grant : Grant \cup {None}]
      BY <2>1 DEF CreateAutomation, Grant
    <3> QED
      BY <1>2, <3>1, <3>2 DEF Kept, Bound
  <2>2. CASE Pause
    <3>1. auto' = [auto EXCEPT !.running = FALSE] /\ world' = world
      BY <2>2 DEF Pause
    <3>2. auto' \in [running : BOOLEAN, grant : Grant \cup {None}] /\ auto'.grant = auto.grant
      BY <1>2, <3>1
    <3> QED
      BY <1>2, <3>1, <3>2 DEF Kept
  <2>3. CASE Revoke
    <3> DEFINE g == [auto.grant EXCEPT !.active = FALSE]
    <3>1. auto.grant \in Grant /\ world' = world /\ auto' = [auto EXCEPT !.grant = g]
      BY <1>2, <2>3 DEF Revoke
    <3>2. g \in Grant /\ g.device = auto.grant.device
      BY <3>1 DEF Grant
    <3> HIDE DEF g
    <3>3. auto' \in [running : BOOLEAN, grant : Grant \cup {None}] /\ auto'.grant = g
      BY <1>2, <3>1, <3>2
    <3> QED
      BY <1>2, <1>3, <3>1, <3>2, <3>3 DEF Kept, Bound
  <2>4. CASE Drift
    BY <1>2, <2>4 DEF Drift, Kept
  <2> QED
    BY <2>1, <2>2, <2>3, <2>4
<1>5. /\ Later(req, req') /\ req' \in Seq(ReqRec)
      /\ \A r \in Requests : req[r].state = "EXECUTING" => req'[r].state = "EXECUTING"
      /\ outstanding' \in Requests' \cup {0} /\ closing' \in Requests' \cup {0}
  BY <1>1, <1>2 DEF Later, Requests
<1> QED
  BY <1>1, <1>4, <1>5, QuietKeeps

LEMMA RestartKeeps ==
    ASSUME IInv, Restart
    PROVE  IInv'
<1>1. /\ UNCHANGED <<cap, auto, world, effects>> /\ outstanding' = 0 /\ closing' = 0
  BY DEF Restart
<1>2. /\ world \in Worlds /\ req \in Seq(ReqRec) /\ call \in [Calls -> CallRec]
      /\ auto \in [running : BOOLEAN, grant : Grant \cup {None}]
  BY DEF IInv, Typed
<1>3. \A c \in Calls : \/ call'[c] = call[c]
                       \/ call[c].pc \in Steps /\ call'[c] = EndedAs(call[c], "lost")
  BY DEF Restart, InFlight
<1>4. call' \in [Calls -> CallRec]
  <2>1. \A c \in Calls : EndedAs(call[c], "lost") \in CallRec
    <3>1. ASSUME NEW c \in Calls PROVE EndedAs(call[c], "lost") \in CallRec
      <4>1. Sound(cap, call[c], req, auto.grant) /\ "lost" \in Outcomes
        BY DEF IInv, Outcomes
      <4>2. Sound(cap, EndedAs(call[c], "lost"), req, auto.grant)
        BY <4>1, EndedHolds
      <4> QED
        BY <4>2 DEF Sound
    <3> QED
      BY <3>1
  <2>2. call' = [c \in Calls |-> IF c \in InFlight THEN EndedAs(call[c], "lost") ELSE call[c]]
    BY DEF Restart
  <2> QED
    BY <1>2, <2>1, <2>2
<1>5. /\ DOMAIN req' = DOMAIN req
      /\ \A r \in Requests : /\ req'[r] \in ReqRec /\ req'[r].shown = req[r].shown
                             /\ req[r].state # "PENDING" => req'[r].state = req[r].state
  <2> DEFINE after(r) == [req[r] EXCEPT !.confirmed = FALSE,
                                        !.state = IF @ = "PENDING" THEN "EXPIRED" ELSE @]
  <2>1. req' = [r \in Requests |-> after(r)]
    BY DEF Restart
  <2>2. ASSUME NEW r \in Requests
        PROVE  /\ after(r) \in ReqRec /\ after(r).shown = req[r].shown
               /\ req[r].state # "PENDING" => after(r).state = req[r].state
    <3>1. req[r] \in ReqRec
      BY <1>2 DEF Requests
    <3> QED
      BY <3>1 DEF ReqRec, States
  <2> HIDE DEF after
  <2> QED
    BY <2>1, <2>2 DEF Requests
<1>6. req' \in Seq(ReqRec)
  <2>1. DOMAIN req = 1..Len(req) /\ Len(req) \in Nat
    BY <1>2
  <2>2. req' \in [1..Len(req) -> ReqRec]
    <3>1. req' = [r \in Requests |-> req'[r]]
      BY <1>5 DEF Restart
    <3> QED
      BY <1>5, <2>1, <3>1 DEF Requests
  <2> QED
    BY <2>1, <2>2, SeqDef
<1>7. /\ Later(req, req') /\ Kept(auto.grant, auto'.grant)
      /\ \A r \in Requests : req[r].state = "EXECUTING" => req'[r].state = "EXECUTING"
  BY <1>1, <1>5 DEF Later, Kept, Requests
<1>8. /\ world' \in Worlds /\ outstanding' \in Requests' \cup {0} /\ closing' \in Requests' \cup {0}
      /\ auto' \in [running : BOOLEAN, grant : Grant \cup {None}]
  BY <1>1, <1>2
<1> QED
  BY <1>1, <1>3, <1>4, <1>6, <1>7, <1>8, AroundKeeps

-----------------------------------------------------------------------------
(* The theorems.                                                           *)

LEMMA InitSound ==
    ASSUME Premises, Init
    PROVE  IInv
<1>1. \A c \in Calls : call[c] = NewCall
  BY DEF Init
<1>2. NewCall \in CallRec
  BY DEF NewCall, CallRec, Classes, Targets, Shown
<1>3. Typed
  BY <1>2 DEF Init, Typed
<1>4. \A c \in Calls : Sound(cap, call[c], req, auto.grant)
  BY <1>1, <1>2 DEF Sound, NewCall, Steps
<1>5. OneClaim /\ DOMAIN effects = {}
  BY <1>1 DEF OneClaim, NewCall, Init
<1> QED
  BY <1>3, <1>4, <1>5 DEF IInv, OneEffect

LEMMA NextKeeps ==
    ASSUME Premises, IInv, [Next]_vars
    PROVE  IInv'
<1>1. ASSUME NEW c \in Calls, NEW i \in Inputs, NEW given \in Requests \cup {0}, Request(c, i, given)
      PROVE  IInv'
  BY <1>1, RequestKeeps
<1>2. ASSUME NEW c \in Calls, Advance(c)
      PROVE  IInv'
  BY <1>2, ClassifyKeeps, VerifyTaskKeeps, VerifyGrantKeeps, RunKeeps, DescribeKeeps, ProbeKeeps,
     ClaimKeeps, ExecKeeps, DropKeeps, AskKeeps, NoteKeeps DEF Advance
<1>3. ASSUME NEW r \in Requests, Approve(r) \/ Deny(r) \/ Expire(r)
      PROVE  IInv'
  BY <1>3, PeopleKeep
<1>4. CASE GiveUp \/ Close
  BY <1>4, ClosingKeeps
<1>5. CASE CreateAutomation \/ Pause \/ Revoke \/ Drift
  BY <1>5, AutomationKeeps
<1>6. CASE Restart
  BY <1>6, RestartKeeps
<1>7. CASE UNCHANGED vars
  <2>1. /\ Later(req, req') /\ Kept(auto.grant, auto'.grant)
        /\ \A r \in Requests : req[r].state = "EXECUTING" => req'[r].state = "EXECUTING"
    BY <1>7 DEF vars, counters, Later, Kept
  <2>2. /\ UNCHANGED <<cap, call, effects>> /\ world' \in Worlds /\ req' \in Seq(ReqRec)
        /\ outstanding' \in Requests' \cup {0} /\ closing' \in Requests' \cup {0}
        /\ auto' \in [running : BOOLEAN, grant : Grant \cup {None}]
    BY <1>7 DEF vars, counters, IInv, Typed, Requests
  <2> QED
    BY <2>1, <2>2, QuietKeeps
<1> QED
  BY <1>1, <1>2, <1>3, <1>4, <1>5, <1>6, <1>7 DEF Next

LEMMA Inductive == ASSUME Premises PROVE Spec => []IInv
<1>1. Init => IInv
  BY InitSound
<1>2. IInv /\ [Next]_vars => IInv'
  BY NextKeeps
<1> QED
  BY <1>1, <1>2, PTL DEF Spec

\* Every field has its type, whatever calls come (execute, resume, abandon).
THEOREM TypeCorrect == ASSUME Premises PROVE Spec => []TypeOK
<1>1. IInv => TypeOK
  <2>1. SUFFICES ASSUME IInv PROVE TypeOK
    OBVIOUS
  <2>2. /\ \A c \in Calls : call[c] \in CallRec /\ call[c].given \in Requests \cup {0}
                            /\ call[c].prev \in Requests \cup {0}
        /\ \A r \in Requests : req[r] \in ReqRec
        /\ \A n \in DOMAIN effects : effects[n] \in EffectRec
    BY <2>1 DEF IInv, Typed, Sound, Requests
  <2>3. \A c \in Calls : /\ call[c].pc \in Steps \cup {"idle", "done"}
                         /\ call[c].out \in Outcomes \cup {"none"}
                         /\ call[c].in \in Inputs \cup {None} /\ call[c].class \in Classes
    BY <2>2 DEF CallRec
  <2>4. \A r \in Requests : req[r].state \in States /\ req[r].confirmed \in BOOLEAN
    BY <2>2 DEF ReqRec
  <2>5. \A n \in DOMAIN effects : effects[n].by \in {"direct", "grant", "approval"}
    BY <2>2 DEF EffectRec
  <2> QED
    BY <2>1, <2>2, <2>3, <2>4, <2>5 DEF TypeOK, IInv, Typed, States
<1> QED
  BY <1>1, Inductive, PTL

\* What happened without a human was commanded by somebody of the house, is not
\* very critical, and under a grant is a harmless change of an automation's own
\* (decide and apply_floor of policy.py behind _classify_and_decide of router.py).
THEOREM AloneIsAllowed == ASSUME Premises PROVE Spec => []NothingActsAlone
<1>1. IInv => NothingActsAlone
  BY DEF IInv, Carried, MayAct, NothingActsAlone
<1> QED
  BY <1>1, Inductive, PTL

\* An approval carries one effect, of a call that shows what the human saw
\* (resume of approval_gateway.py, the claim of bridge.py).
THEOREM ApprovedOnceAsShown == ASSUME Premises PROVE Spec => []EffectsAreApproved
<1>1. IInv => EffectsAreApproved
  BY DEF IInv, Carried, OneEffect, EffectsAreApproved
<1> QED
  BY <1>1, Inductive, PTL

\* An effect under a grant was measured on the device the grant is bound to
\* (AutomationPreauthorizations.verify of preauth.py).
THEOREM GrantsAreBound == ASSUME Premises PROVE Spec => []GrantIsBound
<1>1. IInv => GrantIsBound
  BY DEF IInv, Carried, Bound, GrantIsBound
<1> QED
  BY <1>1, Inductive, PTL

\* No call throws away an approval that fits what it would show and that was
\* there before it looked (_resume_if_approved and _mobile_approval of router.py).
THEOREM ApprovalsAreUsed == ASSUME Premises PROVE Spec => [][ApprovalIsUsed]_vars
<1>1. IInv => ApprovalIsUsed
  BY DEF IInv, Sound, ApprovalIsUsed
<1> QED
  BY <1>1, Inductive, PTL

-----------------------------------------------------------------------------
(* What the display shows, whoever calls.                                  *)

\* A call asks anew only when the request it replaces is settled.
Replaced == \A c \in Calls : \A r \in Requests :
                call[c].pc = "ask" /\ call[c].prev = r => req[r].state # "PENDING"

Holding == {"probe", "claim", "drop", "note"}
Holds(s, r) == s.prev = r /\ s.pc \in Holding

\* A request that was settled stays settled.
NoneReopens == \A r \in Requests : r \in Requests' /\ (req'[r].state = "PENDING" => req[r].state = "PENDING")

\* The call c goes on to s and lets go of nothing that waits, but where it may.
Moving(c, s) ==
    /\ Set(c, s) /\ closing' = closing /\ s.pc # call[c].pc
    /\ s.pc = "ask" => \A r \in Requests' : s.prev = r => req'[r].state # "PENDING"
    /\ NoneReopens
    /\ \A r \in Requests : (r = outstanding \/ Holds(call[c], r)) /\ req'[r].state = "PENDING" =>
           MayLose(c) \/ r = outstanding' \/ Holds(s, r)

\* Such a step keeps that, and keeps an eye on what waits.
LEMMA MovingHolds ==
    ASSUME IInv, IInv', Replaced, NEW c \in Calls, NEW s, Moving(c, s)
    PROVE  Replaced' /\ EntriesAreFollowed
<1>1. call \in [Calls -> CallRec]
  BY DEF IInv, Typed
<1>2. call'[c] = s /\ \A d \in Calls \ {c} : call'[d] = call[d]
  BY <1>1 DEF Moving, Set
<1>3. ASSUME NEW d \in Calls, NEW r \in Requests', call'[d].pc = "ask", call'[d].prev = r
      PROVE  req'[r].state # "PENDING"
  <2>1. CASE d = c
    BY <1>2, <1>3, <2>1 DEF Moving
  <2>2. CASE d # c
    <3>1. call[d].pc = "ask" /\ call[d].prev = r /\ call[d].prev \in Requests \cup {0}
      BY <1>2, <1>3, <2>2 DEF IInv, Sound, Requests
    <3>2. r # 0
      BY DEF IInv, Typed, Requests
    <3> QED
      BY <3>1, <3>2 DEF Moving, Replaced, NoneReopens
  <2> QED
    BY <2>1, <2>2
<1>4. ASSUME NEW r \in Requests, Followed(r), req'[r].state = "PENDING", ~MayLose(c)
      PROVE  Followed(r)'
  <2>1. CASE r = outstanding \/ Holds(call[c], r)
    BY <1>2, <1>4, <2>1 DEF Moving, Followed, Holds, Holding
  <2>2. CASE r = closing
    BY <2>2 DEF Moving, Followed
  <2>3. ASSUME NEW d \in Calls \ {c}, Holds(call[d], r)
        PROVE  Followed(r)'
    BY <1>2, <2>3 DEF Followed, Holds, Holding
  <2> QED
    BY <1>4, <2>1, <2>2, <2>3 DEF Followed, Holds, Holding
<1>5. call'[c] # call[c]
  BY <1>2 DEF Moving
<1>6. Replaced'
  BY <1>3 DEF Replaced
<1>7. EntriesAreFollowed
  BY <1>4, <1>5 DEF EntriesAreFollowed, Replaced
<1> QED
  BY <1>6, <1>7

\* What a call is when it takes a step.
LEMMA Standing ==
    ASSUME IInv, NEW c \in Calls
    PROVE  /\ call[c] \in CallRec /\ call[c].prev \in Requests \cup {0} /\ req \in Seq(ReqRec)
           /\ 0 \notin Requests /\ outstanding \in Requests \cup {0}
           /\ call[c].pc \in {"probe", "claim", "exec", "drop"} => call[c].prev \in Requests
           /\ Requests \subseteq Nat \ {0}
           /\ call[c].pc = "exec" => req[call[c].prev].state = "EXECUTING"
<1>1. req \in Seq(ReqRec) /\ Sound(cap, call[c], req, auto.grant) /\ outstanding \in Requests \cup {0}
  BY DEF IInv, Typed
<1>2. Requests \subseteq Nat \ {0}
  BY <1>1 DEF Requests
<1> QED
  BY <1>1, <1>2 DEF Sound, Requests

\* Measured and decided, a call stands at a step that holds no request.
LEMMA MeasuredMoves ==
    ASSUME NEW s \in CallRec, NEW k, NEW pre, NEW device
    PROVE  /\ Decided(s, k, pre).pc \in {"done", "describe", "run"}
           /\ Measured(s, k, device).pc \in {"done", "describe", "run", "task"}
<1>1. \A x \in CallRec : \A y, z : Decided(x, y, z).pc \in {"done", "describe", "run"}
  BY DEF Decided, EndedAs, CallRec
<1>2. ASSUME NEW d, NEW y
      PROVE  Decided([s EXCEPT !.device = d], y, FALSE).pc \in {"done", "describe", "run"}
  BY DEF Decided, EndedAs, CallRec
<1>3. [s EXCEPT !.pc = "task", !.class = apply_floor(k, cap.risk), !.device = device].pc = "task"
  BY DEF CallRec
<1> QED
  BY <1>1, <1>2, <1>3 DEF Measured

\* A step that touches no request and holds none.
LEMMA QuietMoves ==
    ASSUME IInv, NEW c \in Calls, NEW s, Set(c, s), UNCHANGED <<outstanding, closing, req>>,
           s.pc # call[c].pc, s.pc # "ask", call[c].pc \notin Holding
    PROVE  Moving(c, s)
<1>1. NoneReopens
  BY DEF NoneReopens, Requests
<1>2. \A r : ~Holds(call[c], r)
  BY DEF Holds
<1> QED
  BY <1>1, <1>2 DEF Moving

LEMMA EarlyMoves ==
    ASSUME IInv, NEW c \in Calls,
           Classify(c) \/ VerifyTask(c) \/ VerifyGrant(c) \/ Run(c)
    PROVE  \E s : Moving(c, s)
<1>1. /\ call[c] \in CallRec /\ call[c].pc \in {"classify", "task", "grant", "run"}
      /\ UNCHANGED <<outstanding, closing, req>>
  BY Standing DEF Classify, VerifyTask, VerifyGrant, Run
<1>2. \A o : EndedAs(call[c], o).pc = "done"
  BY <1>1 DEF EndedAs, CallRec
<1>3. At(c, "grant").pc = "grant"
  BY <1>1 DEF At, CallRec
<1>4. ASSUME NEW s, Set(c, s), s.pc # call[c].pc, s.pc # "ask"
      PROVE  \E t : Moving(c, t)
  BY <1>1, <1>4, QuietMoves DEF Holding
<1>5. CASE Classify(c)
  BY <1>1, <1>2, <1>4, <1>5, MeasuredMoves DEF Classify, Ends
<1>6. CASE VerifyTask(c)
  BY <1>1, <1>3, <1>4, <1>6, MeasuredMoves DEF VerifyTask
<1>7. CASE VerifyGrant(c)
  BY <1>1, <1>4, <1>7, MeasuredMoves DEF VerifyGrant
<1>8. CASE Run(c)
  BY <1>1, <1>2, <1>4, <1>8 DEF Run, Ends
<1> QED
  BY <1>5, <1>6, <1>7, <1>8

LEMMA RequestMoves ==
    ASSUME IInv, NEW c \in Calls, NEW i \in Inputs, NEW given \in Requests \cup {0}, Request(c, i, given)
    PROVE  \E s : Moving(c, s)
<1> DEFINE s == [call[c] EXCEPT !.pc = "classify", !.in = i, !.given = given]
           e == EndedAs(call[c], "rejected")
<1>1. /\ call[c] \in CallRec /\ call[c].pc = "idle" /\ UNCHANGED <<outstanding, closing, req>>
      /\ Set(c, s) \/ Set(c, e)
  BY Standing DEF Request, Ends
<1>2. s.pc = "classify" /\ e.pc = "done"
  BY <1>1 DEF EndedAs, CallRec
<1> HIDE DEF s, e
<1> QED
  BY <1>1, <1>2, QuietMoves DEF Holding

\* A step of a call that has a request in its hand, or gives it one.
LEMMA HoldingMoves ==
    ASSUME IInv, NEW c \in Calls, NEW s, Set(c, s), closing' = closing, s.pc # call[c].pc,
           s.pc # "ask", NoneReopens,
           \A r \in Requests : (r = outstanding \/ Holds(call[c], r)) /\ req'[r].state = "PENDING" =>
               MayLose(c) \/ r = outstanding' \/ Holds(s, r)
    PROVE  Moving(c, s)
  BY DEF Moving

LEMMA DescribeMoves ==
    ASSUME IInv, NEW c \in Calls, Describe(c)
    PROVE  \E s : Moving(c, s)
<1> DEFINE shown == <<call[c].in.origin, IF cap.describer THEN world ELSE None>>
           given == call[c].given
           p == [call[c] EXCEPT !.pc = "probe", !.prev = given, !.shown = shown]
           a == [call[c] EXCEPT !.pc = IF outstanding = 0 THEN "ask" ELSE "probe",
                                !.prev = outstanding, !.shown = shown]
<1>1. /\ call[c] \in CallRec /\ call[c].pc = "describe" /\ UNCHANGED <<closing, req>>
      /\ outstanding \in Requests \cup {0} /\ 0 \notin Requests
  BY Standing DEF Describe
<1>2. NoneReopens /\ \A r : ~Holds(call[c], r)
  BY <1>1 DEF NoneReopens, Holds, Holding, Requests
<1>3. \A o : EndedAs(call[c], o).pc = "done"
  BY <1>1 DEF EndedAs, CallRec
<1>4. p.pc = "probe" /\ a.prev = outstanding /\ a.pc = IF outstanding = 0 THEN "ask" ELSE "probe"
  BY <1>1 DEF CallRec
<1>5. \/ \E o : Set(c, EndedAs(call[c], o)) /\ UNCHANGED outstanding
      \/ given # 0 /\ Set(c, p)
      \/ Set(c, a) /\ UNCHANGED outstanding
  BY DEF Describe, Ends
<1> HIDE DEF p, a
<1>6. ASSUME NEW o, Set(c, EndedAs(call[c], o)), UNCHANGED outstanding
      PROVE  \E s : Moving(c, s)
  BY <1>1, <1>2, <1>3, <1>6, HoldingMoves
<1>7. ASSUME given # 0, Set(c, p)
      PROVE  \E s : Moving(c, s)
  BY <1>1, <1>2, <1>4, <1>7, HoldingMoves DEF MayLose
<1>8. ASSUME Set(c, a), UNCHANGED outstanding
      PROVE  \E s : Moving(c, s)
  <2>1. a.pc = "ask" => \A r \in Requests' : a.prev = r => req'[r].state # "PENDING"
    BY <1>1, <1>4 DEF Requests
  <2>2. a.pc # call[c].pc
    BY <1>1, <1>4
  <2> QED
    BY <1>1, <1>2, <1>8, <2>1, <2>2 DEF Moving
<1> QED
  BY <1>5, <1>6, <1>7, <1>8

\* An approval that does not carry the action: the call ends, or withdraws it.
LEMMA NotUsableMoves ==
    ASSUME IInv, NEW c \in Calls, NEW status, NotUsable(c, status), call[c].pc \in {"probe", "claim"},
           UNCHANGED <<closing, req>>
    PROVE  \E s : Moving(c, s)
<1> DEFINE e == EndedAs(call[c], "rejected")
           d == [call[c] EXCEPT !.pc = "drop", !.status = status]
<1>1. call[c] \in CallRec /\ outstanding \in Requests \cup {0} /\ 0 \notin Requests
  BY Standing
<1>2. NoneReopens
  BY DEF NoneReopens, Requests
<1>3. e.pc = "done" /\ d.pc = "drop" /\ d.prev = call[c].prev
  BY <1>1 DEF EndedAs, CallRec
<1>4. \/ call[c].given # 0 /\ Set(c, e) /\ UNCHANGED outstanding
      \/ Set(c, d) /\ outstanding' = 0
  BY DEF NotUsable, Ends
<1> HIDE DEF e, d
<1>5. CASE call[c].given # 0 /\ Set(c, e) /\ UNCHANGED outstanding
  BY <1>1, <1>2, <1>3, <1>5, HoldingMoves DEF MayLose
<1>6. CASE Set(c, d) /\ outstanding' = 0
  BY <1>1, <1>2, <1>3, <1>6, HoldingMoves DEF MayLose, Holds, Holding
<1> QED
  BY <1>4, <1>5, <1>6

\* The answer about a request that no human can answer any more.
LEMMA AnsweredMoves ==
    ASSUME IInv, NEW c \in Calls, NEW o, Answered(c, o), call[c].pc \in {"probe", "claim", "exec"},
           closing' = closing, NoneReopens, req'[call[c].prev].state # "PENDING"
    PROVE  \E s : Moving(c, s)
<1> DEFINE e == EndedAs(call[c], o)
<1>1. call[c] \in CallRec /\ outstanding \in Requests \cup {0} /\ 0 \notin Requests
  BY Standing
<1>2. e.pc = "done" /\ Set(c, e) /\ outstanding' = 0
  BY <1>1 DEF EndedAs, CallRec, Answered, Ends
<1> HIDE DEF e
<1> QED
  BY <1>1, <1>2, HoldingMoves DEF MayLose, Holds

\* It goes on with the request it has.
LEMMA OnwardMoves ==
    ASSUME IInv, NEW c \in Calls, NEW pc \in {"claim", "exec"}, Set(c, At(c, pc)), call[c].pc # pc,
           UNCHANGED <<outstanding, closing>>, NoneReopens,
           pc = "exec" => req'[call[c].prev].state # "PENDING"
    PROVE  \E s : Moving(c, s)
<1> DEFINE s == At(c, pc)
<1>1. s.pc = pc /\ s.prev = call[c].prev
  BY Standing DEF At, CallRec
<1> HIDE DEF s
<1>2. Set(c, s)
  BY DEF s
<1> QED
  BY <1>1, <1>2, HoldingMoves DEF Holds, Holding

\* One request is written; none comes back to wait for an answer.
LEMMA PutReopensNone ==
    ASSUME req \in Seq(ReqRec), NEW r \in Requests, NEW x \in ReqRec, req' = Put(req, r, x),
           x.state # "PENDING"
    PROVE  NoneReopens /\ req'[r].state # "PENDING" /\ Requests' = Requests
  BY DEF NoneReopens, Put, Requests

LEMMA ProbeMoves ==
    ASSUME IInv, NEW c \in Calls, Probe(c)
    PROVE  \E s : Moving(c, s)
<1> DEFINE r == req[call[c].prev]
<1>1. /\ call[c].pc = "probe" /\ UNCHANGED <<closing, req>>
      /\ \/ r.state = "DENIED" /\ Answered(c, "rejected")
         \/ NotUsable(c, "approval_drift")
         \/ Set(c, At(c, "claim")) /\ UNCHANGED outstanding
  BY DEF Probe
<1>2. NoneReopens
  BY <1>1 DEF NoneReopens, Requests
<1>3. CASE r.state = "DENIED" /\ Answered(c, "rejected")
  BY <1>1, <1>2, <1>3, AnsweredMoves
<1>4. CASE NotUsable(c, "approval_drift")
  BY <1>1, <1>4, NotUsableMoves
<1>5. CASE Set(c, At(c, "claim")) /\ UNCHANGED outstanding
  BY <1>1, <1>2, <1>5, OnwardMoves
<1> QED
  BY <1>1, <1>3, <1>4, <1>5

LEMMA ClaimMoves ==
    ASSUME IInv, NEW c \in Calls, Claim(c)
    PROVE  \E s : Moving(c, s)
<1> DEFINE r == call[c].prev
           x == [req[r] EXCEPT !.state = "EXECUTING", !.confirmed = FALSE]
<1>1. /\ call[c].pc = "claim" /\ UNCHANGED closing /\ r \in Requests /\ req \in Seq(ReqRec)
      /\ \/ NotUsable(c, "not_approved") /\ UNCHANGED req
         \/ req[r].state = "APPROVED" /\ Answered(c, "rejected") /\ UNCHANGED req
         \/ req' = Put(req, r, x) /\ Set(c, At(c, "exec")) /\ UNCHANGED outstanding
  BY Standing DEF Claim, Put
<1>2. x \in ReqRec /\ x.state = "EXECUTING"
  <2>1. req[r] \in ReqRec
    BY <1>1 DEF Requests
  <2> QED
    BY <2>1 DEF ReqRec, States
<1> HIDE DEF x
<1>3. CASE NotUsable(c, "not_approved") /\ UNCHANGED req
  BY <1>1, <1>3, NotUsableMoves
<1>4. CASE req[r].state = "APPROVED" /\ Answered(c, "rejected") /\ UNCHANGED req
  BY <1>1, <1>4, AnsweredMoves DEF NoneReopens, Requests
<1>5. CASE req' = Put(req, r, x) /\ Set(c, At(c, "exec")) /\ UNCHANGED outstanding
  BY <1>1, <1>2, <1>5, PutReopensNone, OnwardMoves
<1> QED
  BY <1>1, <1>3, <1>4, <1>5

LEMMA ExecMoves ==
    ASSUME IInv, NEW c \in Calls, Exec(c)
    PROVE  \E s : Moving(c, s)
<1> DEFINE r == call[c].prev
<1>1. /\ call[c].pc = "exec" /\ UNCHANGED closing /\ r \in Requests /\ req \in Seq(ReqRec)
      /\ req[r] \in ReqRec
  BY Standing DEF Exec, Requests
<1>2. ASSUME NEW o, NEW state \in {"CONSUMED", "FAILED"}, Answered(c, o),
             req' = [req EXCEPT ![r].state = state]
      PROVE  \E s : Moving(c, s)
  <2> DEFINE x == [req[r] EXCEPT !.state = state]
  <2>1. x \in ReqRec /\ x.state # "PENDING"
    BY <1>1 DEF ReqRec, States
  <2>2. req' = Put(req, r, x)
    BY <1>1, <1>2 DEF Put, Requests
  <2> HIDE DEF x
  <2>3. NoneReopens /\ req'[r].state # "PENDING"
    BY <1>1, <2>1, <2>2, PutReopensNone
  <2> QED
    BY <1>1, <1>2, <2>3, AnsweredMoves
<1> QED
  BY <1>2 DEF Exec

LEMMA DropMoves ==
    ASSUME IInv, NEW c \in Calls, Drop(c)
    PROVE  \E s : Moving(c, s)
<1> DEFINE r == call[c].prev
           s == At(c, "ask")
<1>1. /\ call[c] \in CallRec /\ call[c].pc = "drop" /\ UNCHANGED <<outstanding, closing>>
      /\ r \in Requests /\ req \in Seq(ReqRec) /\ Withdrawn(r) /\ Set(c, s)
  BY Standing DEF Drop
<1>2. NoneReopens /\ req'[r].state # "PENDING"
  BY <1>1, WithdrawnHolds DEF NoneReopens
<1>3. s.pc = "ask" /\ s.prev = r
  BY <1>1 DEF At, CallRec
<1> HIDE DEF s
<1> QED
  BY <1>1, <1>2, <1>3 DEF Moving, Holds

LEMMA AskMoves ==
    ASSUME IInv, NEW c \in Calls, Ask(c)
    PROVE  \E s : Moving(c, s)
<1> DEFINE x == [state |-> "PENDING", shown |-> call[c].shown, confirmed |-> FALSE]
           s == [call[c] EXCEPT !.pc = "note", !.prev = Len(req) + 1]
           e == EndedAs(call[c], "rejected")
<1>1. /\ call[c] \in CallRec /\ call[c].pc = "ask" /\ UNCHANGED <<outstanding, closing>>
      /\ req \in Seq(ReqRec)
      /\ \/ req' = Append(req, x) /\ Set(c, s)
         \/ Set(c, e) /\ UNCHANGED req
  BY Standing DEF Ask, Ends
<1>2. x \in ReqRec /\ s.pc = "note" /\ e.pc = "done"
  BY <1>1 DEF ReqRec, CallRec, States, EndedAs
<1> HIDE DEF x, s, e
<1>3. NoneReopens
  BY <1>1, <1>2 DEF NoneReopens, Requests
<1> QED
  BY <1>1, <1>2, <1>3, HoldingMoves DEF Holds, Holding

LEMMA NoteMoves ==
    ASSUME IInv, NEW c \in Calls, Note(c)
    PROVE  \E s : Moving(c, s)
<1> DEFINE e == EndedAs(call[c], "approval_required")
<1>1. /\ call[c] \in CallRec /\ call[c].pc = "note" /\ outstanding' = call[c].prev
      /\ UNCHANGED <<closing, req>> /\ Set(c, e)
      /\ outstanding \in Requests \cup {0} /\ 0 \notin Requests
  BY Standing DEF Note, Ends
<1>2. e.pc = "done" /\ NoneReopens
  BY <1>1 DEF EndedAs, CallRec, NoneReopens, Requests
<1> HIDE DEF e
<1> QED
  BY <1>1, <1>2, HoldingMoves DEF Holds, MayLose

\* People, the automation, the world, and who gives up: no call takes a step.
LEMMA AroundFollows ==
    ASSUME IInv, Replaced, UNCHANGED call, NoneReopens, Requests' = Requests,
           \A r \in Requests : r \in {outstanding, closing} /\ req'[r].state = "PENDING" =>
               r \in {outstanding', closing'}
    PROVE  Replaced' /\ EntriesAreFollowed
<1>1. Replaced'
  BY DEF Replaced, NoneReopens
<1>2. \A r \in Requests : Followed(r) /\ req'[r].state = "PENDING" => Followed(r)'
  BY DEF Followed
<1> QED
  BY <1>1, <1>2 DEF EntriesAreFollowed, Replaced

LEMMA OthersFollow ==
    ASSUME IInv, Replaced,
           \/ \E r \in Requests : Approve(r) \/ Deny(r) \/ Expire(r)
           \/ GiveUp \/ Close \/ CreateAutomation \/ Pause \/ Revoke \/ Drift
           \/ UNCHANGED vars
    PROVE  Replaced' /\ EntriesAreFollowed
<1>1. req \in Seq(ReqRec) /\ closing \in Requests \cup {0} /\ outstanding \in Requests \cup {0}
  BY DEF IInv, Typed
<1>2. ASSUME NEW r \in Requests, Approve(r) \/ Deny(r) \/ Expire(r)
      PROVE  Replaced' /\ EntriesAreFollowed
  <2>1. /\ UNCHANGED <<call, outstanding, closing>> /\ Requests' = Requests
        /\ \A q \in Requests \ {r} : req'[q] = req[q]
    BY <1>1, <1>2 DEF Approve, Deny, Expire, Requests
  <2>2. req'[r].state # "PENDING"
    <3>1. req[r] \in ReqRec
      BY <1>1 DEF Requests
    <3> QED
      BY <1>1, <1>2, <3>1 DEF Approve, Deny, Expire, Requests, ReqRec
  <2>3. NoneReopens
    BY <2>1, <2>2 DEF NoneReopens
  <2> QED
    BY <2>1, <2>3, AroundFollows
<1>3. CASE Close
  <2>1. closing \in Requests /\ Withdrawn(closing) /\ UNCHANGED <<call, outstanding>>
    BY <1>1, <1>3 DEF Close
  <2>2. NoneReopens /\ Requests' = Requests /\ req'[closing].state # "PENDING"
    BY <1>1, <2>1, WithdrawnHolds DEF NoneReopens
  <2> QED
    BY <2>1, <2>2, AroundFollows
<1>4. CASE \/ GiveUp \/ CreateAutomation \/ Pause \/ Revoke \/ Drift \/ UNCHANGED vars
  <2>1. /\ UNCHANGED <<call, req>>
        /\ {outstanding, closing} \ {0} \subseteq {outstanding', closing'}
    BY <1>4 DEF GiveUp, CreateAutomation, Pause, Revoke, Drift, vars
  <2>2. NoneReopens /\ Requests' = Requests /\ 0 \notin Requests
    BY <1>1, <2>1 DEF NoneReopens, Requests
  <2> QED
    BY <2>1, <2>2, AroundFollows
<1> QED
  BY <1>2, <1>3, <1>4

\* A new process: what waited has expired.
LEMMA RestartFollows ==
    ASSUME IInv, Restart
    PROVE  Replaced' /\ EntriesAreFollowed
<1>1. req \in Seq(ReqRec) /\ call \in [Calls -> CallRec]
  BY DEF IInv, Typed
<1>2. /\ Requests' = Requests
      /\ \A r \in Requests : req'[r].state # "PENDING"
  <2>1. \A r \in Requests : req[r] \in ReqRec
    BY <1>1 DEF Requests
  <2>2. \A r \in Requests : req'[r] = [req[r] EXCEPT !.confirmed = FALSE,
                                       !.state = IF @ = "PENDING" THEN "EXPIRED" ELSE @]
    BY <1>1 DEF Restart, Requests
  <2>3. Requests' = Requests
    BY DEF Restart, Requests
  <2> QED
    BY <2>1, <2>2, <2>3 DEF ReqRec
<1>3. \A c \in Calls : call[c].pc = "ask" => call'[c].pc # "note"
  <2>1. ASSUME NEW c \in Calls, call[c].pc = "ask"
        PROVE  call'[c].pc # "note"
    <3>1. call'[c] = EndedAs(call[c], "lost") /\ call[c] \in CallRec
      BY <1>1, <2>1 DEF Restart, InFlight, Steps
    <3> QED
      BY <3>1 DEF EndedAs, CallRec
  <2> QED
    BY <2>1
<1> QED
  BY <1>2, <1>3 DEF Replaced, EntriesAreFollowed

\* A call puts an entry on the display only when the one it replaces is gone, and no step loses
\* sight of an entry that waits, but where a call names an approval or meets the note of another
\* call (_mobile_approval and abandon_outstanding of router.py).
THEOREM EntriesFollowed == ASSUME Premises PROVE Spec => [][EntriesAreFollowed]_vars
<1>1. ASSUME IInv, IInv', Replaced, [Next]_vars
      PROVE  Replaced' /\ EntriesAreFollowed
  <2>1. ASSUME NEW c \in Calls, \E s : Moving(c, s)
        PROVE  Replaced' /\ EntriesAreFollowed
    BY <1>1, <2>1, MovingHolds
  <2>2. ASSUME NEW c \in Calls, NEW i \in Inputs, NEW given \in Requests \cup {0}, Request(c, i, given)
        PROVE  Replaced' /\ EntriesAreFollowed
    BY <1>1, <2>1, <2>2, RequestMoves
  <2>3. ASSUME NEW c \in Calls, Advance(c)
        PROVE  Replaced' /\ EntriesAreFollowed
    BY <1>1, <2>1, <2>3, EarlyMoves, DescribeMoves, ProbeMoves, ClaimMoves, ExecMoves, DropMoves,
       AskMoves, NoteMoves DEF Advance
  <2>4. CASE \/ \E r \in Requests : Approve(r) \/ Deny(r) \/ Expire(r)
             \/ GiveUp \/ Close \/ CreateAutomation \/ Pause \/ Revoke \/ Drift
             \/ UNCHANGED vars
    BY <1>1, <2>4, OthersFollow
  <2>5. CASE Restart
    BY <1>1, <2>5, RestartFollows
  <2> QED
    BY <1>1, <2>2, <2>3, <2>4, <2>5 DEF Next
<1>2. Init => Replaced
  BY DEF Init, Replaced, NewCall
<1>3. IInv /\ IInv' /\ Replaced /\ [Next]_vars => Replaced' /\ [EntriesAreFollowed]_vars
  BY <1>1
<1> QED
  BY <1>2, <1>3, Inductive, PTL DEF Spec
=============================================================================
