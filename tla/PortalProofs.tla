---------------------------- MODULE PortalProofs ----------------------------
(***************************************************************************)
(* A portal is signed in to with one writing request for each approval, on *)
(* pages of the binding, and what is read afterwards shows no secret: for  *)
(* any number of tasks, sessions, pages and fields, whatever the page does *)
(* meanwhile, and through lost answers, expired sessions and restarts.     *)
(***************************************************************************)
EXTENDS Portal, TLAPS

Secrets == {Fields[i] : i \in DOMAIN Fields}
PageOrNone == DOMAIN Pages \cup {NONE}

OpRec == [kind : OpKinds, sess : Nat, man : PageOrNone, ap : Nat,
          pc : {"reap", "wipe", "over", "start", "load", "eval", "scrub", "probe", "check", "fill",
                "click", "settle", "closed", "sweep", "exit"},
          todo : SUBSET Nat, had : SUBSET Nat, wipe : Nat,
          then : {NONE, "reap", "closed", "sweep"}, build : Nat,
          seen : PageOrNone, shows : SUBSET Secrets, on : SUBSET DOMAIN Pages,
          fields : Seq(Secrets), stale : BOOLEAN,
          out : {NONE, "ok", "failed", "signed_in", "not_signed_in", "form_not_found",
                 "origin_not_bound", "approval_drift", "field_not_found", "submit_not_found",
                 "unknown_session"}]

SessRec == [life : {"starting", "open", "gone", "lost"}, page : DOMAIN Pages,
            age : {"fresh", "idle", "worn"}, auth : BOOLEAN, permits : SUBSET Nat,
            known : SUBSET Secrets, typed : SUBSET Secrets, wired : BOOLEAN, up : BOOLEAN,
            build : Nat, since : Nat]

CallRec == [pc : {"away", "ping", "opening", "going", "reading", "closing", "probing", "asking",
                  "claimed", "logging"},
            sess : Nat, op : Nat, man : PageOrNone, ap : Nat,
            told : {NONE, "failed", "going", "reading", "closing", "not_described", "denied",
                    "asked", "unknown", "done"}]

AskRec == [man : PageOrNone, sess : Nat,
           state : {"pending", "approved", "denied", "expired", "claimed"}]

WorkerTyped ==
    /\ ops \in Seq(OpRec) /\ session \in Seq(SessRec)
    /\ left \in Seq([sess : Nat, origin : Origins, op : Nat])
    /\ builds \in [core : Nat, worker : Nat] /\ builds.worker <= builds.core
    /\ Len(session) <= MaxSessions

CallersTyped ==
    /\ caller \in [Callers -> CallRec]
    /\ \A c \in Callers : /\ caller[c].op <= Len(ops) /\ caller[c].sess <= Len(session)
                          /\ caller[c].pc = "probing" => caller[c].sess \in Sessions

ApprovalsTyped ==
    /\ \A t \in DOMAIN pending : t \in 1..MaxSessions /\ pending[t] \in PageOrNone
    /\ asked \in Seq(AskRec) /\ outstanding \in 0..Len(asked) /\ vault \in {"stored", "locked"}

-----------------------------------------------------------------------------
(* What an operation may rely on where it stands.                          *)

\* Behind the look-up of its session; an execute before and behind its permit.
AtPage == {"load", "eval", "probe", "check", "fill", "click", "settle", "scrub"}
Executing == {"check", "fill", "click", "settle"}
MayHaveLeft == {"click", "settle", "eval", "scrub", "over"}

\* op is on record with sessions ss, the worker running build b.
OpSound(op, ss, b) ==
    /\ op.sess <= Len(ss) /\ op.build <= b
    /\ op.pc \in AtPage => op.sess \in DOMAIN ss /\ ss[op.sess].life # "starting"
    /\ op.pc = "start" => op.sess \in DOMAIN ss /\ ss[op.sess].life = "starting"
    /\ op.pc = "wipe" => op.wipe \in DOMAIN ss /\ op.then \in {"reap", "closed", "sweep"}
    /\ op.pc \in Executing => op.kind = "execute"
    /\ op.pc = "fill" => op.fields # <<>>
    /\ op.pc = "fill" /\ ss[op.sess].wired => Head(op.fields) \in ss[op.sess].known
    /\ op.pc \notin {"scrub", "over"} => op.shows = {}
    /\ op.pc = "scrub" => op.seen \in DOMAIN Pages
    /\ op.pc = "scrub" /\ ss[op.sess].life = "open" => op.shows \subseteq ss[op.sess].typed
    /\ op.pc = "over" /\ op.shows # {} => op.sess \in DOMAIN ss /\ ss[op.sess].life \in {"gone", "lost"}
    /\ op.pc # "over" => op.out = NONE
    /\ op.kind = "execute" => /\ op.out = "signed_in" => Pages[op.seen].success
                              /\ op.out = "not_signed_in" => ~ Pages[op.seen].success
    /\ \A p \in op.on : Pages[p].origin \in Allowed

SessSound(sn, b) ==
    /\ sn.wired => sn.life \in {"starting", "open"}
    /\ sn.life \in {"starting", "open"} => sn.typed \subseteq sn.known
    /\ Pages[sn.page].form = NONE \/ Pages[sn.page].origin \in Allowed
    /\ sn.since <= sn.build /\ sn.build <= b

Short(op) == op.pc \in {"click", "settle"} \/ (op.pc = "over" /\ op.out = "failed")

PermitSound(s, p) ==
    /\ p \in DOMAIN ops /\ ops[p].kind = "execute" /\ ops[p].sess = s /\ Short(ops[p])
    /\ \A i \in DOMAIN left : left[i].op # p

LeftSound(i) ==
    /\ left[i].op \in DOMAIN ops /\ left[i].origin = WriteOrigin
    /\ ops[left[i].op].kind = "execute" /\ ops[left[i].op].pc \in MayHaveLeft
    /\ ops[left[i].op].out # "approval_drift"

WorkInv ==
    /\ WorkerTyped
    /\ \A o \in DOMAIN ops : OpSound(ops[o], session, builds.worker)
    /\ \A s \in Sessions : SessSound(session[s], builds.worker)
    /\ \A o, q \in DOMAIN ops : ops[o].pc = "start" /\ ops[q].pc = "start" /\ o # q
                                  => ops[o].sess # ops[q].sess
    /\ \A s \in Sessions : \A p \in session[s].permits : PermitSound(s, p)
    /\ \A i \in DOMAIN left : LeftSound(i)
    /\ \A i, j \in DOMAIN left : i # j => left[i].op # left[j].op

-----------------------------------------------------------------------------
(* What a step of the worker may change.                                   *)

\* A session in any life goes on: it never starts again nor comes back, what was typed stays
\* typed, and while it is wired nothing known is forgotten.
GoesOn(old, new) ==
    /\ new.life = "starting" => old.life = "starting"
    /\ new.life = "open" => old.life \in {"starting", "open"}
    /\ old.typed \subseteq new.typed
    /\ new.wired => old.wired /\ old.known \subseteq new.known

LEMMA OpStays ==
    ASSUME NEW op \in OpRec, NEW ss \in Seq(SessRec), NEW tt \in Seq(SessRec), NEW b \in Nat, NEW d \in Nat,
           OpSound(op, ss, b), b <= d, Len(ss) <= Len(tt),
           \A s \in DOMAIN ss : GoesOn(ss[s], tt[s]),
           op.pc = "start" => tt[op.sess].life = ss[op.sess].life
    PROVE  OpSound(op, tt, d)
<1>1. \A s \in DOMAIN ss : s \in DOMAIN tt /\ ss[s] \in SessRec /\ tt[s] \in SessRec
  OBVIOUS
<1>2. op.build \in Nat /\ op.sess \in Nat
  BY DEF OpRec
<1>3. op.sess <= Len(tt) /\ op.build <= d
  <2>1. op.sess <= Len(ss) /\ op.build <= b
    BY DEF OpSound
  <2>2. Len(ss) \in Nat /\ Len(tt) \in Nat
    OBVIOUS
  <2> QED
    BY <1>2, <2>1, <2>2
<1>4. op.pc \in AtPage => op.sess \in DOMAIN ss
  BY DEF OpSound
<1>5. /\ op.pc \in AtPage => op.sess \in DOMAIN tt /\ tt[op.sess].life # "starting"
      /\ op.pc = "fill" /\ tt[op.sess].wired => Head(op.fields) \in tt[op.sess].known
      /\ op.pc = "scrub" /\ tt[op.sess].life = "open" => op.shows \subseteq tt[op.sess].typed
  BY <1>1, <1>4 DEF OpSound, GoesOn, AtPage
<1>6. /\ op.pc = "start" => op.sess \in DOMAIN tt /\ tt[op.sess].life = "starting"
      /\ op.pc = "wipe" => op.wipe \in DOMAIN tt
      /\ op.pc = "over" /\ op.shows # {} => op.sess \in DOMAIN tt /\ tt[op.sess].life \in {"gone", "lost"}
  BY <1>1 DEF OpSound, GoesOn, SessRec
<1> QED
  BY <1>3, <1>5, <1>6 DEF OpSound

\* The operations but o are as they were, o became new, and so on: an operation that works.
LEMMA WorkKeeps ==
    ASSUME WorkInv, NEW o \in DOMAIN ops, NEW new \in OpRec, ops' = [ops EXCEPT ![o] = new],
           ops[o].pc # "over", new.kind = ops[o].kind, new.sess = ops[o].sess,
           new.pc = "start" => ops[o].pc = "start",
           ops[o].pc \in MayHaveLeft => new.pc \in MayHaveLeft /\ new.out # "approval_drift",
           UNCHANGED left, UNCHANGED builds,
           session' \in Seq(SessRec), Len(session') = Len(session),
           \A s \in Sessions : GoesOn(session[s], session'[s]),
           \A s \in Sessions : SessSound(session'[s], builds.worker),
           \A q \in DOMAIN ops \ {o} : ops[q].pc = "start"
              => session'[ops[q].sess].life = session[ops[q].sess].life,
           \A s \in Sessions : \A p \in session'[s].permits :
              \/ p \in session[s].permits
              \/ p = o /\ s = new.sess /\ new.kind = "execute" /\ ops[o].pc \notin MayHaveLeft,
           \A s \in Sessions : o \in session'[s].permits => Short(new),
           OpSound(new, session', builds.worker)
    PROVE  WorkInv'
<1>1. /\ ops' \in Seq(OpRec) /\ DOMAIN ops' = DOMAIN ops /\ ops'[o] = new
      /\ \A q \in DOMAIN ops \ {o} : ops'[q] = ops[q]
  BY DEF WorkInv, WorkerTyped
<1>2. WorkerTyped' /\ DOMAIN session' = DOMAIN session /\ builds.worker \in Nat
  BY <1>1 DEF WorkInv, WorkerTyped
<1>3. ASSUME NEW q \in DOMAIN ops PROVE OpSound(ops'[q], session', builds.worker)
  <2>1. CASE q = o
    BY <1>1, <2>1
  <2>2. CASE q # o
    <3>1. ops[q] \in OpRec /\ OpSound(ops[q], session, builds.worker) /\ session \in Seq(SessRec)
      BY DEF WorkInv, WorkerTyped
    <3>2. /\ \A s \in DOMAIN session : GoesOn(session[s], session'[s])
          /\ ops[q].pc = "start" => session'[ops[q].sess].life = session[ops[q].sess].life
      BY <2>2 DEF Sessions
    <3>3. Len(session) <= Len(session') /\ builds.worker <= builds.worker
      BY <1>2, <3>1
    <3>4. OpSound(ops[q], session', builds.worker)
      BY <1>2, <3>1, <3>2, <3>3, OpStays
    <3> QED
      BY <1>1, <2>2, <3>4
  <2> QED
    BY <2>1, <2>2
<1>4. \A p, q \in DOMAIN ops' : ops'[p].pc = "start" /\ ops'[q].pc = "start" /\ p # q
                                  => ops'[p].sess # ops'[q].sess
  BY <1>1 DEF WorkInv
<1>5. ASSUME NEW i \in DOMAIN left PROVE LeftSound(i)'
  BY <1>1, <1>5 DEF WorkInv, LeftSound
<1>6. ASSUME NEW s \in Sessions, NEW p \in session'[s].permits PROVE PermitSound(s, p)'
  <2>1. CASE p \in session[s].permits
    BY <1>1, <1>6, <2>1 DEF WorkInv, PermitSound
  <2>2. CASE p = o /\ s = new.sess /\ new.kind = "execute" /\ ops[o].pc \notin MayHaveLeft
    <3>1. \A i \in DOMAIN left : left[i].op # o
      BY <2>2 DEF WorkInv, LeftSound
    <3> QED
      BY <1>1, <1>6, <2>2, <3>1 DEF PermitSound
  <2> QED
    BY <1>6, <2>1, <2>2
<1> QED
  BY <1>1, <1>2, <1>3, <1>4, <1>5, <1>6 DEF WorkInv, Sessions

\* The same, for one that leaves the sessions alone.
LEMMA ControlKeeps ==
    ASSUME WorkInv, NEW o \in DOMAIN ops, NEW new \in OpRec, ops' = [ops EXCEPT ![o] = new],
           ops[o].pc # "over", new.kind = ops[o].kind, new.sess = ops[o].sess,
           new.pc = "start" => ops[o].pc = "start",
           ops[o].pc \in MayHaveLeft => new.pc \in MayHaveLeft /\ new.out # "approval_drift",
           Short(ops[o]) => Short(new),
           UNCHANGED left, UNCHANGED builds, UNCHANGED session,
           OpSound(new, session, builds.worker)
    PROVE  WorkInv'
<1>1. session' \in Seq(SessRec) /\ Len(session') = Len(session)
  BY DEF WorkInv, WorkerTyped
<1>2. \A s \in Sessions : GoesOn(session[s], session'[s]) /\ SessSound(session'[s], builds.worker)
  BY DEF WorkInv, GoesOn
<1>3. \A s \in Sessions : \A p \in session'[s].permits : p \in session[s].permits
  OBVIOUS
<1>4. \A s \in Sessions : o \in session'[s].permits => Short(new)
  BY DEF WorkInv, PermitSound
<1>5. OpSound(new, session', builds.worker)
  OBVIOUS
<1> QED
  BY <1>1, <1>2, <1>3, <1>4, <1>5, WorkKeeps

\* Or changes one session, without a permit more.
LEMMA OneSessionKeeps ==
    ASSUME WorkInv, NEW o \in DOMAIN ops, NEW new \in OpRec, ops' = [ops EXCEPT ![o] = new],
           ops[o].pc # "over", new.kind = ops[o].kind, new.sess = ops[o].sess,
           new.pc = "start" => ops[o].pc = "start",
           ops[o].pc \in MayHaveLeft => new.pc \in MayHaveLeft /\ new.out # "approval_drift",
           UNCHANGED left, UNCHANGED builds,
           NEW s \in Sessions, NEW sn \in SessRec, session' = [session EXCEPT ![s] = sn],
           GoesOn(session[s], sn), SessSound(sn, builds.worker),
           sn.life = session[s].life \/ session[s].life # "starting" \/ (ops[o].pc = "start" /\ s = ops[o].sess),
           \A p \in sn.permits : \/ p \in session[s].permits
                                 \/ /\ p = o /\ s = new.sess /\ new.kind = "execute"
                                    /\ ops[o].pc \notin MayHaveLeft,
           Short(ops[o]) => s = ops[o].sess \/ Short(new),
           o \in sn.permits => Short(new),
           OpSound(new, [session EXCEPT ![s] = sn], builds.worker)
    PROVE  WorkInv'
<1>1. /\ session' \in Seq(SessRec) /\ Len(session') = Len(session) /\ session'[s] = sn
      /\ \A t \in Sessions \ {s} : session'[t] = session[t]
  BY DEF WorkInv, WorkerTyped, Sessions
<1>2. \A t \in Sessions : GoesOn(session[t], session'[t]) /\ SessSound(session'[t], builds.worker)
  BY <1>1 DEF WorkInv, GoesOn
<1>3. ASSUME NEW q \in DOMAIN ops \ {o}, ops[q].pc = "start"
      PROVE  session'[ops[q].sess].life = session[ops[q].sess].life
  <2>1. ops[q].sess \in Sessions /\ session[ops[q].sess].life = "starting"
    BY <1>3 DEF WorkInv, OpSound, Sessions
  <2>2. CASE ops[q].sess = s
    BY <1>1, <1>3, <2>1, <2>2 DEF WorkInv
  <2>3. CASE ops[q].sess # s
    BY <1>1, <2>1, <2>3
  <2> QED
    BY <2>2, <2>3
<1>4. \A t \in Sessions : \A p \in session'[t].permits :
              \/ p \in session[t].permits
              \/ p = o /\ t = new.sess /\ new.kind = "execute" /\ ops[o].pc \notin MayHaveLeft
  BY <1>1
<1>5. ASSUME NEW t \in Sessions, o \in session'[t].permits PROVE Short(new)
  <2>1. CASE t = s
    BY <1>1, <1>5, <2>1
  <2>2. CASE t # s
    BY <1>1, <1>5, <2>2 DEF WorkInv, PermitSound
  <2> QED
    BY <2>1, <2>2
<1>6. OpSound(new, session', builds.worker)
  OBVIOUS
<1> QED
  BY <1>1, <1>2, <1>3, <1>4, <1>5, <1>6, WorkKeeps

-----------------------------------------------------------------------------
(* Operations that leave the sessions alone.                               *)

Outcomes == {"ok", "failed", "form_not_found", "origin_not_bound", "approval_drift",
             "field_not_found", "submit_not_found", "unknown_session"}

LEMMA HasType ==
    ASSUME WorkInv, NEW o \in DOMAIN ops
    PROVE  ops[o] \in OpRec /\ OpSound(ops[o], session, builds.worker)
  BY DEF WorkInv, WorkerTyped

LEMMA FoundIs ==
    ASSUME NEW o, Found(o)
    PROVE  ops[o].sess \in DOMAIN session /\ session[ops[o].sess].life = "open"
  BY DEF Found, Opened, Sessions

\* It ends, without a word about the login.
LEMMA OverKeeps ==
    ASSUME WorkInv, ConstantsOK, NEW o \in DOMAIN ops, NEW out \in Outcomes, NEW seen \in PageOrNone,
           Over(o, out, seen), ops[o].pc \notin {"over", "scrub"},
           out = "approval_drift" => ops[o].pc \notin MayHaveLeft,
           Short(ops[o]) => out = "failed",
           UNCHANGED session, UNCHANGED left, UNCHANGED builds
    PROVE  WorkInv'
<1> DEFINE new == [ops[o] EXCEPT !.pc = "over", !.out = out, !.seen = seen]
<1>1. ops[o] \in OpRec /\ OpSound(ops[o], session, builds.worker)
  BY HasType
<1>2. ops' = [ops EXCEPT ![o] = new]
  BY DEF Over
<1>3. /\ new \in OpRec /\ new.kind = ops[o].kind /\ new.sess = ops[o].sess /\ new.pc = "over"
      /\ new.out = out /\ new.shows = {} /\ new.build = ops[o].build /\ new.on = ops[o].on
  BY <1>1 DEF OpRec, Outcomes, OpSound
<1> HIDE DEF new
<1>4. OpSound(new, session, builds.worker)
  BY <1>1, <1>3 DEF OpSound, AtPage, Executing, Outcomes
<1>5. Short(ops[o]) => Short(new)
  BY <1>3 DEF Short
<1>6. ops[o].pc \in MayHaveLeft => new.pc \in MayHaveLeft /\ new.out # "approval_drift"
  BY <1>3 DEF MayHaveLeft
<1> QED
  BY <1>2, <1>3, <1>4, <1>5, <1>6, ControlKeeps

LEMMA FailsKeeps ==
    ASSUME WorkInv, ConstantsOK, NEW o \in DOMAIN ops, NEW out \in Outcomes, Fails(o, out),
           ops[o].pc \notin {"over", "scrub"},
           out = "approval_drift" => ops[o].pc \notin MayHaveLeft,
           Short(ops[o]) => out = "failed",
           UNCHANGED session, UNCHANGED left, UNCHANGED builds
    PROVE  WorkInv'
  BY OverKeeps DEF Fails, PageOrNone

\* It goes on to a place where it relies on no more than it knows.
LEMMA GoesKeeps ==
    ASSUME WorkInv, ConstantsOK, NEW o \in DOMAIN ops, NEW pc \in {"load", "eval", "probe", "check", "settle", "exit", "sweep"},
           Goes(o, pc), ops[o].pc \notin {"over", "scrub"},
           pc \in AtPage => ops[o].sess \in Sessions /\ session[ops[o].sess].life # "starting",
           pc \in Executing => ops[o].kind = "execute",
           ops[o].pc \in MayHaveLeft => pc \in MayHaveLeft,
           Short(ops[o]) => pc = "settle",
           UNCHANGED session, UNCHANGED left, UNCHANGED builds
    PROVE  WorkInv'
<1> DEFINE new == [ops[o] EXCEPT !.pc = pc]
<1>1. ops[o] \in OpRec /\ OpSound(ops[o], session, builds.worker)
  BY HasType
<1>2. ops' = [ops EXCEPT ![o] = new]
  BY DEF Goes
<1>3. /\ new \in OpRec /\ new.kind = ops[o].kind /\ new.sess = ops[o].sess /\ new.pc = pc
      /\ new.out = ops[o].out /\ new.shows = ops[o].shows /\ new.build = ops[o].build
      /\ new.on = ops[o].on /\ new.seen = ops[o].seen
  BY <1>1 DEF OpRec
<1> HIDE DEF new
<1>4. OpSound(new, session, builds.worker)
  BY <1>1, <1>3 DEF OpSound, Sessions
<1>5. Short(ops[o]) => Short(new)
  BY <1>3 DEF Short
<1>6. ops[o].pc \in MayHaveLeft => new.pc \in MayHaveLeft /\ new.out # "approval_drift"
  BY <1>1, <1>3 DEF OpSound, MayHaveLeft, ConstantsOK
<1> QED
  BY <1>2, <1>3, <1>4, <1>5, <1>6, ControlKeeps

-----------------------------------------------------------------------------
(* Operations that work on one session.                                    *)

LEMMA TouchKeeps ==
    ASSUME WorkInv, NEW o \in DOMAIN ops, NEW new \in OpRec, ops' = [ops EXCEPT ![o] = new],
           ops[o].pc # "over", new.kind = ops[o].kind, new.sess = ops[o].sess, new.pc # "start",
           ops[o].pc \in MayHaveLeft => new.pc \in MayHaveLeft /\ new.out # "approval_drift",
           UNCHANGED left, UNCHANGED builds,
           NEW s \in Sessions, NEW sn \in SessRec, session' = [session EXCEPT ![s] = sn],
           GoesOn(session[s], sn), SessSound(sn, builds.worker),
           sn.life = session[s].life \/ session[s].life # "starting" \/ (ops[o].pc = "start" /\ s = ops[o].sess),
           sn.permits \subseteq session[s].permits,
           Short(ops[o]) => (s = ops[o].sess /\ o \notin sn.permits) \/ Short(new),
           OpSound(new, session, builds.worker)
    PROVE  WorkInv'
<1>1. /\ session' \in Seq(SessRec) /\ session \in Seq(SessRec) /\ Len(session') = Len(session)
      /\ session'[s] = sn /\ \A t \in Sessions \ {s} : session'[t] = session[t]
      /\ builds.worker \in Nat
  BY DEF WorkInv, WorkerTyped, Sessions
<1>2. \A t \in DOMAIN session : GoesOn(session[t], session'[t])
  BY <1>1 DEF WorkInv, GoesOn, Sessions
<1>3. Len(session) <= Len(session') /\ builds.worker <= builds.worker
  BY <1>1
<1>4. OpSound(new, session', builds.worker)
  BY <1>1, <1>2, <1>3, OpStays
<1>5. ASSUME o \in sn.permits PROVE Short(new)
  BY <1>5 DEF WorkInv, PermitSound
<1>6. Short(ops[o]) => s = ops[o].sess \/ Short(new)
  OBVIOUS
<1>7. OpSound(new, [session EXCEPT ![s] = sn], builds.worker)
  BY <1>4
<1> QED
  BY <1>5, <1>6, <1>7, OneSessionKeeps

LEMMA SessHasType ==
    ASSUME WorkInv, NEW s \in Sessions
    PROVE  session[s] \in SessRec /\ SessSound(session[s], builds.worker)
  BY DEF WorkInv, WorkerTyped, Sessions

LEMMA AtPageIs ==
    ASSUME WorkInv, NEW o \in DOMAIN ops, ops[o].pc \in AtPage
    PROVE  ops[o].sess \in Sessions /\ session[ops[o].sess].life # "starting"
  BY HasType DEF OpSound, Sessions

LEMMA TouchedIs ==
    ASSUME WorkInv, NEW s \in Sessions
    PROVE  /\ Touched(s) \in SessRec /\ GoesOn(session[s], Touched(s)) /\ SessSound(Touched(s), builds.worker)
           /\ Touched(s).life = session[s].life /\ Touched(s).permits = session[s].permits
           /\ Touched(s).typed = session[s].typed /\ Touched(s).known = session[s].known
           /\ Touched(s).wired = session[s].wired
<1>1. session[s] \in SessRec /\ SessSound(session[s], builds.worker)
  BY SessHasType
<1> DEFINE sn == [session[s] EXCEPT !.age = IF session[s].age = "idle" THEN "fresh" ELSE session[s].age]
<1>2. Touched(s) = sn
  BY DEF Touched
<1>3. /\ sn \in SessRec /\ sn.life = session[s].life /\ sn.permits = session[s].permits
      /\ sn.typed = session[s].typed /\ sn.known = session[s].known /\ sn.wired = session[s].wired
      /\ sn.page = session[s].page /\ sn.build = session[s].build /\ sn.since = session[s].since
  BY <1>1 DEF SessRec
<1> HIDE DEF sn
<1> QED
  BY <1>1, <1>2, <1>3 DEF GoesOn, SessSound

LEMMA CutIs ==
    ASSUME WorkInv, NEW s \in Sessions
    PROVE  /\ Cut(s) \in SessRec /\ GoesOn(session[s], Cut(s)) /\ SessSound(Cut(s), builds.worker)
           /\ Cut(s).permits = {} /\ Cut(s).life = "gone"
<1>1. session[s] \in SessRec /\ SessSound(session[s], builds.worker)
  BY SessHasType
<1>2. /\ Cut(s) \in SessRec /\ Cut(s).life = "gone" /\ Cut(s).permits = {} /\ ~ Cut(s).wired
      /\ Cut(s).typed = session[s].typed /\ Cut(s).page = session[s].page
      /\ Cut(s).build = session[s].build /\ Cut(s).since = session[s].since
  BY <1>1 DEF Cut, SessRec
<1> QED
  BY <1>1, <1>2 DEF GoesOn, SessSound

\* A session on the list is taken off it and destroyed.
LEMMA DestroysKeeps ==
    ASSUME WorkInv, NEW o \in DOMAIN ops, NEW s \in Opened, NEW then \in {"reap", "closed", "sweep"},
           NEW todo \in SUBSET Nat,
           ops[o].pc \in {"reap", "sweep"}, UNCHANGED left, UNCHANGED builds,
           session' = [session EXCEPT ![s] = Cut(s)],
           ops' = [ops EXCEPT ![o].pc = "wipe", ![o].wipe = s, ![o].then = then, ![o].todo = todo]
    PROVE  WorkInv'
<1> DEFINE new == [ops[o] EXCEPT !.pc = "wipe", !.wipe = s, !.then = then, !.todo = todo]
<1>1. ops[o] \in OpRec /\ OpSound(ops[o], session, builds.worker)
  BY HasType
<1>2. s \in Sessions /\ session[s].life = "open" /\ s \in Nat /\ s \in DOMAIN session
  BY DEF Opened, Sessions, WorkInv, WorkerTyped
<1>3. ops' = [ops EXCEPT ![o] = new]
  OBVIOUS
<1>4. /\ new \in OpRec /\ new.kind = ops[o].kind /\ new.sess = ops[o].sess /\ new.pc = "wipe"
      /\ new.out = ops[o].out /\ new.shows = ops[o].shows /\ new.build = ops[o].build
      /\ new.on = ops[o].on /\ new.seen = ops[o].seen /\ new.wipe = s /\ new.then = then
  BY <1>1, <1>2 DEF OpRec
<1> HIDE DEF new
<1>5. OpSound(new, session, builds.worker)
  BY <1>1, <1>2, <1>4 DEF OpSound, AtPage, Executing
<1>6. ~ Short(ops[o]) /\ ops[o].pc \notin MayHaveLeft
  BY DEF Short, MayHaveLeft
<1> DEFINE sn == Cut(s)
<1>7. /\ sn \in SessRec /\ GoesOn(session[s], sn) /\ SessSound(sn, builds.worker) /\ sn.permits = {}
      /\ session' = [session EXCEPT ![s] = sn]
  BY <1>2, CutIs
<1> HIDE DEF sn
<1>8. sn.permits \subseteq session[s].permits
  BY <1>7
<1> QED
  BY <1>2, <1>3, <1>4, <1>5, <1>6, <1>7, <1>8, TouchKeeps

-----------------------------------------------------------------------------
(* The operations, one after the other.                                    *)

LEMMA BusyIs ==
    ASSUME Busy
    PROVE  UNCHANGED left /\ UNCHANGED builds
  BY DEF Busy

LEMMA ReapKeeps ==
    ASSUME WorkInv, NEW o \in DOMAIN ops, Reap(o)
    PROVE  WorkInv'
<1> DEFINE todo == ops[o].todo
<1>1. PICK s \in Old : Destroys(o, s, "reap")
  BY DEF Reap
<1>2. s \in Opened /\ ops[o] \in OpRec /\ todo \in SUBSET Nat /\ ops \in Seq(OpRec)
  BY HasType DEF Old, OpRec, WorkInv, WorkerTyped
<1>3. ops' = [ops EXCEPT ![o].pc = "wipe", ![o].wipe = s, ![o].then = "reap", ![o].todo = todo]
  BY <1>1, <1>2 DEF Destroys, OpRec
<1>4. ops[o].pc = "reap" /\ UNCHANGED left /\ UNCHANGED builds /\ session' = [session EXCEPT ![s] = Cut(s)]
  BY <1>1, BusyIs DEF Reap, Destroys
<1> HIDE DEF todo
<1> QED
  BY <1>2, <1>3, <1>4, DestroysKeeps

LEMMA CloseKeeps ==
    ASSUME WorkInv, ConstantsOK, NEW o \in DOMAIN ops, _op_close_session(o)
    PROVE  WorkInv'
<1>1. ops[o].pc = "reap" /\ UNCHANGED left /\ UNCHANGED builds
  BY BusyIs DEF _op_close_session, Handles
<1>2. CASE Found(o)
  <2> DEFINE todo == ops[o].todo
             s == ops[o].sess
  <2>1. s \in Opened /\ ops[o] \in OpRec /\ todo \in SUBSET Nat /\ ops \in Seq(OpRec)
    BY <1>2, HasType DEF Found, OpRec, WorkInv, WorkerTyped
  <2>2. Destroys(o, s, "closed")
    BY <1>2 DEF _op_close_session
  <2>3. ops' = [ops EXCEPT ![o].pc = "wipe", ![o].wipe = s, ![o].then = "closed", ![o].todo = todo]
    BY <2>1, <2>2 DEF Destroys, OpRec
  <2>4. session' = [session EXCEPT ![s] = Cut(s)]
    BY <2>2 DEF Destroys
  <2> HIDE DEF todo, s
  <2> QED
    BY <1>1, <2>1, <2>3, <2>4, DestroysKeeps
<1>3. CASE ~ Found(o)
  BY <1>1, <1>3, FailsKeeps DEF _op_close_session, Outcomes, MayHaveLeft, Short
<1> QED
  BY <1>2, <1>3

LEMMA SweepKeeps ==
    ASSUME WorkInv, ConstantsOK, NEW o \in DOMAIN ops, Sweep(o)
    PROVE  WorkInv'
<1>1. ops[o].pc = "sweep" /\ UNCHANGED left /\ UNCHANGED builds
  BY BusyIs DEF Sweep
<1>2. CASE Goes(o, "exit") /\ UNCHANGED session
  BY <1>1, <1>2, GoesKeeps DEF AtPage, Executing, MayHaveLeft, Short
<1>3. CASE Fails(o, "failed") /\ UNCHANGED session
  BY <1>1, <1>3, FailsKeeps DEF Outcomes
<1>4. ASSUME NEW s \in ops[o].todo \cap Opened, session' = [session EXCEPT ![s] = Cut(s)],
             ops' = [ops EXCEPT ![o].pc = "wipe", ![o].wipe = s, ![o].then = "sweep", ![o].todo = @ \ {s}]
      PROVE  WorkInv'
  <2> DEFINE todo == ops[o].todo \ {s}
  <2>1. todo \in SUBSET Nat
    BY HasType DEF OpRec
  <2>2. ops' = [ops EXCEPT ![o].pc = "wipe", ![o].wipe = s, ![o].then = "sweep", ![o].todo = todo]
    BY <1>4, HasType DEF OpRec
  <2> HIDE DEF todo
  <2> QED
    BY <1>1, <1>4, <2>1, <2>2, DestroysKeeps
<1> QED
  BY <1>2, <1>3, <1>4 DEF Sweep

LEMMA WipedKeeps ==
    ASSUME WorkInv, ConstantsOK, NEW o \in DOMAIN ops, Wiped(o)
    PROVE  WorkInv'
<1> DEFINE then == ops[o].then
           new == [ops[o] EXCEPT !.pc = then, !.wipe = 0]
           s == ops[o].wipe
           sn == [session[s] EXCEPT !.up = FALSE]
<1>1. ops[o] \in OpRec /\ OpSound(ops[o], session, builds.worker)
  BY HasType
<1>2. ops[o].pc = "wipe" /\ UNCHANGED left /\ UNCHANGED builds
  BY BusyIs DEF Wiped
<1>3. s \in Sessions /\ then \in {"reap", "closed", "sweep"}
  BY <1>1, <1>2 DEF OpSound, Sessions
<1>4. ops' = [ops EXCEPT ![o] = new] /\ session' = [session EXCEPT ![s] = sn]
  BY DEF Wiped
<1>5. session[s] \in SessRec /\ SessSound(session[s], builds.worker)
  BY <1>3, SessHasType
<1> HIDE DEF s
<1>6. /\ sn \in SessRec /\ sn.life = session[s].life /\ sn.permits = session[s].permits
      /\ sn.typed = session[s].typed /\ sn.known = session[s].known /\ sn.wired = session[s].wired
      /\ sn.page = session[s].page /\ sn.build = session[s].build /\ sn.since = session[s].since
  BY <1>5 DEF SessRec
<1> HIDE DEF sn
<1>7. GoesOn(session[s], sn) /\ SessSound(sn, builds.worker)
  BY <1>5, <1>6 DEF GoesOn, SessSound
<1> HIDE DEF then
<1>8. /\ new \in OpRec /\ new.kind = ops[o].kind /\ new.sess = ops[o].sess /\ new.pc = then
      /\ new.out = ops[o].out /\ new.shows = ops[o].shows /\ new.build = ops[o].build
      /\ new.on = ops[o].on /\ new.seen = ops[o].seen
  BY <1>1, <1>3 DEF OpRec
<1> HIDE DEF new
<1>9. OpSound(new, session, builds.worker)
  BY <1>1, <1>2, <1>3, <1>8 DEF OpSound, AtPage, Executing
<1>10. ~ Short(ops[o]) /\ ops[o].pc \notin MayHaveLeft /\ new.pc # "start"
  BY <1>2, <1>3, <1>8 DEF Short, MayHaveLeft
<1>11. sn.permits \subseteq session[s].permits
  BY <1>6
<1> QED
  BY <1>2, <1>3, <1>4, <1>6, <1>7, <1>8, <1>9, <1>10, <1>11, TouchKeeps

LEMMA PingKeeps ==
    ASSUME WorkInv, ConstantsOK, NEW o \in DOMAIN ops, _op_ping(o)
    PROVE  WorkInv'
<1> DEFINE b == builds.worker
           new == [ops[o] EXCEPT !.pc = "over", !.out = "ok", !.build = b]
<1>1. ops[o] \in OpRec /\ OpSound(ops[o], session, b) /\ b \in Nat
  BY HasType DEF WorkInv, WorkerTyped
<1>2. /\ ops[o].pc = "reap" /\ UNCHANGED left /\ UNCHANGED builds /\ UNCHANGED session
      /\ ops' = [ops EXCEPT ![o] = new]
  BY BusyIs DEF _op_ping, Handles
<1> HIDE DEF b
<1>3. /\ new \in OpRec /\ new.kind = ops[o].kind /\ new.sess = ops[o].sess /\ new.pc = "over"
      /\ new.out = "ok" /\ new.shows = ops[o].shows /\ new.build = b
      /\ new.on = ops[o].on /\ new.seen = ops[o].seen
  BY <1>1 DEF OpRec
<1> HIDE DEF new
<1>4. OpSound(new, session, b)
  <2>1. b <= b
    BY <1>1
  <2>2. ops[o].shows = {}
    BY <1>1, <1>2 DEF OpSound
  <2> QED
    BY <1>1, <1>3, <2>1, <2>2 DEF OpSound, AtPage, Executing
<1>5. ~ Short(ops[o]) /\ ops[o].pc \notin MayHaveLeft
  BY <1>2 DEF Short, MayHaveLeft
<1> QED
  BY <1>2, <1>3, <1>4, <1>5, ControlKeeps DEF b

\* What looks its session up and goes to its page, or fails.
LEMMA LookUpKeeps ==
    ASSUME WorkInv, ConstantsOK, NEW o \in DOMAIN ops,
           _op_navigate(o) \/ _op_probe_action(o) \/ _op_execute(o)
    PROVE  WorkInv'
<1>1. ops[o].pc = "reap" /\ UNCHANGED left /\ UNCHANGED builds /\ UNCHANGED session
  BY BusyIs DEF _op_navigate, _op_probe_action, _op_execute, Handles
<1>2. CASE \E out \in {"failed", "origin_not_bound"} : Fails(o, out)
  BY <1>1, <1>2, FailsKeeps DEF Outcomes, MayHaveLeft, Short
<1>3. ASSUME NEW pc \in {"load", "probe", "check"}, Goes(o, pc), Found(o),
             pc = "check" => ops[o].kind = "execute"
      PROVE  WorkInv'
  <2>1. ops[o].sess \in Sessions /\ session[ops[o].sess].life # "starting"
    BY <1>3, FoundIs DEF Sessions
  <2> QED
    BY <1>1, <1>3, <2>1, GoesKeeps DEF Executing, MayHaveLeft, Short
<1> QED
  BY <1>2, <1>3 DEF _op_navigate, _op_probe_action, _op_execute, Handles

LEMMA ReadKeeps ==
    ASSUME WorkInv, ConstantsOK, NEW o \in DOMAIN ops, _op_read(o)
    PROVE  WorkInv'
<1>1. ops[o].pc = "reap" /\ UNCHANGED left /\ UNCHANGED builds
  BY BusyIs DEF _op_read, Handles
<1>2. CASE ~ Found(o)
  BY <1>1, <1>2, FailsKeeps DEF _op_read, Outcomes, MayHaveLeft, Short
<1>3. CASE Found(o)
  <2> DEFINE s == ops[o].sess
             sn == Touched(s)
             new == [ops[o] EXCEPT !.pc = "eval"]
  <2>1. s \in Sessions /\ session[s].life = "open"
    BY <1>3, FoundIs DEF Sessions
  <2>2. ops' = [ops EXCEPT ![o] = new] /\ session' = [session EXCEPT ![s] = sn]
    BY <1>3 DEF _op_read, Goes
  <2>3. ops[o] \in OpRec /\ OpSound(ops[o], session, builds.worker)
    BY HasType
  <2>4. /\ new \in OpRec /\ new.kind = ops[o].kind /\ new.sess = ops[o].sess /\ new.pc = "eval"
        /\ new.out = ops[o].out /\ new.shows = ops[o].shows /\ new.build = ops[o].build
        /\ new.on = ops[o].on /\ new.seen = ops[o].seen
    BY <2>3 DEF OpRec
  <2> HIDE DEF new
  <2>5. OpSound(new, session, builds.worker)
    BY <1>1, <2>1, <2>3, <2>4 DEF OpSound, Executing, Sessions
  <2> HIDE DEF s
  <2>6. /\ sn \in SessRec /\ GoesOn(session[s], sn) /\ SessSound(sn, builds.worker)
        /\ sn.life = session[s].life /\ sn.permits = session[s].permits
    BY <2>1, TouchedIs
  <2> HIDE DEF sn
  <2>7. ~ Short(ops[o]) /\ ops[o].pc \notin MayHaveLeft
    BY <1>1 DEF Short, MayHaveLeft
  <2>8. sn.permits \subseteq session[s].permits
    BY <2>6
  <2> QED
    BY <1>1, <2>1, <2>2, <2>4, <2>5, <2>6, <2>7, <2>8, TouchKeeps
<1> QED
  BY <1>2, <1>3

LEMMA StartedKeeps ==
    ASSUME WorkInv, ConstantsOK, NEW o \in DOMAIN ops, NEW out \in {"ok", "failed"}, Fails(o, out),
           ops[o].pc = "start", UNCHANGED left, UNCHANGED builds,
           NEW sn \in SessRec, session' = [session EXCEPT ![ops[o].sess] = sn],
           LET old == session[ops[o].sess] IN
           /\ sn.life \in {"open", "gone", "lost"}
           /\ sn.wired => (old.wired /\ sn.life = "open")
           /\ sn.permits = old.permits /\ sn.typed = old.typed /\ sn.known = old.known
           /\ sn.page = old.page /\ sn.build = old.build /\ sn.since = old.since
    PROVE  WorkInv'
<1> DEFINE s == ops[o].sess
           new == [ops[o] EXCEPT !.pc = "over", !.out = out, !.seen = NONE]
<1>1. ops[o] \in OpRec /\ OpSound(ops[o], session, builds.worker)
  BY HasType
<1>2. s \in Sessions /\ session[s].life = "starting"
  BY <1>1 DEF OpSound, Sessions
<1>3. session[s] \in SessRec /\ SessSound(session[s], builds.worker)
  BY <1>2, SessHasType
<1>4. ops' = [ops EXCEPT ![o] = new]
  BY DEF Fails, Over
<1>5. /\ new \in OpRec /\ new.kind = ops[o].kind /\ new.sess = ops[o].sess /\ new.pc = "over"
      /\ new.out = out /\ new.shows = ops[o].shows /\ new.build = ops[o].build
      /\ new.on = ops[o].on
  BY <1>1 DEF OpRec, PageOrNone
<1> HIDE DEF new
<1>6. OpSound(new, session, builds.worker)
  <2>1. ops[o].shows = {}
    BY <1>1 DEF OpSound
  <2> QED
    BY <1>1, <1>5, <2>1 DEF OpSound, AtPage, Executing
<1>7. GoesOn(session[s], sn) /\ SessSound(sn, builds.worker) /\ sn.permits \subseteq session[s].permits
  BY <1>2, <1>3 DEF GoesOn, SessSound
<1>8. ~ Short(ops[o]) /\ ops[o].pc \notin MayHaveLeft
  BY DEF Short, MayHaveLeft
<1> QED
  BY <1>2, <1>4, <1>5, <1>6, <1>7, <1>8, TouchKeeps

LEMMA StartKeeps ==
    ASSUME WorkInv, ConstantsOK, NEW o \in DOMAIN ops, Started(o) \/ Fails_to_start(o)
    PROVE  WorkInv'
<1> DEFINE s == ops[o].sess
<1>1. ops[o].pc = "start" /\ UNCHANGED left /\ UNCHANGED builds
  BY BusyIs DEF Started, Fails_to_start
<1>2. s \in Sessions /\ session[s] \in SessRec
  BY <1>1, HasType, SessHasType DEF OpSound, Sessions
<1>3. CASE Started(o)
  <2> DEFINE sn == [session[s] EXCEPT !.life = "open"]
  <2>1. session' = [session EXCEPT ![s] = sn] /\ Fails(o, "ok")
    BY <1>3 DEF Started
  <2>2. /\ sn \in SessRec /\ sn.life = "open" /\ sn.wired = session[s].wired /\ sn.permits = session[s].permits
        /\ sn.typed = session[s].typed /\ sn.known = session[s].known
        /\ sn.page = session[s].page /\ sn.build = session[s].build /\ sn.since = session[s].since
    BY <1>2 DEF SessRec
  <2> HIDE DEF sn
  <2> QED
    BY <1>1, <2>1, <2>2, StartedKeeps
<1>4. CASE Fails_to_start(o)
  <2>1. PICK life \in {"gone", "lost"} :
          session' = [session EXCEPT ![s].life = life, ![s].up = life = "lost", ![s].wired = FALSE]
    BY <1>4 DEF Fails_to_start
  <2> DEFINE sn == [session[s] EXCEPT !.life = life, !.up = (life = "lost"), !.wired = FALSE]
  <2>2. session' = [session EXCEPT ![s] = sn] /\ Fails(o, "failed")
    BY <1>4, <2>1 DEF Fails_to_start
  <2>3. /\ sn \in SessRec /\ sn.life \in {"gone", "lost"} /\ ~ sn.wired /\ sn.permits = session[s].permits
        /\ sn.typed = session[s].typed /\ sn.known = session[s].known
        /\ sn.page = session[s].page /\ sn.build = session[s].build /\ sn.since = session[s].since
    BY <1>2 DEF SessRec
  <2> HIDE DEF sn
  <2> QED
    BY <1>1, <2>2, <2>3, StartedKeeps
<1> QED
  BY <1>3, <1>4

LEMMA LoadedKeeps ==
    ASSUME WorkInv, ConstantsOK, NEW o \in DOMAIN ops, Loaded(o)
    PROVE  WorkInv'
<1> DEFINE s == ops[o].sess
           old == Touched(s)
           sn == [old EXCEPT !.page = "login"]
           new == [ops[o] EXCEPT !.pc = "eval"]
<1>1. /\ ops[o].pc = "load" /\ UNCHANGED left /\ UNCHANGED builds
      /\ ops' = [ops EXCEPT ![o] = new] /\ session' = [session EXCEPT ![s] = sn]
  BY BusyIs DEF Loaded, Goes
<1>2. s \in Sessions /\ session[s].life # "starting"
  BY <1>1, AtPageIs DEF AtPage
<1>3. ops[o] \in OpRec /\ OpSound(ops[o], session, builds.worker)
  BY HasType
<1>4. /\ new \in OpRec /\ new.kind = ops[o].kind /\ new.sess = ops[o].sess /\ new.pc = "eval"
      /\ new.out = ops[o].out /\ new.shows = ops[o].shows /\ new.build = ops[o].build
      /\ new.on = ops[o].on /\ new.seen = ops[o].seen
  BY <1>3 DEF OpRec
<1> HIDE DEF new
<1>5. OpSound(new, session, builds.worker)
  BY <1>1, <1>3, <1>4 DEF OpSound, Executing, AtPage
<1> HIDE DEF s
<1>6. /\ old \in SessRec /\ GoesOn(session[s], old) /\ SessSound(old, builds.worker)
      /\ old.life = session[s].life /\ old.permits = session[s].permits
  BY <1>2, TouchedIs
<1> HIDE DEF old
<1>7. /\ sn \in SessRec /\ sn.life = old.life /\ sn.permits = old.permits /\ sn.typed = old.typed
      /\ sn.known = old.known /\ sn.wired = old.wired /\ sn.page = "login"
      /\ sn.build = old.build /\ sn.since = old.since
  BY <1>6 DEF SessRec, ConstantsOK
<1> HIDE DEF sn
<1>8. GoesOn(session[s], sn) /\ SessSound(sn, builds.worker) /\ sn.permits \subseteq session[s].permits
  BY <1>6, <1>7 DEF GoesOn, SessSound, ConstantsOK
<1>9. ~ Short(ops[o]) /\ ops[o].pc \notin MayHaveLeft
  BY <1>1 DEF Short, MayHaveLeft
<1> QED
  BY <1>1, <1>2, <1>4, <1>5, <1>6, <1>7, <1>8, <1>9, TouchKeeps

LEMMA EvaluatedKeeps ==
    ASSUME WorkInv, ConstantsOK, NEW o \in DOMAIN ops, Evaluated(o)
    PROVE  WorkInv'
<1> DEFINE s == ops[o].sess
           new == [ops[o] EXCEPT !.pc = "scrub", !.seen = session[s].page, !.shows = session[s].typed]
<1>1. /\ ops[o].pc = "eval" /\ UNCHANGED left /\ UNCHANGED builds /\ UNCHANGED session
      /\ ops' = [ops EXCEPT ![o] = new]
  BY BusyIs DEF Evaluated
<1>2. s \in Sessions /\ session[s].life # "starting"
  BY <1>1, AtPageIs DEF AtPage
<1>3. ops[o] \in OpRec /\ OpSound(ops[o], session, builds.worker) /\ session[s] \in SessRec
  BY <1>2, HasType, SessHasType
<1>4. session[s].page \in DOMAIN Pages /\ session[s].typed \in SUBSET Secrets
  BY <1>3 DEF SessRec
<1>5. /\ new \in OpRec /\ new.kind = ops[o].kind /\ new.sess = ops[o].sess /\ new.pc = "scrub"
      /\ new.out = ops[o].out /\ new.shows = session[s].typed /\ new.build = ops[o].build
      /\ new.on = ops[o].on /\ new.seen = session[s].page
  BY <1>3, <1>4 DEF OpRec, PageOrNone
<1> HIDE DEF new
<1>6. OpSound(new, session, builds.worker)
  BY <1>1, <1>2, <1>3, <1>4, <1>5 DEF OpSound, Executing, Sessions, ConstantsOK
<1>7. ~ Short(ops[o]) /\ new.pc \in MayHaveLeft /\ new.out # "approval_drift"
  BY <1>1, <1>3, <1>5 DEF Short, MayHaveLeft, OpSound, ConstantsOK
<1> QED
  BY <1>1, <1>5, <1>6, <1>7, ControlKeeps

LEMMA ScrubbedKeeps ==
    ASSUME WorkInv, ConstantsOK, NEW o \in DOMAIN ops, Scrubbed(o)
    PROVE  WorkInv'
<1> DEFINE s == ops[o].sess
           shows == scrub(o)
           out == IF told(o) THEN "signed_in" ELSE IF ops[o].kind = "execute" THEN "not_signed_in" ELSE "ok"
           new == [ops[o] EXCEPT !.pc = "over", !.shows = shows, !.out = out]
           old == Touched(s)
           sn == IF ops[o].kind = "execute" THEN [old EXCEPT !.auth = success(o)] ELSE session[s]
<1>1. /\ ops[o].pc = "scrub" /\ UNCHANGED left /\ UNCHANGED builds
      /\ ops' = [ops EXCEPT ![o] = new] /\ session' = [session EXCEPT ![s] = sn]
  BY BusyIs DEF Scrubbed
<1>2. s \in Sessions /\ session[s].life # "starting"
  BY <1>1, AtPageIs DEF AtPage
<1>3. /\ ops[o] \in OpRec /\ OpSound(ops[o], session, builds.worker)
      /\ session[s] \in SessRec /\ SessSound(session[s], builds.worker)
  BY <1>2, HasType, SessHasType
<1>4. shows \in SUBSET Secrets /\ (session[s].life = "open" => shows = {})
  <2>1. ops[o].shows \in SUBSET Secrets
    BY <1>3 DEF OpRec
  <2>2. session[s].life = "open" => ops[o].shows \subseteq session[s].known
    BY <1>1, <1>3 DEF OpSound, SessSound
  <2> QED
    BY <2>1, <2>2 DEF scrub
<1>5. /\ out \in {"signed_in", "not_signed_in", "ok"}
      /\ ops[o].kind = "execute" => /\ out = "signed_in" => Pages[ops[o].seen].success
                                    /\ out = "not_signed_in" => ~ Pages[ops[o].seen].success
  BY DEF told, success
<1> HIDE DEF shows, out
<1>6. /\ new \in OpRec /\ new.kind = ops[o].kind /\ new.sess = ops[o].sess /\ new.pc = "over"
      /\ new.out = out /\ new.shows = shows /\ new.build = ops[o].build
      /\ new.on = ops[o].on /\ new.seen = ops[o].seen
  BY <1>3, <1>4, <1>5 DEF OpRec
<1> HIDE DEF new
<1>7. OpSound(new, session, builds.worker)
  <2>1. session[s].life \in {"open", "gone", "lost"} /\ s \in DOMAIN session
    BY <1>2, <1>3 DEF SessRec, Sessions
  <2>2. new.shows # {} => session[s].life \in {"gone", "lost"}
    BY <1>4, <1>6, <2>1
  <2> QED
    BY <1>3, <1>5, <1>6, <2>1, <2>2 DEF OpSound, AtPage, Executing
<1>8. success(o) \in BOOLEAN
  BY <1>1, <1>3 DEF OpSound, success, ConstantsOK
<1> HIDE DEF s
<1>9. /\ old \in SessRec /\ GoesOn(session[s], old) /\ SessSound(old, builds.worker)
      /\ old.life = session[s].life /\ old.permits = session[s].permits
  BY <1>2, TouchedIs
<1> HIDE DEF old
<1>10. /\ sn \in SessRec /\ sn.life = session[s].life /\ sn.permits \subseteq session[s].permits
       /\ GoesOn(session[s], sn) /\ SessSound(sn, builds.worker)
  <2>1. CASE ops[o].kind = "execute"
    <3>1. /\ sn \in SessRec /\ sn.life = old.life /\ sn.permits = old.permits /\ sn.typed = old.typed
          /\ sn.known = old.known /\ sn.wired = old.wired /\ sn.page = old.page
          /\ sn.build = old.build /\ sn.since = old.since
      BY <1>8, <1>9, <2>1 DEF SessRec
    <3> HIDE DEF sn
    <3> QED
      BY <1>9, <3>1 DEF GoesOn, SessSound
  <2>2. CASE ops[o].kind # "execute"
    BY <1>3, <2>2 DEF GoesOn
  <2> QED
    BY <2>1, <2>2
<1> HIDE DEF sn
<1>11. ~ Short(ops[o]) /\ new.pc \in MayHaveLeft /\ new.out # "approval_drift"
  BY <1>1, <1>5, <1>6 DEF Short, MayHaveLeft
<1> QED
  BY <1>1, <1>2, <1>6, <1>7, <1>10, <1>11, TouchKeeps

LEMMA ProbedKeeps ==
    ASSUME WorkInv, ConstantsOK, NEW o \in DOMAIN ops, Probed(o)
    PROVE  WorkInv'
<1>1. ops[o].pc = "probe" /\ UNCHANGED left /\ UNCHANGED builds
  BY BusyIs DEF Probed
<1>2. CASE Fails(o, "form_not_found") /\ UNCHANGED session
  BY <1>1, <1>2, FailsKeeps DEF Outcomes, MayHaveLeft, Short
<1>3. CASE ~ (Fails(o, "form_not_found") /\ UNCHANGED session)
  <2> DEFINE s == ops[o].sess
             page == session[s].page
             sn == Touched(s)
             new == [ops[o] EXCEPT !.pc = "over", !.out = "ok", !.seen = page]
  <2>1. s \in Sessions /\ session[s].life # "starting" /\ session[s] \in SessRec
    BY <1>1, AtPageIs, SessHasType DEF AtPage
  <2>2. ops' = [ops EXCEPT ![o] = new] /\ session' = [session EXCEPT ![s] = sn]
    BY <1>3 DEF Probed, Over
  <2>3. ops[o] \in OpRec /\ OpSound(ops[o], session, builds.worker) /\ page \in DOMAIN Pages
    BY <2>1, HasType DEF SessRec
  <2> HIDE DEF page
  <2>4. /\ new \in OpRec /\ new.kind = ops[o].kind /\ new.sess = ops[o].sess /\ new.pc = "over"
        /\ new.out = "ok" /\ new.shows = ops[o].shows /\ new.build = ops[o].build
        /\ new.on = ops[o].on /\ new.seen = page
    BY <2>3 DEF OpRec, PageOrNone
  <2> HIDE DEF new
  <2>5. ops[o].shows = {}
    BY <1>1, <2>3 DEF OpSound
  <2>6. OpSound(new, session, builds.worker)
    BY <2>1, <2>3, <2>4, <2>5 DEF OpSound, Executing, AtPage, Sessions
  <2> HIDE DEF s
  <2>7. /\ sn \in SessRec /\ GoesOn(session[s], sn) /\ SessSound(sn, builds.worker)
        /\ sn.life = session[s].life /\ sn.permits = session[s].permits
    BY <2>1, TouchedIs
  <2> HIDE DEF sn
  <2>8. ~ Short(ops[o]) /\ ops[o].pc \notin MayHaveLeft
    BY <1>1 DEF Short, MayHaveLeft
  <2>9. sn.permits \subseteq session[s].permits
    BY <2>7
  <2> QED
    BY <1>1, <2>1, <2>2, <2>4, <2>6, <2>7, <2>8, <2>9, TouchKeeps
<1> QED
  BY <1>2, <1>3

LEMMA FieldsAre ==
    ASSUME ConstantsOK
    PROVE  Fields \in Seq(Secrets) /\ Fields # <<>> /\ Head(Fields) \in Secrets
<1>1. Fields \in Seq(Secrets) /\ Fields # <<>>
  BY Zenon DEF ConstantsOK, Secrets
<1> QED
  BY <1>1

LEMMA CheckedKeeps ==
    ASSUME WorkInv, ConstantsOK, NEW o \in DOMAIN ops, Checked(o)
    PROVE  WorkInv'
<1>1. ops[o].pc = "check" /\ UNCHANGED left /\ UNCHANGED builds
  BY BusyIs DEF Checked
<1>2. CASE Fails(o, "approval_drift") /\ UNCHANGED session
  BY <1>1, <1>2, FailsKeeps DEF Outcomes, MayHaveLeft, Short
<1>3. CASE Sends(o, Fields)
  <2> DEFINE s == ops[o].sess
             known == session[s].known \cup {Head(Fields)}
             sn == [session[s] EXCEPT !.known = known]
             new == [ops[o] EXCEPT !.pc = "fill", !.fields = Fields]
  <2>1. s \in Sessions /\ session[s].life # "starting" /\ s \in DOMAIN session
    BY <1>1, AtPageIs DEF AtPage, Sessions
  <2>2. session[s] \in SessRec /\ SessSound(session[s], builds.worker)
    BY <2>1, SessHasType
  <2>3. ops' = [ops EXCEPT ![o] = new] /\ session' = [session EXCEPT ![s] = sn]
    BY <1>3 DEF Sends, remember
  <2>4. ops[o] \in OpRec /\ OpSound(ops[o], session, builds.worker)
    BY HasType
  <2>5. Fields \in Seq(Secrets) /\ Fields # <<>> /\ Head(Fields) \in Secrets
    BY FieldsAre
  <2>6. known \in SUBSET Secrets /\ session[s].known \subseteq known /\ Head(Fields) \in known
    BY <2>2, <2>5 DEF SessRec
  <2> HIDE DEF known
  <2>7. /\ new \in OpRec /\ new.kind = ops[o].kind /\ new.sess = s /\ new.pc = "fill"
        /\ new.out = ops[o].out /\ new.shows = ops[o].shows /\ new.build = ops[o].build
        /\ new.on = ops[o].on /\ new.fields = Fields
    BY <2>4, <2>5 DEF OpRec
  <2> HIDE DEF new
  <2>8. /\ sn \in SessRec /\ sn.life = session[s].life /\ sn.permits = session[s].permits
        /\ sn.typed = session[s].typed /\ sn.known = known /\ sn.wired = session[s].wired
        /\ sn.page = session[s].page /\ sn.build = session[s].build /\ sn.since = session[s].since
    BY <2>2, <2>6 DEF SessRec
  <2> HIDE DEF sn
  <2>9. GoesOn(session[s], sn) /\ SessSound(sn, builds.worker)
    BY <2>2, <2>6, <2>8 DEF GoesOn, SessSound
  <2> DEFINE ss == [session EXCEPT ![s] = sn]
  <2>10. ss[s] = sn /\ DOMAIN ss = DOMAIN session /\ Len(ss) = Len(session)
    BY <2>1, <2>8 DEF WorkInv, WorkerTyped
  <2>11. OpSound(new, ss, builds.worker)
    <3> HIDE DEF ss, s
    <3>1. /\ ops[o].shows = {} /\ ops[o].out = NONE /\ ops[o].kind = "execute"
          /\ ops[o].build <= builds.worker /\ s <= Len(session)
          /\ \A p \in ops[o].on : Pages[p].origin \in Allowed
      BY <1>1, <2>4 DEF OpSound, Executing, s
    <3> QED
      BY <2>1, <2>5, <2>6, <2>7, <2>8, <2>10, <3>1 DEF OpSound, Executing, AtPage, ConstantsOK
  <2>12. ~ Short(ops[o]) /\ ops[o].pc \notin MayHaveLeft
    BY <1>1 DEF Short, MayHaveLeft
  <2>13. o \notin sn.permits
    BY <2>1, <2>8, <2>12 DEF WorkInv, PermitSound
  <2>14. new.sess = ops[o].sess /\ sn.life = session[s].life /\ \A p \in sn.permits : p \in session[s].permits
    BY <2>7, <2>8
  <2>15. OpSound(new, [session EXCEPT ![s] = sn], builds.worker)
    BY <2>11
  <2>16. new \in OpRec /\ new.kind = ops[o].kind /\ new.pc # "start" /\ sn \in SessRec
    BY <2>7, <2>8
  <2>17. ops[o].pc # "over"
    BY <1>1
  <2> HIDE DEF s, ss
  <2> QED
    BY <1>1, <2>1, <2>3, <2>9, <2>12, <2>13, <2>14, <2>15, <2>16, <2>17, OneSessionKeeps
<1> QED
  BY <1>2, <1>3 DEF Checked

\* What a field that was filled leaves behind: sn for the session, new for the operation.
LEMMA FillsKeeps ==
    ASSUME WorkInv, ConstantsOK, NEW o \in DOMAIN ops, NEW new \in OpRec, ops' = [ops EXCEPT ![o] = new],
           ops[o].pc = "fill", UNCHANGED left, UNCHANGED builds, new.pc \in {"fill", "click"},
           new.kind = ops[o].kind, new.sess = ops[o].sess, new.build = ops[o].build, new.out = ops[o].out,
           new.shows = ops[o].shows, \A p \in new.on : Pages[p].origin \in Allowed,
           NEW sn \in SessRec, session' = [session EXCEPT ![ops[o].sess] = sn],
           GoesOn(session[ops[o].sess], sn), SessSound(sn, builds.worker), sn.life = session[ops[o].sess].life,
           new.pc = "fill" => /\ new.fields # <<>> /\ Head(new.fields) \in sn.known
                              /\ sn.permits = session[ops[o].sess].permits,
           sn.permits \subseteq session[ops[o].sess].permits \cup {o}
    PROVE  WorkInv'
<1> DEFINE s == ops[o].sess
           ss == [session EXCEPT ![s] = sn]
<1>1. ops[o] \in OpRec /\ OpSound(ops[o], session, builds.worker)
  BY HasType
<1>2. s \in Sessions /\ session[s].life # "starting" /\ s \in DOMAIN session
  BY AtPageIs DEF AtPage, Sessions
<1>3. ss[s] = sn /\ DOMAIN ss = DOMAIN session /\ Len(ss) = Len(session)
  BY <1>2 DEF WorkInv, WorkerTyped
<1>4. /\ ops[o].shows = {} /\ ops[o].out = NONE /\ ops[o].kind = "execute"
      /\ ops[o].build <= builds.worker /\ s <= Len(session)
  BY <1>1 DEF OpSound, Executing
<1>5. OpSound(new, [session EXCEPT ![s] = sn], builds.worker)
  <2>1. new.sess = s
    OBVIOUS
  <2> HIDE DEF ss, s
  <2>2. OpSound(new, ss, builds.worker)
    BY <1>2, <1>3, <1>4, <2>1 DEF OpSound, Executing, AtPage, ConstantsOK
  <2> QED
    BY <2>2 DEF ss
<1>6. ~ Short(ops[o]) /\ ops[o].pc \notin MayHaveLeft /\ o \notin session[s].permits
  BY <1>2 DEF Short, MayHaveLeft, WorkInv, PermitSound
<1>7. /\ o \in sn.permits => Short(new)
      /\ \A p \in sn.permits : \/ p \in session[s].permits
                               \/ /\ p = o /\ s = new.sess /\ new.kind = "execute"
                                  /\ ops[o].pc \notin MayHaveLeft
  BY <1>4, <1>6 DEF Short
<1>8. new.sess = s /\ new.pc # "start" /\ ops[o].pc # "over"
  OBVIOUS
<1> QED
  BY <1>2, <1>5, <1>6, <1>7, <1>8, OneSessionKeeps

LEMMA OthersAre ==
    ASSUME WorkInv, NEW s \in Sessions, NEW o \in DOMAIN ops
    PROVE  Others(s, o) \subseteq session[s].permits /\ o \notin Others(s, o)
  BY DEF Others

LEMMA FilledKeeps ==
    ASSUME WorkInv, ConstantsOK, NEW o \in DOMAIN ops, Filled(o)
    PROVE  WorkInv'
<1> DEFINE s == ops[o].sess
           here == session[s].page
           value == Head(ops[o].fields)
           more == Tail(ops[o].fields)
<1>1. ops[o].pc = "fill" /\ session[s].wired /\ UNCHANGED left /\ UNCHANGED builds
  BY BusyIs DEF Filled
<1>2. CASE Fails(o, "field_not_found") /\ UNCHANGED session
  BY <1>1, <1>2, FailsKeeps DEF Outcomes, MayHaveLeft, Short
<1>3. CASE Pages[here].form # NONE
  <2> DEFINE typed == session[s].typed \cup {value}
             known == IF more = <<>> THEN session[s].known ELSE session[s].known \cup {Head(more)}
             permits == IF more = <<>> THEN issue(o) ELSE session[s].permits
             on == ops[o].on \cup {here}
             pc == IF more = <<>> THEN "click" ELSE "fill"
             sn == [session[s] EXCEPT !.typed = typed, !.known = known, !.permits = permits]
             new == [ops[o] EXCEPT !.fields = more, !.on = on, !.pc = pc]
  <2>1. ops' = [ops EXCEPT ![o] = new] /\ session' = [session EXCEPT ![s] = sn]
    BY <1>3 DEF Filled, remember
  <2>2. s \in Sessions /\ session[s].life # "starting" /\ s \in DOMAIN session
    BY <1>1, AtPageIs DEF AtPage, Sessions
  <2>3. session[s] \in SessRec /\ SessSound(session[s], builds.worker)
    BY <2>2, SessHasType
  <2>4. ops[o] \in OpRec /\ OpSound(ops[o], session, builds.worker)
    BY HasType
  <2>5. ops[o].fields \in Seq(Secrets) /\ ops[o].fields # <<>> /\ value \in session[s].known
    BY <1>1, <2>4 DEF OpRec, OpSound
  <2>6. value \in Secrets /\ more \in Seq(Secrets) /\ (more # <<>> => Head(more) \in Secrets)
    BY <2>5
  <2>7. here \in DOMAIN Pages /\ Pages[here].origin \in Allowed
    BY <1>3, <2>3 DEF SessRec, SessSound
  <2>8. permits \subseteq session[s].permits \cup {o} /\ permits \in SUBSET Nat
    <3>1. o \in Nat /\ session[s].permits \subseteq Nat
      BY <2>3 DEF WorkInv, WorkerTyped, SessRec
    <3>2. Others(s, o) \subseteq session[s].permits
      BY <2>2, OthersAre
    <3>3. issue(o) = Others(s, o) \cup {o}
      BY DEF issue
    <3> QED
      BY <3>1, <3>2, <3>3
  <2>9. /\ known \in SUBSET Secrets /\ session[s].known \subseteq known /\ typed \in SUBSET Secrets
        /\ more # <<>> => Head(more) \in known
    BY <2>3, <2>6 DEF SessRec
  <2>10. on \in SUBSET DOMAIN Pages /\ \A p \in on : Pages[p].origin \in Allowed
    BY <2>4, <2>7 DEF OpRec, OpSound
  <2>11. session[s].typed \subseteq typed /\ (typed \subseteq session[s].typed \cup known)
    BY <2>5, <2>9
  <2>12. pc \in {"fill", "click"} /\ (pc = "fill" => more # <<>> /\ permits = session[s].permits)
    OBVIOUS
  <2> HIDE DEF typed, known, permits, on, pc, more
  <2>13. /\ new \in OpRec /\ new.kind = ops[o].kind /\ new.sess = ops[o].sess /\ new.pc = pc
         /\ new.out = ops[o].out /\ new.shows = ops[o].shows /\ new.build = ops[o].build
         /\ new.on = on /\ new.fields = more
    BY <2>4, <2>6, <2>10, <2>12 DEF OpRec
  <2> HIDE DEF new
  <2>14. /\ sn \in SessRec /\ sn.life = session[s].life /\ sn.permits = permits
         /\ sn.typed = typed /\ sn.known = known /\ sn.wired = session[s].wired
         /\ sn.page = session[s].page /\ sn.build = session[s].build /\ sn.since = session[s].since
    BY <2>3, <2>8, <2>9 DEF SessRec
  <2> HIDE DEF sn
  <2>15. GoesOn(session[s], sn) /\ SessSound(sn, builds.worker)
    BY <2>3, <2>9, <2>11, <2>14 DEF GoesOn, SessSound
  <2> QED
    BY <1>1, <2>1, <2>8, <2>9, <2>10, <2>12, <2>13, <2>14, <2>15, FillsKeeps
<1> QED
  BY <1>2, <1>3 DEF Filled

\* The permit is taken back, whatever the operation does next.
LEMMA RevokedKeeps ==
    ASSUME WorkInv, ConstantsOK, NEW o \in DOMAIN ops, NEW new \in OpRec, ops' = [ops EXCEPT ![o] = new],
           ops[o].pc \in {"click", "settle"}, UNCHANGED left, UNCHANGED builds,
           new.pc \in {"eval", "over"}, new.out \in {NONE, "submit_not_found"}, new.pc = "eval" => new.out = NONE,
           new.kind = ops[o].kind, new.sess = ops[o].sess, new.build = ops[o].build,
           new.shows = ops[o].shows, new.on = ops[o].on,
           session' = [session EXCEPT ![ops[o].sess].permits = revoke(o)]
    PROVE  WorkInv'
<1> DEFINE s == ops[o].sess
           permits == Others(s, o)
           sn == [session[s] EXCEPT !.permits = permits]
<1>1. ops[o] \in OpRec /\ OpSound(ops[o], session, builds.worker)
  BY HasType
<1>2. s \in Sessions /\ session[s].life # "starting" /\ s \in DOMAIN session
  BY AtPageIs DEF AtPage, Sessions
<1>3. session[s] \in SessRec /\ SessSound(session[s], builds.worker)
  BY <1>2, SessHasType
<1>4. session' = [session EXCEPT ![s] = sn]
  BY DEF revoke
<1>5. permits \subseteq session[s].permits /\ o \notin permits
  BY <1>2, OthersAre
<1>6. ops[o].shows = {} /\ ops[o].build <= builds.worker /\ ops[o].sess <= Len(session)
      /\ \A p \in ops[o].on : Pages[p].origin \in Allowed
  BY <1>1 DEF OpSound
<1>7. OpSound(new, session, builds.worker)
  BY <1>2, <1>6 DEF OpSound, Executing, AtPage, ConstantsOK
<1>8. new.pc \in MayHaveLeft /\ new.out # "approval_drift"
  BY DEF MayHaveLeft, ConstantsOK
<1> HIDE DEF permits
<1>9. /\ sn \in SessRec /\ sn.life = session[s].life /\ sn.permits = permits
      /\ sn.typed = session[s].typed /\ sn.known = session[s].known /\ sn.wired = session[s].wired
      /\ sn.page = session[s].page /\ sn.build = session[s].build /\ sn.since = session[s].since
  BY <1>3, <1>5 DEF SessRec
<1> HIDE DEF sn
<1>10. GoesOn(session[s], sn) /\ SessSound(sn, builds.worker)
  BY <1>3, <1>9 DEF GoesOn, SessSound
<1> QED
  BY <1>2, <1>4, <1>5, <1>7, <1>8, <1>9, <1>10, TouchKeeps

LEMMA ClickedKeeps ==
    ASSUME WorkInv, ConstantsOK, NEW o \in DOMAIN ops, Clicked(o)
    PROVE  WorkInv'
<1>1. ops[o].pc = "click" /\ UNCHANGED left /\ UNCHANGED builds
  BY BusyIs DEF Clicked
<1>2. ops[o] \in OpRec /\ OpSound(ops[o], session, builds.worker) /\ ops[o].kind = "execute"
  BY <1>1, HasType DEF OpSound, Executing
<1>3. CASE Goes(o, "settle") /\ UNCHANGED session
  <2>1. ops[o].sess \in Sessions /\ session[ops[o].sess].life # "starting"
    BY <1>1, AtPageIs DEF AtPage
  <2> QED
    BY <1>1, <1>2, <1>3, <2>1, GoesKeeps DEF MayHaveLeft, Short
<1>4. CASE Fails(o, "submit_not_found") /\ session' = [session EXCEPT ![ops[o].sess].permits = revoke(o)]
  <2> DEFINE new == [ops[o] EXCEPT !.pc = "over", !.out = "submit_not_found", !.seen = NONE]
  <2>1. ops' = [ops EXCEPT ![o] = new]
    BY <1>4 DEF Fails, Over
  <2>2. /\ new \in OpRec /\ new.kind = ops[o].kind /\ new.sess = ops[o].sess /\ new.pc = "over"
        /\ new.out = "submit_not_found" /\ new.shows = ops[o].shows /\ new.build = ops[o].build
        /\ new.on = ops[o].on
    BY <1>2 DEF OpRec, PageOrNone
  <2> HIDE DEF new
  <2> QED
    BY <1>1, <1>4, <2>1, <2>2, RevokedKeeps
<1> QED
  BY <1>3, <1>4 DEF Clicked

LEMMA SettledKeeps ==
    ASSUME WorkInv, ConstantsOK, NEW o \in DOMAIN ops, Settled(o)
    PROVE  WorkInv'
<1>1. ops[o].pc = "settle" /\ UNCHANGED left /\ UNCHANGED builds
  BY BusyIs DEF Settled
<1>2. ops[o] \in OpRec /\ OpSound(ops[o], session, builds.worker)
  BY HasType
<1> DEFINE new == [ops[o] EXCEPT !.pc = "eval"]
<1>3. ops' = [ops EXCEPT ![o] = new] /\ session' = [session EXCEPT ![ops[o].sess].permits = revoke(o)]
  BY DEF Settled, Goes
<1>4. /\ new \in OpRec /\ new.kind = ops[o].kind /\ new.sess = ops[o].sess /\ new.pc = "eval"
      /\ new.out = NONE /\ new.shows = ops[o].shows /\ new.build = ops[o].build
      /\ new.on = ops[o].on
  BY <1>1, <1>2 DEF OpRec, OpSound
<1> HIDE DEF new
<1> QED
  BY <1>1, <1>3, <1>4, RevokedKeeps

LEMMA EndsKeeps ==
    ASSUME WorkInv, ConstantsOK, NEW o \in DOMAIN ops, Breaks_off(o) \/ Closed(o)
    PROVE  WorkInv'
<1>1. CASE Breaks_off(o)
  <2>1. /\ ops[o].pc \notin {"over", "scrub"} /\ Fails(o, "failed")
        /\ UNCHANGED session /\ UNCHANGED left /\ UNCHANGED builds
    BY <1>1 DEF Breaks_off
  <2> QED
    BY <2>1, FailsKeeps DEF Outcomes
<1>2. CASE Closed(o)
  <2>1. ops[o].pc = "closed" /\ Fails(o, "ok") /\ UNCHANGED session /\ UNCHANGED left /\ UNCHANGED builds
    BY <1>2, BusyIs DEF Closed
  <2> QED
    BY <2>1, FailsKeeps DEF Outcomes, Short
<1> QED
  BY <1>1, <1>2

LEMMA RestartKeeps ==
    ASSUME WorkInv, ConstantsOK, NEW o \in DOMAIN ops, _op_restart(o)
    PROVE  WorkInv'
<1> DEFINE todo == Opened
           new == [ops[o] EXCEPT !.pc = "sweep", !.todo = todo, !.had = todo]
<1>1. ops[o] \in OpRec /\ OpSound(ops[o], session, builds.worker)
  BY HasType
<1>2. /\ ops[o].pc = "reap" /\ UNCHANGED left /\ UNCHANGED builds /\ UNCHANGED session
      /\ ops' = [ops EXCEPT ![o] = new]
  BY BusyIs DEF _op_restart, Handles, listed
<1>3. todo \in SUBSET Nat
  BY DEF Opened, Sessions, WorkInv, WorkerTyped
<1> HIDE DEF todo
<1>4. /\ new \in OpRec /\ new.kind = ops[o].kind /\ new.sess = ops[o].sess /\ new.pc = "sweep"
      /\ new.out = ops[o].out /\ new.shows = ops[o].shows /\ new.build = ops[o].build
      /\ new.on = ops[o].on /\ new.seen = ops[o].seen
  BY <1>1, <1>3 DEF OpRec
<1> HIDE DEF new
<1>5. OpSound(new, session, builds.worker)
  BY <1>1, <1>2, <1>4 DEF OpSound, AtPage, Executing
<1>6. ~ Short(ops[o]) /\ ops[o].pc \notin MayHaveLeft
  BY <1>2 DEF Short, MayHaveLeft
<1> QED
  BY <1>2, <1>4, <1>5, <1>6, ControlKeeps

\* A permit nobody took back is of no use any more.
LEMMA ExpireKeeps ==
    ASSUME WorkInv, NEW o \in DOMAIN ops, Expire(o)
    PROVE  WorkInv'
<1> DEFINE new == [ops[o] EXCEPT !.stale = TRUE]
<1>1. /\ ops[o].pc = "over" /\ UNCHANGED left /\ UNCHANGED builds /\ UNCHANGED session
      /\ ops' = [ops EXCEPT ![o] = new]
  BY BusyIs DEF Expire
<1>2. ops[o] \in OpRec /\ OpSound(ops[o], session, builds.worker)
  BY HasType
<1>3. /\ new \in OpRec /\ new.kind = ops[o].kind /\ new.sess = ops[o].sess /\ new.pc = ops[o].pc
      /\ new.out = ops[o].out /\ new.shows = ops[o].shows /\ new.build = ops[o].build
      /\ new.on = ops[o].on /\ new.seen = ops[o].seen
  BY <1>2 DEF OpRec
<1> HIDE DEF new
<1>4. OpSound(new, session, builds.worker)
  BY <1>1, <1>2, <1>3 DEF OpSound, AtPage, Executing
<1>5. /\ ops' \in Seq(OpRec) /\ DOMAIN ops' = DOMAIN ops /\ ops'[o] = new
      /\ \A q \in DOMAIN ops \ {o} : ops'[q] = ops[q]
  BY <1>1, <1>3 DEF WorkInv, WorkerTyped
<1>6. WorkerTyped'
  BY <1>1, <1>5 DEF WorkInv, WorkerTyped
<1>7. \A q \in DOMAIN ops : OpSound(ops'[q], session, builds.worker)
  BY <1>4, <1>5 DEF WorkInv
<1>8. \A q \in DOMAIN ops : /\ ops'[q].kind = ops[q].kind /\ ops'[q].sess = ops[q].sess
                            /\ ops'[q].pc = ops[q].pc /\ ops'[q].out = ops[q].out
  BY <1>3, <1>5
<1>9. \A s \in Sessions : \A p \in session[s].permits : PermitSound(s, p)'
  BY <1>1, <1>5, <1>8 DEF WorkInv, PermitSound, Short
<1>10. \A i \in DOMAIN left : LeftSound(i)'
  BY <1>1, <1>5, <1>8 DEF WorkInv, LeftSound
<1> QED
  BY <1>1, <1>5, <1>6, <1>7, <1>8, <1>9, <1>10 DEF WorkInv, Sessions

\* A session more, that is being started for o.
LEMMA OpenKeeps ==
    ASSUME WorkInv, ConstantsOK, NEW o \in DOMAIN ops, _op_open_session(o)
    PROVE  WorkInv'
<1> DEFINE n == Len(session) + 1
           since == ops[o].build
           b == builds.worker
           new == [ops[o] EXCEPT !.pc = "start", !.sess = n]
           sn == [life |-> "starting", page |-> "blank", age |-> "fresh", auth |-> FALSE,
                  permits |-> {}, known |-> {}, typed |-> {}, wired |-> TRUE, up |-> TRUE,
                  build |-> b, since |-> since]
<1>1. /\ ops[o].pc = "reap" /\ ops[o].kind = "open_session" /\ Len(session) < MaxSessions
      /\ UNCHANGED left /\ UNCHANGED builds
      /\ session' = Append(session, sn) /\ ops' = [ops EXCEPT ![o] = new]
  BY BusyIs DEF _op_open_session, Handles
<1>2. /\ ops[o] \in OpRec /\ OpSound(ops[o], session, builds.worker) /\ session \in Seq(SessRec)
      /\ ops \in Seq(OpRec) /\ b \in Nat /\ n \in Nat
  BY HasType DEF WorkInv, WorkerTyped
<1>3. since \in Nat /\ since <= b
  BY <1>2 DEF OpRec, OpSound
<1>4. b = builds.worker /\ n = Len(session) + 1
  OBVIOUS
<1> HIDE DEF since, b, n
<1>5. /\ sn \in SessRec /\ sn.life = "starting" /\ sn.permits = {} /\ sn.typed = {} /\ sn.known = {}
      /\ sn.page = "blank" /\ sn.build = b /\ sn.since = since
  BY <1>2, <1>3 DEF SessRec, ConstantsOK
<1>6. /\ new \in OpRec /\ new.kind = "open_session" /\ new.sess = n /\ new.pc = "start"
      /\ new.out = ops[o].out /\ new.shows = ops[o].shows /\ new.build = ops[o].build
      /\ new.on = ops[o].on /\ new.seen = ops[o].seen
  BY <1>1, <1>2 DEF OpRec
<1> HIDE DEF sn, new
<1>7. /\ session' \in Seq(SessRec) /\ Len(session') = n /\ session'[n] = sn /\ n \in DOMAIN session'
      /\ DOMAIN session' = DOMAIN session \cup {n} /\ n \notin DOMAIN session
      /\ \A s \in DOMAIN session : session'[s] = session[s]
  BY <1>1, <1>2, <1>4, <1>5
<1>8. /\ ops' \in Seq(OpRec) /\ DOMAIN ops' = DOMAIN ops /\ ops'[o] = new
      /\ \A q \in DOMAIN ops \ {o} : ops'[q] = ops[q]
  BY <1>1, <1>2, <1>6
<1>9. WorkerTyped'
  <2>1. MaxSessions \in Nat
    BY DEF ConstantsOK
  <2>2. Len(session) \in Nat /\ Len(session) < MaxSessions
    BY <1>1, <1>2
  <2>3. n <= MaxSessions
    BY <1>4, <2>1, <2>2
  <2> QED
    BY <1>1, <1>7, <1>8, <2>3 DEF WorkInv, WorkerTyped
<1>10. OpSound(new, session', b)
  <2>1. n <= n /\ since <= b /\ since = ops[o].build
    BY <1>2, <1>3 DEF since
  <2> QED
    BY <1>1, <1>2, <1>5, <1>6, <1>7, <2>1 DEF OpSound, AtPage, Executing
<1>11. ASSUME NEW q \in DOMAIN ops \ {o} PROVE OpSound(ops'[q], session', b)
  <2>1. /\ ops[q] \in OpRec /\ OpSound(ops[q], session, b) /\ b <= b
        /\ Len(session) <= Len(session')
    BY <1>2, <1>4, <1>7, HasType
  <2>2. \A s \in DOMAIN session : GoesOn(session[s], session'[s])
    BY <1>7, SessHasType DEF Sessions, GoesOn, SessRec
  <2>3. ops[q].pc = "start" => session'[ops[q].sess].life = session[ops[q].sess].life
    BY <1>7, <2>1 DEF OpSound
  <2> QED
    BY <1>2, <1>7, <1>8, <2>1, <2>2, <2>3, OpStays
<1>12. ASSUME NEW s \in DOMAIN session' PROVE SessSound(session'[s], b)
  <2>1. CASE s = n
    <3>1. b <= b
      BY <1>2
    <3> QED
      BY <1>3, <1>5, <1>7, <2>1, <3>1 DEF SessSound, ConstantsOK
  <2>2. CASE s # n
    <3>1. s \in Sessions /\ session'[s] = session[s]
      BY <1>7, <2>2 DEF Sessions
    <3> QED
      BY <1>4, <3>1, SessHasType
  <2> QED
    BY <2>1, <2>2
<1>13. \A p, q \in DOMAIN ops : ops'[p].pc = "start" /\ ops'[q].pc = "start" /\ p # q
                                  => ops'[p].sess # ops'[q].sess
  <2>1. \A q \in DOMAIN ops \ {o} : ops[q].pc = "start" => ops[q].sess # n
    BY <1>7, HasType DEF OpSound
  <2> QED
    BY <1>6, <1>8, <2>1 DEF WorkInv
<1>14. \A s \in DOMAIN session' : \A p \in session'[s].permits : PermitSound(s, p)'
  BY <1>1, <1>5, <1>7, <1>8 DEF WorkInv, PermitSound, Short, Sessions
<1>15. \A i \in DOMAIN left : LeftSound(i)'
  BY <1>1, <1>8 DEF WorkInv, LeftSound, MayHaveLeft
<1> QED
  BY <1>1, <1>4, <1>7, <1>8, <1>9, <1>10, <1>11, <1>12, <1>13, <1>14, <1>15 DEF WorkInv, Sessions

-----------------------------------------------------------------------------
(* The worker ends and comes up again.                                     *)

LEMMA ExitKeeps ==
    ASSUME WorkInv, ConstantsOK, NEW o \in DOMAIN ops, Exit(o)
    PROVE  WorkInv'
<1> DEFINE b == builds.worker
           d == builds.core
           op(q) == [ops[q] EXCEPT !.pc = "over", !.out = IF q = o THEN "ok" ELSE "failed", !.todo = {}]
           life(s) == IF session[s].up /\ s \notin ops[o].had THEN "lost" ELSE "gone"
           sn(s) == [session[s] EXCEPT !.wired = FALSE, !.permits = {}, !.known = {}, !.life = life(s)]
<1>1. /\ UNCHANGED left /\ ops[o].pc = "exit"
      /\ ops' = [q \in DOMAIN ops |-> IF ops[q].pc = "over" THEN ops[q] ELSE op(q)]
      /\ session' = [s \in DOMAIN session |-> sn(s)] /\ builds' = [builds EXCEPT !.worker = d]
  BY DEF Exit, Sessions
<1>2. /\ ops \in Seq(OpRec) /\ session \in Seq(SessRec) /\ builds \in [core : Nat, worker : Nat]
      /\ b <= d /\ b \in Nat /\ d \in Nat /\ Len(session) <= MaxSessions
  BY DEF WorkInv, WorkerTyped
<1>3. ASSUME NEW q \in DOMAIN ops
      PROVE  /\ op(q) \in OpRec /\ op(q).kind = ops[q].kind /\ op(q).sess = ops[q].sess
             /\ op(q).build = ops[q].build /\ op(q).shows = ops[q].shows /\ op(q).on = ops[q].on
             /\ op(q).seen = ops[q].seen /\ op(q).pc = "over" /\ op(q).out \in {"ok", "failed"}
  <2>1. ops[q] \in OpRec
    BY <1>2
  <2> DEFINE out == IF q = o THEN "ok" ELSE "failed"
  <2>2. out \in {"ok", "failed"}
    OBVIOUS
  <2> HIDE DEF out
  <2> QED
    BY <2>1, <2>2 DEF OpRec
<1>4. ASSUME NEW s \in DOMAIN session
      PROVE  /\ sn(s) \in SessRec /\ ~ sn(s).wired /\ sn(s).permits = {} /\ sn(s).life \in {"gone", "lost"}
             /\ sn(s).page = session[s].page /\ sn(s).build = session[s].build
             /\ sn(s).since = session[s].since
  <2>1. session[s] \in SessRec
    BY <1>2
  <2> DEFINE l == life(s)
  <2>2. l \in {"gone", "lost"}
    OBVIOUS
  <2> HIDE DEF l
  <2> QED
    BY <2>1, <2>2 DEF SessRec
<1> HIDE DEF op, sn, life
<1>5. /\ session' \in Seq(SessRec) /\ Len(session') = Len(session) /\ DOMAIN session' = DOMAIN session
      /\ \A s \in DOMAIN session : session'[s] = sn(s)
  <2>1. DOMAIN session = 1..Len(session) /\ Len(session) \in Nat
    BY <1>2
  <2>2. session' \in [1..Len(session) -> SessRec]
    BY <1>1, <1>4, <2>1
  <2>3. session' \in Seq(SessRec) /\ Len(session') = Len(session)
    BY <2>1, <2>2
  <2> QED
    BY <1>1, <2>1, <2>3
<1>6. /\ ops' \in Seq(OpRec) /\ DOMAIN ops' = DOMAIN ops
      /\ \A q \in DOMAIN ops : ops'[q] = IF ops[q].pc = "over" THEN ops[q] ELSE op(q)
  <2>1. DOMAIN ops = 1..Len(ops) /\ Len(ops) \in Nat
    BY <1>2
  <2>2. ops' \in [1..Len(ops) -> OpRec]
    BY <1>1, <1>2, <1>3, <2>1
  <2>3. ops' \in Seq(OpRec)
    BY <2>1, <2>2
  <2> QED
    BY <1>1, <2>1, <2>3
<1>7. builds' \in [core : Nat, worker : Nat] /\ builds'.worker = d /\ builds'.core = d
  BY <1>1, <1>2
<1> HIDE DEF b, d
<1>8. WorkerTyped'
  <2>1. d <= d
    BY <1>2
  <2> QED
    BY <1>1, <1>2, <1>5, <1>6, <1>7, <2>1 DEF WorkInv, WorkerTyped
<1>9. ASSUME NEW q \in DOMAIN ops PROVE OpSound(ops'[q], session', d)
  <2>1. ops[q] \in OpRec /\ OpSound(ops[q], session, b)
    BY HasType DEF b
  <2>2. ops[q].build <= d /\ ops[q].sess <= Len(session')
    <3>1. ops[q].build <= b /\ ops[q].build \in Nat /\ ops[q].sess <= Len(session)
      BY <2>1 DEF OpSound, OpRec
    <3> QED
      BY <1>2, <1>5, <3>1
  <2>3. \A s \in DOMAIN session : session'[s].life \in {"gone", "lost"}
    BY <1>4, <1>5
  <2>4. CASE ops[q].pc = "over"
    <3>1. /\ ops'[q] = ops[q]
          /\ ops[q].shows # {} => ops[q].sess \in DOMAIN session
          /\ \A p \in ops[q].on : Pages[p].origin \in Allowed
          /\ ops[q].kind = "execute" => /\ ops[q].out = "signed_in" => Pages[ops[q].seen].success
                                        /\ ops[q].out = "not_signed_in" => ~ Pages[ops[q].seen].success
      BY <1>6, <2>1, <2>4 DEF OpSound
    <3> QED
      BY <1>5, <2>2, <2>3, <2>4, <3>1 DEF OpSound, AtPage, Executing
  <2>5. CASE ops[q].pc # "over"
    <3>1. ops[q].shows # {} => ops[q].sess \in DOMAIN session
      BY <2>1, <2>5 DEF OpSound, AtPage
    <3>2. \A p \in ops[q].on : Pages[p].origin \in Allowed
      BY <2>1 DEF OpSound
    <3>3. ops'[q] = op(q)
      BY <1>6, <2>5
    <3> QED
      BY <1>3, <1>5, <2>2, <2>3, <3>1, <3>2, <3>3 DEF OpSound, AtPage, Executing
  <2> QED
    BY <2>4, <2>5
<1>10. ASSUME NEW s \in DOMAIN session PROVE SessSound(session'[s], d)
  <2>1. session[s] \in SessRec /\ SessSound(session[s], b)
    BY SessHasType DEF Sessions, b
  <2>2. /\ session[s].since <= session[s].build /\ session[s].build <= d
    BY <1>2, <2>1 DEF SessSound, SessRec
  <2> QED
    BY <1>4, <1>5, <2>1, <2>2 DEF SessSound
<1>11. \A q \in DOMAIN ops : ops'[q].pc = "over"
  BY <1>3, <1>6
<1>12. \A s \in DOMAIN session : session'[s].permits = {}
  BY <1>4, <1>5
<1>13. ASSUME NEW i \in DOMAIN left PROVE LeftSound(i)'
  BY <1>1, <1>3, <1>6, <1>11 DEF WorkInv, LeftSound, MayHaveLeft
<1> QED
  BY <1>1, <1>5, <1>6, <1>7, <1>8, <1>9, <1>10, <1>11, <1>12, <1>13 DEF WorkInv, Sessions

LEMMA WorksKeeps ==
    ASSUME WorkInv, ConstantsOK, NEW o \in DOMAIN ops, Works(o)
    PROVE  WorkInv'
<1>1. CASE Reap(o) \/ Wiped(o) \/ _op_ping(o) \/ _op_open_session(o) \/ Started(o) \/ _op_navigate(o)
           \/ Loaded(o) \/ _op_read(o) \/ Evaluated(o) \/ Scrubbed(o) \/ _op_probe_action(o) \/ Probed(o)
  BY <1>1, ReapKeeps, WipedKeeps, PingKeeps, OpenKeeps, StartKeeps, LookUpKeeps, LoadedKeeps, ReadKeeps,
     EvaluatedKeeps, ScrubbedKeeps, ProbedKeeps
<1>2. CASE _op_execute(o) \/ Checked(o) \/ Filled(o) \/ Clicked(o) \/ Settled(o) \/ Breaks_off(o)
           \/ Fails_to_start(o) \/ _op_close_session(o) \/ Closed(o) \/ _op_restart(o) \/ Sweep(o)
           \/ Exit(o) \/ Expire(o)
  BY <1>2, LookUpKeeps, CheckedKeeps, FilledKeeps, ClickedKeeps, SettledKeeps, EndsKeeps, StartKeeps,
     CloseKeeps, RestartKeeps, SweepKeeps, ExitKeeps, ExpireKeeps
<1> QED
  BY <1>1, <1>2 DEF Works

-----------------------------------------------------------------------------
(* The page, and what happens to a session by itself.                      *)

LEMMA SessionKeeps ==
    ASSUME WorkInv, UNCHANGED ops, UNCHANGED left, builds' \in [core : Nat, worker : Nat],
           builds'.worker = builds.worker, builds'.worker <= builds'.core,
           NEW s \in Sessions, NEW sn \in SessRec, session' = [session EXCEPT ![s] = sn],
           GoesOn(session[s], sn), SessSound(sn, builds.worker), sn.life = session[s].life,
           sn.permits = session[s].permits
    PROVE  WorkInv'
<1>1. /\ session' \in Seq(SessRec) /\ session \in Seq(SessRec) /\ Len(session') = Len(session)
      /\ DOMAIN session' = DOMAIN session /\ session'[s] = sn
      /\ \A t \in Sessions \ {s} : session'[t] = session[t] /\ builds.worker \in Nat
  BY DEF WorkInv, WorkerTyped, Sessions
<1>2. \A t \in DOMAIN session : GoesOn(session[t], session'[t]) /\ session'[t].life = session[t].life
  BY <1>1 DEF GoesOn, Sessions
<1>3. WorkerTyped'
  BY <1>1 DEF WorkInv, WorkerTyped
<1>4. ASSUME NEW o \in DOMAIN ops PROVE OpSound(ops[o], session', builds.worker)
  <2>1. ops[o] \in OpRec /\ OpSound(ops[o], session, builds.worker)
    BY HasType
  <2>2. Len(session) <= Len(session') /\ builds.worker <= builds.worker /\ builds.worker \in Nat
    BY <1>1 DEF WorkInv, WorkerTyped
  <2>3. ops[o].pc = "start" => session'[ops[o].sess].life = session[ops[o].sess].life
    BY <1>2, <2>1 DEF OpSound
  <2> QED
    BY <1>1, <1>2, <2>1, <2>2, <2>3, OpStays
<1>5. \A t \in Sessions : SessSound(session'[t], builds.worker)
  BY <1>1 DEF WorkInv
<1>6. \A t \in Sessions : \A p \in session'[t].permits : PermitSound(t, p)'
  BY <1>1 DEF WorkInv, PermitSound
<1>7. \A i \in DOMAIN left : LeftSound(i)'
  BY DEF WorkInv, LeftSound
<1>8. /\ \A o \in DOMAIN ops' : OpSound(ops'[o], session', builds'.worker)
      /\ \A t \in DOMAIN session' : SessSound(session'[t], builds'.worker)
  BY <1>1, <1>4, <1>5 DEF Sessions
<1>9. \A o, q \in DOMAIN ops' : ops'[o].pc = "start" /\ ops'[q].pc = "start" /\ o # q
                                 => ops'[o].sess # ops'[q].sess
  BY DEF WorkInv
<1>10. /\ \A t \in DOMAIN session' : \A p \in session'[t].permits : PermitSound(t, p)'
       /\ \A i \in DOMAIN left' : LeftSound(i)'
       /\ \A i, j \in DOMAIN left' : i # j => left'[i].op # left'[j].op
  BY <1>1, <1>6, <1>7 DEF WorkInv, Sessions
<1> QED
  BY <1>3, <1>8, <1>9, <1>10 DEF WorkInv, Sessions

LEMMA PageKeeps ==
    ASSUME WorkInv, ConstantsOK, Age \/ \E s \in Sessions : Turn(s)
    PROVE  WorkInv'
<1>1. builds' = builds /\ UNCHANGED left /\ UNCHANGED ops
  BY DEF Age, Turn
<1>2. builds \in [core : Nat, worker : Nat] /\ builds.worker <= builds.core
  BY DEF WorkInv, WorkerTyped
<1>3. ASSUME NEW s \in Opened, NEW age \in {"idle", "worn"}, session' = [session EXCEPT ![s].age = age]
      PROVE  WorkInv'
  <2> DEFINE sn == [session[s] EXCEPT !.age = age]
  <2>1. s \in Sessions /\ session[s] \in SessRec /\ SessSound(session[s], builds.worker)
    BY SessHasType DEF Opened
  <2>2. session' = [session EXCEPT ![s] = sn]
    BY <1>3
  <2>3. /\ sn \in SessRec /\ sn.life = session[s].life /\ sn.permits = session[s].permits
        /\ sn.typed = session[s].typed /\ sn.known = session[s].known /\ sn.wired = session[s].wired
        /\ sn.page = session[s].page /\ sn.build = session[s].build /\ sn.since = session[s].since
    BY <2>1 DEF SessRec
  <2> HIDE DEF sn
  <2>4. GoesOn(session[s], sn) /\ SessSound(sn, builds.worker)
    BY <2>1, <2>3 DEF GoesOn, SessSound
  <2> QED
    BY <1>1, <1>2, <2>1, <2>2, <2>3, <2>4, SessionKeeps
<1>4. ASSUME NEW s \in Sessions, NEW to \in DOMAIN Pages, Pages[to].origin \in Allowed,
             session' = [session EXCEPT ![s].page = to]
      PROVE  WorkInv'
  <2> DEFINE sn == [session[s] EXCEPT !.page = to]
  <2>1. session[s] \in SessRec /\ SessSound(session[s], builds.worker)
    BY SessHasType
  <2>2. session' = [session EXCEPT ![s] = sn]
    BY <1>4
  <2>3. /\ sn \in SessRec /\ sn.life = session[s].life /\ sn.permits = session[s].permits
        /\ sn.typed = session[s].typed /\ sn.known = session[s].known /\ sn.wired = session[s].wired
        /\ sn.page = to /\ sn.build = session[s].build /\ sn.since = session[s].since
    BY <2>1 DEF SessRec
  <2> HIDE DEF sn
  <2>4. GoesOn(session[s], sn) /\ SessSound(sn, builds.worker)
    BY <1>4, <2>1, <2>3 DEF GoesOn, SessSound
  <2> QED
    BY <1>1, <1>2, <2>2, <2>3, <2>4, SessionKeeps
<1> QED
  BY <1>3, <1>4 DEF Age, Turn, allows

LEMMA WritesKeeps ==
    ASSUME WorkInv, ConstantsOK, NEW s \in Sessions, NEW origin \in Origins, Writes(s, origin)
    PROVE  WorkInv'
<1>1. PICK p \in session[s].permits :
        /\ origin = WriteOrigin /\ session' = [session EXCEPT ![s].permits = session[s].permits \ {p}]
        /\ left' = Append(left, [sess |-> s, origin |-> origin, op |-> p])
  BY DEF Writes, matches, consume
<1> DEFINE permits == session[s].permits \ {p}
           sn == [session[s] EXCEPT !.permits = permits]
           new == [sess |-> s, origin |-> origin, op |-> p]
           n == Len(left) + 1
<1>2. UNCHANGED ops /\ UNCHANGED builds /\ session' = [session EXCEPT ![s] = sn] /\ left' = Append(left, new)
  BY <1>1 DEF Writes
<1>3. session[s] \in SessRec /\ SessSound(session[s], builds.worker) /\ s \in Nat
  BY SessHasType DEF WorkInv, WorkerTyped, Sessions
<1>4. PermitSound(s, p) /\ p \in Nat
  BY <1>3 DEF WorkInv, SessRec
<1>5. permits \subseteq session[s].permits /\ p \notin permits
  OBVIOUS
<1> HIDE DEF permits
<1>6. /\ sn \in SessRec /\ sn.life = session[s].life /\ sn.permits = permits
      /\ sn.typed = session[s].typed /\ sn.known = session[s].known /\ sn.wired = session[s].wired
      /\ sn.page = session[s].page /\ sn.build = session[s].build /\ sn.since = session[s].since
  BY <1>3, <1>5 DEF SessRec
<1> HIDE DEF sn
<1>7. GoesOn(session[s], sn) /\ SessSound(sn, builds.worker)
  BY <1>3, <1>6 DEF GoesOn, SessSound
<1>8. /\ session' \in Seq(SessRec) /\ session \in Seq(SessRec) /\ Len(session') = Len(session)
      /\ DOMAIN session' = DOMAIN session /\ session'[s] = sn
      /\ \A t \in Sessions \ {s} : session'[t] = session[t]
  BY <1>2, <1>6 DEF WorkInv, WorkerTyped, Sessions
<1>9. /\ left' \in Seq([sess : Nat, origin : Origins, op : Nat]) /\ left \in Seq([sess : Nat, origin : Origins, op : Nat])
      /\ DOMAIN left' = DOMAIN left \cup {n} /\ n \notin DOMAIN left /\ left'[n] = new
      /\ \A i \in DOMAIN left : left'[i] = left[i]
  <2>1. new \in [sess : Nat, origin : Origins, op : Nat]
    BY <1>3, <1>4
  <2>2. left \in Seq([sess : Nat, origin : Origins, op : Nat])
    BY DEF WorkInv, WorkerTyped
  <2> HIDE DEF new
  <2> QED
    BY <1>2, <2>1, <2>2
<1>10. WorkerTyped'
  BY <1>2, <1>8, <1>9 DEF WorkInv, WorkerTyped
<1>11. \A t \in DOMAIN session : GoesOn(session[t], session'[t]) /\ session'[t].life = session[t].life
  BY <1>6, <1>7, <1>8 DEF GoesOn, Sessions
<1>12. ASSUME NEW o \in DOMAIN ops PROVE OpSound(ops[o], session', builds.worker)
  <2>1. ops[o] \in OpRec /\ OpSound(ops[o], session, builds.worker)
    BY HasType
  <2>2. Len(session) <= Len(session') /\ builds.worker <= builds.worker /\ builds.worker \in Nat
    BY <1>8 DEF WorkInv, WorkerTyped
  <2>3. ops[o].pc = "start" => session'[ops[o].sess].life = session[ops[o].sess].life
    BY <1>11, <2>1 DEF OpSound
  <2> QED
    BY <1>8, <1>11, <2>1, <2>2, <2>3, OpStays
<1>13. \A t \in Sessions : SessSound(session'[t], builds.worker)
  BY <1>7, <1>8 DEF WorkInv
<1>14. ASSUME NEW t \in Sessions, NEW q \in session'[t].permits PROVE PermitSound(t, q)'
  <2>1. q \in session[t].permits /\ q # p
    <3>1. CASE t = s
      BY <1>5, <1>6, <1>8, <1>14, <3>1
    <3>2. CASE t # s
      BY <1>4, <1>8, <1>14, <3>2 DEF WorkInv, PermitSound
    <3> QED
      BY <3>1, <3>2
  <2>2. PermitSound(t, q)
    BY <2>1 DEF WorkInv
  <2> QED
    BY <1>2, <1>9, <2>1, <2>2 DEF PermitSound
<1>15. ASSUME NEW i \in DOMAIN left' PROVE LeftSound(i)'
  <2>1. CASE i \in DOMAIN left
    BY <1>2, <1>9, <2>1 DEF WorkInv, LeftSound
  <2>2. CASE i = n
    <3>1. left'[i].op = p /\ left'[i].origin = WriteOrigin
      BY <1>1, <1>9, <2>2
    <3>2. p \in DOMAIN ops /\ ops[p].kind = "execute" /\ ops[p].pc \in MayHaveLeft /\ ops[p].out # "approval_drift"
      <4>1. ops[p] \in OpRec /\ OpSound(ops[p], session, builds.worker)
        BY <1>4, HasType DEF PermitSound
      <4> QED
        BY <1>4, <4>1 DEF PermitSound, Short, MayHaveLeft, OpSound, ConstantsOK
    <3> QED
      BY <1>2, <3>1, <3>2 DEF LeftSound
  <2> QED
    BY <1>9, <1>15, <2>1, <2>2
<1>16. \A i, j \in DOMAIN left' : i # j => left'[i].op # left'[j].op
  BY <1>4, <1>9 DEF WorkInv, PermitSound
<1> QED
  BY <1>2, <1>8, <1>10, <1>12, <1>13, <1>14, <1>15, <1>16 DEF WorkInv, Sessions

-----------------------------------------------------------------------------
(* The Core: what it sends, and what it holds of the approvals.            *)

Idle == [Op("ping", 0, NONE, 0) EXCEPT !.pc = "over"]

Fresh(op) == /\ op.pc = "reap" /\ op.shows = {} /\ op.on = {} /\ op.out = NONE
             /\ op.sess <= Len(session) /\ op.build <= builds.worker

\* The operations that were sent are as they were, or of no more interest; new ones have not begun.
OpsGrow ==
    /\ ops' \in Seq(OpRec) /\ Len(ops) <= Len(ops')
    /\ \A q \in DOMAIN ops : ops'[q] = ops[q] \/ (ops[q].kind # "execute" /\ ops'[q] = Idle)
    /\ \A q \in DOMAIN ops' \ DOMAIN ops : Fresh(ops'[q])

NoExecute == \A q \in DOMAIN ops' \ DOMAIN ops : ops'[q].kind # "execute"

LEMMA IdleIs ==
    ASSUME ConstantsOK
    PROVE  /\ Idle \in OpRec /\ Idle.kind = "ping" /\ Idle.sess = 0 /\ Idle.pc = "over" /\ Idle.out = NONE
           /\ Idle.shows = {} /\ Idle.build = 0 /\ Idle.on = {} /\ Idle.wipe = 0
<1> DEFINE r == Op("ping", 0, NONE, 0)
<1>1. <<>> \in Seq(Secrets)
  OBVIOUS
<1>2. "ping" \in OpKinds /\ NONE \in PageOrNone /\ 0 \in Nat
  BY DEF OpKinds, PageOrNone
<1>3. /\ r \in OpRec /\ r.kind = "ping" /\ r.sess = 0 /\ r.out = NONE
      /\ r.shows = {} /\ r.build = 0 /\ r.on = {} /\ r.wipe = 0
  BY <1>1, <1>2 DEF Op, OpRec
<1>4. Idle = [r EXCEPT !.pc = "over"]
  BY DEF Idle
<1> HIDE DEF r
<1> QED
  BY <1>3, <1>4 DEF OpRec

LEMMA GrowKeeps ==
    ASSUME WorkInv, ConstantsOK, OpsGrow, UNCHANGED session, UNCHANGED left,
           builds' \in [core : Nat, worker : Nat], builds'.worker = builds.worker,
           builds'.worker <= builds'.core
    PROVE  WorkInv'
<1>1. /\ ops \in Seq(OpRec) /\ ops' \in Seq(OpRec) /\ session \in Seq(SessRec) /\ DOMAIN ops \subseteq DOMAIN ops'
      /\ builds.worker \in Nat /\ Len(session) \in Nat
  BY DEF WorkInv, WorkerTyped, OpsGrow
<1>2. WorkerTyped'
  BY <1>1 DEF WorkInv, WorkerTyped
<1>3. OpSound(Idle, session, builds.worker)
  <2>1. 0 <= Len(session) /\ 0 <= builds.worker
    BY <1>1
  <2> QED
    BY <2>1, IdleIs DEF OpSound, AtPage, Executing, ConstantsOK
<1>4. \A q \in DOMAIN ops : OpSound(ops'[q], session, builds.worker)
  BY <1>3, HasType DEF OpsGrow
<1>5. ASSUME NEW q \in DOMAIN ops' \ DOMAIN ops PROVE OpSound(ops'[q], session, builds.worker)
  <2>1. Fresh(ops'[q])
    BY DEF OpsGrow
  <2> QED
    BY <2>1 DEF Fresh, OpSound, AtPage, Executing, ConstantsOK
<1>6. ASSUME NEW q \in DOMAIN ops', ops'[q].pc = "start" PROVE q \in DOMAIN ops /\ ops'[q] = ops[q]
  BY <1>6, IdleIs DEF OpsGrow, Fresh
<1>7. \A p, q \in DOMAIN ops' : ops'[p].pc = "start" /\ ops'[q].pc = "start" /\ p # q
                                 => ops'[p].sess # ops'[q].sess
  BY <1>6 DEF WorkInv
<1>8. \A q \in DOMAIN ops : ops[q].kind = "execute" => ops'[q] = ops[q]
  BY DEF OpsGrow
<1>9. \A s \in Sessions : \A p \in session[s].permits : PermitSound(s, p)'
  BY <1>1, <1>8 DEF WorkInv, PermitSound
<1>10. \A i \in DOMAIN left : LeftSound(i)'
  BY <1>1, <1>8 DEF WorkInv, LeftSound
<1>11. \A q \in DOMAIN ops' : OpSound(ops'[q], session', builds'.worker)
  BY <1>4, <1>5
<1>12. \A s \in DOMAIN session' : SessSound(session'[s], builds'.worker)
  BY DEF WorkInv, Sessions
<1>13. /\ \A s \in DOMAIN session' : \A p \in session'[s].permits : PermitSound(s, p)'
       /\ \A i \in DOMAIN left' : LeftSound(i)'
       /\ \A i, j \in DOMAIN left' : i # j => left'[i].op # left'[j].op
  BY <1>9, <1>10 DEF WorkInv, Sessions
<1> QED
  BY <1>2, <1>7, <1>11, <1>12, <1>13 DEF WorkInv, Sessions

\* Each claimed approval is on its way to one execute, or there already.
Held(a) == a \in DOMAIN asked /\ asked[a].state = "claimed" /\ \A o \in Executes : ops[o].ap # a

ApprovalInv ==
    /\ ApprovedOnce
    /\ \A c \in Callers : caller[c].pc = "claimed" => Held(caller[c].ap)
    /\ \A c, d \in Callers : caller[c].pc = "claimed" /\ caller[d].pc = "claimed" /\ c # d
                               => caller[c].ap # caller[d].ap

CoreInv == CallersTyped /\ ApprovalsTyped /\ ApprovalInv

\* What was claimed stays so.
AskedGrow == \A a \in DOMAIN asked : asked[a].state = "claimed" => a \in DOMAIN asked' /\ asked'[a].state = "claimed"

\* The executes there are, are the ones there were.
ExecutesStay == /\ Executes' = Executes
                /\ \A o \in Executes : ops'[o].ap = ops[o].ap /\ ops'[o].man = ops[o].man

LEMMA OnceKeeps ==
    ASSUME ApprovedOnce, ExecutesStay, AskedGrow
    PROVE  ApprovedOnce'
<1>1. \A o \in Executes : ops[o].ap \in DOMAIN asked /\ asked[ops[o].ap].state = "claimed"
  BY DEF ApprovedOnce
<1>2. \A o, q \in Executes : o # q => ops[o].ap # ops[q].ap
  BY DEF ApprovedOnce
<1>3. \A o \in Executes' : ops'[o].ap \in DOMAIN asked' /\ asked'[ops'[o].ap].state = "claimed"
  BY <1>1 DEF ExecutesStay, AskedGrow
<1>4. \A o, q \in Executes' : o # q => ops'[o].ap # ops'[q].ap
  BY <1>2 DEF ExecutesStay
<1> QED
  BY <1>3, <1>4 DEF ApprovedOnce

LEMMA QuietKeeps ==
    ASSUME ApprovalInv, ExecutesStay, AskedGrow,
           \A c \in Callers : caller'[c].pc = "claimed" => caller'[c] = caller[c]
    PROVE  ApprovalInv'
<1>1. ASSUME NEW a, Held(a) PROVE Held(a)'
  BY <1>1 DEF Held, ExecutesStay, AskedGrow
<1>2. ApprovedOnce'
  BY OnceKeeps DEF ApprovalInv
<1> QED
  BY <1>1, <1>2 DEF ApprovalInv

LEMMA GrowStays ==
    ASSUME WorkInv, ConstantsOK, OpsGrow, NoExecute
    PROVE  ExecutesStay
<1>1. DOMAIN ops \subseteq DOMAIN ops'
  BY DEF WorkInv, WorkerTyped, OpsGrow
<1>2. \A q \in DOMAIN ops : (ops'[q].kind = "execute") <=> (ops[q].kind = "execute")
  BY IdleIs DEF OpsGrow
<1>3. Executes' = Executes
  BY <1>1, <1>2 DEF Executes, NoExecute
<1> QED
  BY <1>3 DEF ExecutesStay, OpsGrow, Executes

\* What is left of ops when a caller has heard its answer.
Heard(base) ==
    /\ base \in Seq(OpRec) /\ Len(base) = Len(ops)
    /\ \A q \in DOMAIN ops : base[q] = ops[q] \/ (ops[q].kind # "execute" /\ base[q] = Idle)

LEMMA DropIs ==
    ASSUME WorkInv, ConstantsOK, NEW c \in Callers
    PROVE  Heard(Drop(c)) /\ Heard(ops)
<1>1. ops \in Seq(OpRec) /\ Heard(ops)
  BY DEF WorkInv, WorkerTyped, Heard
<1> DEFINE o == caller[c].op
<1>2. CASE ops[o].kind \in {"execute", "close_session"}
  BY <1>1, <1>2 DEF Drop
<1>3. CASE ops[o].kind \notin {"execute", "close_session"}
  <2>1. Drop(c) = [ops EXCEPT ![o] = Idle]
    BY <1>3 DEF Drop, Idle
  <2> HIDE DEF o
  <2>2. Idle \in OpRec
    BY IdleIs
  <2> DEFINE x == Idle
             base == [ops EXCEPT ![o] = x]
  <2>3. ops \in [1..Len(ops) -> OpRec] /\ Len(ops) \in Nat /\ x \in OpRec /\ DOMAIN ops = 1..Len(ops)
    BY <1>1, <2>2
  <2> HIDE DEF x
  <2>4. base \in [1..Len(ops) -> OpRec]
    BY <2>3
  <2>5. base \in Seq(OpRec) /\ Len(base) = Len(ops)
    BY <2>3, <2>4
  <2>6. \A q \in DOMAIN ops : base[q] = ops[q] \/ (ops[q].kind # "execute" /\ base[q] = x)
    BY <1>3, <2>3 DEF o
  <2> QED
    BY <2>1, <2>5, <2>6 DEF Heard, x
<1> QED
  BY <1>1, <1>2, <1>3

LEMMA HeardGrows ==
    ASSUME WorkInv, NEW base, Heard(base), ops' = base
    PROVE  OpsGrow /\ NoExecute
<1>1. ops \in Seq(OpRec) /\ ops' \in Seq(OpRec) /\ Len(ops') = Len(ops) /\ DOMAIN ops' = DOMAIN ops /\ Len(ops) \in Nat
  BY DEF WorkInv, WorkerTyped, Heard
<1> QED
  BY <1>1 DEF OpsGrow, NoExecute, Heard

LEMMA AppendGrows ==
    ASSUME WorkInv, NEW base, Heard(base), NEW new \in OpRec, Fresh(new), ops' = Append(base, new)
    PROVE  /\ OpsGrow /\ (new.kind # "execute" => NoExecute)
           /\ DOMAIN ops' = DOMAIN ops \cup {Len(ops) + 1} /\ Len(ops) + 1 \notin DOMAIN ops
           /\ ops'[Len(ops) + 1] = new /\ Len(ops') = Len(ops) + 1
<1>1. ops \in Seq(OpRec) /\ base \in Seq(OpRec) /\ Len(base) = Len(ops)
  BY DEF WorkInv, WorkerTyped, Heard
<1>2. /\ ops' \in Seq(OpRec) /\ Len(ops') = Len(ops) + 1 /\ DOMAIN ops' = DOMAIN ops \cup {Len(ops) + 1}
      /\ Len(ops) + 1 \notin DOMAIN ops /\ ops'[Len(ops) + 1] = new /\ Len(ops) <= Len(ops')
      /\ \A q \in DOMAIN ops : ops'[q] = base[q]
  BY <1>1
<1>3. OpsGrow
  BY <1>2 DEF OpsGrow, Heard
<1> QED
  BY <1>2, <1>3 DEF NoExecute

\* A caller that is somewhere else now, and holds no approval there.
CallSound(r) ==
    /\ r \in CallRec /\ r.op <= Len(ops') /\ r.sess <= Len(session) /\ r.pc # "claimed"
    /\ r.pc = "probing" => r.sess \in Sessions

\* One operation more was sent.
Sent(kind, man, ap) ==
    \E n \in DOMAIN ops' \ DOMAIN ops : /\ DOMAIN ops' = DOMAIN ops \cup {n}
                                       /\ ops'[n].kind = kind /\ ops'[n].man = man /\ ops'[n].ap = ap

LEMMA CallIs ==
    ASSUME WorkInv, CallersTyped, ConstantsOK, NEW c \in Callers, NEW kind \in OpKinds, NEW s \in Nat, s <= Len(session),
           NEW pc \in {"ping", "opening", "going", "reading", "closing", "probing", "logging"},
           pc = "probing" => s \in Sessions,
           NEW more \in [man : PageOrNone, ap : Nat], call(c, kind, s, pc, more)
    PROVE  /\ OpsGrow /\ (kind # "execute" => NoExecute) /\ Sent(kind, more.man, more.ap)
           /\ \E r \in CallRec : CallSound(r) /\ caller' = [caller EXCEPT ![c] = r]
<1> DEFINE man == more.man
           ap == more.ap
           new == Op(kind, s, man, ap)
           n == Len(ops) + 1
           r == [caller[c] EXCEPT !.op = n, !.pc = pc, !.sess = s, !.man = man, !.ap = ap]
<1>1. man \in PageOrNone /\ ap \in Nat /\ n \in Nat /\ builds.worker \in Nat
  BY DEF WorkInv, WorkerTyped
<1>2. PICK base : Heard(base) /\ ops' = Append(base, new)
  BY DropIs DEF call
<1>3. caller' = [caller EXCEPT ![c] = r]
  BY DEF call
<1> HIDE DEF man, ap
<1>4. new \in OpRec /\ Fresh(new) /\ new.kind = kind /\ new.man = man /\ new.ap = ap
  <2>1. <<>> \in Seq(Secrets) /\ 0 \in Nat /\ NONE \in PageOrNone /\ 0 <= builds.worker
    BY <1>1 DEF PageOrNone
  <2>2. /\ new \in OpRec /\ new.kind = kind /\ new.man = man /\ new.ap = ap /\ new.pc = "reap"
        /\ new.shows = {} /\ new.on = {} /\ new.out = NONE /\ new.sess = s /\ new.build = 0
    BY <1>1, <2>1 DEF Op, OpRec
  <2> HIDE DEF new
  <2> QED
    BY <2>1, <2>2 DEF Fresh
<1> HIDE DEF new
<1>5. /\ OpsGrow /\ (new.kind # "execute" => NoExecute)
      /\ DOMAIN ops' = DOMAIN ops \cup {n} /\ n \notin DOMAIN ops
      /\ ops'[n] = new /\ Len(ops') = n
  BY <1>2, <1>4, AppendGrows
<1>6. r \in CallRec /\ r.op = n /\ r.pc = pc /\ r.sess = s
  <2>1. caller[c] \in CallRec
    BY DEF CallersTyped
  <2> HIDE DEF n
  <2> QED
    BY <1>1, <2>1 DEF CallRec
<1>7. CallSound(r)
  <2>1. n <= Len(ops')
    BY <1>1, <1>5
  <2> HIDE DEF r
  <2> QED
    BY <1>6, <2>1 DEF CallSound
<1>8. Sent(kind, man, ap)
  BY <1>4, <1>5 DEF Sent
<1> QED
  BY <1>3, <1>4, <1>5, <1>6, <1>7, <1>8 DEF man, ap

LEMMA EndsIs ==
    ASSUME WorkInv, CallersTyped, OpsGrow, NEW c \in Callers,
           NEW word \in {"failed", "going", "reading", "closing", "not_described", "denied", "asked", "unknown", "done"},
           Ends(c, word), ConstantsOK
    PROVE  \E r \in CallRec : CallSound(r) /\ caller' = [caller EXCEPT ![c] = r]
<1>1. caller[c] \in CallRec /\ caller[c].op <= Len(ops)
  BY DEF CallersTyped
<1>2. Len(ops) \in Nat /\ Len(session) \in Nat /\ caller[c].op \in Nat
  BY <1>1 DEF CallRec, WorkInv, WorkerTyped
<1>3. PICK last \in Nat : last <= Len(ops) /\ caller' = [caller EXCEPT ![c] = Away(word, last)]
  <2>1. CASE caller[c].pc = "logging"
    <3>1. caller' = [caller EXCEPT ![c] = Away(word, caller[c].op)]
      BY <2>1 DEF Ends
    <3> QED
      BY <1>1, <1>2, <3>1
  <2>2. CASE caller[c].pc # "logging"
    <3>1. 0 <= Len(ops) /\ caller' = [caller EXCEPT ![c] = Away(word, 0)]
      BY <1>2, <2>2 DEF Ends
    <3> QED
      BY <3>1
  <2> QED
    BY <2>1, <2>2
<1> DEFINE r == Away(word, last)
<1>4. r \in CallRec /\ r.op = last /\ r.sess = 0 /\ r.pc = "away"
  BY DEF Away, CallRec, PageOrNone
<1>5. caller' = [caller EXCEPT ![c] = r]
  BY <1>3
<1> HIDE DEF r
<1>6. ops' \in Seq(OpRec) /\ Len(ops) <= Len(ops')
  BY DEF OpsGrow
<1>7. last <= Len(ops')
  BY <1>2, <1>3, <1>6
<1>8. CallSound(r)
  BY <1>2, <1>4, <1>6, <1>7 DEF CallSound
<1> QED
  BY <1>4, <1>5, <1>8

\* A step of one caller that claims nothing and carries nothing out.
LEMMA CallerKeeps ==
    ASSUME WorkInv, CoreInv, ConstantsOK, OpsGrow, NoExecute, UNCHANGED session, UNCHANGED left, UNCHANGED builds,
           NEW c \in Callers, NEW r \in CallRec, CallSound(r), caller' = [caller EXCEPT ![c] = r],
           ApprovalsTyped', AskedGrow
    PROVE  WorkInv' /\ CoreInv'
<1>1. WorkInv'
  <2>1. builds' \in [core : Nat, worker : Nat] /\ builds'.worker = builds.worker /\ builds'.worker <= builds'.core
    BY DEF WorkInv, WorkerTyped
  <2> QED
    BY <2>1, GrowKeeps
<1>2. caller \in [Callers -> CallRec] /\ Len(ops) \in Nat /\ Len(ops') \in Nat /\ Len(ops) <= Len(ops')
  BY DEF CoreInv, CallersTyped, OpsGrow, WorkInv, WorkerTyped
<1>3. caller' \in [Callers -> CallRec] /\ caller'[c] = r /\ \A d \in Callers \ {c} : caller'[d] = caller[d]
  BY <1>2
<1>4. ASSUME NEW d \in Callers
      PROVE  /\ caller'[d].op <= Len(ops') /\ caller'[d].sess <= Len(session)
             /\ caller'[d].pc = "probing" => caller'[d].sess \in Sessions
  <2>1. CASE d = c
    BY <1>3, <2>1 DEF CallSound
  <2>2. CASE d # c
    <3>1. caller'[d] = caller[d] /\ caller[d].op \in Nat
      BY <1>2, <1>3, <2>2 DEF CallRec
    <3>2. /\ caller[d].op <= Len(ops) /\ caller[d].sess <= Len(session)
          /\ caller[d].pc = "probing" => caller[d].sess \in Sessions
      BY DEF CoreInv, CallersTyped
    <3> QED
      BY <1>2, <3>1, <3>2
  <2> QED
    BY <2>1, <2>2
<1>5. CallersTyped'
  BY <1>3, <1>4 DEF CallersTyped, Sessions
<1>6. \A d \in Callers : caller'[d].pc = "claimed" => caller'[d] = caller[d]
  BY <1>3 DEF CallSound
<1>7. ApprovalInv'
  BY <1>6, GrowStays, QuietKeeps DEF CoreInv
<1> QED
  BY <1>1, <1>5, <1>7 DEF CoreInv

LEMMA SameApprovals ==
    ASSUME CoreInv, UNCHANGED pending, UNCHANGED asked, UNCHANGED outstanding, UNCHANGED vault
    PROVE  ApprovalsTyped' /\ AskedGrow
  BY DEF CoreInv, ApprovalsTyped, AskedGrow

-----------------------------------------------------------------------------
(* The steps of a caller.                                                  *)

LEMMA NoMore == NONE \in PageOrNone /\ Plain \in [man : PageOrNone, ap : Nat]
  BY DEF PageOrNone, Plain

LEMMA ReplyIs ==
    ASSUME WorkInv, CoreInv, NEW c \in Callers, Answered(c)
    PROVE  /\ caller[c].op \in DOMAIN ops /\ Reply(c) \in OpRec /\ OpSound(Reply(c), session, builds.worker)
           /\ Reply(c).sess \in Nat /\ Reply(c).sess <= Len(session) /\ Reply(c).seen \in PageOrNone
<1>1. caller[c] \in CallRec /\ caller[c].op <= Len(ops) /\ ops \in Seq(OpRec)
  BY DEF CoreInv, CallersTyped, WorkInv, WorkerTyped
<1>2. caller[c].op \in Nat /\ caller[c].op > 0
  BY <1>1 DEF Answered, CallRec
<1>3. caller[c].op \in DOMAIN ops
  BY <1>1, <1>2
<1>4. Reply(c) \in OpRec /\ OpSound(Reply(c), session, builds.worker)
  BY <1>3, HasType DEF Reply
<1> QED
  BY <1>3, <1>4 DEF OpRec, OpSound

\* What most steps of a caller leave alone.
Elsewhere == UNCHANGED <<asked, outstanding, vault, session, builds, left>>

\* It sends something that is no execute, and waits.
LEMMA SendsKeeps ==
    ASSUME WorkInv, CoreInv, ConstantsOK, NEW c \in Callers, NEW kind \in OpKinds \ {"execute"},
           NEW s \in Nat, s <= Len(session), NEW pc \in {"ping", "opening", "going", "reading", "closing", "probing"},
           pc = "probing" => s \in Sessions, call(c, kind, s, pc, Plain),
           UNCHANGED session, UNCHANGED left, UNCHANGED builds, ApprovalsTyped', AskedGrow
    PROVE  WorkInv' /\ CoreInv'
<1>1. CallersTyped
  BY DEF CoreInv
<1>2. OpsGrow /\ NoExecute /\ \E r \in CallRec : CallSound(r) /\ caller' = [caller EXCEPT ![c] = r]
  BY <1>1, NoMore, CallIs
<1> QED
  BY <1>2, CallerKeeps

\* It is through.
LEMMA EndedKeeps ==
    ASSUME WorkInv, CoreInv, ConstantsOK, NEW c \in Callers,
           NEW word \in {"failed", "going", "reading", "closing", "not_described", "denied", "asked", "unknown", "done"},
           Ends(c, word), ops' = ops \/ ops' = Drop(c),
           UNCHANGED session, UNCHANGED left, UNCHANGED builds, ApprovalsTyped', AskedGrow
    PROVE  WorkInv' /\ CoreInv'
<1>1. CallersTyped
  BY DEF CoreInv
<1>2. OpsGrow /\ NoExecute
  BY DropIs, HeardGrows
<1>3. \E r \in CallRec : CallSound(r) /\ caller' = [caller EXCEPT ![c] = r]
  BY <1>1, <1>2, EndsIs
<1> QED
  BY <1>2, <1>3, CallerKeeps

LEMMA SessionsCount ==
    ASSUME WorkInv, ConstantsOK
    PROVE  0 <= Len(session) /\ \A s \in Sessions : s \in Nat /\ s <= Len(session) /\ s \in 1..MaxSessions
<1>1. session \in Seq(SessRec) /\ Len(session) <= MaxSessions
  BY DEF WorkInv, WorkerTyped
<1>2. MaxSessions \in Nat
  BY DEF ConstantsOK
<1> QED
  BY <1>1, <1>2 DEF Sessions

LEMMA AsksKeeps ==
    ASSUME WorkInv, CoreInv, ConstantsOK, NEW c \in Callers, Open(c) \/ Read(c) \/ Login(c)
    PROVE  WorkInv' /\ CoreInv'
<1>1. /\ UNCHANGED session /\ UNCHANGED left /\ UNCHANGED builds
      /\ UNCHANGED pending /\ UNCHANGED asked /\ UNCHANGED outstanding /\ UNCHANGED vault
  BY DEF Open, Read, Login
<1>2. ApprovalsTyped' /\ AskedGrow
  BY <1>1, SameApprovals
<1>3. \/ call(c, "ping", 0, "ping", Plain)
      \/ \E s \in Sessions : call(c, "read", s, "reading", Plain)
      \/ \E s \in Sessions : call(c, "probe_action", s, "probing", Plain)
  BY DEF Open, Read, Login
<1>4. {"ping", "read", "probe_action"} \subseteq OpKinds \ {"execute"}
  BY DEF OpKinds
<1> QED
  BY <1>1, <1>2, <1>3, <1>4, SessionsCount, SendsKeeps

\* An approval that could still be given may be abandoned.
LEMMA AbandonIs ==
    ASSUME CoreInv, NEW a \in 0..Len(asked)
    PROVE  /\ Abandon(a) \in Seq(AskRec) /\ Len(Abandon(a)) = Len(asked)
           /\ \A b \in DOMAIN asked : asked[b].state = "claimed" => Abandon(a)[b] = asked[b]
<1>1. asked \in Seq(AskRec)
  BY DEF CoreInv, ApprovalsTyped
<1>2. CASE a > 0 /\ asked[a].state = "pending"
  <2> DEFINE r == [asked[a] EXCEPT !.state = "expired"]
  <2>1. Abandon(a) = [asked EXCEPT ![a] = r]
    BY <1>2 DEF Abandon
  <2>2. a \in DOMAIN asked /\ asked[a] \in AskRec
    BY <1>1, <1>2
  <2>3. r \in AskRec
    BY <2>2 DEF AskRec
  <2> HIDE DEF r
  <2> QED
    BY <1>1, <1>2, <2>1, <2>2, <2>3
<1>3. CASE ~ (a > 0 /\ asked[a].state = "pending")
  BY <1>1, <1>3 DEF Abandon
<1> QED
  BY <1>2, <1>3

LEMMA CloseCallKeeps ==
    ASSUME WorkInv, CoreInv, ConstantsOK, NEW c \in Callers, Close(c)
    PROVE  WorkInv' /\ CoreInv'
<1>1. PICK s \in Sessions : /\ asked' = Abandon(outstanding) /\ outstanding' = 0
                            /\ pending' = Without(s) /\ call(c, "close_session", s, "closing", Plain)
  BY DEF Close, abandon_outstanding
<1>2. UNCHANGED session /\ UNCHANGED left /\ UNCHANGED builds /\ UNCHANGED vault
  BY DEF Close
<1>3. /\ asked' \in Seq(AskRec) /\ Len(asked') = Len(asked) /\ asked \in Seq(AskRec)
      /\ \A b \in DOMAIN asked : asked[b].state = "claimed" => asked'[b] = asked[b]
  BY <1>1, AbandonIs DEF CoreInv, ApprovalsTyped
<1>4. AskedGrow
  BY <1>3 DEF AskedGrow
<1>5. ApprovalsTyped'
  BY <1>1, <1>2, <1>3 DEF CoreInv, ApprovalsTyped, Without
<1> QED
  BY <1>1, <1>2, <1>4, <1>5, SessionsCount, SendsKeeps DEF OpKinds

LEMMA HearsKeeps ==
    ASSUME WorkInv, CoreInv, ConstantsOK, NEW c \in Callers, navigate(c) \/ Told(c)
    PROVE  WorkInv' /\ CoreInv'
<1>1. /\ UNCHANGED session /\ UNCHANGED left /\ UNCHANGED builds /\ Answered(c)
      /\ UNCHANGED pending /\ UNCHANGED asked /\ UNCHANGED outstanding /\ UNCHANGED vault
  BY DEF navigate, Told
<1>2. ApprovalsTyped' /\ AskedGrow
  BY <1>1, SameApprovals
<1>3. CASE call(c, "navigate", Reply(c).sess, "going", Plain)
  <2>1. Reply(c).sess \in Nat /\ Reply(c).sess <= Len(session)
    BY <1>1, ReplyIs
  <2> QED
    BY <1>1, <1>2, <1>3, <2>1, SendsKeeps DEF OpKinds
<1>4. CASE \E word \in {"failed", "going", "reading", "closing"} : Ends(c, word) /\ ops' = Drop(c)
  BY <1>1, <1>2, <1>4, EndedKeeps
<1> QED
  BY <1>3, <1>4 DEF navigate, Told

\* The opening is sent to code that is no older than the tree.
LEMMA OpenSessionKeeps ==
    ASSUME WorkInv, CoreInv, ConstantsOK, NEW c \in Callers, open_session(c)
    PROVE  WorkInv' /\ CoreInv'
<1>1. /\ UNCHANGED session /\ UNCHANGED left /\ UNCHANGED builds /\ Answered(c)
      /\ UNCHANGED pending /\ UNCHANGED asked /\ UNCHANGED outstanding /\ UNCHANGED vault
  BY DEF open_session
<1>2. ApprovalsTyped' /\ AskedGrow
  BY <1>1, SameApprovals
<1>3. CASE Ends(c, "failed") /\ ops' = Drop(c)
  BY <1>1, <1>2, <1>3, EndedKeeps
<1>4. CASE Verified(c)
  <2> DEFINE b == builds.core
             new == [Op("open_session", 0, NONE, 0) EXCEPT !.build = b]
             n == Len(ops) + 1
             r == [caller[c] EXCEPT !.op = n, !.pc = "opening"]
  <2>1. ops' = Append(Drop(c), new) /\ caller' = [caller EXCEPT ![c] = r]
    BY <1>4 DEF open_session
  <2>2. b \in Nat /\ b <= builds.worker /\ n \in Nat /\ 0 <= Len(session)
    BY <1>1, <1>4, ReplyIs DEF Verified, OpSound, WorkInv, WorkerTyped
  <2> HIDE DEF b
  <2>3. new \in OpRec /\ Fresh(new) /\ new.kind = "open_session"
    <3> DEFINE plain == Op("open_session", 0, NONE, 0)
    <3>1. <<>> \in Seq(Secrets) /\ NONE \in PageOrNone /\ "open_session" \in OpKinds
      BY DEF PageOrNone, OpKinds
    <3>2. /\ plain \in OpRec /\ plain.kind = "open_session" /\ plain.pc = "reap"
          /\ plain.shows = {} /\ plain.on = {} /\ plain.out = NONE /\ plain.sess = 0
      BY <3>1 DEF Op, OpRec
    <3>4. new = [plain EXCEPT !.build = b]
      OBVIOUS
    <3> HIDE DEF plain
    <3>3. /\ new \in OpRec /\ new.kind = "open_session" /\ new.pc = "reap" /\ new.build = b
          /\ new.shows = {} /\ new.on = {} /\ new.out = NONE /\ new.sess = 0
      BY <2>2, <3>2, <3>4 DEF OpRec
    <3> HIDE DEF new
    <3> QED
      BY <2>2, <3>3 DEF Fresh
  <2> HIDE DEF new
  <2>4. OpsGrow /\ NoExecute /\ Len(ops') = n
    BY <2>1, <2>3, DropIs, AppendGrows
  <2>5. /\ r \in CallRec /\ r.op = n /\ r.pc = "opening" /\ r.sess = caller[c].sess /\ caller[c].sess <= Len(session)
    BY <2>2 DEF CoreInv, CallersTyped, CallRec
  <2> HIDE DEF r
  <2>6. CallSound(r)
    <3>1. n <= n
      BY <2>2
    <3> QED
      BY <2>4, <2>5, <3>1 DEF CallSound
  <2> QED
    BY <1>1, <1>2, <2>1, <2>4, <2>5, <2>6, CallerKeeps
<1> QED
  BY <1>3, <1>4 DEF open_session

LEMMA DescribeKeeps ==
    ASSUME WorkInv, CoreInv, ConstantsOK, NEW c \in Callers, prepare_login(c)
    PROVE  WorkInv' /\ CoreInv'
<1>1. /\ UNCHANGED session /\ UNCHANGED left /\ UNCHANGED builds /\ Answered(c) /\ ops' = Drop(c)
      /\ UNCHANGED asked /\ UNCHANGED outstanding /\ UNCHANGED vault /\ caller[c].pc = "probing"
  BY DEF prepare_login
<1>2. CASE Ends(c, "not_described") /\ UNCHANGED pending
  <2>1. ApprovalsTyped' /\ AskedGrow
    BY <1>1, <1>2, SameApprovals
  <2> QED
    BY <1>1, <1>2, <2>1, EndedKeeps
<1>3. CASE ~ (Ends(c, "not_described") /\ UNCHANGED pending)
  <2> DEFINE s == caller[c].sess
             page == Reply(c).seen
             r == [caller[c] EXCEPT !.pc = "asking", !.man = page]
  <2>1. pending' = Describe(s, page) /\ caller' = [caller EXCEPT ![c] = r]
    BY <1>3 DEF prepare_login
  <2>2. /\ page \in PageOrNone /\ caller[c] \in CallRec /\ s \in Sessions
        /\ caller[c].op <= Len(ops) /\ caller[c].sess <= Len(session)
    BY <1>1, ReplyIs DEF CoreInv, CallersTyped
  <2> HIDE DEF page
  <2>3. r \in CallRec /\ r.pc = "asking" /\ r.op = caller[c].op /\ r.sess = caller[c].sess
    BY <2>2 DEF CallRec
  <2> HIDE DEF r
  <2>4. OpsGrow /\ NoExecute
    BY <1>1, DropIs, HeardGrows
  <2>5. CallSound(r)
    <3>1. Len(ops') = Len(ops)
      BY <1>1, DropIs DEF Heard
    <3> QED
      BY <2>2, <2>3, <3>1 DEF CallSound
  <2>6. ApprovalsTyped'
    <3>1. s \in 1..MaxSessions
      BY <2>2, SessionsCount
    <3> HIDE DEF s
    <3>2. \A t \in DOMAIN pending' : t \in 1..MaxSessions /\ pending'[t] \in PageOrNone
      BY <2>1, <2>2, <3>1 DEF CoreInv, ApprovalsTyped, Describe
    <3> QED
      BY <1>1, <3>2 DEF CoreInv, ApprovalsTyped
  <2>7. AskedGrow
    BY <1>1 DEF AskedGrow
  <2> QED
    BY <1>1, <2>1, <2>3, <2>4, <2>5, <2>6, <2>7, CallerKeeps
<1> QED
  BY <1>2, <1>3

LEMMA SameGrows ==
    ASSUME WorkInv, ConstantsOK, UNCHANGED ops
    PROVE  OpsGrow /\ NoExecute /\ ExecutesStay
<1>1. OpsGrow /\ NoExecute
  BY DropIs, HeardGrows DEF Heard, WorkInv, WorkerTyped
<1> QED
  BY <1>1, GrowStays

\* The approved one is claimed.
LEMMA ClaimKeeps ==
    ASSUME WorkInv, CoreInv, ConstantsOK, NEW c \in Callers, Resume(c), Resumes(c) = "ok"
    PROVE  WorkInv' /\ CoreInv'
<1>0. PICK a : a = outstanding
  OBVIOUS
<1> DEFINE asked2 == [asked[a] EXCEPT !.state = "claimed"]
           r == [caller[c] EXCEPT !.pc = "claimed", !.ap = a]
<1>1. /\ UNCHANGED session /\ UNCHANGED left /\ UNCHANGED builds /\ UNCHANGED ops /\ UNCHANGED pending
      /\ UNCHANGED vault /\ caller[c].pc = "asking"
      /\ asked' = [asked EXCEPT ![a] = asked2] /\ outstanding' = 0 /\ caller' = [caller EXCEPT ![c] = r]
  BY <1>0 DEF Resume, worker
<1>2. a # 0 /\ asked[a].state = "approved"
  BY <1>0 DEF Resumes
<1>3. asked \in Seq(AskRec) /\ a \in DOMAIN asked /\ a \in Nat /\ asked[a] \in AskRec
  <2>1. asked \in Seq(AskRec) /\ a \in 0..Len(asked)
    BY <1>0 DEF CoreInv, ApprovalsTyped
  <2>2. a \in DOMAIN asked /\ a \in Nat
    BY <1>2, <2>1
  <2> QED
    BY <2>1, <2>2
<1>4. asked2 \in AskRec /\ asked2.state = "claimed"
  BY <1>3 DEF AskRec
<1> HIDE DEF asked2
<1>5. caller[c] \in CallRec /\ caller \in [Callers -> CallRec]
  BY DEF CoreInv, CallersTyped
<1>6. r \in CallRec /\ r.pc = "claimed" /\ r.ap = a /\ r.op = caller[c].op /\ r.sess = caller[c].sess
  BY <1>3, <1>5 DEF CallRec
<1> HIDE DEF r
<1>7. /\ asked' \in Seq(AskRec) /\ Len(asked') = Len(asked) /\ DOMAIN asked' = DOMAIN asked
      /\ asked'[a].state = "claimed" /\ \A b \in DOMAIN asked \ {a} : asked'[b] = asked[b]
  BY <1>1, <1>3, <1>4
<1>8. WorkInv'
  <2>1. builds' \in [core : Nat, worker : Nat] /\ builds'.worker = builds.worker /\ builds'.worker <= builds'.core
    BY <1>1 DEF WorkInv, WorkerTyped
  <2> QED
    BY <1>1, <2>1, SameGrows, GrowKeeps
<1>9. /\ caller' \in [Callers -> CallRec] /\ caller'[c] = r
      /\ \A d \in Callers \ {c} : caller'[d] = caller[d]
  BY <1>1, <1>5, <1>6
<1>10. CallersTyped'
  <2>1. ASSUME NEW d \in Callers
        PROVE  /\ caller'[d].op <= Len(ops) /\ caller'[d].sess <= Len(session)
               /\ caller'[d].pc = "probing" => caller'[d].sess \in Sessions
    BY <1>6, <1>9 DEF CoreInv, CallersTyped
  <2> QED
    BY <1>1, <1>9, <2>1 DEF CallersTyped, Sessions
<1>11. ApprovalsTyped'
  <2>1. outstanding' \in 0..Len(asked')
    BY <1>1, <1>7, <1>3
  <2> QED
    BY <1>1, <1>7, <2>1 DEF CoreInv, ApprovalsTyped
<1>12. Executes' = Executes
  BY <1>1 DEF Executes
<1>13. ApprovalInv'
  <2>1. \A b : Held(b) => b # a /\ Held(b)'
    BY <1>1, <1>2, <1>7, <1>12 DEF Held
  <2>2. Held(a)'
    <3>1. \A o \in Executes : asked[ops[o].ap].state = "claimed"
      BY DEF CoreInv, ApprovalInv, ApprovedOnce
    <3>2. \A o \in Executes : ops[o].ap # a
      BY <1>2, <3>1
    <3> QED
      BY <1>1, <1>3, <1>7, <1>12, <3>2 DEF Held
  <2>3. ApprovedOnce'
    <3>1. AskedGrow
      BY <1>2, <1>7 DEF AskedGrow
    <3> QED
      BY <1>1, <3>1, SameGrows, OnceKeeps DEF CoreInv, ApprovalInv
  <2>4. \A d \in Callers : caller'[d].pc = "claimed" => Held(caller[d].ap)'
    BY <1>6, <1>9, <2>1, <2>2 DEF CoreInv, ApprovalInv
  <2>5. \A d, e \in Callers : caller'[d].pc = "claimed" /\ caller'[e].pc = "claimed" /\ d # e
                               => caller'[d].ap # caller'[e].ap
    <3>1. \A d \in Callers \ {c} : caller'[d].pc = "claimed" => caller'[d].ap # a
      BY <1>9, <2>1 DEF CoreInv, ApprovalInv
    <3>2. \A d, e \in Callers \ {c} : caller'[d].pc = "claimed" /\ caller'[e].pc = "claimed" /\ d # e
                                         => caller'[d].ap # caller'[e].ap
      BY <1>9 DEF CoreInv, ApprovalInv
    <3> QED
      BY <1>6, <1>9, <3>1, <3>2
  <2> QED
    BY <2>3, <2>4, <2>5 DEF ApprovalInv
<1> QED
  BY <1>8, <1>10, <1>11, <1>13 DEF CoreInv

LEMMA ResumeKeeps ==
    ASSUME WorkInv, CoreInv, ConstantsOK, NEW c \in Callers, Resume(c)
    PROVE  WorkInv' /\ CoreInv'
<1>1. /\ UNCHANGED session /\ UNCHANGED left /\ UNCHANGED builds /\ UNCHANGED ops /\ UNCHANGED pending
      /\ UNCHANGED vault
  BY DEF Resume, worker
<1>2. CASE Resumes(c) = "ok"
  BY <1>2, ClaimKeeps
<1>3. CASE Resumes(c) = "denied"
  <2>1. outstanding' = 0 /\ Ends(c, "denied") /\ UNCHANGED asked
    BY <1>3 DEF Resume
  <2>2. ApprovalsTyped' /\ AskedGrow
    BY <1>1, <2>1 DEF CoreInv, ApprovalsTyped, AskedGrow
  <2> QED
    BY <1>1, <2>1, <2>2, EndedKeeps
<1>4. CASE Resumes(c) \notin {"ok", "denied"}
  <2> DEFINE new == [man |-> caller[c].man, sess |-> caller[c].sess, state |-> "pending"]
             base == Abandon(outstanding)
  <2>1. asked' = Append(base, new) /\ outstanding' = Len(asked) + 1 /\ Ends(c, "asked")
    BY <1>4 DEF Resume
  <2>2. new \in AskRec
    BY DEF CoreInv, CallersTyped, CallRec, AskRec
  <2>3. /\ base \in Seq(AskRec) /\ Len(base) = Len(asked) /\ asked \in Seq(AskRec)
        /\ \A b \in DOMAIN asked : asked[b].state = "claimed" => base[b] = asked[b]
    BY AbandonIs DEF CoreInv, ApprovalsTyped
  <2> HIDE DEF new, base
  <2>4. /\ asked' \in Seq(AskRec) /\ Len(asked') = Len(asked) + 1 /\ outstanding' \in 0..Len(asked')
        /\ \A b \in DOMAIN asked : b \in DOMAIN asked' /\ asked'[b] = base[b]
    BY <2>1, <2>2, <2>3
  <2>5. AskedGrow
    BY <2>3, <2>4 DEF AskedGrow
  <2>6. ApprovalsTyped'
    BY <1>1, <2>4 DEF CoreInv, ApprovalsTyped
  <2> QED
    BY <1>1, <2>1, <2>5, <2>6, EndedKeeps
<1> QED
  BY <1>2, <1>3, <1>4

\* An execute is sent with the approval that was claimed for it.
LEMMA ExecuteKeeps ==
    ASSUME WorkInv, CoreInv, ConstantsOK, NEW c \in Callers, login(c)
    PROVE  WorkInv' /\ CoreInv'
<1>1. /\ UNCHANGED session /\ UNCHANGED left /\ UNCHANGED builds /\ caller[c].pc = "claimed"
      /\ UNCHANGED pending /\ UNCHANGED asked /\ UNCHANGED outstanding /\ UNCHANGED vault
  BY DEF login
<1>2. ApprovalsTyped' /\ AskedGrow
  BY <1>1, SameApprovals
<1>3. CASE Ends(c, "unknown") /\ UNCHANGED ops
  BY <1>1, <1>2, <1>3, EndedKeeps
<1>4. CASE ~ (Ends(c, "unknown") /\ UNCHANGED ops)
  <2> DEFINE s == caller[c].sess
             more == [man |-> pending[s], ap |-> caller[c].ap]
  <2>1. s \in DOMAIN pending /\ call(c, "execute", s, "logging", more)
    BY <1>4 DEF login
  <2>2. CallersTyped /\ caller[c] \in CallRec /\ s <= Len(session) /\ pending[s] \in PageOrNone
        /\ Held(caller[c].ap) /\ "execute" \in OpKinds
    BY <1>1, <2>1 DEF CoreInv, CallersTyped, ApprovalsTyped, ApprovalInv, OpKinds
  <2>3. s \in Nat /\ more \in [man : PageOrNone, ap : Nat]
    BY <2>2 DEF CallRec
  <2>4. more.ap = caller[c].ap
    OBVIOUS
  <2> HIDE DEF s, more
  <2>5. /\ OpsGrow /\ Sent("execute", more.man, more.ap)
        /\ \E r \in CallRec : CallSound(r) /\ caller' = [caller EXCEPT ![c] = r]
    <3>1. PICK kind \in OpKinds : kind = "execute"
      BY DEF OpKinds
    <3>2. PICK pc \in {"ping", "opening", "going", "reading", "closing", "probing", "logging"} : pc = "logging"
      OBVIOUS
    <3>3. call(c, kind, s, pc, more) /\ (pc = "probing" => s \in Sessions)
      BY <2>1, <3>1, <3>2
    <3>4. OpsGrow /\ Sent(kind, more.man, more.ap) /\ \E r \in CallRec : CallSound(r) /\ caller' = [caller EXCEPT ![c] = r]
      BY <2>2, <2>3, <3>3, CallIs
    <3> QED
      BY <3>1, <3>4
  <2>6. PICK r \in CallRec : CallSound(r) /\ caller' = [caller EXCEPT ![c] = r]
    BY <2>5
  <2>7. PICK n \in DOMAIN ops' \ DOMAIN ops : /\ DOMAIN ops' = DOMAIN ops \cup {n}
                                                /\ ops'[n].kind = "execute" /\ ops'[n].ap = caller[c].ap
    BY <2>4, <2>5 DEF Sent
  <2>8. caller' \in [Callers -> CallRec] /\ caller'[c] = r /\ \A d \in Callers \ {c} : caller'[d] = caller[d]
    BY <2>2, <2>6 DEF CallersTyped
  <2>9. WorkInv'
    <3>1. builds' \in [core : Nat, worker : Nat] /\ builds'.worker = builds.worker /\ builds'.worker <= builds'.core
      BY <1>1 DEF WorkInv, WorkerTyped
    <3> QED
      BY <1>1, <2>5, <3>1, GrowKeeps
  <2>10. CallersTyped'
    <3>1. Len(ops) \in Nat /\ Len(ops') \in Nat /\ Len(ops) <= Len(ops')
      BY <2>5 DEF OpsGrow, WorkInv, WorkerTyped
    <3>2. ASSUME NEW d \in Callers
          PROVE  /\ caller'[d].op <= Len(ops') /\ caller'[d].sess <= Len(session)
                 /\ caller'[d].pc = "probing" => caller'[d].sess \in Sessions
      <4>1. CASE d = c
        BY <2>6, <2>8, <4>1 DEF CallSound
      <4>2. CASE d # c
        <5>1. caller'[d] = caller[d] /\ caller[d].op \in Nat
          BY <2>2, <2>8, <4>2 DEF CallersTyped, CallRec
        <5>2. /\ caller[d].op <= Len(ops) /\ caller[d].sess <= Len(session)
              /\ caller[d].pc = "probing" => caller[d].sess \in Sessions
          BY <2>2 DEF CallersTyped
        <5> QED
          BY <3>1, <5>1, <5>2
      <4> QED
        BY <4>1, <4>2
    <3> QED
      BY <1>1, <2>8, <3>2 DEF CallersTyped, Sessions
  <2>11. /\ Executes' = Executes \cup {n} /\ n \notin Executes
         /\ \A o \in Executes : ops'[o] = ops[o]
    <3>1. \A q \in DOMAIN ops : ops'[q] = ops[q] \/ (ops[q].kind # "execute" /\ ops'[q].kind # "execute")
      BY <2>5, IdleIs DEF OpsGrow
    <3> QED
      BY <2>7, <3>1 DEF Executes
  <2>12. ApprovedOnce'
    <3>1. \A o \in Executes : ops[o].ap \in DOMAIN asked /\ asked[ops[o].ap].state = "claimed" /\ ops[o].ap # caller[c].ap
      BY <2>2 DEF CoreInv, ApprovalInv, ApprovedOnce, Held
    <3>2. \A o, q \in Executes : o # q => ops[o].ap # ops[q].ap
      BY DEF CoreInv, ApprovalInv, ApprovedOnce
    <3>3. \A o \in Executes' : ops'[o].ap \in DOMAIN asked' /\ asked'[ops'[o].ap].state = "claimed"
      BY <1>1, <2>2, <2>7, <2>11, <3>1 DEF Held
    <3>4. \A o, q \in Executes' : o # q => ops'[o].ap # ops'[q].ap
      BY <2>7, <2>11, <3>1, <3>2
    <3> QED
      BY <3>3, <3>4 DEF ApprovedOnce
  <2>13. \A d \in Callers : caller'[d].pc = "claimed" => d # c /\ caller'[d] = caller[d]
    BY <2>6, <2>8 DEF CallSound
  <2>14. ASSUME NEW d \in Callers, caller'[d].pc = "claimed" PROVE Held(caller[d].ap)'
    <3>1. d # c /\ caller'[d] = caller[d] /\ Held(caller[d].ap) /\ caller[d].ap # caller[c].ap
      BY <1>1, <2>13, <2>14 DEF CoreInv, ApprovalInv
    <3> QED
      BY <1>1, <2>7, <2>11, <3>1 DEF Held
  <2>15. \A d, e \in Callers : caller'[d].pc = "claimed" /\ caller'[e].pc = "claimed" /\ d # e
                               => caller'[d].ap # caller'[e].ap
    BY <2>13 DEF CoreInv, ApprovalInv
  <2>16. ApprovalInv'
    BY <2>12, <2>14, <2>15 DEF ApprovalInv
  <2> QED
    BY <1>2, <2>9, <2>10, <2>16 DEF CoreInv
<1> QED
  BY <1>3, <1>4

LEMMA ThroughKeeps ==
    ASSUME WorkInv, CoreInv, ConstantsOK, NEW c \in Callers, Logged(c) \/ TimeOut(c)
    PROVE  WorkInv' /\ CoreInv'
<1>1. /\ UNCHANGED session /\ UNCHANGED left /\ UNCHANGED builds /\ UNCHANGED ops
      /\ UNCHANGED asked /\ UNCHANGED outstanding /\ UNCHANGED vault
      /\ pending' = pending \/ pending' = Without(caller[c].sess)
  BY DEF Logged, TimeOut, worker
<1>2. ApprovalsTyped' /\ AskedGrow
  BY <1>1 DEF CoreInv, ApprovalsTyped, AskedGrow, Without
<1>3. \E word \in {"done", "unknown"} : Ends(c, word)
  BY DEF Logged, TimeOut
<1> QED
  BY <1>1, <1>2, <1>3, EndedKeeps

LEMMA AskerKeeps ==
    ASSUME WorkInv, CoreInv, ConstantsOK, NEW c \in Callers, Asks(c)
    PROVE  WorkInv' /\ CoreInv'
  BY AsksKeeps, OpenSessionKeeps, HearsKeeps, CloseCallKeeps, DescribeKeeps, ResumeKeeps, ExecuteKeeps, ThroughKeeps
     DEF Asks

-----------------------------------------------------------------------------
(* The steps of everybody else leave what the Core holds.                  *)

LEMMA FrameKeeps ==
    ASSUME CoreInv, UNCHANGED core, ExecutesStay, ops \in Seq(OpRec), session \in Seq(SessRec),
           ops' \in Seq(OpRec), session' \in Seq(SessRec),
           Len(ops) <= Len(ops'), Len(session) <= Len(session')
    PROVE  CoreInv'
<1>1. /\ UNCHANGED caller /\ UNCHANGED pending /\ UNCHANGED asked /\ UNCHANGED outstanding /\ UNCHANGED vault
  BY DEF core
<1>2. ApprovalsTyped' /\ AskedGrow
  BY <1>1, SameApprovals
<1>3. DOMAIN session \subseteq DOMAIN session'
  OBVIOUS
<1>4. ASSUME NEW d \in Callers
      PROVE  /\ caller[d].op <= Len(ops') /\ caller[d].sess <= Len(session')
             /\ caller[d].pc = "probing" => caller[d].sess \in DOMAIN session'
  <2>1. caller[d].op \in Nat /\ caller[d].sess \in Nat
    BY DEF CoreInv, CallersTyped, CallRec
  <2>2. /\ caller[d].op <= Len(ops) /\ caller[d].sess <= Len(session)
        /\ caller[d].pc = "probing" => caller[d].sess \in DOMAIN session
    BY DEF CoreInv, CallersTyped, Sessions
  <2>3. Len(ops) \in Nat /\ Len(ops') \in Nat /\ Len(session) \in Nat /\ Len(session') \in Nat
    OBVIOUS
  <2> QED
    BY <1>3, <2>1, <2>2, <2>3
<1>5. CallersTyped'
  BY <1>1, <1>4 DEF CoreInv, CallersTyped, Sessions
<1>6. ApprovalInv'
  BY <1>1, <1>2, QuietKeeps DEF CoreInv
<1> QED
  BY <1>2, <1>5, <1>6 DEF CoreInv

\* An operation keeps its kind, its approval and its manifest, and the session it is for, unless it opens it.
SameOrder(old, new) ==
    /\ new.kind = old.kind /\ new.ap = old.ap /\ new.man = old.man
    /\ old.kind # "open_session" => new.sess = old.sess

OrdersStay == DOMAIN ops' = DOMAIN ops /\ \A q \in DOMAIN ops : SameOrder(ops[q], ops'[q])

LEMMA ChangeStays ==
    ASSUME WorkInv, NEW o \in DOMAIN ops, NEW new, ops' = [ops EXCEPT ![o] = new], SameOrder(ops[o], new)
    PROVE  OrdersStay
  BY DEF OrdersStay, SameOrder

LEMMA OverStays ==
    ASSUME WorkInv, NEW o \in DOMAIN ops, NEW out, NEW seen, Over(o, out, seen)
    PROVE  OrdersStay
<1> DEFINE new == [ops[o] EXCEPT !.pc = "over", !.out = out, !.seen = seen]
<1>1. ops' = [ops EXCEPT ![o] = new]
  BY DEF Over
<1>2. SameOrder(ops[o], new)
  BY HasType DEF SameOrder, OpRec
<1> HIDE DEF new
<1> QED
  BY <1>1, <1>2, ChangeStays

LEMMA FailsStays ==
    ASSUME WorkInv, NEW o \in DOMAIN ops, NEW out, Fails(o, out)
    PROVE  OrdersStay
  BY OverStays DEF Fails

LEMMA GoesStays ==
    ASSUME WorkInv, NEW o \in DOMAIN ops, NEW pc, Goes(o, pc)
    PROVE  OrdersStay
<1> DEFINE new == [ops[o] EXCEPT !.pc = pc]
<1>1. ops' = [ops EXCEPT ![o] = new]
  BY DEF Goes
<1>2. SameOrder(ops[o], new)
  BY HasType DEF SameOrder, OpRec
<1> HIDE DEF new
<1> QED
  BY <1>1, <1>2, ChangeStays

LEMMA DestroysStays ==
    ASSUME WorkInv, NEW o \in DOMAIN ops, NEW s, NEW then, Destroys(o, s, then)
    PROVE  OrdersStay
<1> DEFINE new == [ops[o] EXCEPT !.pc = "wipe", !.wipe = s, !.then = then]
<1>1. ops' = [ops EXCEPT ![o] = new]
  BY DEF Destroys
<1>2. SameOrder(ops[o], new)
  BY HasType DEF SameOrder, OpRec
<1> HIDE DEF new
<1> QED
  BY <1>1, <1>2, ChangeStays

\* The steps that write a record of their own.
LEMMA WipedStays ==
    ASSUME WorkInv, NEW o \in DOMAIN ops, Wiped(o)
    PROVE  OrdersStay
<1> DEFINE then == ops[o].then
           new == [ops[o] EXCEPT !.pc = then, !.wipe = 0]
<1>1. ops' = [ops EXCEPT ![o] = new]
  BY DEF Wiped
<1> HIDE DEF then
<1>2. SameOrder(ops[o], new)
  BY HasType DEF SameOrder, OpRec
<1> HIDE DEF new
<1> QED
  BY <1>1, <1>2, ChangeStays

LEMMA PingStays ==
    ASSUME WorkInv, NEW o \in DOMAIN ops, _op_ping(o)
    PROVE  OrdersStay
<1> DEFINE build == builds.worker
           new == [ops[o] EXCEPT !.pc = "over", !.out = "ok", !.build = build]
<1>1. ops' = [ops EXCEPT ![o] = new]
  BY DEF _op_ping
<1> HIDE DEF build
<1>2. SameOrder(ops[o], new)
  BY HasType DEF SameOrder, OpRec
<1> HIDE DEF new
<1> QED
  BY <1>1, <1>2, ChangeStays

LEMMA OpensStays ==
    ASSUME WorkInv, NEW o \in DOMAIN ops, _op_open_session(o)
    PROVE  OrdersStay
<1> DEFINE n == Len(session) + 1
           new == [ops[o] EXCEPT !.pc = "start", !.sess = n]
<1>1. ops' = [ops EXCEPT ![o] = new] /\ ops[o].kind = "open_session"
  BY DEF _op_open_session, Handles
<1> HIDE DEF n
<1>2. SameOrder(ops[o], new)
  BY <1>1, HasType DEF SameOrder, OpRec
<1> HIDE DEF new
<1> QED
  BY <1>1, <1>2, ChangeStays

LEMMA EvaluatedStays ==
    ASSUME WorkInv, NEW o \in DOMAIN ops, Evaluated(o)
    PROVE  OrdersStay
<1> DEFINE page == session[ops[o].sess].page
           typed == session[ops[o].sess].typed
           new == [ops[o] EXCEPT !.pc = "scrub", !.seen = page, !.shows = typed]
<1>1. ops' = [ops EXCEPT ![o] = new]
  BY DEF Evaluated
<1> HIDE DEF page, typed
<1>2. SameOrder(ops[o], new)
  BY HasType DEF SameOrder, OpRec
<1> HIDE DEF new
<1> QED
  BY <1>1, <1>2, ChangeStays

LEMMA ScrubbedStays ==
    ASSUME WorkInv, NEW o \in DOMAIN ops, Scrubbed(o)
    PROVE  OrdersStay
<1> DEFINE shows == scrub(o)
           out == IF told(o) THEN "signed_in" ELSE IF ops[o].kind = "execute" THEN "not_signed_in" ELSE "ok"
           new == [ops[o] EXCEPT !.pc = "over", !.shows = shows, !.out = out]
<1>1. ops' = [ops EXCEPT ![o] = new]
  BY DEF Scrubbed
<1> HIDE DEF shows, out
<1>2. SameOrder(ops[o], new)
  BY HasType DEF SameOrder, OpRec
<1> HIDE DEF new
<1> QED
  BY <1>1, <1>2, ChangeStays

LEMMA SendsStays ==
    ASSUME WorkInv, NEW o \in DOMAIN ops, Sends(o, Fields)
    PROVE  OrdersStay
<1> DEFINE new == [ops[o] EXCEPT !.pc = "fill", !.fields = Fields]
<1>1. ops' = [ops EXCEPT ![o] = new]
  BY DEF Sends
<1>2. SameOrder(ops[o], new)
  BY HasType DEF SameOrder, OpRec
<1> HIDE DEF new
<1> QED
  BY <1>1, <1>2, ChangeStays

LEMMA RestartStays ==
    ASSUME WorkInv, NEW o \in DOMAIN ops, _op_restart(o)
    PROVE  OrdersStay
<1> DEFINE new == [ops[o] EXCEPT !.pc = "sweep", !.todo = Opened, !.had = Opened]
<1>1. ops' = [ops EXCEPT ![o] = new]
  BY DEF _op_restart, listed
<1>2. SameOrder(ops[o], new)
  BY HasType DEF SameOrder, OpRec
<1> HIDE DEF new
<1> QED
  BY <1>1, <1>2, ChangeStays

LEMMA ExpireStays ==
    ASSUME WorkInv, NEW o \in DOMAIN ops, Expire(o)
    PROVE  OrdersStay
<1> DEFINE new == [ops[o] EXCEPT !.stale = TRUE]
<1>1. ops' = [ops EXCEPT ![o] = new]
  BY DEF Expire
<1>2. SameOrder(ops[o], new)
  BY HasType DEF SameOrder, OpRec
<1> HIDE DEF new
<1> QED
  BY <1>1, <1>2, ChangeStays

LEMMA FilledStays ==
    ASSUME WorkInv, ConstantsOK, NEW o \in DOMAIN ops, Filled(o)
    PROVE  OrdersStay /\ UNCHANGED core /\ DOMAIN session' = DOMAIN session
<1> DEFINE s == ops[o].sess
           here == session[s].page
           value == Head(ops[o].fields)
           more == Tail(ops[o].fields)
<1>1. CASE Fails(o, "field_not_found") /\ UNCHANGED session /\ UNCHANGED core
  BY <1>1, FailsStays
<1>2. CASE Pages[here].form # NONE
  <2> DEFINE typed == session[s].typed \cup {value}
             known == IF more = <<>> THEN session[s].known ELSE session[s].known \cup {Head(more)}
             permits == IF more = <<>> THEN issue(o) ELSE session[s].permits
             on == ops[o].on \cup {here}
             pc == IF more = <<>> THEN "click" ELSE "fill"
             sn == [session[s] EXCEPT !.typed = typed, !.known = known, !.permits = permits]
             new == [ops[o] EXCEPT !.fields = more, !.on = on, !.pc = pc]
  <2>1. ops' = [ops EXCEPT ![o] = new] /\ session' = [session EXCEPT ![s] = sn]
    BY <1>2 DEF Filled, remember
  <2>2. UNCHANGED core
    BY ZenonT(30) DEF Filled, Busy
  <2> HIDE DEF more, on, pc, sn
  <2>3. SameOrder(ops[o], new)
    BY HasType DEF SameOrder, OpRec
  <2> HIDE DEF new
  <2>4. OrdersStay
    BY <2>1, <2>3, ChangeStays
  <2> QED
    BY <2>1, <2>2, <2>4
<1>3. UNCHANGED core
  BY ZenonT(30) DEF Filled, Busy
<1>4. (Fails(o, "field_not_found") /\ UNCHANGED session) \/ Pages[here].form # NONE
  BY ZenonT(30) DEF Filled
<1> QED
  BY <1>1, <1>2, <1>3, <1>4

LEMMA SweepStays ==
    ASSUME WorkInv, NEW o \in DOMAIN ops, Sweep(o)
    PROVE  OrdersStay
<1>1. ASSUME NEW s \in ops[o].todo \cap Opened,
             session' = [session EXCEPT ![s] = Cut(s)],
             ops' = [ops EXCEPT ![o].pc = "wipe", ![o].wipe = s, ![o].then = "sweep", ![o].todo = @ \ {s}]
      PROVE  OrdersStay
  <2> DEFINE todo == ops[o].todo \ {s}
             new == [ops[o] EXCEPT !.pc = "wipe", !.wipe = s, !.then = "sweep", !.todo = todo]
  <2>1. ops' = [ops EXCEPT ![o] = new]
    BY <1>1, HasType DEF OpRec
  <2> HIDE DEF todo
  <2>2. SameOrder(ops[o], new)
    BY HasType DEF SameOrder, OpRec
  <2> HIDE DEF new
  <2> QED
    BY <2>1, <2>2, ChangeStays
<1>2. CASE Goes(o, "exit") /\ UNCHANGED session
  BY <1>2, GoesStays
<1>3. CASE Fails(o, "failed") /\ UNCHANGED session
  BY <1>3, FailsStays
<1>4. \/ Goes(o, "exit") /\ UNCHANGED session
      \/ Fails(o, "failed") /\ UNCHANGED session
      \/ \E s \in ops[o].todo \cap Opened :
            /\ session' = [session EXCEPT ![s] = Cut(s)]
            /\ ops' = [ops EXCEPT ![o].pc = "wipe", ![o].wipe = s, ![o].then = "sweep", ![o].todo = @ \ {s}]
  BY ZenonT(40) DEF Sweep
<1> QED
  BY <1>1, <1>2, <1>3, <1>4

LEMMA ExitStays ==
    ASSUME WorkInv, NEW o \in DOMAIN ops, Exit(o)
    PROVE  OrdersStay
<1> DEFINE op(q) == [ops[q] EXCEPT !.pc = "over", !.out = IF q = o THEN "ok" ELSE "failed", !.todo = {}]
<1>1. ops' = [q \in DOMAIN ops |-> IF ops[q].pc = "over" THEN ops[q] ELSE op(q)]
  BY ZenonT(30) DEF Exit
<1>2. ASSUME NEW q \in DOMAIN ops PROVE SameOrder(ops[q], op(q)) /\ SameOrder(ops[q], ops[q])
  BY HasType DEF SameOrder, OpRec
<1> HIDE DEF op
<1>3. ASSUME NEW q \in DOMAIN ops PROVE SameOrder(ops[q], ops'[q])
  BY <1>1, <1>2
<1> QED
  BY <1>1, <1>3 DEF OrdersStay

LEMMA WorksStays ==
    ASSUME WorkInv, ConstantsOK, NEW o \in DOMAIN ops, Works(o)
    PROVE  OrdersStay
<1>1. CASE Reap(o) \/ _op_close_session(o)
  BY <1>1, DestroysStays, FailsStays DEF Reap, _op_close_session
<1>2. CASE Started(o) \/ _op_navigate(o) \/ Loaded(o) \/ _op_read(o) \/ _op_probe_action(o) \/ Probed(o)
  BY <1>2, GoesStays, OverStays, FailsStays DEF Started, _op_navigate, Loaded, _op_read, _op_probe_action, Probed
<1>3. CASE _op_execute(o) \/ Clicked(o) \/ Settled(o) \/ Breaks_off(o) \/ Fails_to_start(o) \/ Closed(o)
  BY <1>3, GoesStays, FailsStays DEF _op_execute, Clicked, Settled, Breaks_off, Fails_to_start, Closed
<1>4. CASE Checked(o)
  BY <1>4, SendsStays, FailsStays DEF Checked
<1>5. CASE Wiped(o) \/ _op_ping(o) \/ _op_open_session(o) \/ Evaluated(o) \/ Scrubbed(o) \/ Filled(o)
           \/ _op_restart(o) \/ Sweep(o) \/ Exit(o) \/ Expire(o)
  BY <1>5, WipedStays, PingStays, OpensStays, EvaluatedStays, ScrubbedStays, FilledStays, RestartStays,
     SweepStays, ExitStays, ExpireStays
<1> QED
  BY <1>1, <1>2, <1>3, <1>4, <1>5 DEF Works

\* No session goes off the record, and the Core is not asked.
LEMMA WorksLeaves ==
    ASSUME WorkInv, ConstantsOK, NEW o \in DOMAIN ops, Works(o)
    PROVE  UNCHANGED core /\ DOMAIN session \subseteq DOMAIN session'
<1>1. CASE Reap(o) \/ _op_close_session(o)
  <2>1. UNCHANGED core
    BY <1>1 DEF Busy, Reap, _op_close_session
  <2>2. UNCHANGED session \/ \E s, then : Destroys(o, s, then)
    BY <1>1 DEF Reap, _op_close_session
  <2>3. ASSUME NEW s, NEW then, Destroys(o, s, then) PROVE DOMAIN session' = DOMAIN session
    BY <2>3 DEF Destroys
  <2> QED
    BY <2>1, <2>2, <2>3
<1>2. CASE Wiped(o) \/ _op_ping(o) \/ Started(o) \/ _op_navigate(o) \/ Loaded(o)
  BY <1>2 DEF Busy, Wiped, _op_ping, Started, _op_navigate, Loaded
<1>3. CASE _op_read(o) \/ Evaluated(o) \/ Scrubbed(o) \/ _op_probe_action(o) \/ Probed(o)
  BY <1>3 DEF Busy, _op_read, Evaluated, Scrubbed, _op_probe_action, Probed
<1>4. CASE _op_execute(o) \/ Checked(o) \/ Clicked(o) \/ Settled(o)
  BY <1>4 DEF Busy, _op_execute, Checked, Sends, Clicked, Settled
<1>5. CASE Breaks_off(o) \/ Fails_to_start(o) \/ Closed(o) \/ _op_restart(o) \/ Expire(o)
  BY <1>5 DEF Busy, Breaks_off, Fails_to_start, Closed, _op_restart, Expire
<1>7. CASE Filled(o)
  BY <1>7, FilledStays
<1>8. CASE Sweep(o)
  <2>1. UNCHANGED core
    BY <1>8, ZenonT(30) DEF Busy, Sweep
  <2>2. UNCHANGED session \/ \E s : session' = [session EXCEPT ![s] = Cut(s)]
    BY <1>8, ZenonT(30) DEF Sweep
  <2> QED
    BY <2>1, <2>2
<1>9. CASE Exit(o)
  <2>1. UNCHANGED core /\ session' = [s \in Sessions |-> [session[s] EXCEPT
             !.wired = FALSE, !.permits = {}, !.known = {},
             !.life = IF session[s].up /\ s \notin ops[o].had THEN "lost" ELSE "gone"]]
    BY <1>9, ZenonT(30) DEF Exit
  <2>2. DOMAIN session' = Sessions
    <3> DEFINE sn(s) == [session[s] EXCEPT !.wired = FALSE, !.permits = {}, !.known = {},
                              !.life = IF session[s].up /\ s \notin ops[o].had THEN "lost" ELSE "gone"]
    <3>1. session' = [s \in Sessions |-> sn(s)]
      BY <2>1
    <3> HIDE DEF sn
    <3> QED
      BY <3>1
  <2> QED
    BY <2>1, <2>2 DEF Sessions
<1>6. CASE _op_open_session(o)
  <2>1. session \in Seq(SessRec)
    BY DEF WorkInv, WorkerTyped
  <2>2. PICK new : session' = Append(session, new)
    BY <1>6 DEF _op_open_session
  <2> QED
    BY <1>6, <2>1, <2>2 DEF Busy, _op_open_session
<1> QED
  BY <1>1, <1>2, <1>3, <1>4, <1>5, <1>6, <1>7, <1>8, <1>9 DEF Works

LEMMA WorkerKeeps ==
    ASSUME WorkInv, CoreInv, ConstantsOK, NEW o \in DOMAIN ops, Works(o)
    PROVE  WorkInv' /\ CoreInv'
<1>1. WorkInv'
  BY WorksKeeps
<1>2. OrdersStay /\ UNCHANGED core /\ DOMAIN session \subseteq DOMAIN session'
  BY WorksStays, WorksLeaves
<1>3. ExecutesStay
  BY <1>2 DEF OrdersStay, SameOrder, ExecutesStay, Executes
<1>4. /\ ops \in Seq(OpRec) /\ session \in Seq(SessRec) /\ ops' \in Seq(OpRec) /\ session' \in Seq(SessRec)
  BY <1>1 DEF WorkInv, WorkerTyped
<1>5. Len(session) <= Len(session') /\ Len(ops) <= Len(ops')
  BY <1>2, <1>4 DEF OrdersStay
<1> QED
  BY <1>1, <1>2, <1>3, <1>4, <1>5, FrameKeeps

LEMMA PageLeaves ==
    ASSUME WorkInv, CoreInv, ConstantsOK, UNCHANGED core, UNCHANGED ops, WorkInv',
           DOMAIN session' = DOMAIN session
    PROVE  CoreInv'
<1>1. ExecutesStay
  BY SameGrows
<1>2. /\ ops \in Seq(OpRec) /\ session \in Seq(SessRec) /\ ops' \in Seq(OpRec) /\ session' \in Seq(SessRec)
  BY DEF WorkInv, WorkerTyped
<1>3. Len(session) <= Len(session') /\ Len(ops) <= Len(ops')
  BY <1>2
<1> QED
  BY <1>1, <1>2, <1>3, FrameKeeps

LEMMA OthersKeep ==
    ASSUME WorkInv, CoreInv, ConstantsOK, Age \/ (\E s \in Sessions : Turn(s) \/ \E origin \in Origins : Writes(s, origin))
    PROVE  WorkInv' /\ CoreInv'
<1>1. WorkInv'
  BY PageKeeps, WritesKeeps
<1>2. UNCHANGED core /\ UNCHANGED ops /\ DOMAIN session' = DOMAIN session
  BY DEF Age, Turn, Writes
<1> QED
  BY <1>1, <1>2, PageLeaves

LEMMA DeliverKeeps ==
    ASSUME WorkInv, CoreInv, ConstantsOK, Deliver
    PROVE  WorkInv' /\ CoreInv'
<1>1. UNCHANGED core /\ UNCHANGED ops /\ UNCHANGED session /\ UNCHANGED left
      /\ builds' = [builds EXCEPT !.core = @ + 1]
  BY DEF Deliver
<1>2. /\ builds' \in [core : Nat, worker : Nat] /\ builds'.worker = builds.worker /\ builds'.worker <= builds'.core
  BY <1>1 DEF WorkInv, WorkerTyped
<1>3. OpsGrow
  BY <1>1, SameGrows
<1>4. WorkInv'
  BY <1>1, <1>2, <1>3, GrowKeeps
<1> QED
  BY <1>1, <1>4, PageLeaves

LEMMA AskedRestartKeeps ==
    ASSUME WorkInv, CoreInv, ConstantsOK, Restart
    PROVE  WorkInv' /\ CoreInv'
<1> DEFINE new == Op("restart", 0, NONE, 0)
<1>1. UNCHANGED core /\ UNCHANGED session /\ UNCHANGED left /\ UNCHANGED builds /\ ops' = Append(ops, new)
  BY DEF Restart
<1>2. PICK kind : kind = "restart"
  OBVIOUS
<1>3. /\ ops \in Seq(OpRec) /\ session \in Seq(SessRec) /\ builds \in [core : Nat, worker : Nat]
      /\ builds.worker <= builds.core
  BY DEF WorkInv, WorkerTyped
<1>4. new \in OpRec /\ Fresh(new) /\ new.kind # "execute"
  <2>1. <<>> \in Seq(Secrets) /\ "restart" \in OpKinds /\ NONE \in PageOrNone /\ 0 \in Nat
    BY DEF OpKinds, PageOrNone
  <2>2. 0 <= Len(session) /\ 0 <= builds.worker
    BY <1>3
  <2> QED
    BY <2>1, <2>2 DEF Op, OpRec, Fresh
<1> HIDE DEF new
<1>5. OpsGrow /\ NoExecute
  BY <1>1, <1>3, <1>4 DEF OpsGrow, NoExecute
<1>6. WorkInv'
  BY <1>1, <1>3, <1>5, GrowKeeps
<1>7. ExecutesStay
  BY <1>5, GrowStays
<1>8. session' \in Seq(SessRec) /\ ops' \in Seq(OpRec) /\ Len(session) <= Len(session') /\ Len(ops) <= Len(ops')
  BY <1>1, <1>3, <1>5 DEF OpsGrow
<1> QED
  BY <1>1, <1>3, <1>6, <1>7, <1>8, FrameKeeps

\* The owner decides, the keychain gets locked: what was claimed stays so.
LEMMA DecideKeeps ==
    ASSUME WorkInv, CoreInv, ConstantsOK, Decide \/ Keychain
    PROVE  WorkInv' /\ CoreInv'
<1>1. UNCHANGED caller /\ UNCHANGED pending /\ UNCHANGED outstanding /\ UNCHANGED worker /\ UNCHANGED left
  BY DEF Decide, Keychain
<1>2. UNCHANGED ops /\ UNCHANGED session /\ UNCHANGED builds
  BY <1>1 DEF worker
<1>3. OpsGrow /\ NoExecute /\ ExecutesStay
  BY <1>2, SameGrows
<1>4. WorkInv'
  BY <1>1, <1>2, <1>3, GrowKeeps DEF WorkInv, WorkerTyped
<1>5. ApprovalsTyped' /\ AskedGrow
  <2>1. CASE Keychain
    <3>1. UNCHANGED asked /\ vault' \in {"stored", "locked"}
      BY <2>1 DEF Keychain
    <3> QED
      BY <1>1, <3>1 DEF CoreInv, ApprovalsTyped, AskedGrow
  <2>2. CASE Decide
    <3>1. PICK a \in DOMAIN asked, d \in {"approved", "denied"} :
             asked[a].state = "pending" /\ asked' = [asked EXCEPT ![a].state = d]
      BY <2>2 DEF Decide
    <3> DEFINE new == [asked[a] EXCEPT !.state = d]
    <3>2. asked \in Seq(AskRec) /\ UNCHANGED vault /\ asked' = [asked EXCEPT ![a] = new]
      BY <2>2, <3>1 DEF Decide, CoreInv, ApprovalsTyped
    <3>3. asked[a] \in AskRec
      BY <3>2
    <3>4. new \in AskRec
      BY <3>3 DEF AskRec
    <3> HIDE DEF new
    <3>5. asked' \in Seq(AskRec) /\ Len(asked') = Len(asked) /\ DOMAIN asked' = DOMAIN asked
          /\ \A b \in DOMAIN asked \ {a} : asked'[b] = asked[b]
      BY <3>2, <3>4
    <3> QED
      BY <1>1, <3>1, <3>2, <3>5 DEF CoreInv, ApprovalsTyped, AskedGrow
  <2> QED
    BY <2>1, <2>2
<1>6. CallersTyped'
  BY <1>1, <1>2 DEF CoreInv, CallersTyped, Sessions
<1>7. ApprovalInv'
  BY <1>1, <1>3, <1>5, QuietKeeps DEF CoreInv
<1> QED
  BY <1>4, <1>5, <1>6, <1>7 DEF CoreInv

-----------------------------------------------------------------------------
(* The invariant, and what follows from it.                                *)

IInv == WorkInv /\ CoreInv

LEMMA InitHolds ==
    ASSUME ConstantsOK, Init
    PROVE  IInv
<1>1. /\ ops = <<>> /\ session = <<>> /\ left = <<>> /\ builds = [core |-> 1, worker |-> 1]
      /\ pending = <<>> /\ asked = <<>> /\ outstanding = 0 /\ vault = "stored"
      /\ caller = [c \in Callers |-> Away(NONE, 0)]
  BY DEF Init
<1>2. /\ DOMAIN ops = {} /\ Sessions = {} /\ DOMAIN left = {} /\ DOMAIN pending = {} /\ DOMAIN asked = {}
      /\ Len(ops) = 0 /\ Len(session) = 0 /\ Len(asked) = 0
  BY <1>1 DEF Sessions
<1>3. WorkerTyped
  <2>1. 0 <= MaxSessions /\ builds \in [core : Nat, worker : Nat] /\ builds.worker <= builds.core
    BY <1>1 DEF ConstantsOK
  <2>2. ops \in Seq(OpRec) /\ session \in Seq(SessRec) /\ left \in Seq([sess : Nat, origin : Origins, op : Nat])
    BY <1>1
  <2> QED
    BY <1>2, <2>1, <2>2 DEF WorkerTyped
<1>4. WorkInv
  BY <1>2, <1>3 DEF WorkInv
<1>5. ASSUME NEW c \in Callers
      PROVE  /\ caller[c] \in CallRec /\ caller[c].op = 0 /\ caller[c].sess = 0 /\ caller[c].pc = "away"
  <2>1. caller[c] = [pc |-> "away", sess |-> 0, op |-> 0, man |-> NONE, ap |-> 0, told |-> NONE]
    BY <1>1 DEF Away
  <2>2. NONE \in PageOrNone /\ 0 \in Nat
    BY DEF PageOrNone
  <2> QED
    BY <2>1, <2>2 DEF CallRec
<1>6. CallersTyped
  <2>1. caller \in [Callers -> CallRec]
    BY <1>1, <1>5
  <2> QED
    BY <1>2, <1>5, <2>1 DEF CallersTyped
<1>7. ApprovalsTyped
  BY <1>1, <1>2 DEF ApprovalsTyped
<1>8. ApprovalInv
  BY <1>2, <1>5 DEF ApprovalInv, ApprovedOnce, Executes
<1> QED
  BY <1>4, <1>6, <1>7, <1>8 DEF IInv, CoreInv

LEMMA NextHolds ==
    ASSUME ConstantsOK, IInv, [Next]_vars
    PROVE  IInv'
<1> USE DEF IInv
<1>1. CASE \E c \in Callers : Asks(c)
  BY <1>1, AskerKeeps
<1>2. CASE \E o \in DOMAIN ops : Works(o)
  BY <1>2, WorkerKeeps
<1>3. CASE Age \/ \E s \in Sessions : Turn(s) \/ \E origin \in Origins : Writes(s, origin)
  BY <1>3, OthersKeep
<1>4. CASE Decide \/ Keychain
  BY <1>4, DecideKeeps
<1>5. CASE Restart
  BY <1>5, AskedRestartKeeps
<1>6. CASE Deliver
  BY <1>6, DeliverKeeps
<1>7. CASE UNCHANGED vars
  <2>1. UNCHANGED core /\ UNCHANGED ops /\ UNCHANGED session /\ UNCHANGED left /\ UNCHANGED builds
    BY <1>7 DEF vars, worker
  <2>2. WorkInv'
    BY <2>1, SameGrows, GrowKeeps DEF WorkInv, WorkerTyped
  <2> QED
    BY <2>1, <2>2, PageLeaves
<1> QED
  BY <1>1, <1>2, <1>3, <1>4, <1>5, <1>6, <1>7 DEF Next

LEMMA Invariance == ASSUME ConstantsOK PROVE Spec => []IInv
<1>1. Init => IInv
  BY InitHolds
<1>2. IInv /\ [Next]_vars => IInv'
  BY NextHolds
<1> QED
  BY <1>1, <1>2, PTL DEF Spec

\* Whatever the Core, the worker and the page do, in whatever order: everything on record keeps its
\* type, a session is one of those opened, and the Core waits for an operation it sent.
THEOREM TypeCorrect == ASSUME ConstantsOK PROVE Spec => []TypeOK
<1>1. IInv => TypeOK
  <2> SUFFICES ASSUME IInv PROVE TypeOK
    OBVIOUS
  <2>1. ASSUME NEW c \in Callers
        PROVE  /\ caller[c].pc \in {"away", "ping", "opening", "going", "reading", "closing", "probing",
                                    "asking", "claimed", "logging"}
               /\ caller[c].op \in 0..Len(ops)
    <3>1. caller[c] \in CallRec /\ caller[c].op <= Len(ops) /\ Len(ops) \in Nat
      BY DEF IInv, CoreInv, CallersTyped, WorkInv, WorkerTyped
    <3> QED
      BY <3>1 DEF CallRec
  <2>5. ASSUME NEW a \in DOMAIN asked
        PROVE  asked[a].state \in {"pending", "approved", "denied", "expired", "claimed"}
    <3>1. asked[a] \in AskRec
      BY DEF IInv, CoreInv, ApprovalsTyped
    <3> QED
      BY <3>1 DEF AskRec
  <2>2. /\ outstanding \in 0..Len(asked) /\ vault \in {"stored", "locked"} /\ DOMAIN pending \subseteq 1..MaxSessions
    BY DEF IInv, CoreInv, ApprovalsTyped
  <2>3. ASSUME NEW o \in DOMAIN ops PROVE ops[o].kind \in OpKinds /\ ops[o].sess \in 0..MaxSessions
    <3>1. ops[o] \in OpRec /\ ops[o].sess <= Len(session) /\ Len(session) <= MaxSessions
          /\ Len(session) \in Nat /\ MaxSessions \in Nat
      BY HasType DEF IInv, WorkInv, WorkerTyped, OpSound, ConstantsOK
    <3>2. ops[o].kind \in OpKinds /\ ops[o].sess \in Nat
      BY <3>1 DEF OpRec
    <3> QED
      BY <3>1, <3>2
  <2>4. \A s \in Sessions : session[s].life \in {"starting", "open", "gone", "lost"} /\ session[s].page \in DOMAIN Pages
    BY SessHasType DEF IInv, SessRec
  <2> QED
    BY <2>1, <2>2, <2>3, <2>4, <2>5 DEF TypeOK
<1> QED
  BY <1>1, Invariance, PTL

\* An approval of the router is claimed before its login goes out and carried out by one operation of
\* the worker only, whichever tasks try (resume and login in capabilities/portal.py).
THEOREM EachApprovalOnce == ASSUME ConstantsOK PROVE Spec => []ApprovedOnce
<1>1. IInv => ApprovedOnce
  BY DEF IInv, CoreInv, ApprovalInv
<1> QED
  BY <1>1, Invariance, PTL

\* However the page behaves, at most one writing request leaves it for an approved login, to the
\* place the binding names, and none of a page that had drifted (permit.py, page.py).
THEOREM OneWrite == ASSUME ConstantsOK PROVE Spec => []OneWritePerApproval
<1>1. IInv => OneWritePerApproval
  <2> SUFFICES ASSUME IInv PROVE OneWritePerApproval
    OBVIOUS
  <2>1. \A i \in DOMAIN left : /\ left[i].op \in DOMAIN ops /\ left[i].origin = WriteOrigin
                               /\ ops[left[i].op].kind = "execute" /\ ops[left[i].op].out # "approval_drift"
    BY DEF IInv, WorkInv, LeftSound
  <2>2. \A i, j \in DOMAIN left : i # j => left[i].op # left[j].op
    BY DEF IInv, WorkInv
  <2>3. ApprovedOnce
    BY DEF IInv, CoreInv, ApprovalInv
  <2> QED
    BY <2>1, <2>2, <2>3 DEF OneWritePerApproval, ApprovedOnce, Executes
<1> QED
  BY <1>1, Invariance, PTL

\* A permit nobody used is open only while its execute stands at the click or has broken off there:
\* it is revoked on the way out, and goes with its session (_op_execute in service.py).
THEOREM ShortPermits == ASSUME ConstantsOK PROVE Spec => []PermitsAreShort
<1>1. IInv => PermitsAreShort
  BY DEF IInv, WorkInv, PermitSound, Short, PermitsAreShort
<1> QED
  BY <1>1, Invariance, PTL

\* No field of the form is filled on a page outside the binding, whatever the page turns into
\* between the look at it and the typing (_execute_fill in service.py, the guard of page.py).
THEOREM SecretsStay == ASSUME ConstantsOK PROVE Spec => []SecretsStayInBinding
<1>1. IInv => SecretsStayInBinding
  BY DEF IInv, WorkInv, OpSound, SecretsStayInBinding, Executes
<1> QED
  BY <1>1, Invariance, PTL

\* What an operation hands back of a session that is still open shows nothing that was typed into it,
\* however the reading and the typing of another operation fall together (_read in service.py).
THEOREM ScrubbedReads == ASSUME ConstantsOK PROVE Spec => []ReadsAreScrubbed
<1>1. IInv => ReadsAreScrubbed
  BY DEF IInv, WorkInv, OpSound, ReadsAreScrubbed, Opened, Sessions
<1> QED
  BY <1>1, Invariance, PTL

\* A login is told as done when the page showed so after it, and as not done when it did not:
\* never by what an earlier login left (_op_execute in service.py).
THEOREM MeasuredLogin == ASSUME ConstantsOK PROVE Spec => []LoginIsMeasured
<1>1. IInv => LoginIsMeasured
  BY DEF IInv, WorkInv, OpSound, LoginIsMeasured, Executes, success
<1> QED
  BY <1>1, Invariance, PTL

\* The worker that opens a session runs no code older than what the opening was verified against,
\* through deliveries and restarts in between (open in capabilities/portal.py).
THEOREM CurrentCode == ASSUME ConstantsOK PROVE Spec => []NoSessionOnOldCode
<1>1. IInv => NoSessionOnOldCode
  <2> SUFFICES ASSUME IInv, NEW s \in Sessions PROVE session[s].build >= session[s].since
    BY DEF NoSessionOnOldCode
  <2>1. session[s] \in SessRec /\ session[s].since <= session[s].build
    BY SessHasType DEF IInv, WorkInv, SessSound
  <2> QED
    BY <2>1 DEF SessRec
<1> QED
  BY <1>1, Invariance, PTL

-----------------------------------------------------------------------------
(* What is carried out is what the owner was shown.                        *)

Bound == {"asking", "claimed", "logging"}

\* What the task that carries out waits for is an execute under the approval it claimed.
LogSound(c) ==
    caller[c].pc = "logging" => caller[c].op \in Executes /\ ops[caller[c].op].ap = caller[c].ap

LogInv == \A c \in Callers : LogSound(c)

\* What was asked stays what it was about, and so does what is carried out.
AskedSame == \A a \in DOMAIN asked : a \in DOMAIN asked' /\ asked'[a].man = asked[a].man
ExecutesHold ==
    \A o \in Executes : o \in Executes' /\ ops'[o].ap = ops[o].ap /\ ops'[o].man = ops[o].man
PendingHolds == \A s \in DOMAIN pending' : s \in DOMAIN pending /\ pending'[s] = pending[s]

\* A step of one task: the others are where they were.
Alone(c) == AskedSame /\ ExecutesHold /\ \A d \in Callers \ {c} : caller'[d] = caller[d]
Unbound(c) == Alone(c) /\ PendingHolds /\ caller'[c].pc \notin Bound

\* Its description or its approval and what it was given for stay together.
Faithful(c) == (AsApproved(c) => AsApproved(c)') /\ LogSound(c)'

LEMMA StaysFaithful ==
    ASSUME CoreInv, LogInv, AskedSame, ExecutesHold, NEW c \in Callers, caller'[c] = caller[c],
           caller[c].pc \in {"asking", "claimed"} /\ caller[c].sess \in DOMAIN pending'
             => caller[c].sess \in DOMAIN pending /\ pending'[caller[c].sess] = pending[caller[c].sess]
    PROVE  Faithful(c)
<1>1. LogSound(c)'
  BY DEF LogInv, LogSound, ExecutesHold
<1>2. CASE caller[c].pc = "asking"
  BY <1>1, <1>2 DEF Faithful, AsApproved
<1>3. CASE caller[c].pc = "claimed"
  <2>1. caller[c].ap \in DOMAIN asked
    BY <1>3 DEF CoreInv, ApprovalInv, Held
  <2> QED
    BY <1>1, <1>3, <2>1 DEF Faithful, AsApproved, AskedSame
<1>4. CASE caller[c].pc = "logging"
  <2>1. caller[c].op \in Executes /\ ops[caller[c].op].ap = caller[c].ap
    BY <1>4 DEF LogInv, LogSound
  <2>2. caller[c].ap \in DOMAIN asked
    BY <2>1 DEF CoreInv, ApprovalInv, ApprovedOnce
  <2> QED
    BY <1>1, <1>4, <2>1, <2>2 DEF Faithful, AsApproved, AskedSame, ExecutesHold
<1>5. CASE caller[c].pc \notin Bound
  BY <1>1, <1>5 DEF Faithful, AsApproved, Bound
<1> QED
  BY <1>2, <1>3, <1>4, <1>5 DEF Bound

LEMMA AwayFaithful ==
    ASSUME NEW c \in Callers, caller'[c].pc \notin Bound
    PROVE  Faithful(c)
  BY DEF Faithful, AsApproved, LogSound, Bound

LEMMA StayHolds == ASSUME ExecutesStay PROVE ExecutesHold
  BY DEF ExecutesStay, ExecutesHold

LEMMA EndsUnbound ==
    ASSUME WorkInv, CoreInv, ConstantsOK, AskedSame, PendingHolds, NEW c \in Callers, NEW word, Ends(c, word),
           ops' = ops \/ ops' = Drop(c)
    PROVE  Unbound(c) /\ caller'[c].pc = "away"
<1>1. caller \in [Callers -> CallRec]
  BY DEF CoreInv, CallersTyped
<1>2. caller'[c].pc = "away" /\ \A d \in Callers \ {c} : caller'[d] = caller[d]
  <2> DEFINE op == IF caller[c].pc = "logging" THEN caller[c].op ELSE 0
  <2>1. caller' = [caller EXCEPT ![c] = Away(word, op)]
    BY DEF Ends
  <2> HIDE DEF op
  <2> QED
    BY <1>1, <2>1 DEF Away
<1>3. ExecutesHold
  BY DropIs, HeardGrows, GrowStays, StayHolds
<1> QED
  BY <1>2, <1>3 DEF Unbound, Alone, Bound

LEMMA SendsUnbound ==
    ASSUME WorkInv, CoreInv, ConstantsOK, AskedSame, PendingHolds, NEW c \in Callers,
           NEW kind \in OpKinds \ {"execute"}, NEW s \in Nat, s <= Len(session),
           NEW pc \in {"ping", "opening", "going", "reading", "closing", "probing"},
           pc = "probing" => s \in Sessions, call(c, kind, s, pc, Plain)
    PROVE  Unbound(c) /\ caller'[c].pc = pc
<1>1. caller \in [Callers -> CallRec] /\ CallersTyped
  BY DEF CoreInv, CallersTyped
<1>2. OpsGrow /\ NoExecute /\ \E r \in CallRec : CallSound(r) /\ caller' = [caller EXCEPT ![c] = r]
  BY <1>1, NoMore, CallIs
<1>3. caller'[c].pc = pc
  BY <1>1 DEF call
<1>4. ExecutesHold
  BY <1>2, GrowStays, StayHolds
<1>5. \A d \in Callers \ {c} : caller'[d] = caller[d]
  BY <1>1, <1>2
<1> QED
  BY <1>3, <1>4, <1>5 DEF Unbound, Alone, Bound

LEMMA AbandonSame ==
    ASSUME CoreInv, NEW a \in 0..Len(asked)
    PROVE  \A b \in DOMAIN asked : b \in DOMAIN Abandon(a) /\ Abandon(a)[b].man = asked[b].man
<1>1. asked \in Seq(AskRec)
  BY DEF CoreInv, ApprovalsTyped
<1>2. CASE a > 0 /\ asked[a].state = "pending"
  <2> DEFINE r == [asked[a] EXCEPT !.state = "expired"]
  <2>1. Abandon(a) = [asked EXCEPT ![a] = r]
    BY <1>2 DEF Abandon
  <2>2. a \in DOMAIN asked /\ asked[a] \in AskRec
    BY <1>1, <1>2
  <2>3. r.man = asked[a].man
    BY <2>2 DEF AskRec
  <2> HIDE DEF r
  <2> QED
    BY <1>1, <1>2, <2>1, <2>2, <2>3
<1>3. CASE ~ (a > 0 /\ asked[a].state = "pending")
  BY <1>1, <1>3 DEF Abandon
<1> QED
  BY <1>2, <1>3

LEMMA AsksUnbound ==
    ASSUME WorkInv, CoreInv, ConstantsOK, NEW c \in Callers, Open(c) \/ Read(c) \/ Login(c) \/ Close(c)
    PROVE  Unbound(c) /\ (caller'[c].pc = "closing" => Close(c))
<1>1. CASE Close(c)
  <2>1. PICK s \in Sessions : /\ asked' = Abandon(outstanding) /\ pending' = Without(s)
                              /\ call(c, "close_session", s, "closing", Plain)
    BY <1>1 DEF Close, abandon_outstanding
  <2>2. AskedSame /\ PendingHolds
    BY <2>1, AbandonSame DEF AskedSame, CoreInv, ApprovalsTyped, PendingHolds, Without
  <2> QED
    BY <1>1, <2>1, <2>2, SessionsCount, SendsUnbound DEF OpKinds
<1>2. CASE Open(c) \/ Read(c) \/ Login(c)
  <2>1. AskedSame /\ PendingHolds
    BY <1>2 DEF Open, Read, Login, AskedSame, PendingHolds
  <2>2. \/ call(c, "ping", 0, "ping", Plain)
        \/ \E s \in Sessions : call(c, "read", s, "reading", Plain)
        \/ \E s \in Sessions : call(c, "probe_action", s, "probing", Plain)
    BY <1>2 DEF Open, Read, Login
  <2>3. {"ping", "read", "probe_action"} \subseteq OpKinds \ {"execute"}
    BY DEF OpKinds
  <2> QED
    BY <2>1, <2>2, <2>3, SessionsCount, SendsUnbound
<1> QED
  BY <1>1, <1>2

LEMMA HearsUnbound ==
    ASSUME WorkInv, CoreInv, ConstantsOK, NEW c \in Callers, navigate(c) \/ Told(c) \/ open_session(c)
    PROVE  Unbound(c)
<1>1. Answered(c) /\ AskedSame /\ PendingHolds
  BY DEF navigate, Told, open_session, AskedSame, PendingHolds
<1>2. CASE call(c, "navigate", Reply(c).sess, "going", Plain)
  <2>1. Reply(c).sess \in Nat /\ Reply(c).sess <= Len(session)
    BY <1>1, ReplyIs
  <2> QED
    BY <1>1, <1>2, <2>1, SendsUnbound DEF OpKinds
<1>3. CASE \E word \in {"failed", "going", "reading", "closing"} : Ends(c, word) /\ ops' = Drop(c)
  BY <1>1, <1>3, EndsUnbound
<1>4. CASE open_session(c) /\ Verified(c)
  <2> DEFINE new == [Op("open_session", 0, NONE, 0) EXCEPT !.build = builds.core]
             n == Len(ops) + 1
             base == Drop(c)
             r == [caller[c] EXCEPT !.op = n, !.pc = "opening"]
  <2>1. ops' = Append(base, new) /\ caller' = [caller EXCEPT ![c] = r]
    BY <1>4 DEF open_session
  <2>2. new.kind = "open_session"
    BY DEF Op
  <2> HIDE DEF new, base
  <2>3. /\ Heard(base) /\ ops \in Seq(OpRec)
    BY DropIs DEF base, WorkInv, WorkerTyped
  <2>4. DOMAIN ops' = DOMAIN ops \cup {n} /\ ops'[n] = new /\ \A q \in DOMAIN ops : ops'[q] = base[q]
    BY <2>1, <2>3 DEF Heard
  <2>5. \A q \in DOMAIN ops : ops'[q] = ops[q] \/ (ops[q].kind # "execute" /\ ops'[q].kind # "execute")
    BY <2>3, <2>4, IdleIs DEF Heard
  <2> HIDE DEF n
  <2>6. ExecutesHold
    BY <2>4, <2>5 DEF ExecutesHold, Executes
  <2>7. caller \in [Callers -> CallRec]
    BY DEF CoreInv, CallersTyped
  <2>8. r.pc = "opening"
    BY <2>7 DEF CallRec
  <2> HIDE DEF r
  <2>9. caller'[c] = r /\ \A d \in Callers \ {c} : caller'[d] = caller[d]
    BY <2>1, <2>7
  <2> QED
    BY <1>1, <2>6, <2>8, <2>9 DEF Unbound, Alone, Bound
<1> QED
  BY <1>2, <1>3, <1>4 DEF navigate, Told, open_session

LEMMA ThroughUnbound ==
    ASSUME WorkInv, CoreInv, ConstantsOK, NEW c \in Callers, Logged(c) \/ TimeOut(c)
    PROVE  Unbound(c) /\ caller'[c].pc = "away"
<1>1. UNCHANGED ops /\ UNCHANGED asked
  BY DEF Logged, TimeOut, worker
<1>2. AskedSame /\ PendingHolds
  BY <1>1 DEF AskedSame, PendingHolds, Logged, TimeOut, Without
<1>3. \E word \in {"done", "unknown"} : Ends(c, word)
  BY DEF Logged, TimeOut
<1> QED
  BY <1>1, <1>2, <1>3, EndsUnbound

\* The manifest is what the probe saw, and pending; whatever else is described stays.
LEMMA DescribeFaithful ==
    ASSUME WorkInv, CoreInv, ConstantsOK, NEW c \in Callers, prepare_login(c)
    PROVE  \/ Unbound(c)
           \/ /\ Alone(c) /\ Faithful(c) /\ caller[c].pc = "probing" /\ caller'[c].pc = "asking"
              /\ \A s \in DOMAIN pending' \ {caller[c].sess} : s \in DOMAIN pending /\ pending'[s] = pending[s]
<1>1. UNCHANGED asked /\ ops' = Drop(c) /\ caller[c].pc = "probing"
  BY DEF prepare_login
<1>2. AskedSame /\ ExecutesHold
  BY <1>1, DropIs, HeardGrows, GrowStays, StayHolds DEF AskedSame
<1>3. CASE Ends(c, "not_described") /\ UNCHANGED pending
  BY <1>1, <1>2, <1>3, EndsUnbound DEF PendingHolds
<1>4. CASE ~ (Ends(c, "not_described") /\ UNCHANGED pending)
  <2> DEFINE s == caller[c].sess
             page == Reply(c).seen
             r == [caller[c] EXCEPT !.pc = "asking", !.man = page]
  <2>1. pending' = Describe(s, page) /\ caller' = [caller EXCEPT ![c] = r]
    BY <1>4 DEF prepare_login
  <2>2. caller \in [Callers -> CallRec]
    BY DEF CoreInv, CallersTyped
  <2> HIDE DEF page
  <2>3. r.pc = "asking" /\ r.man = page /\ r.sess = s
    BY <2>2 DEF CallRec
  <2> HIDE DEF r
  <2>4. caller'[c] = r /\ \A d \in Callers \ {c} : caller'[d] = caller[d]
    BY <2>1, <2>2
  <2>5. /\ pending'[s] = page
        /\ \A t \in DOMAIN pending' \ {s} : t \in DOMAIN pending /\ pending'[t] = pending[t]
    BY <2>1 DEF Describe
  <2>6. Faithful(c)
    BY <2>3, <2>4, <2>5 DEF Faithful, AsApproved, LogSound
  <2> QED
    BY <1>1, <1>2, <2>3, <2>4, <2>5, <2>6 DEF Alone
<1> QED
  BY <1>3, <1>4

\* What is claimed is the approval of what is described now.
LEMMA ResumeFaithful ==
    ASSUME WorkInv, CoreInv, ConstantsOK, NEW c \in Callers, Resume(c)
    PROVE  Alone(c) /\ Faithful(c) /\ PendingHolds /\ caller'[c].pc # "closing"
<1>1. UNCHANGED ops /\ UNCHANGED pending /\ caller[c].pc = "asking" /\ asked \in Seq(AskRec)
      /\ caller \in [Callers -> CallRec]
  BY DEF Resume, worker, CoreInv, ApprovalsTyped, CallersTyped
<1>2. PendingHolds /\ ExecutesHold
  BY <1>1 DEF PendingHolds, ExecutesHold, Executes
<1>3. CASE Resumes(c) = "ok"
  <2>0. PICK a : a = outstanding
    OBVIOUS
  <2> DEFINE asked2 == [asked[a] EXCEPT !.state = "claimed"]
             r == [caller[c] EXCEPT !.pc = "claimed", !.ap = a]
  <2>1. asked' = [asked EXCEPT ![a] = asked2] /\ caller' = [caller EXCEPT ![c] = r]
    BY <1>3, <2>0 DEF Resume
  <2>2. a # 0 /\ asked[a].man = caller[c].man
    BY <1>3, <2>0 DEF Resumes, approval_arguments
  <2>3. a \in DOMAIN asked /\ asked[a] \in AskRec
    <3>1. a \in 0..Len(asked)
      BY <2>0 DEF CoreInv, ApprovalsTyped
    <3>2. a \in DOMAIN asked
      BY <1>1, <2>2, <3>1
    <3> QED
      BY <1>1, <3>2
  <2>4. asked2.man = asked[a].man
    BY <2>3 DEF AskRec
  <2>5. r.pc = "claimed" /\ r.ap = a /\ r.sess = caller[c].sess
    BY <1>1 DEF CallRec
  <2> HIDE DEF asked2, r
  <2>6. caller'[c] = r /\ asked'[a].man = asked[a].man /\ \A d \in Callers \ {c} : caller'[d] = caller[d]
    BY <1>1, <2>1, <2>3, <2>4
  <2>7. AskedSame
    BY <1>1, <2>1, <2>3, <2>4 DEF AskedSame
  <2>8. Faithful(c)
    BY <1>1, <2>2, <2>5, <2>6 DEF Faithful, AsApproved, LogSound
  <2> QED
    BY <1>2, <2>5, <2>6, <2>7, <2>8 DEF Alone
<1>4. CASE Resumes(c) = "denied"
  <2>1. Ends(c, "denied") /\ AskedSame
    BY <1>4 DEF Resume, AskedSame
  <2> QED
    BY <1>1, <1>2, <2>1, EndsUnbound, AwayFaithful DEF Unbound
<1>5. CASE Resumes(c) \notin {"ok", "denied"}
  <2> DEFINE new == [man |-> caller[c].man, sess |-> caller[c].sess, state |-> "pending"]
             base == Abandon(outstanding)
  <2>1. asked' = Append(base, new) /\ Ends(c, "asked")
    BY <1>5 DEF Resume
  <2>2. base \in Seq(AskRec) /\ \A b \in DOMAIN asked : b \in DOMAIN base /\ base[b].man = asked[b].man
    BY AbandonIs, AbandonSame DEF CoreInv, ApprovalsTyped
  <2> HIDE DEF new, base
  <2>3. AskedSame
    BY <2>1, <2>2 DEF AskedSame
  <2> QED
    BY <1>1, <1>2, <2>1, <2>3, EndsUnbound, AwayFaithful DEF Unbound
<1> QED
  BY <1>3, <1>4, <1>5

\* What is sent is what is pending, under the approval that was claimed for it.
LEMMA ExecuteFaithful ==
    ASSUME WorkInv, CoreInv, ConstantsOK, NEW c \in Callers, login(c)
    PROVE  Alone(c) /\ Faithful(c) /\ PendingHolds /\ caller'[c].pc # "closing"
<1>1. UNCHANGED asked /\ UNCHANGED pending /\ caller[c].pc = "claimed"
  BY DEF login
<1>2. AskedSame /\ PendingHolds
  BY <1>1 DEF AskedSame, PendingHolds
<1>3. CASE Ends(c, "unknown") /\ UNCHANGED ops
  BY <1>2, <1>3, EndsUnbound, AwayFaithful DEF Unbound
<1>4. CASE ~ (Ends(c, "unknown") /\ UNCHANGED ops)
  <2> DEFINE s == caller[c].sess
             more == [man |-> pending[s], ap |-> caller[c].ap]
             n == Len(ops) + 1
             new == Op("execute", s, more.man, more.ap)
             base == Drop(c)
             r == [caller[c] EXCEPT !.op = n, !.pc = "logging", !.sess = s, !.man = more.man, !.ap = more.ap]
  <2>1. s \in DOMAIN pending /\ call(c, "execute", s, "logging", more)
    BY <1>4 DEF login
  <2>2. caller \in [Callers -> CallRec]
    BY DEF CoreInv, CallersTyped
  <2>3. ops' = Append(base, new) /\ caller' = [caller EXCEPT ![c] = r]
    BY <1>1, <2>1 DEF call
  <2>4. new.kind = "execute" /\ new.man = pending[s] /\ new.ap = caller[c].ap
    BY DEF Op
  <2>5. r.pc = "logging" /\ r.op = n /\ r.ap = caller[c].ap
    BY <2>2 DEF CallRec
  <2> HIDE DEF new, base, r
  <2>6. Heard(base) /\ ops \in Seq(OpRec)
    BY DropIs DEF base, WorkInv, WorkerTyped
  <2>7. DOMAIN ops' = DOMAIN ops \cup {n} /\ ops'[n] = new /\ \A q \in DOMAIN ops : ops'[q] = base[q]
    BY <2>3, <2>6 DEF Heard
  <2> HIDE DEF n
  <2>8. \A q \in DOMAIN ops : ops[q].kind = "execute" => ops'[q] = ops[q]
    BY <2>6, <2>7 DEF Heard
  <2>9. ExecutesHold
    BY <2>7, <2>8 DEF ExecutesHold, Executes
  <2>10. caller'[c] = r /\ \A d \in Callers \ {c} : caller'[d] = caller[d]
    BY <2>2, <2>3
  <2>11. LogSound(c)'
    BY <2>4, <2>5, <2>7, <2>10 DEF LogSound, Executes
  <2>12. AsApproved(c) => AsApproved(c)'
    BY <1>1, <2>1, <2>4, <2>5, <2>7, <2>10 DEF AsApproved
  <2> QED
    BY <1>2, <2>5, <2>9, <2>10, <2>11, <2>12 DEF Alone, Faithful
<1> QED
  BY <1>3, <1>4

\* One task moves: it stays with what it was given, and so do the others, unless it describes anew.
LEMMA AskerFaithful ==
    ASSUME ConstantsOK, IInv, LogInv, NEW c \in Callers, Asks(c)
    PROVE  /\ LogInv'
           /\ \A d \in Callers : \/ AsApproved(d) => AsApproved(d)'
                                 \/ /\ d # c /\ caller[c].sess = caller[d].sess
                                    /\ caller[c].pc = "probing" /\ caller'[c].pc = "asking"
<1> USE DEF IInv
<1>1. ASSUME Alone(c), Faithful(c), PendingHolds PROVE \A d \in Callers : Faithful(d)
  BY <1>1, StaysFaithful DEF Alone, PendingHolds
<1>2. CASE Unbound(c)
  BY <1>1, <1>2, AwayFaithful DEF Unbound, Faithful, LogInv
<1>3. CASE Alone(c) /\ Faithful(c) /\ PendingHolds
  BY <1>1, <1>3 DEF Faithful, LogInv
<1>4. ASSUME Alone(c), Faithful(c), caller[c].pc = "probing", caller'[c].pc = "asking",
             \A s \in DOMAIN pending' \ {caller[c].sess} : s \in DOMAIN pending /\ pending'[s] = pending[s]
      PROVE  /\ LogInv'
             /\ \A d \in Callers : (AsApproved(d) => AsApproved(d)') \/ (d # c /\ caller[c].sess = caller[d].sess)
  <2>1. \A d \in Callers \ {c} : LogSound(d)'
    BY <1>4 DEF Alone, LogInv, LogSound, ExecutesHold
  <2>2. ASSUME NEW d \in Callers \ {c}, caller[c].sess # caller[d].sess PROVE Faithful(d)
    BY <1>4, <2>2, StaysFaithful DEF Alone
  <2> QED
    BY <1>4, <2>1, <2>2 DEF Faithful, LogInv
<1> QED
  BY <1>2, <1>3, <1>4, AsksUnbound, HearsUnbound, ThroughUnbound, DescribeFaithful, ResumeFaithful,
     ExecuteFaithful DEF Asks

\* Around them nothing touches what was described and sent.
LEMMA AroundFaithful ==
    ASSUME ConstantsOK, IInv, [Next]_vars, ~ \E c \in Callers : Asks(c)
    PROVE  UNCHANGED caller /\ UNCHANGED pending /\ AskedSame /\ ExecutesHold
<1> USE DEF IInv
<1>1. ASSUME UNCHANGED core, ExecutesStay
      PROVE  UNCHANGED caller /\ UNCHANGED pending /\ AskedSame /\ ExecutesHold
  BY <1>1, StayHolds DEF core, AskedSame
<1>2. CASE \E o \in DOMAIN ops : Works(o)
  <2>1. OrdersStay /\ UNCHANGED core
    BY <1>2, WorksStays, WorksLeaves
  <2>2. ExecutesStay
    BY <2>1 DEF OrdersStay, SameOrder, ExecutesStay, Executes
  <2> QED
    BY <1>1, <2>1, <2>2
<1>3. CASE Deliver \/ Age \/ (\E s \in Sessions : Turn(s) \/ \E origin \in Origins : Writes(s, origin))
           \/ UNCHANGED vars
  <2>1. UNCHANGED core /\ UNCHANGED ops
    BY <1>3 DEF Deliver, Age, Turn, Writes, vars, worker
  <2> QED
    BY <1>1, <2>1, SameGrows
<1>4. CASE Restart
  <2> DEFINE new == Op("restart", 0, NONE, 0)
             n == Len(ops) + 1
  <2>1. UNCHANGED core /\ ops' = Append(ops, new)
    BY <1>4 DEF Restart
  <2>2. new.kind # "execute" /\ ops \in Seq(OpRec)
    BY DEF Op, WorkInv, WorkerTyped
  <2> HIDE DEF new
  <2>3. DOMAIN ops' = DOMAIN ops \cup {n} /\ ops'[n] = new /\ \A q \in DOMAIN ops : ops'[q] = ops[q]
    BY <2>1, <2>2
  <2> HIDE DEF n
  <2>4. ExecutesStay
    BY <2>2, <2>3 DEF ExecutesStay, Executes
  <2> QED
    BY <1>1, <2>1, <2>4
<1>5. CASE Keychain
  <2>1. UNCHANGED caller /\ UNCHANGED pending /\ UNCHANGED asked /\ UNCHANGED ops
    BY <1>5 DEF Keychain, worker
  <2> QED
    BY <2>1, SameGrows, StayHolds DEF AskedSame
<1>6. CASE Decide
  <2>1. UNCHANGED caller /\ UNCHANGED pending /\ UNCHANGED ops
    BY <1>6 DEF Decide, worker
  <2>2. PICK a \in DOMAIN asked, d \in {"approved", "denied"} : asked' = [asked EXCEPT ![a].state = d]
    BY <1>6 DEF Decide
  <2> DEFINE new == [asked[a] EXCEPT !.state = d]
  <2>3. asked \in Seq(AskRec) /\ asked' = [asked EXCEPT ![a] = new]
    BY <2>2 DEF CoreInv, ApprovalsTyped
  <2>4. new.man = asked[a].man
    BY <2>3 DEF AskRec
  <2> HIDE DEF new
  <2>5. AskedSame
    BY <2>3, <2>4 DEF AskedSame
  <2> QED
    BY <2>1, <2>5, SameGrows, StayHolds
<1> QED
  BY <1>2, <1>3, <1>4, <1>5, <1>6 DEF Next

LEMMA NextFaithful ==
    ASSUME ConstantsOK, IInv, LogInv, [Next]_vars
    PROVE  LogInv' /\ ExecutedIsApproved
<1>1. ASSUME NEW c \in Callers, Asks(c) PROVE LogInv' /\ ExecutedIsApproved
  BY <1>1, AskerFaithful DEF ExecutedIsApproved
<1>2. CASE ~ \E c \in Callers : Asks(c)
  <2>1. \A d \in Callers : Faithful(d)
    BY <1>2, AroundFaithful, StaysFaithful DEF IInv
  <2> QED
    BY <2>1 DEF Faithful, LogInv, ExecutedIsApproved
<1> QED
  BY <1>1, <1>2

\* Whatever else happens, what a task describes, has approved and sends the worker is one manifest
\* (prepare_login, approval_arguments and login in capabilities/portal.py), but for another task
\* that describes a login at the same session in between.
THEOREM ApprovedAsShown == ASSUME ConstantsOK PROVE Spec => [][ExecutedIsApproved]_vars
<1>1. Init => LogInv
  BY DEF Init, LogInv, LogSound, Away
<1>2. IInv /\ LogInv /\ [Next]_vars => LogInv' /\ ExecutedIsApproved
  BY NextFaithful
<1> QED
  BY <1>1, <1>2, Invariance, PTL DEF Spec

-----------------------------------------------------------------------------
(* No browser is forgotten: what is taken down, and by whom.               *)

Resting == {"wipe", "sweep", "exit"}

\* A restart, up to its end.
Sweeping(op) == op.pc \in {"sweep", "exit"} \/ (op.pc = "wipe" /\ op.then = "sweep")

\* A session it found on the list is still to come, or down, or going down at its hands.
Cleared(op, s, sn) ==
    sn.life # "starting" /\ (s \in op.todo \/ ~ sn.up \/ (op.pc = "wipe" /\ op.wipe = s))

\* Op clears ss.
Clears(op, ss) ==
    /\ Sweeping(op) => op.had \subseteq DOMAIN ss /\ \A s \in op.had : Cleared(op, s, ss[s])
    /\ op.pc = "exit" => op.todo = {}

\* Who destroys s is still at it.
TakenDown(s) == session[s].up /\ session[s].life = "gone" => \E o \in DOMAIN ops : ops[o].pc = "wipe" /\ ops[o].wipe = s

\* What a task has heard before it asks for an approval is over.
HeardOut(c) ==
    caller[c].pc \in {"asking", "claimed"} => caller[c].op \in DOMAIN ops /\ ops[caller[c].op].pc = "over"

SweepInv ==
    /\ \A s \in Sessions : TakenDown(s)
    /\ \A o \in DOMAIN ops : Clears(ops[o], session)

DownInv == SweepInv /\ \A c \in Callers : HeardOut(c)

\* An operation that takes something down is as it was, and none begins to.
RestStays ==
    /\ DOMAIN ops \subseteq DOMAIN ops'
    /\ \A q \in DOMAIN ops' : \/ q \in DOMAIN ops /\ ops'[q] = ops[q]
                              \/ ops'[q].pc \notin Resting /\ (q \in DOMAIN ops => ops[q].pc \notin Resting)

\* No browser comes up, and none that is up is given up; and a session that has ended stays so.
UpStays(old, new) ==
    /\ old.life \in {"gone", "lost"} => new.life = old.life
    /\ new.life = "starting" => old.life = "starting"
    /\ new.up /\ new.life = "gone" => old.up /\ old.life = "gone"
    /\ old.life # "starting" /\ new.up => old.up

SessionsStay ==
    /\ Sessions \subseteq DOMAIN session'
    /\ \A s \in Sessions : UpStays(session[s], session'[s])
    /\ \A s \in DOMAIN session' \ Sessions : session'[s].life # "gone"

LEMMA ClearsStays ==
    ASSUME NEW op, Clears(op, session), SessionsStay
    PROVE  Clears(op, session')
  BY DEF Clears, SessionsStay, UpStays, Cleared, Sessions

LEMMA RestKeeps ==
    ASSUME SweepInv, RestStays, SessionsStay
    PROVE  SweepInv'
<1>1. ASSUME NEW s \in DOMAIN session' PROVE TakenDown(s)'
  <2> SUFFICES ASSUME session'[s].up, session'[s].life = "gone"
               PROVE  \E o \in DOMAIN ops' : ops'[o].pc = "wipe" /\ ops'[o].wipe = s
    BY DEF TakenDown
  <2>1. s \in Sessions
    BY DEF SessionsStay
  <2>2. session[s].up /\ session[s].life = "gone"
    BY <2>1 DEF SessionsStay, UpStays
  <2>3. PICK o \in DOMAIN ops : ops[o].pc = "wipe" /\ ops[o].wipe = s
    BY <2>1, <2>2 DEF SweepInv, TakenDown
  <2>4. o \in DOMAIN ops' /\ ops'[o] = ops[o]
    BY <2>3 DEF RestStays, Resting
  <2> QED
    BY <2>3, <2>4
<1>2. ASSUME NEW o \in DOMAIN ops' PROVE Clears(ops'[o], session')
  <2>1. CASE o \in DOMAIN ops /\ ops'[o] = ops[o]
    BY <2>1, ClearsStays DEF SweepInv
  <2>2. CASE ops'[o].pc \notin Resting
    BY <2>2 DEF Clears, Sweeping, Resting
  <2> QED
    BY <2>1, <2>2 DEF RestStays
<1> QED
  BY <1>1, <1>2 DEF SweepInv, Sessions

LEMMA SameStay ==
    ASSUME WorkInv
    PROVE  /\ UNCHANGED session => SessionsStay
           /\ UNCHANGED ops => RestStays
<1>1. session' = session => SessionsStay
  BY DEF SessionsStay, UpStays, Sessions
<1> QED
  BY <1>1 DEF RestStays

\* One operation becomes new, one session becomes sn.
LEMMA OneRests ==
    ASSUME NEW o \in DOMAIN ops, NEW new, ops' = [ops EXCEPT ![o] = new],
           ops[o].pc \notin Resting, new.pc \notin Resting
    PROVE  RestStays
  BY DEF RestStays

LEMMA OneStays ==
    ASSUME NEW s \in Sessions, NEW sn, session' = [session EXCEPT ![s] = sn], UpStays(session[s], sn)
    PROVE  SessionsStay
<1>1. DOMAIN session' = Sessions /\ session'[s] = sn /\ \A t \in Sessions \ {s} : session'[t] = session[t]
  BY DEF Sessions
<1>2. ASSUME NEW t \in Sessions PROVE UpStays(session[t], session'[t])
  BY <1>1 DEF UpStays
<1> QED
  BY <1>1, <1>2 DEF SessionsStay

\* What is over stays so.
OverHolds == \A q \in DOMAIN ops : ops[q].pc = "over" => q \in DOMAIN ops' /\ ops'[q].pc = "over"

\* o alone has changed, and takes nothing down.
Plainly(o) ==
    /\ DOMAIN ops' = DOMAIN ops /\ \A q \in DOMAIN ops \ {o} : ops'[q] = ops[q]
    /\ ops[o].pc \notin Resting \cup {"over"} /\ ops'[o].pc \notin Resting

LEMMA PlainlyRests ==
    ASSUME NEW o \in DOMAIN ops, Plainly(o)
    PROVE  RestStays /\ OverHolds
  BY DEF Plainly, RestStays, OverHolds

LEMMA OverPlainly ==
    ASSUME WorkInv, NEW o \in DOMAIN ops, ops[o].pc \notin Resting \cup {"over"},
           (\E out, seen : Over(o, out, seen)) \/ \E pc : pc \notin Resting /\ Goes(o, pc)
    PROVE  Plainly(o)
<1>1. ops[o] \in OpRec
  BY HasType
<1>2. ASSUME NEW out, NEW seen, Over(o, out, seen) PROVE Plainly(o)
  <2> DEFINE new == [ops[o] EXCEPT !.pc = "over", !.out = out, !.seen = seen]
  <2>1. new.pc = "over" /\ ops' = [ops EXCEPT ![o] = new]
    BY <1>1, <1>2 DEF Over, OpRec
  <2> HIDE DEF new
  <2> QED
    BY <2>1 DEF Plainly, Resting
<1>3. ASSUME NEW pc, pc \notin Resting, Goes(o, pc) PROVE Plainly(o)
  <2> DEFINE new == [ops[o] EXCEPT !.pc = pc]
  <2>1. new.pc = pc /\ ops' = [ops EXCEPT ![o] = new]
    BY <1>1, <1>3 DEF Goes, OpRec
  <2> HIDE DEF new
  <2> QED
    BY <1>3, <2>1 DEF Plainly
<1> QED
  BY <1>2, <1>3

LEMMA FailsPlainly ==
    ASSUME WorkInv, NEW o \in DOMAIN ops, ops[o].pc \notin Resting \cup {"over"}, NEW out, Fails(o, out)
    PROVE  Plainly(o)
  BY OverPlainly DEF Fails

\* One session goes on as it was, up and on the list.
LEMMA LivesOn ==
    ASSUME NEW s \in Sessions, NEW sn, session' = [session EXCEPT ![s] = sn],
           sn.life = session[s].life, sn.up = session[s].up
    PROVE  SessionsStay
  BY OneStays DEF UpStays

LEMMA TouchedLives ==
    ASSUME WorkInv, NEW s \in Sessions
    PROVE  Touched(s).life = session[s].life /\ Touched(s).up = session[s].up
<1>1. session[s] \in SessRec
  BY SessHasType
<1> QED
  BY <1>1 DEF Touched, SessRec

\* Where it stands, it has a session.
LEMMA HasSession ==
    ASSUME WorkInv, NEW o \in DOMAIN ops, ops[o].pc \in AtPage \/ Found(o)
    PROVE  ops[o].sess \in Sessions /\ session[ops[o].sess] \in SessRec
<1>1. ops[o].sess \in Sessions
  BY HasType DEF OpSound, Found, Opened, Sessions
<1> QED
  BY <1>1, SessHasType

\* Operations that look, and leave the sessions alone.
LEMMA LooksDown ==
    ASSUME WorkInv, NEW o \in DOMAIN ops,
           _op_ping(o) \/ _op_navigate(o) \/ Evaluated(o) \/ _op_probe_action(o) \/ _op_execute(o) \/ Closed(o) \/ Breaks_off(o)
    PROVE  Plainly(o) /\ SessionsStay
<1>1. SessionsStay
  BY SameStay DEF _op_ping, _op_navigate, Evaluated, _op_probe_action, _op_execute, Closed, Breaks_off
<1>2. CASE _op_ping(o)
  <2> DEFINE build == builds.worker
             new == [ops[o] EXCEPT !.pc = "over", !.out = "ok", !.build = build]
  <2>1. ops' = [ops EXCEPT ![o] = new] /\ ops[o].pc = "reap"
    BY <1>2 DEF _op_ping, Handles
  <2> HIDE DEF build
  <2>2. new.pc = "over"
    BY HasType DEF OpRec
  <2> HIDE DEF new
  <2> QED
    BY <1>1, <2>1, <2>2 DEF Plainly, Resting
<1>3. CASE Evaluated(o)
  <2> DEFINE page == session[ops[o].sess].page
             typed == session[ops[o].sess].typed
             new == [ops[o] EXCEPT !.pc = "scrub", !.seen = page, !.shows = typed]
  <2>1. ops' = [ops EXCEPT ![o] = new] /\ ops[o].pc = "eval"
    BY <1>3 DEF Evaluated
  <2> HIDE DEF page, typed
  <2>2. new.pc = "scrub"
    BY HasType DEF OpRec
  <2> HIDE DEF new
  <2> QED
    BY <1>1, <2>1, <2>2 DEF Plainly, Resting
<1>4. CASE _op_navigate(o) \/ _op_probe_action(o) \/ _op_execute(o)
  <2>1. ops[o].pc = "reap" /\ ((\E out : Fails(o, out)) \/ \E pc \in {"load", "probe", "check"} : Goes(o, pc))
    BY <1>4 DEF _op_navigate, _op_probe_action, _op_execute, Handles
  <2> QED
    BY <1>1, <2>1, FailsPlainly, OverPlainly DEF Resting
<1>5. CASE Closed(o) \/ Breaks_off(o)
  <2>1. ops[o].pc \notin Resting \cup {"over"} /\ \E out : Fails(o, out)
    BY <1>5 DEF Closed, Breaks_off, Resting
  <2> QED
    BY <1>1, <2>1, FailsPlainly
<1> QED
  BY <1>2, <1>3, <1>4, <1>5

\* Operations at the page.
LEMMA PagesDown ==
    ASSUME WorkInv, NEW o \in DOMAIN ops,
           Loaded(o) \/ _op_read(o) \/ Probed(o) \/ Settled(o) \/ Clicked(o)
    PROVE  Plainly(o) /\ SessionsStay
<1> DEFINE s == ops[o].sess
<1>1. ops[o].pc \notin Resting \cup {"over"}
  BY DEF Loaded, _op_read, Probed, Settled, Clicked, Handles, Resting
<1>2. (\E out, seen : Over(o, out, seen)) \/ \E pc \in {"eval", "settle"} : Goes(o, pc)
  BY DEF Loaded, _op_read, Probed, Settled, Clicked, Fails
<1>3. Plainly(o)
  BY <1>1, <1>2, OverPlainly DEF Resting
<1>4. UNCHANGED session \/ (ops[o].pc \in AtPage \/ Found(o))
  BY DEF Loaded, _op_read, Probed, Settled, Clicked, AtPage
<1>5. CASE UNCHANGED session
  BY <1>3, <1>5, SameStay
<1>6. CASE ops[o].pc \in AtPage \/ Found(o)
  <2>1. s \in Sessions /\ session[s] \in SessRec
    BY <1>6, HasSession
  <2>2. Touched(s) \in SessRec /\ Touched(s).life = session[s].life /\ Touched(s).up = session[s].up
    BY <2>1, TouchedLives, TouchedIs
  <2>3. CASE Loaded(o)
    <3> DEFINE t == Touched(s)
               sn == [t EXCEPT !.page = "login"]
    <3>1. session' = [session EXCEPT ![s] = sn]
      BY <2>3 DEF Loaded
    <3> HIDE DEF t, s
    <3>2. sn.life = session[s].life /\ sn.up = session[s].up
      BY <2>2 DEF SessRec, t
    <3> HIDE DEF sn
    <3> QED
      BY <1>3, <2>1, <3>1, <3>2, LivesOn
  <2>4. CASE _op_read(o) \/ Probed(o)
    <3>1. UNCHANGED session \/ session' = [session EXCEPT ![s] = Touched(s)]
      BY <2>4 DEF _op_read, Probed
    <3> QED
      BY <1>3, <2>1, <2>2, <3>1, LivesOn, SameStay
  <2>5. CASE Settled(o) \/ Clicked(o)
    <3> DEFINE permits == revoke(o)
               sn == [session[s] EXCEPT !.permits = permits]
    <3>1. UNCHANGED session \/ session' = [session EXCEPT ![s] = sn]
      BY <2>5 DEF Settled, Clicked
    <3> HIDE DEF permits, s
    <3>2. sn.life = session[s].life /\ sn.up = session[s].up
      BY <2>1 DEF SessRec
    <3> HIDE DEF sn
    <3> QED
      BY <1>3, <2>1, <3>1, <3>2, LivesOn, SameStay
  <2> QED
    BY <2>3, <2>4, <2>5
<1> QED
  BY <1>4, <1>5, <1>6

\* The fields are filled, the page is read.
LEMMA FillsDown ==
    ASSUME WorkInv, ConstantsOK, NEW o \in DOMAIN ops, Checked(o) \/ Filled(o) \/ Scrubbed(o)
    PROVE  Plainly(o) /\ SessionsStay
<1> DEFINE s == ops[o].sess
<1>1. ops[o].pc \in {"check", "fill", "scrub"} /\ ops[o].pc \in AtPage /\ ops[o].pc \notin Resting \cup {"over"}
  BY DEF Checked, Filled, Scrubbed, AtPage, Resting
<1>2. s \in Sessions /\ session[s] \in SessRec /\ ops[o] \in OpRec
  BY <1>1, HasSession, HasType
<1>3. ASSUME (\E out : Fails(o, out)) /\ UNCHANGED session PROVE Plainly(o) /\ SessionsStay
  BY <1>1, <1>3, FailsPlainly, SameStay
<1>4. CASE Checked(o)
  <2>1. ASSUME Sends(o, Fields) PROVE Plainly(o) /\ SessionsStay
    <3> DEFINE known == session[s].known \cup remember(Fields)
               sn == [session[s] EXCEPT !.known = known]
               new == [ops[o] EXCEPT !.pc = "fill", !.fields = Fields]
    <3>1. ops' = [ops EXCEPT ![o] = new] /\ session' = [session EXCEPT ![s] = sn]
      BY <2>1 DEF Sends
    <3> HIDE DEF known, s
    <3>2. new.pc = "fill" /\ sn.life = session[s].life /\ sn.up = session[s].up
      BY <1>2 DEF OpRec, SessRec
    <3> HIDE DEF new, sn
    <3> QED
      BY <1>1, <1>2, <3>1, <3>2, LivesOn DEF Plainly, Resting
  <2> QED
    BY <1>3, <1>4, <2>1 DEF Checked
<1>5. CASE Filled(o)
  <2> DEFINE here == session[s].page
             value == Head(ops[o].fields)
             more == Tail(ops[o].fields)
  <2>1. CASE Pages[here].form # NONE
    <3> DEFINE typed == session[s].typed \cup {value}
               known == IF more = <<>> THEN session[s].known ELSE session[s].known \cup {Head(more)}
               permits == IF more = <<>> THEN issue(o) ELSE session[s].permits
               on == ops[o].on \cup {here}
               pc == IF more = <<>> THEN "click" ELSE "fill"
               sn == [session[s] EXCEPT !.typed = typed, !.known = known, !.permits = permits]
               new == [ops[o] EXCEPT !.fields = more, !.on = on, !.pc = pc]
    <3>1. ops' = [ops EXCEPT ![o] = new] /\ session' = [session EXCEPT ![s] = sn]
      BY <1>5, <2>1 DEF Filled, remember
    <3>2. pc \in {"click", "fill"}
      OBVIOUS
    <3> HIDE DEF typed, known, permits, on, pc, more, s
    <3>3. new.pc = pc /\ sn.life = session[s].life /\ sn.up = session[s].up
      BY <1>2 DEF OpRec, SessRec
    <3> HIDE DEF new, sn
    <3> QED
      BY <1>1, <1>2, <3>1, <3>2, <3>3, LivesOn DEF Plainly, Resting
  <2>2. (Fails(o, "field_not_found") /\ UNCHANGED session) \/ Pages[here].form # NONE
    BY <1>5, ZenonT(30) DEF Filled
  <2> QED
    BY <1>3, <2>1, <2>2
<1>6. CASE Scrubbed(o)
  <2> DEFINE shows == scrub(o)
             out == IF told(o) THEN "signed_in" ELSE IF ops[o].kind = "execute" THEN "not_signed_in" ELSE "ok"
             new == [ops[o] EXCEPT !.pc = "over", !.shows = shows, !.out = out]
             auth == success(o)
             t == Touched(s)
             sn == IF ops[o].kind = "execute" THEN [t EXCEPT !.auth = auth] ELSE session[s]
  <2>1. ops' = [ops EXCEPT ![o] = new] /\ session' = [session EXCEPT ![s] = sn]
    BY <1>6 DEF Scrubbed
  <2>2. t \in SessRec /\ t.life = session[s].life /\ t.up = session[s].up
    BY <1>2, TouchedIs, TouchedLives
  <2> HIDE DEF shows, out, auth, t, s
  <2>3. new.pc = "over" /\ sn.life = session[s].life /\ sn.up = session[s].up
    BY <1>2, <2>2 DEF OpRec, SessRec
  <2> HIDE DEF new, sn
  <2> QED
    BY <1>1, <1>2, <2>1, <2>3, LivesOn DEF Plainly, Resting
<1> QED
  BY <1>4, <1>5, <1>6

\* A session comes up, or does not.
LEMMA StartsDown ==
    ASSUME WorkInv, ConstantsOK, NEW o \in DOMAIN ops, Started(o) \/ Fails_to_start(o) \/ _op_open_session(o)
    PROVE  Plainly(o) /\ SessionsStay
<1> DEFINE s == ops[o].sess
<1>1. ops[o] \in OpRec /\ OpSound(ops[o], session, builds.worker) /\ session \in Seq(SessRec)
  BY HasType DEF WorkInv, WorkerTyped
<1>2. CASE Started(o) \/ Fails_to_start(o)
  <2>1. ops[o].pc = "start" /\ \E out : Fails(o, out)
    BY <1>2 DEF Started, Fails_to_start
  <2>2. s \in Sessions /\ session[s].life = "starting" /\ session[s] \in SessRec
    BY <1>1, <2>1, SessHasType DEF OpSound, Sessions
  <2>3. Plainly(o)
    BY <2>1, FailsPlainly DEF Resting
  <2> HIDE DEF s
  <2>4. CASE session' = [session EXCEPT ![s].life = "open"]
    <3> DEFINE sn == [session[s] EXCEPT !.life = "open"]
    <3>1. sn.life = "open" /\ session' = [session EXCEPT ![s] = sn]
      BY <2>2, <2>4 DEF SessRec
    <3> HIDE DEF sn
    <3> QED
      BY <2>2, <2>3, <3>1, OneStays DEF UpStays
  <2>5. ASSUME NEW life \in {"gone", "lost"},
               session' = [session EXCEPT ![s].life = life, ![s].up = life = "lost", ![s].wired = FALSE]
        PROVE  SessionsStay
    <3> DEFINE up == life = "lost"
               sn == [session[s] EXCEPT !.life = life, !.up = up, !.wired = FALSE]
    <3>1. session' = [session EXCEPT ![s] = sn]
      BY <2>5
    <3>2. up => life # "gone"
      OBVIOUS
    <3> HIDE DEF up
    <3>3. sn.life = life /\ sn.up = up
      BY <2>2 DEF SessRec
    <3> HIDE DEF sn
    <3> QED
      BY <2>2, <2>3, <2>5, <3>1, <3>2, <3>3, OneStays DEF UpStays
  <2> QED
    BY <1>2, <2>3, <2>4, <2>5 DEF Started, Fails_to_start, s
<1>3. CASE _op_open_session(o)
  <2> DEFINE n == Len(session) + 1
             new == [ops[o] EXCEPT !.pc = "start", !.sess = n]
             build == builds.worker
             since == ops[o].build
             sn == [life |-> "starting", page |-> "blank", age |-> "fresh", auth |-> FALSE,
                    permits |-> {}, known |-> {}, typed |-> {}, wired |-> TRUE, up |-> TRUE,
                    build |-> build, since |-> since]
  <2>1. ops' = [ops EXCEPT ![o] = new] /\ session' = Append(session, sn) /\ ops[o].pc = "reap"
    BY <1>3 DEF _op_open_session, Handles
  <2> HIDE DEF n, build, since
  <2>2. new.pc = "start" /\ sn.life = "starting"
    BY <1>1 DEF OpRec
  <2> HIDE DEF new, sn
  <2>3. Plainly(o)
    BY <2>1, <2>2 DEF Plainly, Resting
  <2>4. DOMAIN session' = DOMAIN session \cup {n} /\ session'[n] = sn /\ \A t \in DOMAIN session : session'[t] = session[t]
    BY <1>1, <2>1 DEF n
  <2>5. SessionsStay
    BY <2>2, <2>4 DEF SessionsStay, UpStays, Sessions
  <2> QED
    BY <2>3, <2>5
<1> QED
  BY <1>2, <1>3

LEMMA ExpireDown ==
    ASSUME WorkInv, NEW o \in DOMAIN ops, Expire(o)
    PROVE  RestStays /\ OverHolds /\ SessionsStay
<1> DEFINE new == [ops[o] EXCEPT !.stale = TRUE]
<1>1. ops' = [ops EXCEPT ![o] = new] /\ ops[o].pc = "over" /\ UNCHANGED session
  BY DEF Expire
<1>2. new.pc = "over"
  BY <1>1, HasType DEF OpRec
<1> HIDE DEF new
<1> QED
  BY <1>1, <1>2, SameStay, OneRests DEF OverHolds, Resting

\* All of them.
LEMMA PlainDown ==
    ASSUME WorkInv, ConstantsOK, SweepInv, NEW o \in DOMAIN ops, Works(o),
           ~ (Reap(o) \/ Wiped(o) \/ _op_close_session(o) \/ _op_restart(o) \/ Sweep(o) \/ Exit(o))
    PROVE  SweepInv' /\ OverHolds
<1>1. RestStays /\ OverHolds /\ SessionsStay
  BY LooksDown, PagesDown, FillsDown, StartsDown, ExpireDown, PlainlyRests DEF Works
<1> QED
  BY <1>1, RestKeeps

\* One more is taken down, by o.
LEMMA DownKeeps ==
    ASSUME WorkInv, SweepInv, NEW o \in DOMAIN ops, ops[o].pc \notin {"wipe", "over"}, NEW s \in Opened,
           NEW new, ops' = [ops EXCEPT ![o] = new], new.pc = "wipe", new.wipe = s,
           session' = [session EXCEPT ![s] = Cut(s)], Clears(new, session')
    PROVE  SweepInv' /\ OverHolds
<1>1. s \in Sessions /\ session[s].life = "open" /\ session[s] \in SessRec
  BY SessHasType DEF Opened
<1> DEFINE sn == Cut(s)
<1>2. sn.life = "gone" /\ sn.up = session[s].up /\ session' = [session EXCEPT ![s] = sn]
  BY <1>1 DEF Cut, SessRec
<1> HIDE DEF sn
<1>3. /\ DOMAIN session' = Sessions /\ session'[s] = sn /\ \A t \in Sessions \ {s} : session'[t] = session[t]
      /\ DOMAIN ops' = DOMAIN ops /\ ops'[o] = new /\ \A q \in DOMAIN ops \ {o} : ops'[q] = ops[q]
  BY <1>1, <1>2 DEF Sessions
<1>4. ASSUME NEW t \in Sessions PROVE TakenDown(t)'
  <2>1. CASE t = s
    BY <1>3, <2>1 DEF TakenDown
  <2>2. CASE t # s
    BY <1>3, <2>2 DEF SweepInv, TakenDown
  <2> QED
    BY <2>1, <2>2
<1>5. ASSUME NEW q \in DOMAIN ops \ {o} PROVE Clears(ops[q], session')
  <2>1. Clears(ops[q], session)
    BY DEF SweepInv
  <2>2. \A t \in Sessions : session[t].life # "starting" => session'[t].life # "starting" /\ session'[t].up = session[t].up
    BY <1>2, <1>3
  <2> QED
    BY <1>3, <2>1, <2>2 DEF Clears, Cleared, Sessions
<1>6. ASSUME NEW q \in DOMAIN ops' PROVE Clears(ops'[q], session')
  BY <1>3, <1>5
<1> QED
  BY <1>3, <1>4, <1>6 DEF SweepInv, OverHolds, Sessions

\* What expired, and what is closed.
LEMMA DestroysDown ==
    ASSUME WorkInv, ConstantsOK, SweepInv, NEW o \in DOMAIN ops, Reap(o) \/ _op_close_session(o)
    PROVE  SweepInv' /\ OverHolds
<1>1. ops[o].pc = "reap"
  BY DEF Reap, _op_close_session, Handles
<1>2. ASSUME NEW s \in Opened, NEW then \in {"reap", "closed"}, Destroys(o, s, then)
      PROVE  SweepInv' /\ OverHolds
  <2> DEFINE new == [ops[o] EXCEPT !.pc = "wipe", !.wipe = s, !.then = then]
  <2>1. ops' = [ops EXCEPT ![o] = new] /\ session' = [session EXCEPT ![s] = Cut(s)]
    BY <1>2 DEF Destroys
  <2>2. new.pc = "wipe" /\ new.wipe = s /\ new.then # "sweep"
    BY HasType DEF OpRec
  <2> HIDE DEF new
  <2>3. Clears(new, session')
    BY <2>2 DEF Clears, Sweeping
  <2> QED
    BY <1>1, <2>1, <2>2, <2>3, DownKeeps
<1>3. CASE (\E out : Fails(o, out)) /\ UNCHANGED session
  <2>1. Plainly(o)
    BY <1>1, <1>3, FailsPlainly DEF Resting
  <2> QED
    BY <1>3, <2>1, PlainlyRests, SameStay, RestKeeps
<1>4. \/ (\E out : Fails(o, out)) /\ UNCHANGED session
      \/ \E s \in Opened, then \in {"reap", "closed"} : Destroys(o, s, then)
  BY DEF Reap, _op_close_session, Old, Found
<1> QED
  BY <1>2, <1>3, <1>4

\* The browser is down.
LEMMA WipedDown ==
    ASSUME WorkInv, ConstantsOK, SweepInv, NEW o \in DOMAIN ops, Wiped(o)
    PROVE  SweepInv' /\ OverHolds
<1> DEFINE then == ops[o].then
           new == [ops[o] EXCEPT !.pc = then, !.wipe = 0]
           s == ops[o].wipe
           sn == [session[s] EXCEPT !.up = FALSE]
<1>1. ops[o] \in OpRec /\ OpSound(ops[o], session, builds.worker) /\ ops[o].pc = "wipe"
  BY HasType DEF Wiped
<1>2. s \in Sessions /\ session[s] \in SessRec /\ then \in {"reap", "closed", "sweep"}
  BY <1>1, SessHasType DEF OpSound, Sessions
<1>3. ops' = [ops EXCEPT ![o] = new] /\ session' = [session EXCEPT ![s] = sn]
  BY DEF Wiped
<1>4. new.pc = then /\ new.had = ops[o].had /\ new.todo = ops[o].todo
  BY <1>1, <1>2 DEF OpRec
<1>5. sn.life = session[s].life /\ ~ sn.up
  BY <1>2 DEF SessRec
<1> HIDE DEF new, sn
<1>6. /\ DOMAIN session' = Sessions /\ session'[s] = sn /\ \A t \in Sessions \ {s} : session'[t] = session[t]
      /\ DOMAIN ops' = DOMAIN ops /\ ops'[o] = new /\ \A q \in DOMAIN ops \ {o} : ops'[q] = ops[q]
  BY <1>2, <1>3 DEF Sessions
<1>7. SessionsStay
  BY <1>2, <1>3, <1>5, OneStays DEF UpStays
<1>8. ASSUME NEW t \in Sessions PROVE TakenDown(t)'
  <2>1. CASE t = s
    BY <1>5, <1>6, <2>1 DEF TakenDown
  <2>2. CASE t # s
    BY <1>6, <2>2 DEF SweepInv, TakenDown
  <2> QED
    BY <2>1, <2>2
<1>9. Clears(new, session')
  <2>1. Clears(ops[o], session) /\ (Sweeping(new) => Sweeping(ops[o]))
    BY <1>1, <1>2, <1>4 DEF SweepInv, Sweeping
  <2>2. ASSUME Sweeping(new), NEW t \in ops[o].had PROVE t \in Sessions /\ Cleared(new, t, session'[t])
    <3>1. t \in Sessions /\ Cleared(ops[o], t, session[t])
      BY <2>1, <2>2 DEF Clears, Sessions
    <3>2. CASE t = s
      BY <1>5, <1>6, <3>1, <3>2 DEF Cleared
    <3>3. CASE t # s
      BY <1>4, <1>6, <3>1, <3>3 DEF Cleared
    <3> QED
      BY <3>1, <3>2, <3>3
  <2> QED
    BY <1>2, <1>4, <1>6, <2>2 DEF Clears
<1>10. ASSUME NEW q \in DOMAIN ops' PROVE Clears(ops'[q], session')
  <2>1. CASE q = o
    BY <1>6, <1>9, <2>1
  <2>2. CASE q # o
    BY <1>6, <1>7, <2>2, ClearsStays DEF SweepInv
  <2> QED
    BY <2>1, <2>2
<1> QED
  BY <1>1, <1>6, <1>8, <1>10 DEF SweepInv, OverHolds, Sessions

\* A restart begins, with the list as it is.
LEMMA RestartDown ==
    ASSUME WorkInv, ConstantsOK, SweepInv, NEW o \in DOMAIN ops, _op_restart(o)
    PROVE  SweepInv' /\ OverHolds
<1> DEFINE new == [ops[o] EXCEPT !.pc = "sweep", !.todo = Opened, !.had = Opened]
<1>1. ops' = [ops EXCEPT ![o] = new] /\ ops[o].pc = "reap" /\ UNCHANGED session
  BY DEF _op_restart, listed, Handles
<1>2. new.pc = "sweep" /\ new.todo = Opened /\ new.had = Opened
  BY HasType DEF OpRec
<1> HIDE DEF new
<1>3. DOMAIN ops' = DOMAIN ops /\ ops'[o] = new /\ \A q \in DOMAIN ops \ {o} : ops'[q] = ops[q]
  BY <1>1
<1>4. Clears(new, session)
  BY <1>2 DEF Clears, Cleared, Opened, Sessions
<1>5. \A s \in Sessions : TakenDown(s)'
  BY <1>1, <1>3 DEF SweepInv, TakenDown
<1>6. \A q \in DOMAIN ops' : Clears(ops'[q], session')
  BY <1>1, <1>3, <1>4 DEF SweepInv
<1> QED
  BY <1>1, <1>3, <1>5, <1>6 DEF SweepInv, OverHolds, Sessions

\* It takes down one after the other.
LEMMA SweepDown ==
    ASSUME WorkInv, ConstantsOK, SweepInv, NEW o \in DOMAIN ops, Sweep(o)
    PROVE  SweepInv' /\ OverHolds
<1>1. ops[o].pc = "sweep" /\ ops[o] \in OpRec /\ Clears(ops[o], session)
  BY HasType DEF Sweep, SweepInv
<1>2. ASSUME NEW new, ops' = [ops EXCEPT ![o] = new], new.pc \in {"over", "exit"}, Clears(new, session), UNCHANGED session
      PROVE  SweepInv' /\ OverHolds
  <2>1. DOMAIN ops' = DOMAIN ops /\ ops'[o] = new /\ \A q \in DOMAIN ops \ {o} : ops'[q] = ops[q]
    BY <1>2
  <2>2. \A s \in Sessions : TakenDown(s)'
    BY <1>1, <1>2, <2>1 DEF SweepInv, TakenDown
  <2>3. \A q \in DOMAIN ops' : Clears(ops'[q], session')
    BY <1>2, <2>1 DEF SweepInv
  <2> QED
    BY <1>1, <1>2, <2>1, <2>2, <2>3 DEF SweepInv, OverHolds, Sessions
<1>3. CASE ops[o].todo = {} /\ Goes(o, "exit") /\ UNCHANGED session
  <2> DEFINE new == [ops[o] EXCEPT !.pc = "exit"]
  <2>1. ops' = [ops EXCEPT ![o] = new]
    BY <1>3 DEF Goes
  <2>2. new.pc = "exit" /\ new.todo = {} /\ new.had = ops[o].had
    BY <1>1, <1>3 DEF OpRec
  <2> HIDE DEF new
  <2>3. Clears(new, session)
    BY <1>1, <2>2, <1>3 DEF Clears, Cleared, Sweeping
  <2> QED
    BY <1>2, <1>3, <2>1, <2>2, <2>3
<1>4. CASE Fails(o, "failed") /\ UNCHANGED session
  <2> DEFINE new == [ops[o] EXCEPT !.pc = "over", !.out = "failed", !.seen = NONE]
  <2>1. ops' = [ops EXCEPT ![o] = new]
    BY <1>4 DEF Fails, Over
  <2>2. new.pc = "over"
    BY <1>1 DEF OpRec
  <2> HIDE DEF new
  <2>3. Clears(new, session)
    BY <2>2 DEF Clears, Sweeping
  <2> QED
    BY <1>2, <1>4, <2>1, <2>2, <2>3
<1>5. ASSUME NEW s \in ops[o].todo \cap Opened, session' = [session EXCEPT ![s] = Cut(s)],
             ops' = [ops EXCEPT ![o].pc = "wipe", ![o].wipe = s, ![o].then = "sweep", ![o].todo = @ \ {s}]
      PROVE  SweepInv' /\ OverHolds
  <2> DEFINE todo == ops[o].todo \ {s}
             new == [ops[o] EXCEPT !.pc = "wipe", !.wipe = s, !.then = "sweep", !.todo = todo]
  <2>1. ops' = [ops EXCEPT ![o] = new]
    BY <1>1, <1>5 DEF OpRec
  <2>2. new.pc = "wipe" /\ new.wipe = s /\ new.todo = todo /\ new.had = ops[o].had
    BY <1>1 DEF OpRec
  <2> HIDE DEF new
  <2>3. s \in Sessions /\ session[s] \in SessRec
    BY SessHasType DEF Opened
  <2>4. DOMAIN session' = Sessions /\ \A t \in Sessions \ {s} : session'[t] = session[t]
    BY <1>5 DEF Sessions
  <2>5. session'[s].life = "gone"
    BY <1>5, <2>3 DEF Cut, SessRec, Sessions
  <2>6. ASSUME NEW t \in ops[o].had PROVE t \in Sessions /\ Cleared(new, t, session'[t])
    <3>1. t \in Sessions /\ Cleared(ops[o], t, session[t])
      BY <1>1 DEF Clears, Sweeping, Sessions
    <3>2. CASE t = s
      BY <2>2, <2>5, <3>2, <3>1 DEF Cleared
    <3>3. CASE t # s
      BY <1>1, <2>2, <2>4, <3>1, <3>3 DEF Cleared
    <3> QED
      BY <3>1, <3>2, <3>3
  <2>7. Clears(new, session')
    BY <2>2, <2>4, <2>6 DEF Clears
  <2> HIDE DEF todo
  <2> QED
    BY <1>1, <1>5, <2>1, <2>2, <2>7, DownKeeps
<1>6. \/ ops[o].todo = {} /\ Goes(o, "exit") /\ UNCHANGED session
      \/ Fails(o, "failed") /\ UNCHANGED session
      \/ \E s \in ops[o].todo \cap Opened :
            /\ session' = [session EXCEPT ![s] = Cut(s)]
            /\ ops' = [ops EXCEPT ![o].pc = "wipe", ![o].wipe = s, ![o].then = "sweep", ![o].todo = @ \ {s}]
  BY ZenonT(40) DEF Sweep
<1> QED
  BY <1>3, <1>4, <1>5, <1>6

\* The process ends: what it had on the list is down, and what it had not is lost.
LEMMA ExitDown ==
    ASSUME WorkInv, ConstantsOK, SweepInv, NEW o \in DOMAIN ops, Exit(o)
    PROVE  SweepInv' /\ OverHolds
<1> DEFINE op(q) == [ops[q] EXCEPT !.pc = "over", !.out = IF q = o THEN "ok" ELSE "failed", !.todo = {}]
           life(s) == IF session[s].up /\ s \notin ops[o].had THEN "lost" ELSE "gone"
           sn(s) == [session[s] EXCEPT !.wired = FALSE, !.permits = {}, !.known = {}, !.life = life(s)]
<1>1. /\ ops' = [q \in DOMAIN ops |-> IF ops[q].pc = "over" THEN ops[q] ELSE op(q)]
      /\ session' = [s \in Sessions |-> sn(s)] /\ ops[o].pc = "exit"
  BY ZenonT(30) DEF Exit
<1>2. \A q \in DOMAIN ops : op(q).pc = "over"
  BY HasType DEF OpRec
<1>3. ASSUME NEW s \in Sessions, sn(s).up, sn(s).life = "gone" PROVE FALSE
  <2>1. session[s] \in SessRec
    BY SessHasType
  <2>2. sn(s).up = session[s].up /\ sn(s).life = life(s)
    BY <2>1 DEF SessRec
  <2>3. session[s].up /\ s \in ops[o].had
    BY <1>3, <2>2
  <2>4. Clears(ops[o], session)
    BY DEF SweepInv
  <2> QED
    BY <1>1, <2>3, <2>4 DEF Clears, Cleared, Sweeping
<1> HIDE DEF op, sn
<1>4. DOMAIN ops' = DOMAIN ops /\ \A q \in DOMAIN ops : ops'[q].pc = "over"
  BY <1>1, <1>2
<1>5. DOMAIN session' = Sessions /\ \A s \in Sessions : session'[s].up => session'[s].life # "gone"
  BY <1>1, <1>3
<1>6. \A q \in DOMAIN ops' : Clears(ops'[q], session')
  BY <1>4 DEF Clears, Sweeping
<1> QED
  BY <1>4, <1>5, <1>6 DEF SweepInv, OverHolds, TakenDown, Sessions

LEMMA WorksDown ==
    ASSUME WorkInv, ConstantsOK, SweepInv, NEW o \in DOMAIN ops, Works(o)
    PROVE  SweepInv' /\ OverHolds
  BY PlainDown, DestroysDown, WipedDown, RestartDown, SweepDown, ExitDown

\* A task forgets what it heard, and sends; what is under way is not touched.
Quiet(base) ==
    /\ base \in Seq(OpRec) /\ DOMAIN base = DOMAIN ops
    /\ \A q \in DOMAIN ops : base[q] = ops[q] \/ (ops[q].pc = "over" /\ base[q].pc = "over")

LEMMA DropQuiet ==
    ASSUME WorkInv, ConstantsOK, NEW c \in Callers
    PROVE  /\ Quiet(ops)
           /\ (caller[c].op \in DOMAIN ops /\ ops[caller[c].op].pc = "over") => Quiet(Drop(c))
<1>1. ops \in Seq(OpRec) /\ Heard(Drop(c))
  BY DropIs DEF WorkInv, WorkerTyped
<1>2. Drop(c) \in Seq(OpRec) /\ DOMAIN Drop(c) = DOMAIN ops
  BY <1>1 DEF Heard
<1> DEFINE o == caller[c].op
<1>3. Drop(c) = ops \/ Drop(c) = [ops EXCEPT ![o] = Idle]
  BY DEF Drop, Idle
<1>4. ASSUME ops[o].pc = "over", NEW q \in DOMAIN ops
      PROVE  Drop(c)[q] = ops[q] \/ (ops[q].pc = "over" /\ Drop(c)[q].pc = "over")
  <2>1. CASE q = o
    BY <1>3, <1>4, <2>1, IdleIs
  <2>2. CASE q # o
    BY <1>3, <2>2
  <2> QED
    BY <2>1, <2>2
<1> QED
  BY <1>1, <1>2, <1>4 DEF Quiet

LEMMA QuietRests ==
    ASSUME WorkInv, NEW base, Quiet(base),
           ops' = base \/ \E new : new.pc = "reap" /\ ops' = Append(base, new)
    PROVE  RestStays /\ OverHolds
<1>1. CASE ops' = base
  BY <1>1 DEF Quiet, RestStays, OverHolds, Resting
<1>2. ASSUME NEW new, new.pc = "reap", ops' = Append(base, new) PROVE RestStays /\ OverHolds
  <2> DEFINE n == Len(base) + 1
  <2>1. base \in Seq(OpRec)
    BY DEF Quiet
  <2>2. /\ DOMAIN ops' = DOMAIN base \cup {n} /\ n \notin DOMAIN base /\ ops'[n] = new
        /\ \A q \in DOMAIN base : ops'[q] = base[q]
    BY <1>2, <2>1
  <2> HIDE DEF n
  <2> QED
    BY <1>2, <2>2 DEF Quiet, RestStays, OverHolds, Resting
<1> QED
  BY <1>1, <1>2

\* One task has moved; to ask, or to carry out, it came from where it heard.
LEMMA MovedOn ==
    ASSUME WorkInv, CallersTyped, DownInv, NEW c \in Callers, NEW r, caller' = [caller EXCEPT ![c] = r],
           RestStays, OverHolds, UNCHANGED session,
           r.pc \in {"asking", "claimed"} => r.op \in DOMAIN ops /\ ops[r.op].pc = "over"
    PROVE  DownInv'
<1>1. SweepInv'
  BY SameStay, RestKeeps DEF DownInv
<1>2. DOMAIN caller = Callers
  BY DEF CallersTyped
<1>3. caller'[c] = r /\ \A d \in Callers \ {c} : caller'[d] = caller[d]
  BY <1>2
<1>4. ASSUME NEW d \in Callers PROVE HeardOut(d)'
  BY <1>3 DEF DownInv, HeardOut, OverHolds
<1> QED
  BY <1>1, <1>4 DEF DownInv

\* Where it can hear, or is through hearing.
MayDrop(c) == caller[c].op \in DOMAIN ops /\ ops[caller[c].op].pc = "over"

LEMMA AnsweredDrops ==
    ASSUME WorkInv, CoreInv, NEW c \in Callers, Answered(c)
    PROVE  MayDrop(c)
  BY ReplyIs DEF MayDrop, Answered

LEMMA CallDown ==
    ASSUME WorkInv, CoreInv, ConstantsOK, DownInv, NEW c \in Callers, NEW kind, NEW s,
           NEW pc, pc \notin {"asking", "claimed"}, NEW more, call(c, kind, s, pc, more),
           caller[c].pc = "away" \/ MayDrop(c), UNCHANGED session
    PROVE  DownInv'
<1> DEFINE man == more.man
           ap == more.ap
           new == Op(kind, s, man, ap)
           n == Len(ops) + 1
           r == [caller[c] EXCEPT !.op = n, !.pc = pc, !.sess = s, !.man = man, !.ap = ap]
<1>1. caller' = [caller EXCEPT ![c] = r] /\ CallersTyped /\ caller[c] \in CallRec
  BY DEF call, CoreInv, CallersTyped
<1>2. new.pc = "reap"
  BY DEF Op
<1>3. PICK base : Quiet(base) /\ ops' = Append(base, new)
  BY DropQuiet DEF call, MayDrop
<1>4. RestStays /\ OverHolds
  BY <1>2, <1>3, QuietRests
<1> HIDE DEF man, ap, n, new
<1>5. r.pc = pc
  BY <1>1 DEF CallRec
<1> HIDE DEF r
<1> QED
  BY <1>1, <1>4, <1>5, MovedOn

LEMMA EndsDown ==
    ASSUME WorkInv, CoreInv, ConstantsOK, DownInv, NEW c \in Callers, NEW word, Ends(c, word),
           ops' = ops \/ (ops' = Drop(c) /\ MayDrop(c)), UNCHANGED session
    PROVE  DownInv'
<1>1. CallersTyped
  BY DEF CoreInv
<1>2. RestStays /\ OverHolds
  BY DropQuiet, QuietRests DEF MayDrop
<1> DEFINE last == IF caller[c].pc = "logging" THEN caller[c].op ELSE 0
           r == Away(word, last)
<1>3. caller' = [caller EXCEPT ![c] = r]
  BY DEF Ends
<1>4. r.pc = "away"
  BY DEF Away
<1> HIDE DEF r
<1> QED
  BY <1>1, <1>2, <1>3, <1>4, MovedOn

LEMMA AskerDown ==
    ASSUME WorkInv, CoreInv, ConstantsOK, DownInv, NEW c \in Callers, Asks(c)
    PROVE  DownInv'
<1>1. CASE Open(c) \/ Read(c) \/ Close(c) \/ Login(c)
  <2>1. caller[c].pc = "away" /\ UNCHANGED session
    BY <1>1 DEF Open, Read, Close, Login, Begins
  <2>2. \E kind, s : \E pc \in {"ping", "reading", "closing", "probing"} : call(c, kind, s, pc, Plain)
    BY <1>1 DEF Open, Read, Close, Login
  <2> QED
    BY <2>1, <2>2, CallDown
<1>2. CASE open_session(c)
  <2>1. MayDrop(c) /\ UNCHANGED session
    BY <1>2, AnsweredDrops DEF open_session
  <2>2. CASE Ends(c, "failed") /\ ops' = Drop(c)
    BY <2>1, <2>2, EndsDown
  <2>3. CASE /\ ops' = Append(Drop(c), [Op("open_session", 0, NONE, 0) EXCEPT !.build = builds.core])
             /\ caller' = [caller EXCEPT ![c].op = Len(ops) + 1, ![c].pc = "opening"]
    <3> DEFINE core1 == builds.core
               first == Op("open_session", 0, NONE, 0)
               new == [first EXCEPT !.build = core1]
               n == Len(ops) + 1
               r == [caller[c] EXCEPT !.op = n, !.pc = "opening"]
    <3>1. ops' = Append(Drop(c), new) /\ caller' = [caller EXCEPT ![c] = r]
      BY <2>3
    <3> HIDE DEF core1, n
    <3>2. new.pc = "reap"
      BY DEF Op
    <3>3. r.pc = "opening" /\ CallersTyped
      BY DEF CallRec, CoreInv, CallersTyped
    <3> HIDE DEF new, r
    <3>4. Quiet(Drop(c))
      BY <2>1, DropQuiet DEF MayDrop
    <3>5. RestStays /\ OverHolds
      BY <3>1, <3>2, <3>4, QuietRests
    <3> QED
      BY <2>1, <3>1, <3>3, <3>5, MovedOn
  <2> QED
    BY <1>2, <2>2, <2>3 DEF open_session
<1>3. CASE navigate(c) \/ Told(c)
  <2>1. MayDrop(c) /\ UNCHANGED session
    BY <1>3, AnsweredDrops DEF navigate, Told
  <2>2. \/ call(c, "navigate", Reply(c).sess, "going", Plain)
        \/ (\E word : Ends(c, word)) /\ ops' = Drop(c)
    BY <1>3 DEF navigate, Told
  <2> QED
    BY <2>1, <2>2, CallDown, EndsDown
<1>4. CASE prepare_login(c)
  <2>1. MayDrop(c) /\ UNCHANGED session /\ ops' = Drop(c)
    BY <1>4, AnsweredDrops DEF prepare_login
  <2>2. CASE Ends(c, "not_described")
    BY <2>1, <2>2, EndsDown
  <2>3. CASE caller' = [caller EXCEPT ![c].pc = "asking", ![c].man = Reply(c).seen]
    <3> DEFINE seen == Reply(c).seen
               r == [caller[c] EXCEPT !.pc = "asking", !.man = seen]
    <3>1. caller' = [caller EXCEPT ![c] = r]
      BY <2>3
    <3> HIDE DEF seen
    <3>2. r.op = caller[c].op /\ CallersTyped
      BY DEF CallRec, CoreInv, CallersTyped
    <3> HIDE DEF r
    <3>3. RestStays /\ OverHolds
      BY <2>1, DropQuiet, QuietRests DEF MayDrop
    <3> QED
      BY <2>1, <3>1, <3>2, <3>3, MovedOn DEF MayDrop
  <2> QED
    BY <1>4, <2>2, <2>3 DEF prepare_login
<1>5. CASE Resume(c)
  <2>1. UNCHANGED ops /\ UNCHANGED session /\ caller[c].pc = "asking"
    BY <1>5 DEF Resume, worker
  <2>2. MayDrop(c) /\ CallersTyped /\ RestStays /\ OverHolds
    BY <2>1, SameStay DEF DownInv, HeardOut, MayDrop, CoreInv, OverHolds
  <2>3. CASE caller' = [caller EXCEPT ![c].pc = "claimed", ![c].ap = outstanding]
    <3> DEFINE r == [caller[c] EXCEPT !.pc = "claimed", !.ap = outstanding]
    <3>1. caller' = [caller EXCEPT ![c] = r]
      BY <2>3
    <3>2. r.op = caller[c].op
      BY <2>2 DEF CallRec, CallersTyped
    <3> HIDE DEF r
    <3> QED
      BY <2>1, <2>2, <3>1, <3>2, MovedOn DEF MayDrop
  <2>4. (\E word : Ends(c, word)) \/ caller' = [caller EXCEPT ![c].pc = "claimed", ![c].ap = outstanding]
    BY <1>5 DEF Resume
  <2> QED
    BY <2>1, <2>3, <2>4, EndsDown
<1>6. CASE login(c)
  <2>1. MayDrop(c) /\ UNCHANGED session
    BY <1>6 DEF login, DownInv, HeardOut, MayDrop
  <2>2. \/ (\E more : call(c, "execute", caller[c].sess, "logging", more))
        \/ Ends(c, "unknown") /\ UNCHANGED ops
    BY <1>6 DEF login
  <2> QED
    BY <2>1, <2>2, CallDown, EndsDown
<1>7. CASE Logged(c) \/ TimeOut(c)
  <2>1. UNCHANGED ops /\ UNCHANGED session /\ \E word : Ends(c, word)
    BY <1>7 DEF Logged, TimeOut, worker
  <2> QED
    BY <2>1, EndsDown
<1> QED
  BY <1>1, <1>2, <1>3, <1>4, <1>5, <1>6, <1>7 DEF Asks

LEMMA FrameDown ==
    ASSUME DownInv, SweepInv', OverHolds, UNCHANGED caller
    PROVE  DownInv'
  BY DEF DownInv, HeardOut, OverHolds

LEMMA NextDown ==
    ASSUME ConstantsOK, IInv, DownInv, [Next]_vars
    PROVE  DownInv'
<1> USE DEF IInv
<1>1. CASE \E c \in Callers : Asks(c)
  BY <1>1, AskerDown
<1>2. CASE \E o \in DOMAIN ops : Works(o)
  <2>1. UNCHANGED caller
    BY <1>2, WorksLeaves DEF core
  <2> QED
    BY <1>2, <2>1, WorksDown, FrameDown DEF DownInv
<1>3. ASSUME SessionsStay, RestStays, OverHolds, UNCHANGED caller PROVE DownInv'
  BY <1>3, RestKeeps, FrameDown DEF DownInv
<1>4. UNCHANGED ops => RestStays /\ OverHolds
  BY SameStay DEF OverHolds
<1>5. CASE Decide \/ Keychain \/ Deliver \/ Restart \/ UNCHANGED vars
  <2>1. UNCHANGED session
    BY <1>5 DEF Decide, Keychain, Deliver, Restart, vars, worker
  <2>2. SessionsStay
    BY <2>1, SameStay
  <2>3. RestStays /\ OverHolds
    <3>1. CASE Restart
      <4> DEFINE new == Op("restart", 0, NONE, 0)
      <4>1. ops' = Append(ops, new) /\ new.pc = "reap"
        BY <3>1 DEF Restart, Op
      <4> HIDE DEF new
      <4>2. Quiet(ops)
        BY DEF Quiet, WorkInv, WorkerTyped
      <4> QED
        BY <4>1, <4>2, QuietRests
    <3>2. CASE UNCHANGED ops
      BY <1>4, <3>2
    <3> QED
      BY <1>5, <3>1, <3>2 DEF Decide, Keychain, Deliver, vars, worker
  <2>4. SweepInv'
    BY <2>2, <2>3, RestKeeps DEF DownInv
  <2>5. ASSUME NEW d \in Callers PROVE HeardOut(d)'
    <3>1. UNCHANGED caller
      BY <1>5 DEF Decide, Keychain, Deliver, Restart, vars, core
    <3> QED
      BY <2>3, <3>1 DEF DownInv, HeardOut, OverHolds
  <2> QED
    BY <2>4, <2>5 DEF DownInv
<1>6. CASE Age \/ \E s \in Sessions : Turn(s) \/ \E origin \in Origins : Writes(s, origin)
  <2>1. UNCHANGED caller /\ UNCHANGED ops
    BY <1>6 DEF Age, Turn, Writes, core
  <2>2. \E s \in Sessions : \E x : \/ session' = [session EXCEPT ![s].age = x]
                                  \/ session' = [session EXCEPT ![s].page = x]
                                  \/ session' = [session EXCEPT ![s].permits = x]
    BY <1>6 DEF Age, Turn, Writes, Opened
  <2>3. PICK s \in Sessions : \E x : \/ session' = [session EXCEPT ![s].age = x]
                                     \/ session' = [session EXCEPT ![s].page = x]
                                     \/ session' = [session EXCEPT ![s].permits = x]
    BY <2>2
  <2>4. PICK x : \/ session' = [session EXCEPT ![s].age = x]
                 \/ session' = [session EXCEPT ![s].page = x]
                 \/ session' = [session EXCEPT ![s].permits = x]
    BY <2>3
  <2>5. session[s] \in SessRec
    BY SessHasType
  <2>6. PICK sn \in {[session[s] EXCEPT !.age = x], [session[s] EXCEPT !.page = x], [session[s] EXCEPT !.permits = x]} :
             session' = [session EXCEPT ![s] = sn]
    BY <2>4
  <2>7. sn.life = session[s].life /\ sn.up = session[s].up
    BY <2>5 DEF SessRec
  <2> QED
    BY <1>3, <1>4, <2>1, <2>6, <2>7, LivesOn
<1> QED
  BY <1>1, <1>2, <1>5, <1>6 DEF Next

\* Every browser that is up belongs to a session on the list, or to one that is being opened or taken
\* down, through expiries, closings and restarts (service.py, destroy and _op_restart); what a restart
\* does not find on the list is lost, and said to be (NoBrowserIsLost does not hold).
THEOREM NoneForgotten == ASSUME ConstantsOK PROVE Spec => []NoOrphan
<1>1. Init => DownInv
  BY DEF Init, DownInv, SweepInv, HeardOut, Sessions, Away
<1>2. IInv /\ DownInv /\ [Next]_vars => DownInv'
  BY NextDown
<1>3. IInv /\ DownInv => NoOrphan
  <2> SUFFICES ASSUME IInv, DownInv, NEW s \in Sessions, session[s].up
               PROVE  \/ session[s].life \in {"starting", "open", "lost"}
                      \/ \E o \in DOMAIN ops : ops[o].wipe = s
    BY DEF NoOrphan
  <2>1. session[s] \in SessRec
    BY SessHasType DEF IInv
  <2> QED
    BY <2>1 DEF DownInv, SweepInv, TakenDown, SessRec
<1> QED
  BY <1>1, <1>2, <1>3, Invariance, PTL DEF Spec

-----------------------------------------------------------------------------
(* Nobody is asked to sign in to a session that was closed.                *)

\* An approval that can still be given is the one the router holds.
OneHeld == \A a \in DOMAIN asked : asked[a].state = "pending" => a = outstanding

\* What is abandoned cannot be given any more.
LEMMA NoneLeft ==
    ASSUME CoreInv, OneHeld
    PROVE  /\ Len(Abandon(outstanding)) = Len(asked) /\ Abandon(outstanding) \in Seq(AskRec)
           /\ \A a \in DOMAIN asked : Abandon(outstanding)[a].state # "pending"
<1>1. asked \in Seq(AskRec) /\ outstanding \in 0..Len(asked)
  BY DEF CoreInv, ApprovalsTyped
<1>2. CASE outstanding > 0 /\ asked[outstanding].state = "pending"
  <2> DEFINE a == outstanding
             r == [asked[a] EXCEPT !.state = "expired"]
  <2>1. Abandon(a) = [asked EXCEPT ![a] = r]
    BY <1>2 DEF Abandon
  <2>2. a \in DOMAIN asked /\ asked[a] \in AskRec
    BY <1>1, <1>2
  <2>3. r.state = "expired"
    BY <2>2 DEF AskRec
  <2> HIDE DEF r
  <2>4. \A b \in DOMAIN asked : Abandon(a)[b].state # "pending"
    BY <2>1, <2>2, <2>3 DEF OneHeld
  <2> QED
    BY <1>1, <2>4, AbandonIs
<1>3. CASE ~ (outstanding > 0 /\ asked[outstanding].state = "pending")
  <2>1. Abandon(outstanding) = asked
    BY <1>3 DEF Abandon
  <2>2. \A b \in DOMAIN asked : asked[b].state # "pending"
    BY <1>1, <1>3 DEF OneHeld
  <2> QED
    BY <1>1, <2>1, <2>2
<1> QED
  BY <1>2, <1>3

LEMMA CloseLeavesNone ==
    ASSUME CoreInv, OneHeld, NEW c \in Callers, Close(c)
    PROVE  \A a \in DOMAIN asked' : asked'[a].state # "pending"
<1>1. asked' = Abandon(outstanding)
  BY DEF Close, abandon_outstanding
<1> DEFINE list == Abandon(outstanding)
<1>2. list \in Seq(AskRec) /\ Len(list) = Len(asked) /\ \A a \in DOMAIN asked : list[a].state # "pending"
  BY NoneLeft
<1>3. asked \in Seq(AskRec) /\ asked' = list
  BY <1>1 DEF CoreInv, ApprovalsTyped
<1> HIDE DEF list
<1> QED
  BY <1>2, <1>3

\* A login is taken up where the last one was left.
LEMMA ResumeHolds ==
    ASSUME CoreInv, OneHeld, NEW c \in Callers, Resume(c)
    PROVE  OneHeld'
<1>1. asked \in Seq(AskRec) /\ outstanding \in 0..Len(asked)
  BY DEF CoreInv, ApprovalsTyped
<1>2. CASE Resumes(c) = "ok"
  <2> DEFINE a == outstanding
             new == [asked[a] EXCEPT !.state = "claimed"]
  <2>1. asked[a].state = "approved" /\ a \in DOMAIN asked
    BY <1>1, <1>2 DEF Resumes
  <2>2. asked' = [asked EXCEPT ![a] = new]
    BY <1>2 DEF Resume
  <2>3. new.state = "claimed"
    BY <1>1, <2>1 DEF AskRec
  <2> HIDE DEF new
  <2>4. \A b \in DOMAIN asked' : asked'[b].state # "pending"
    BY <1>1, <2>1, <2>2, <2>3 DEF OneHeld
  <2> QED
    BY <2>4 DEF OneHeld
<1>3. CASE Resumes(c) = "denied"
  <2>1. asked[outstanding].state = "denied" /\ UNCHANGED asked
    BY <1>3 DEF Resumes, Resume
  <2> QED
    BY <2>1 DEF OneHeld
<1>4. CASE Resumes(c) \notin {"ok", "denied"}
  <2> DEFINE new == [man |-> caller[c].man, sess |-> caller[c].sess, state |-> "pending"]
             old == Abandon(outstanding)
  <2>1. asked' = Append(old, new) /\ outstanding' = Len(asked) + 1
    BY <1>4 DEF Resume
  <2> HIDE DEF new
  <2>2. Len(old) = Len(asked) /\ old \in Seq(AskRec) /\ \A a \in DOMAIN asked : old[a].state # "pending"
    BY NoneLeft
  <2> HIDE DEF old
  <2>3. \A a \in DOMAIN asked' : asked'[a].state = "pending" => a = Len(asked) + 1
    BY <1>1, <2>1, <2>2
  <2> QED
    BY <2>1, <2>3 DEF OneHeld
<1> QED
  BY <1>2, <1>3, <1>4

\* Who comes from elsewhere to a closing has withdrawn what could be given.
LEMMA AskerHolds ==
    ASSUME ConstantsOK, IInv, OneHeld, NEW c \in Callers, Asks(c)
    PROVE  OneHeld' /\ NoTrap
<1> USE DEF IInv
<1>1. CASE Close(c)
  BY <1>1, CloseLeavesNone DEF OneHeld, NoTrap
<1>2. CASE Resume(c)
  BY <1>2, ResumeHolds, ResumeFaithful DEF Alone, NoTrap
<1>3. CASE Open(c) \/ Read(c) \/ Login(c)
  <2>1. OneHeld'
    BY <1>3 DEF Open, Read, Login, OneHeld
  <2>2. CASE Close(c)
    BY <1>1, <2>2
  <2>3. CASE caller'[c].pc # "closing"
    BY <1>3, <2>1, <2>3, AsksUnbound DEF Unbound, Alone, NoTrap
  <2> QED
    BY <1>3, <2>2, <2>3, AsksUnbound
<1>4. CASE open_session(c) \/ navigate(c) \/ Told(c) \/ prepare_login(c) \/ login(c) \/ Logged(c) \/ TimeOut(c)
  <2>1. OneHeld' /\ caller[c].pc # "away"
    BY <1>4 DEF open_session, navigate, Told, prepare_login, login, Logged, TimeOut, OneHeld
  <2>2. Alone(c)
    BY <1>4, HearsUnbound, ThroughUnbound, DescribeFaithful, ExecuteFaithful DEF Unbound
  <2> QED
    BY <2>1, <2>2 DEF Alone, NoTrap
<1> QED
  BY <1>1, <1>2, <1>3, <1>4 DEF Asks

LEMMA NextHeld ==
    ASSUME ConstantsOK, IInv, OneHeld, [Next]_vars
    PROVE  OneHeld' /\ NoTrap
<1>1. CASE \E c \in Callers : Asks(c)
  BY <1>1, AskerHolds
<1>2. CASE ~ \E c \in Callers : Asks(c)
  <2>1. NoTrap
    BY <1>2, AroundFaithful DEF NoTrap
  <2>2. CASE Decide
    <3>1. UNCHANGED outstanding
      BY <2>2 DEF Decide
    <3>2. PICK a \in DOMAIN asked, d \in {"approved", "denied"} : asked' = [asked EXCEPT ![a].state = d]
      BY <2>2 DEF Decide
    <3> DEFINE new == [asked[a] EXCEPT !.state = d]
    <3>3. asked \in Seq(AskRec) /\ asked' = [asked EXCEPT ![a] = new]
      BY <3>2 DEF IInv, CoreInv, ApprovalsTyped
    <3>4. new.state # "pending"
      BY <3>3 DEF AskRec
    <3> HIDE DEF new
    <3> QED
      BY <2>1, <3>1, <3>3, <3>4 DEF OneHeld
  <2>3. CASE ~ Decide
    <3>1. UNCHANGED core \/ Keychain
      BY <1>2, <2>3, WorksLeaves DEF Next, Restart, Deliver, Age, Turn, Writes, vars, IInv
    <3> QED
      BY <2>1, <3>1 DEF core, Keychain, OneHeld
  <2> QED
    BY <2>2, <2>3
<1> QED
  BY <1>1, <1>2

\* A task that closes a session leaves nothing open that could still be approved, whichever task asked
\* and at whichever session (close in capabilities/portal.py withdraws what the router holds, and that
\* is all there is: asking anew abandons what was asked before).
THEOREM ClosedIsNotAsked == ASSUME ConstantsOK PROVE Spec => [][NoTrap]_vars
<1>1. Init => OneHeld
  BY DEF Init, OneHeld
<1>2. IInv /\ OneHeld /\ [Next]_vars => OneHeld' /\ NoTrap
  BY NextHeld
<1> QED
  BY <1>1, <1>2, Invariance, PTL DEF Spec
=============================================================================
