---------------------------- MODULE VaultProofs -----------------------------
(***************************************************************************)
(* What leaves the vault, whose value is stored, which key it is sealed    *)
(* under and when the plaintext goes: for any number of requests, uses,    *)
(* commands of the owner and lost keys.  And of the other store that has   *)
(* something to forget, Memory: what was purged stays away, and what a     *)
(* search would miss is announced.                                         *)
(***************************************************************************)
EXTENDS Vault, TLAPS

Entries == [policy : Policies, bound : Policies, value : Values, key : Nat]
ReqRec == [pc : {"idle", "asked", "read", "sealed", "put", "done"}, op : Ops \cup {NONE}, device : Devices \cup {NONE},
           by : Devices \cup {NONE}, scope : SUBSET Caps, expect : Nat, approved : {"no", "yes", "refused"},
           policy : Policies \cup {NONE}, next : Policies \cup {NONE}, value : Values \cup {NONE}, key : {0},
           seen : Policies \cup {NONE}]
UseRec == [pc : {"idle", "row", "released", "denied"}, cap : Caps \cup {NONE}, policy : Policies \cup {NONE},
           value : Values \cup {NONE}]
ScriptRec == [pc : {"idle", "init", "recovery", "migrate", "strip"}, policy : Policies \cup {NONE}, key : Nat]

Typed ==
    /\ row \in Entries \cup {NONE}
    /\ keys \in Nat /\ kek \in 0..keys /\ recov \in 0..keys /\ locked \in BOOLEAN /\ env \in BOOLEAN
    /\ req \in [Requests -> ReqRec] /\ use \in [Uses -> UseRec] /\ script \in ScriptRec
    /\ DOMAIN slots \subseteq Requests /\ \A s \in DOMAIN slots : slots[s].device \in Devices
    /\ count \in [script : Nat, faults : Nat]

\* What is stored is what was sealed, under the policy beside it.
RowInv == row # NONE =>
    row.bound = row.policy /\ <<row.policy, row.value>> \in law /\ row.policy.version >= 1

\* A key is older than none it stands beside, but for the one that was recovered; and what a
\* command has seen of the key still holds.
KeyInv ==
    /\ kek # 0 => recov <= kek
    /\ row # NONE => row.key \in 1..keys /\ recov <= row.key /\ kek \in {0, row.key, recov}
    /\ script.pc = "init" => kek = 0 /\ row = NONE
    /\ script.pc = "recovery" => kek # 0 /\ script.key = kek

\* What a change may rely on where it stands.
Relies(r) ==
    /\ req[r].pc \notin {"idle", "done"} => req[r].op \in Ops /\ req[r].device \in Devices
    /\ req[r].by \in {NONE, req[r].device}
    /\ req[r].pc \in {"sealed", "put"} => req[r].next \in Policies /\ req[r].next.version >= 1
    /\ req[r].pc = "read" /\ req[r].op \in NeedsValue => req[r].value = r
    /\ req[r].pc = "put" => req[r].value \in Values

\* A value that waits is the one its device sent, and has been seen nowhere else.
Unseen(r) ==
    /\ row # NONE => row.value # r
    /\ \A q \in Requests : req[q].value # r
FreshInv ==
    /\ \A s \in DOMAIN slots :
         req[s].pc = "asked" /\ req[s].op \in NeedsValue /\ slots[s].device = req[s].device
    /\ \A r \in Requests : req[r].pc \in {"idle", "asked"} => Unseen(r)

UseSound(u) ==
    /\ use[u].pc \in {"row", "released"} => /\ use[u].policy \in Policies /\ use[u].cap \in Caps
                                            /\ Allowed(use[u].policy, use[u].cap)
    /\ use[u].pc = "released" => <<use[u].policy, use[u].value>> \in law

\* The value of .env has been in the vault, under a policy that was active.
Carried == \E p \in Policies : p.status = "active" /\ <<p, "env">> \in law
PlainInv == (script.pc = "strip" \/ ~env) => Carried

IInv == Typed /\ RowInv /\ KeyInv /\ (\A r \in Requests : Relies(r)) /\ FreshInv
        /\ (\A u \in Uses : UseSound(u)) /\ PlainInv

-----------------------------------------------------------------------------
(* The kinds of steps.                                                     *)

\* What a step does to the entry: nothing, or it is deleted, or a value is put.
Puts(p, v) == p \in Policies /\ p.version >= 1 /\ v \in Values /\ Readable /\ Put(p, v, kek) /\ Booked(p, v)
RowSteps ==
    \/ UNCHANGED <<row, law>>
    \/ row' = NONE /\ law' = law
    \/ \E p \in Policies, v \in Values : Puts(p, v)

\* What a step of the changes leaves alone.
LEMMA ChangeFrame ==
    ASSUME NEW r \in Requests, Change(r)
    PROVE  UNCHANGED <<kek, keys, locked, recov, env, use, script, count>>
  BY DEF Change, Ask, Answer, KnockRefused, Knock, Lapsed, Read, ReadRefused, Delete, Reseal, ResealRefused,
         Store, StoreRefused, Others

LEMMA RowMoves == ASSUME ConstantsOK, IInv, Next PROVE RowSteps
<1>1. ASSUME NEW r \in Requests, Change(r) \/ Expire(r) PROVE RowSteps
  <2>1. CASE Store(r)
    <3>1. req[r].next \in Policies /\ req[r].next.version >= 1 /\ req[r].value \in Values
      BY <2>1 DEF IInv, Relies, Store
    <3> QED
      BY <2>1, <3>1 DEF Store, RowSteps, Puts
  <2>2. CASE Delete(r)
    BY <2>2 DEF Delete, RowSteps
  <2> QED
    BY <1>1, <2>1, <2>2 DEF Change, Ask, Answer, KnockRefused, Knock, Lapsed, Read, ReadRefused, Reseal,
       ResealRefused, StoreRefused, Expire, RowSteps
<1>2. CASE MigratePut
  <2> DEFINE p == [version |-> IF script.policy = NONE THEN 1 ELSE script.policy.version + 1,
                   status |-> "active", scope |-> Caps]
  <2>1. p \in Policies /\ p.version >= 1
    BY DEF IInv, Typed, ScriptRec, Policies, Statuses
  <2> HIDE DEF p
  <2> QED
    BY <1>2, <2>1 DEF MigratePut, RowSteps, Puts, Values, p
<1> QED
  BY <1>1, <1>2 DEF Next, RowSteps, Begin, Open, Frame, Script, InitBegin, InitWrite, RecoveryBegin,
     RecoveryWrite, MigrateBegin, RetireBegin, RetireStrip, Lock, Unlock, Lose, Install

-----------------------------------------------------------------------------
(* Types.                                                                  *)

LEMMA TypedInit == ASSUME ConstantsOK, Init PROVE IInv
<1> USE DEF Init
<1>1. NoReq \in ReqRec /\ NoUse \in UseRec /\ NoScript \in ScriptRec
  BY DEF NoReq, ReqRec, NoUse, UseRec, NoScript, ScriptRec
<1>2. Typed
  <2>1. req \in [Requests -> ReqRec] /\ use \in [Uses -> UseRec] /\ script \in ScriptRec
    BY <1>1
  <2>2. DOMAIN slots = {} /\ row = NONE /\ keys = kek /\ kek \in {0, 1} /\ recov = 0 /\ locked = FALSE /\ env = TRUE
    OBVIOUS
  <2>3. count \in [script : Nat, faults : Nat]
    OBVIOUS
  <2>4. kek \in 0..keys /\ recov \in 0..keys /\ keys \in Nat /\ row \in Entries \cup {NONE}
    BY <2>2
  <2>5. DOMAIN slots \subseteq Requests /\ \A s \in DOMAIN slots : slots[s].device \in Devices
    BY <2>2
  <2> HIDE DEF Init
  <2> QED
    BY <2>1, <2>2, <2>3, <2>4, <2>5 DEF Typed
<1>3. \A r \in Requests : req[r] = NoReq /\ NONE # r
  BY DEF ConstantsOK, Values
<1>4. \A u \in Uses : use[u].pc = "idle"
  BY DEF NoUse
<1> QED
  BY <1>2, <1>3, <1>4 DEF IInv, RowInv, KeyInv, Relies, FreshInv, Unseen, UseSound, PlainInv, NoReq, NoScript

LEMMA PolicyAt ==
    ASSUME NEW p, p \in Policies, NEW n \in Nat, NEW st \in Statuses, NEW sc \in SUBSET Caps
    PROVE  /\ [p EXCEPT !.version = n, !.status = st] \in Policies
           /\ [p EXCEPT !.version = n, !.status = st].version = n
           /\ [p EXCEPT !.version = n, !.scope = sc] \in Policies
           /\ [p EXCEPT !.version = n, !.scope = sc].version = n
  BY DEF Policies

LEMMA PolicyGoesOn ==
    ASSUME NEW p, p \in Policies, NEW st \in Statuses, NEW sc \in SUBSET Caps
    PROVE  /\ [p EXCEPT !.version = @ + 1, !.status = st] \in Policies
           /\ [p EXCEPT !.version = @ + 1, !.status = st].version = p.version + 1
           /\ [p EXCEPT !.version = @ + 1, !.scope = sc] \in Policies
           /\ [p EXCEPT !.version = @ + 1, !.scope = sc].version = p.version + 1
           /\ p.version \in Nat
<1> DEFINE n == p.version + 1
<1>1. p.version \in Nat /\ n \in Nat
  BY DEF Policies
<1> HIDE DEF n
<1>2. /\ [p EXCEPT !.version = n, !.status = st] \in Policies
      /\ [p EXCEPT !.version = n, !.status = st].version = n
      /\ [p EXCEPT !.version = n, !.scope = sc] \in Policies
      /\ [p EXCEPT !.version = n, !.scope = sc].version = n
  BY <1>1, PolicyAt
<1> QED
  BY <1>1, <1>2, Zenon DEF n

LEMMA FollowingTyped ==
    ASSUME ConstantsOK, IInv, NEW r \in Requests, req[r].pc = "read", req[r].op # "delete", Reads(r),
           NEW p, p = IF row = NONE THEN NONE ELSE row.policy
    PROVE  /\ Following(r, p) \in Policies /\ Following(r, p).version >= 1 /\ p \in Policies \cup {NONE}
           /\ Following(r, p).version = Version + 1
<1>1. req[r] \in ReqRec /\ req[r].op \in Ops
  BY DEF IInv, Typed, Relies
<1>2. CASE req[r].op = "add"
  BY <1>1, <1>2 DEF Reads, Following, Policies, Statuses, ReqRec, IInv, Typed, Entries, Version
<1>3. CASE req[r].op # "add"
  <2>1. row # NONE
    BY <1>3, <1>1 DEF Reads, Seen, ConstantsOK, NeedsValue
  <2>2. p = row.policy /\ p \in Policies
    BY <2>1 DEF IInv, Typed, Entries
  <2>3. p.version \in Nat /\ p.version + 1 >= 1
    BY <2>2 DEF Policies
  <2>4. req[r].scope \in SUBSET Caps /\ req[r].op \in {"replace", "rescope", "disable", "enable"}
    <3>1. req[r].scope \in SUBSET Caps
      BY <1>1 DEF ReqRec
    <3> QED
      BY <1>1, <1>3, <3>1 DEF ConstantsOK, NeedsValue
  <2>5. \/ \E st \in Statuses : Following(r, p) = [p EXCEPT !.version = @ + 1, !.status = st]
        \/ Following(r, p) = [p EXCEPT !.version = @ + 1, !.scope = req[r].scope]
    <3> HIDE DEF Policies
    <3> QED
      BY <2>4, Zenon DEF Following, Statuses
  <2>6. Following(r, p) \in Policies /\ Following(r, p).version = p.version + 1
    <3>1. p \in Policies /\ req[r].scope \in SUBSET Caps
      BY <2>2, <2>4
    <3> HIDE DEF Policies
    <3> DEFINE f == Following(r, p)
    <3>2. ASSUME NEW st \in Statuses, f = [p EXCEPT !.version = @ + 1, !.status = st]
          PROVE  f \in Policies /\ f.version = p.version + 1
      <4> DEFINE g == [p EXCEPT !.version = @ + 1, !.status = st]
      <4>1. g \in Policies /\ g.version = p.version + 1
        BY <3>1, PolicyGoesOn
      <4> HIDE DEF f, g
      <4>2. f = g
        BY <3>2 DEF g
      <4> QED
        BY <4>1, <4>2
    <3>3. CASE f = [p EXCEPT !.version = @ + 1, !.scope = req[r].scope]
      <4> DEFINE g == [p EXCEPT !.version = @ + 1, !.scope = req[r].scope]
      <4>1. g \in Policies /\ g.version = p.version + 1
        BY <3>1, PolicyGoesOn DEF Statuses
      <4> HIDE DEF f, g
      <4>2. f = g
        BY <3>3 DEF g
      <4> QED
        BY <4>1, <4>2 DEF f
    <3> QED
      BY <2>5, <3>2, <3>3
  <2>7. Version = p.version
    BY <2>1, <2>2 DEF Version
  <2> QED
    BY <2>2, <2>3, <2>6, <2>7
<1> QED
  BY <1>2, <1>3

-----------------------------------------------------------------------------
(* What a step of a change does to the requests.                           *)

\* r moves on; the others stand where they stood.
Moves(r, new) == req' = [req EXCEPT ![r] = new]

LEMMA ReqMoves ==
    ASSUME ConstantsOK, IInv, NEW r \in Requests, Change(r)
    PROVE  \E new \in ReqRec : Moves(r, new)
<1>0. req[r] \in ReqRec /\ NoReq \in ReqRec
  BY DEF IInv, Typed, ReqRec, NoReq
<1>1. [NoReq EXCEPT !.pc = "done"] \in ReqRec
  BY <1>0 DEF ReqRec
<1>2. CASE Ask(r)
  <2>1. PICK op \in Ops, d \in Devices, sc \in Scopes :
          req' = [req EXCEPT ![r] = [NoReq EXCEPT !.pc = "asked", !.op = op, !.device = d, !.scope = sc,
                                       !.expect = Version, !.seen = IF row = NONE THEN NONE ELSE row.policy]]
    BY <1>2 DEF Ask
  <2> DEFINE seen == IF row = NONE THEN NONE ELSE row.policy
             v == Version
  <2>2. v \in Nat /\ seen \in Policies \cup {NONE} /\ sc \in SUBSET Caps
    BY DEF IInv, Typed, Entries, Policies, Version, ConstantsOK
  <2> HIDE DEF seen, v
  <2> DEFINE new == [NoReq EXCEPT !.pc = "asked", !.op = op, !.device = d, !.scope = sc, !.expect = v, !.seen = seen]
  <2>3. new \in ReqRec
    BY <1>0, <2>2 DEF ReqRec
  <2>4. req' = [req EXCEPT ![r] = new]
    BY <2>1 DEF seen, v
  <2> QED
    BY <2>3, <2>4 DEF Moves
<1>3. CASE Answer(r)
  <2>1. PICK a \in {"yes", "refused"} : req' = [req EXCEPT ![r].approved = a]
    BY <1>3 DEF Answer
  <2>2. [req[r] EXCEPT !.approved = a] \in ReqRec
    BY <1>0 DEF ReqRec
  <2> QED
    BY <2>1, <2>2 DEF Moves
<1>4. CASE Knock(r)
  <2>1. PICK d \in Devices :
          IF req[r].op \in NeedsValue
          THEN IF Readable /\ slots[r].key = kek
               THEN req' = [req EXCEPT ![r].by = d, ![r].value = r, ![r].pc = "read"]
               ELSE Done(r)
          ELSE req' = [req EXCEPT ![r].pc = "read"]
    BY <1>4 DEF Knock
  <2>2. [[[req[r] EXCEPT !.by = d] EXCEPT !.value = r] EXCEPT !.pc = "read"] \in ReqRec
    BY <1>0 DEF ReqRec, Values
  <2>3. [req[r] EXCEPT !.pc = "read"] \in ReqRec
    BY <1>0 DEF ReqRec
  <2> QED
    BY <1>1, <2>1, <2>2, <2>3 DEF Moves, Done, IInv, Typed
<1>5. CASE Read(r)
  <2> DEFINE p == IF row = NONE THEN NONE ELSE row.policy
             f == Following(r, p)
             pc == IF req[r].op \in NeedsValue THEN "put" ELSE "sealed"
  <2>1. f \in Policies /\ p \in Policies \cup {NONE}
    BY <1>5, FollowingTyped DEF Read
  <2>2. req' = [req EXCEPT ![r].policy = p, ![r].next = f, ![r].pc = pc]
    BY <1>5 DEF Read
  <2>3. pc \in {"put", "sealed"}
    OBVIOUS
  <2> HIDE DEF p, f, pc
  <2>4. [[[req[r] EXCEPT !.policy = p] EXCEPT !.next = f] EXCEPT !.pc = pc] \in ReqRec
    BY <1>0, <2>1, <2>3 DEF ReqRec
  <2> QED
    BY <2>2, <2>4 DEF Moves, IInv, Typed
<1>6. CASE Reseal(r)
  <2>1. row.value \in Values
    BY <1>6 DEF Reseal, IInv, Typed, Entries
  <2>2. [[req[r] EXCEPT !.value = row.value] EXCEPT !.pc = "put"] \in ReqRec
    BY <1>0, <2>1 DEF ReqRec
  <2> QED
    BY <1>6, <2>2 DEF Moves, Reseal, IInv, Typed
<1> QED
  BY <1>1, <1>2, <1>3, <1>4, <1>5, <1>6 DEF Change, KnockRefused, Lapsed, ReadRefused, Delete, ResealRefused,
     Store, StoreRefused, Done, Moves

LEMMA UseMoves ==
    ASSUME ConstantsOK, IInv, NEW u \in Uses, Begin(u) \/ Open(u)
    PROVE  \E new \in UseRec : use' = [use EXCEPT ![u] = new]
<1>0. use[u] \in UseRec /\ NoUse \in UseRec
  BY DEF IInv, Typed, UseRec, NoUse
<1>1. [use[u] EXCEPT !.pc = "denied"] \in UseRec
  BY <1>0 DEF UseRec
<1>2. CASE Begin(u)
  <2>1. PICK c \in Caps :
          IF row # NONE /\ Allowed(row.policy, c)
          THEN use' = [use EXCEPT ![u] = [NoUse EXCEPT !.pc = "row", !.cap = c, !.policy = row.policy]]
          ELSE Deny(u)
    BY <1>2 DEF Begin
  <2>2. ASSUME row # NONE PROVE [NoUse EXCEPT !.pc = "row", !.cap = c, !.policy = row.policy] \in UseRec
    <3>1. row.policy \in Policies
      BY <2>2 DEF IInv, Typed, Entries
    <3> QED
      BY <1>0, <3>1 DEF UseRec
  <2> QED
    BY <1>1, <2>1, <2>2 DEF Deny, IInv, Typed
<1>3. CASE Open(u)
  <2>1. ASSUME row # NONE PROVE [[use[u] EXCEPT !.pc = "released"] EXCEPT !.value = row.value] \in UseRec
    <3>1. row.value \in Values
      BY <2>1 DEF IInv, Typed, Entries
    <3> QED
      BY <1>0, <3>1 DEF UseRec
  <2> QED
    BY <1>1, <1>3, <2>1 DEF Open, Deny, IInv, Typed
<1> QED
  BY <1>2, <1>3

LEMMA LoseMoves ==
    ASSUME IInv, Lose
    PROVE  req' \in [Requests -> ReqRec]
<1>1. NoReq \in ReqRec
  BY DEF NoReq, ReqRec
<1>2. [NoReq EXCEPT !.pc = "done"] \in ReqRec
  BY <1>1 DEF ReqRec
<1> QED
  BY <1>2 DEF Lose, IInv, Typed

-----------------------------------------------------------------------------
(* The parts of the invariant.                                             *)

LEMMA RowHolds == ASSUME ConstantsOK, IInv, Next PROVE row' \in Entries \cup {NONE} /\ RowInv'
<1>1. RowSteps
  BY RowMoves
<1>2. CASE UNCHANGED <<row, law>>
  BY <1>2 DEF IInv, Typed, RowInv
<1>3. CASE row' = NONE
  BY <1>3 DEF RowInv
<1>4. ASSUME NEW p \in Policies, NEW v \in Values, Puts(p, v) PROVE row' \in Entries \cup {NONE} /\ RowInv'
  BY <1>4 DEF Puts, Put, Booked, RowInv, IInv, Typed, Entries
<1> QED
  BY <1>1, <1>2, <1>3, <1>4 DEF RowSteps

LEMMA KeysTyped ==
    ASSUME ConstantsOK, IInv, Next
    PROVE  /\ keys' \in Nat /\ kek' \in 0..keys' /\ recov' \in 0..keys' /\ keys <= keys'
           /\ locked' \in BOOLEAN /\ env' \in BOOLEAN /\ script' \in ScriptRec
           /\ count' \in [script : Nat, faults : Nat]
<1>0. /\ keys \in Nat /\ kek \in 0..keys /\ recov \in 0..keys /\ locked \in BOOLEAN /\ env \in BOOLEAN
      /\ script \in ScriptRec /\ count \in [script : Nat, faults : Nat]
  BY DEF IInv, Typed
<1>1. NoScript \in ScriptRec /\ script.key \in Nat
  BY <1>0 DEF NoScript, ScriptRec
<1>2. \A pc \in {"init", "recovery", "migrate", "strip"} :
        Command(pc) => script' \in ScriptRec /\ count' \in [script : Nat, faults : Nat]
  <2> SUFFICES ASSUME NEW pc \in {"init", "recovery", "migrate", "strip"}, Command(pc)
               PROVE  script' \in ScriptRec /\ count' \in [script : Nat, faults : Nat]
    OBVIOUS
  <2> DEFINE p == IF row = NONE THEN NONE ELSE row.policy
  <2>1. p \in Policies \cup {NONE} /\ kek \in Nat
    BY <1>0 DEF IInv, Typed, Entries
  <2>2. script' = [NoScript EXCEPT !.pc = pc, !.policy = p, !.key = kek]
    BY DEF Command
  <2>3. count' \in [script : Nat, faults : Nat]
    BY <1>0 DEF Command
  <2> HIDE DEF p
  <2> QED
    BY <1>1, <2>1, <2>2, <2>3 DEF ScriptRec
<1>3. Fault => count' \in [script : Nat, faults : Nat]
  BY <1>0 DEF Fault
<1>4. CASE \E r \in Requests : Change(r) \/ Expire(r)
  <2>1. UNCHANGED <<keys, kek, recov, locked, env, script, count>>
    BY <1>4, ChangeFrame DEF Expire
  <2> QED
    BY <1>0, <2>1
<1>5. CASE \E u \in Uses : Begin(u) \/ Open(u)
  <2>1. UNCHANGED <<keys, kek, recov, locked, env, script, count>>
    BY <1>5 DEF Begin, Open, Frame
  <2> QED
    BY <1>0, <2>1
<1>6. CASE InitWrite
  BY <1>0, <1>1, <1>6 DEF InitWrite, Finish
<1>7. CASE RecoveryWrite
  <2>1. script.key = kek
    BY <1>7 DEF RecoveryWrite, IInv, KeyInv
  <2> QED
    BY <1>0, <1>1, <1>7, <2>1 DEF RecoveryWrite, Finish
<1>8. CASE InitBegin \/ RecoveryBegin \/ MigrateBegin \/ RetireBegin
  <2>1. UNCHANGED <<keys, kek, recov, locked, env>>
    BY <1>8 DEF InitBegin, RecoveryBegin, MigrateBegin, RetireBegin
  <2>2. \E pc \in {"init", "recovery", "migrate", "strip"} : Command(pc)
    BY <1>8 DEF InitBegin, RecoveryBegin, MigrateBegin, RetireBegin
  <2> QED
    BY <1>0, <1>2, <2>1, <2>2
<1>9. CASE MigratePut \/ RetireStrip
  <2>1. UNCHANGED <<keys, kek, recov, locked, count>> /\ script' = NoScript
    BY <1>9 DEF MigratePut, RetireStrip, Finish
  <2>2. env' \in BOOLEAN
    <3>1. MigratePut => env' = env
      BY Zenon DEF MigratePut
    <3>2. RetireStrip => env' = FALSE
      BY Zenon DEF RetireStrip
    <3> QED
      BY <1>0, <1>9, <3>1, <3>2
  <2> QED
    BY <1>0, <1>1, <2>1, <2>2
<1>10. CASE Lock \/ Unlock
  <2>1. UNCHANGED <<keys, kek, recov, env, script>> /\ (Fault \/ UNCHANGED count)
    BY <1>10 DEF Lock, Unlock
  <2>2. locked' \in BOOLEAN
    BY <1>10, Zenon DEF Lock, Unlock
  <2> QED
    BY <1>0, <1>3, <2>1, <2>2
<1>11. CASE Lose \/ Install
  BY <1>0, <1>1, <1>3, <1>11 DEF Lose, Install
<1> QED
  BY <1>4, <1>5, <1>6, <1>7, <1>8, <1>9, <1>10, <1>11 DEF Next, Script

LEMMA SlotsTyped ==
    ASSUME ConstantsOK, IInv, Next
    PROVE  DOMAIN slots' \subseteq Requests /\ \A s \in DOMAIN slots' : slots'[s].device \in Devices
<1>0. DOMAIN slots \subseteq Requests /\ \A s \in DOMAIN slots : slots[s].device \in Devices
  BY DEF IInv, Typed
<1>1. ASSUME NEW r \in Requests, Spend(r)
      PROVE  DOMAIN slots' \subseteq Requests /\ \A s \in DOMAIN slots' : slots'[s].device \in Devices
  BY <1>0, <1>1 DEF Spend
<1>2. ASSUME NEW r \in Requests, NEW d \in Devices, Stage(r, d)
      PROVE  DOMAIN slots' \subseteq Requests /\ \A s \in DOMAIN slots' : slots'[s].device \in Devices
  BY <1>0, <1>2 DEF Stage
<1>3. ASSUME NEW r \in Requests, Change(r) \/ Expire(r)
      PROVE  slots' = slots \/ Spend(r) \/ \E d \in Devices : Stage(r, d)
  BY <1>3, Zenon DEF Change, Ask, Answer, KnockRefused, Knock, Lapsed, Read, ReadRefused, Delete, Reseal, ResealRefused,
     Store, StoreRefused, Expire
<1>4. CASE Lose
  BY <1>4 DEF Lose
<1>5. CASE \E r \in Requests : Change(r) \/ Expire(r)
  BY <1>0, <1>1, <1>2, <1>3, <1>5
<1> QED
  BY <1>0, <1>4, <1>5 DEF Next, Begin, Open, Frame, Script, InitBegin, InitWrite, RecoveryBegin,
     RecoveryWrite, MigrateBegin, MigratePut, RetireBegin, RetireStrip, Lock, Unlock, Install

LEMMA TypedHolds == ASSUME ConstantsOK, IInv, Next PROVE Typed'
<1>1. req' \in [Requests -> ReqRec]
  <2>1. req \in [Requests -> ReqRec]
    BY DEF IInv, Typed
  <2>2. ASSUME NEW r \in Requests, Change(r) PROVE req' \in [Requests -> ReqRec]
    BY <2>1, <2>2, ReqMoves DEF Moves
  <2> QED
    BY <2>1, <2>2, LoseMoves DEF Next, Expire, Begin, Open, Frame, Script, InitBegin, InitWrite, RecoveryBegin,
       RecoveryWrite, MigrateBegin, MigratePut, RetireBegin, RetireStrip, Lock, Unlock, Install
<1>2. use' \in [Uses -> UseRec]
  <2>1. use \in [Uses -> UseRec]
    BY DEF IInv, Typed
  <2>2. ASSUME NEW u \in Uses, Begin(u) \/ Open(u) PROVE use' \in [Uses -> UseRec]
    BY <2>1, <2>2, UseMoves
  <2> QED
    BY <2>1, <2>2, ChangeFrame DEF Next, Expire, Script, InitBegin, InitWrite, RecoveryBegin,
       RecoveryWrite, MigrateBegin, MigratePut, RetireBegin, RetireStrip, Lock, Unlock, Lose, Install
<1> QED
  BY <1>1, <1>2, RowHolds, KeysTyped, SlotsTyped DEF Typed

\* While a command of the owner makes a key, nothing is put; a key that is read is the one there.
LEMMA KeyHolds == ASSUME ConstantsOK, IInv, Next PROVE KeyInv'
<1>0. /\ keys \in Nat /\ kek \in 0..keys /\ recov \in 0..keys /\ script \in ScriptRec /\ script.key \in Nat
      /\ row # NONE => row \in Entries /\ row.key \in Nat
  BY DEF IInv, Typed, ScriptRec, Entries
<1>1. /\ kek # 0 => recov <= kek
      /\ row # NONE => row.key \in 1..keys /\ recov <= row.key /\ kek \in {0, row.key, recov}
      /\ script.pc = "init" => kek = 0 /\ row = NONE
      /\ script.pc = "recovery" => kek # 0 /\ script.key = kek
  BY DEF IInv, KeyInv
<1>2. CASE UNCHANGED <<row, kek, keys, recov, script>>
  BY <1>1, <1>2 DEF KeyInv
<1>3. CASE UNCHANGED <<kek, keys, recov>> /\ script' \in {script, NoScript} /\ RowSteps
  <2>1. script'.pc \in {"init", "recovery"} => script' = script
    BY <1>3 DEF NoScript
  <2>2. CASE row' = NONE \/ row' = row
    BY <1>1, <1>3, <2>1, <2>2 DEF KeyInv
  <2>3. ASSUME NEW p \in Policies, NEW v \in Values, Puts(p, v) PROVE KeyInv'
    <3>1. row'.key = kek /\ kek # 0
      BY <2>3 DEF Puts, Put, Readable
    <3> QED
      BY <1>0, <1>1, <1>3, <2>1, <3>1 DEF KeyInv
  <2> QED
    BY <1>3, <2>2, <2>3 DEF RowSteps
<1>4. CASE InitBegin \/ RecoveryBegin \/ MigrateBegin \/ RetireBegin
  <2>1. UNCHANGED <<row, kek, keys, recov>> /\ script'.key = kek
    BY <1>4 DEF InitBegin, RecoveryBegin, MigrateBegin, RetireBegin, Command, NoScript
  <2>2. script'.pc = "init" => kek = 0 /\ row = NONE
    BY <1>4 DEF InitBegin, RecoveryBegin, MigrateBegin, RetireBegin, Command, NoScript, MayInitialize
  <2>3. script'.pc = "recovery" => kek # 0
    BY <1>4 DEF InitBegin, RecoveryBegin, MigrateBegin, RetireBegin, Command, NoScript, Readable
  <2> QED
    BY <1>1, <2>1, <2>2, <2>3 DEF KeyInv
<1>5. CASE InitWrite
  <2>1. row' = row /\ recov' = recov /\ script'.pc = "idle" /\ row = NONE /\ kek = 0
    BY <1>1, <1>5 DEF InitWrite, Finish, NoScript
  <2>2. kek' = kek \/ kek' = keys + 1
    BY <1>5 DEF InitWrite
  <2> QED
    BY <1>0, <1>1, <2>1, <2>2 DEF KeyInv
<1>6. CASE RecoveryWrite
  <2>1. UNCHANGED <<row, kek, keys>> /\ recov' = kek /\ kek # 0 /\ script'.pc = "idle"
    BY <1>1, <1>6 DEF RecoveryWrite, Finish, NoScript
  <2> QED
    BY <1>0, <1>1, <2>1 DEF KeyInv
<1>7. CASE Lose \/ Install
  <2>1. UNCHANGED <<row, keys, recov>> /\ kek' \in {0, recov}
    BY <1>7 DEF Lose, Install
  <2>2. script'.pc = "idle"
    BY <1>7 DEF Lose, Install, NoScript
  <2> QED
    BY <1>0, <1>1, <2>1, <2>2 DEF KeyInv
<1>8. CASE \E r \in Requests : Change(r) \/ Expire(r)
  <2>1. UNCHANGED <<kek, keys, recov, script>>
    BY <1>8, ChangeFrame DEF Expire
  <2> QED
    BY <1>3, <2>1, RowMoves
<1>9. CASE MigratePut \/ RetireStrip
  <2>1. UNCHANGED <<kek, keys, recov>> /\ script' = NoScript
    BY <1>9 DEF MigratePut, RetireStrip, Finish
  <2> QED
    BY <1>3, <2>1, RowMoves
<1> QED
  BY <1>2, <1>4, <1>5, <1>6, <1>7, <1>8, <1>9 DEF Next, Begin, Open, Frame, Script, Lock, Unlock

\* One request moves, and the others keep what they rely on.
LEMMA ReliesHolds == ASSUME ConstantsOK, IInv, Next PROVE (\A r \in Requests : Relies(r))'
<1>0. req \in [Requests -> ReqRec] /\ \A r \in Requests : Relies(r)
  BY DEF IInv, Typed
<1>1. CASE UNCHANGED req
  BY <1>0, <1>1 DEF Relies
<1>2. ASSUME NEW r \in Requests, NEW new \in ReqRec, Moves(r, new),
             /\ new.pc \notin {"idle", "done"} => new.op \in Ops /\ new.device \in Devices
             /\ new.by \in {NONE, new.device}
             /\ new.pc \in {"sealed", "put"} => new.next \in Policies /\ new.next.version >= 1
             /\ new.pc = "read" /\ new.op \in NeedsValue => new.value = r
             /\ new.pc = "put" => new.value \in Values
      PROVE  (\A q \in Requests : Relies(q))'
  <2>1. req'[r] = new /\ \A q \in Requests : q # r => req'[q] = req[q]
    BY <1>0, <1>2 DEF Moves
  <2>2. Relies(r)'
    BY <1>2, <2>1 DEF Relies
  <2>3. \A q \in Requests : q # r => Relies(q)'
    BY <1>0, <2>1 DEF Relies
  <2> QED
    BY <2>2, <2>3
<1>3. ASSUME NEW r \in Requests, Change(r) PROVE (\A q \in Requests : Relies(q))'
  <2>0. req[r] \in ReqRec /\ Relies(r) /\ NoReq \in ReqRec
    BY <1>0 DEF NoReq, ReqRec
  <2> DEFINE gone == [NoReq EXCEPT !.pc = "done"]
  <2>1. gone \in ReqRec /\ gone.pc = "done" /\ gone.by = NONE
    BY <2>0 DEF ReqRec, NoReq
  <2>2. CASE Done(r)
    <3>1. Moves(r, gone)
      BY <2>2 DEF Done, Moves
    <3> HIDE DEF gone
    <3> QED
      BY <1>2, <2>1, <3>1
  <2>3. CASE Ask(r)
    <3>1. PICK op \in Ops, d \in Devices, sc \in Scopes :
            req' = [req EXCEPT ![r] = [NoReq EXCEPT !.pc = "asked", !.op = op, !.device = d, !.scope = sc,
                                         !.expect = Version, !.seen = IF row = NONE THEN NONE ELSE row.policy]]
      BY <2>3 DEF Ask
    <3>2. req'[r].pc = "asked" /\ req'[r].op = op /\ req'[r].device = d /\ req'[r].by = NONE
      BY <1>0, <3>1 DEF NoReq
    <3> QED
      BY <1>2, <1>3, <3>2, ReqMoves, <1>0 DEF Moves
  <2>4. CASE Answer(r)
    <3>1. PICK a \in {"yes", "refused"} : req' = [req EXCEPT ![r].approved = a]
      BY <2>4 DEF Answer
    <3>2. req'[r] = [req[r] EXCEPT !.approved = a] /\ req[r].pc = "asked"
      BY <1>0, <3>1, <2>4 DEF Answer
    <3>3. req'[r].pc = "asked" /\ req'[r].op = req[r].op /\ req'[r].device = req[r].device /\ req'[r].by = req[r].by
      BY <2>0, <3>2 DEF ReqRec
    <3>4. PICK new \in ReqRec : Moves(r, new)
      BY <1>3, ReqMoves
    <3>5. new = req'[r]
      BY <1>0, <3>4 DEF Moves
    <3>6. req[r].op \in Ops /\ req[r].device \in Devices /\ req[r].by \in {NONE, req[r].device}
      BY <2>0, <3>2 DEF Relies
    <3> QED
      BY <1>2, <3>3, <3>4, <3>5, <3>6
  <2>5. CASE Knock(r) /\ ~Done(r)
    <3>1. PICK d \in Devices :
            IF req[r].op \in NeedsValue
            THEN Peek(r, d) /\ req' = [req EXCEPT ![r].by = d, ![r].value = r, ![r].pc = "read"]
            ELSE req' = [req EXCEPT ![r].pc = "read"]
      BY <2>5 DEF Knock
    <3>2. req[r].pc = "asked" /\ req'[r].pc = "read" /\ req'[r].op = req[r].op /\ req'[r].device = req[r].device
      BY <1>0, <2>0, <2>5, <3>1 DEF Knock, ReqRec
    <3>3. req[r].op \in NeedsValue => req'[r].value = r /\ req'[r].by = d /\ slots[r].device = d /\ r \in DOMAIN slots
      BY <1>0, <2>0, <3>1 DEF ReqRec, Peek
    <3>4. req[r].op \notin NeedsValue => req'[r].by = req[r].by
      BY <1>0, <2>0, <3>1 DEF ReqRec
    <3>5. req'[r].by \in {NONE, req'[r].device}
      BY <2>0, <3>2, <3>3, <3>4 DEF IInv, FreshInv, Relies
    <3> QED
      BY <1>2, <1>3, <2>0, <3>2, <3>3, <3>5, ReqMoves, <1>0 DEF Moves, Relies
  <2>6. CASE Read(r)
    <3> DEFINE p == IF row = NONE THEN NONE ELSE row.policy
               f == Following(r, p)
               pc == IF req[r].op \in NeedsValue THEN "put" ELSE "sealed"
    <3>1. f \in Policies /\ f.version >= 1
      BY <2>6, FollowingTyped DEF Read
    <3>2. req' = [req EXCEPT ![r].policy = p, ![r].next = f, ![r].pc = pc] /\ req[r].pc = "read"
      BY <2>6 DEF Read
    <3>3. (pc = "put" /\ req[r].op \in NeedsValue) \/ pc = "sealed"
      OBVIOUS
    <3> HIDE DEF p, f, pc
    <3>4. /\ req'[r].pc = pc /\ req'[r].op = req[r].op /\ req'[r].device = req[r].device
          /\ req'[r].by = req[r].by /\ req'[r].value = req[r].value /\ req'[r].next = f
      BY <1>0, <2>0, <3>2 DEF ReqRec
    <3>5. r \in Values
      BY DEF Values
    <3> QED
      BY <1>2, <1>3, <2>0, <3>1, <3>2, <3>3, <3>4, <3>5, ReqMoves, <1>0 DEF Moves, Relies
  <2>7. CASE Reseal(r)
    <3>1. row.value \in Values
      BY <2>7 DEF Reseal, IInv, Typed, Entries
    <3>2. req' = [req EXCEPT ![r].value = row.value, ![r].pc = "put"] /\ req[r].pc = "sealed"
      BY <2>7 DEF Reseal
    <3>3. /\ req'[r].pc = "put" /\ req'[r].op = req[r].op /\ req'[r].device = req[r].device
          /\ req'[r].by = req[r].by /\ req'[r].value = row.value /\ req'[r].next = req[r].next
      BY <1>0, <2>0, <3>2 DEF ReqRec
    <3> QED
      BY <1>2, <1>3, <2>0, <3>1, <3>2, <3>3, ReqMoves, <1>0 DEF Moves, Relies
  <2> QED
    BY <1>3, <2>2, <2>3, <2>4, <2>5, <2>6, <2>7 DEF Change, KnockRefused, Lapsed, ReadRefused, Delete,
       ResealRefused, Store, StoreRefused
<1>4. CASE Lose
  <2>1. \A r \in Requests : req'[r] = req[r] \/ (req'[r].pc = "done" /\ req'[r].by = NONE)
    BY <1>4 DEF Lose, NoReq
  <2> QED
    BY <1>0, <2>1 DEF Relies
<1> QED
  BY <1>1, <1>3, <1>4 DEF Next, Expire, Begin, Open, Frame, Script, InitBegin, InitWrite, RecoveryBegin,
     RecoveryWrite, MigrateBegin, MigratePut, RetireBegin, RetireStrip, Lock, Unlock, Install

\* What one change does to the values: r may come to hold its own, or the one of the entry, and
\* what it holds may come into the entry.
ValuesGo(r) ==
    /\ \/ req'[r].value \in {NONE, req[r].value, r}
       \/ row # NONE /\ req'[r].value = row.value
    /\ req'[r].pc \in {"idle", "asked"} =>
         req[r].pc \in {"idle", "asked"} /\ req'[r].value \in {NONE, req[r].value}
    /\ row' = row \/ row' = NONE \/ row'.value = req[r].value

\* And to the values that wait: those of others stay, its own is that of its device.
SlotsGo(r) ==
    /\ \A s \in DOMAIN slots' : s # r => s \in DOMAIN slots /\ slots'[s] = slots[s]
    /\ r \in DOMAIN slots' =>
         req'[r].pc = "asked" /\ req'[r].op \in NeedsValue /\ slots'[r].device = req'[r].device

LEMMA ValuesMove == ASSUME ConstantsOK, IInv, NEW r \in Requests, Change(r) PROVE ValuesGo(r)
<1>0. req \in [Requests -> ReqRec] /\ req[r] \in ReqRec
  BY DEF IInv, Typed
<1> DEFINE gone == [NoReq EXCEPT !.pc = "done"]
<1>1. gone.pc = "done" /\ gone.value = NONE
  BY DEF NoReq
<1>2. Done(r) => req'[r].pc = "done" /\ req'[r].value = NONE
  <2> HIDE DEF gone
  <2>1. Done(r) => req'[r] = gone
    BY <1>0 DEF Done, gone
  <2> QED
    BY <1>1, <2>1
<1>3. CASE Done(r)
  <2>1. row' = row \/ row' = NONE \/ row'.value = req[r].value
    <3>1. CASE Store(r)
      BY <3>1 DEF Store, Put
    <3> QED
      BY <3>1, <1>3, Zenon DEF Change, Ask, Answer, KnockRefused, Knock, Lapsed, Read, ReadRefused, Delete, Reseal,
         ResealRefused, StoreRefused
  <2> QED
    BY <1>2, <1>3, <2>1 DEF ValuesGo
<1>4. CASE Ask(r)
  <2>1. PICK op \in Ops, d \in Devices, sc \in Scopes :
          req' = [req EXCEPT ![r] = [NoReq EXCEPT !.pc = "asked", !.op = op, !.device = d, !.scope = sc,
                                       !.expect = Version, !.seen = IF row = NONE THEN NONE ELSE row.policy]]
    BY <1>4 DEF Ask
  <2>2. req'[r].value = NONE
    BY <1>0, <2>1 DEF NoReq
  <2>3. req[r].pc = "idle" /\ row' = row
    BY <1>4 DEF Ask
  <2> QED
    BY <2>2, <2>3 DEF ValuesGo
<1>5. CASE Answer(r)
  <2>1. PICK a \in {"yes", "refused"} : req' = [req EXCEPT ![r].approved = a]
    BY <1>5 DEF Answer
  <2>2. req'[r].value = req[r].value /\ req[r].pc = "asked" /\ row' = row
    BY <1>0, <1>5, <2>1 DEF Answer, ReqRec
  <2> QED
    BY <2>2 DEF ValuesGo
<1>6. CASE Knock(r) /\ ~Done(r)
  <2>1. PICK d \in Devices :
          IF req[r].op \in NeedsValue
          THEN req' = [req EXCEPT ![r].by = d, ![r].value = r, ![r].pc = "read"]
          ELSE req' = [req EXCEPT ![r].pc = "read"]
    BY <1>6 DEF Knock
  <2>2. req'[r].pc = "read" /\ req'[r].value \in {r, req[r].value} /\ row' = row
    BY <1>0, <1>6, <2>1 DEF Knock, ReqRec
  <2> QED
    BY <2>2 DEF ValuesGo
<1>7. CASE Read(r)
  <2> DEFINE p == IF row = NONE THEN NONE ELSE row.policy
             f == Following(r, p)
             pc == IF req[r].op \in NeedsValue THEN "put" ELSE "sealed"
  <2>1. req' = [req EXCEPT ![r].policy = p, ![r].next = f, ![r].pc = pc] /\ row' = row
    BY <1>7 DEF Read
  <2>2. pc \in {"put", "sealed"}
    OBVIOUS
  <2> HIDE DEF p, f, pc
  <2>3. req'[r].pc = pc /\ req'[r].value = req[r].value
    BY <1>0, <2>1 DEF ReqRec
  <2> QED
    BY <2>1, <2>2, <2>3 DEF ValuesGo
<1>8. CASE Reseal(r)
  <2>1. req'[r].pc = "put" /\ req'[r].value = row.value /\ row # NONE /\ row' = row
    BY <1>0, <1>8 DEF Reseal, ReqRec
  <2> QED
    BY <2>1 DEF ValuesGo
<1> QED
  BY <1>3, <1>4, <1>5, <1>6, <1>7, <1>8, Zenon DEF Change, KnockRefused, Lapsed, ReadRefused, Delete, ResealRefused,
     Store, StoreRefused

LEMMA SlotsMove == ASSUME ConstantsOK, IInv, NEW r \in Requests, Change(r) PROVE SlotsGo(r)
<1>0. req \in [Requests -> ReqRec] /\ req[r] \in ReqRec
  BY DEF IInv, Typed
<1>1. r \in DOMAIN slots => req[r].pc = "asked" /\ req[r].op \in NeedsValue /\ slots[r].device = req[r].device
  BY DEF IInv, FreshInv
<1>2. Spend(r) => SlotsGo(r)
  BY DEF Spend, SlotsGo
<1>3. slots' = slots /\ r \notin DOMAIN slots => SlotsGo(r)
  BY DEF SlotsGo
<1>4. CASE Ask(r)
  <2>1. PICK op \in Ops, d \in Devices, sc \in Scopes :
          /\ IF op \in NeedsValue THEN Stage(r, d) ELSE slots' = slots
          /\ req' = [req EXCEPT ![r] = [NoReq EXCEPT !.pc = "asked", !.op = op, !.device = d, !.scope = sc,
                                          !.expect = Version, !.seen = IF row = NONE THEN NONE ELSE row.policy]]
    BY <1>4 DEF Ask
  <2>2. req'[r].pc = "asked" /\ req'[r].op = op /\ req'[r].device = d
    BY <1>0, <2>1 DEF NoReq
  <2>3. r \notin DOMAIN slots
    BY <1>1, <1>4 DEF Ask
  <2>4. CASE Stage(r, d) /\ op \in NeedsValue
    BY <2>2, <2>4 DEF Stage, SlotsGo
  <2> QED
    BY <1>3, <2>1, <2>3, <2>4
<1>5. CASE Answer(r)
  <2>1. PICK a \in {"yes", "refused"} : req' = [req EXCEPT ![r].approved = a]
    BY <1>5 DEF Answer
  <2>2. req'[r].pc = req[r].pc /\ req'[r].op = req[r].op /\ req'[r].device = req[r].device /\ slots' = slots
    BY <1>0, <1>5, <2>1 DEF Answer, ReqRec
  <2> QED
    BY <1>1, <2>2 DEF SlotsGo
<1>6. CASE KnockRefused(r)
  BY <1>2, <1>6 DEF KnockRefused
<1>7. CASE Knock(r)
  <2>1. Spend(r) \/ (slots' = slots /\ req[r].op \notin NeedsValue)
    BY <1>7 DEF Knock
  <2> QED
    BY <1>1, <1>2, <1>3, <2>1
<1>8. CASE Lapsed(r)
  BY <1>3, <1>8 DEF Lapsed
<1>9. CASE req[r].pc # "asked" /\ slots' = slots
  BY <1>1, <1>3, <1>9
<1> QED
  BY <1>4, <1>5, <1>6, <1>7, <1>8, <1>9 DEF Change, Read, ReadRefused, Delete, Reseal, ResealRefused, Store, StoreRefused

LEMMA FreshHolds == ASSUME ConstantsOK, IInv, Next PROVE FreshInv'
<1>0. req \in [Requests -> ReqRec] /\ (\A r \in Requests : NONE # r /\ r # "env") /\ DOMAIN slots \subseteq Requests
  BY DEF IInv, Typed, ConstantsOK, Values
<1>1. /\ \A s \in DOMAIN slots : /\ req[s].pc = "asked" /\ req[s].op \in NeedsValue /\ slots[s].device = req[s].device
      /\ \A r \in Requests : req[r].pc \in {"idle", "asked"} => Unseen(r)
  BY DEF IInv, FreshInv
<1>2. ASSUME NEW r \in Requests, Change(r) PROVE FreshInv'
  <2>1. ValuesGo(r) /\ SlotsGo(r) /\ \A q \in Requests : q # r => req'[q] = req[q]
    BY <1>0, <1>2, ValuesMove, SlotsMove, ReqMoves DEF Moves
  <2>2. ASSUME NEW s \in DOMAIN slots'
        PROVE  req'[s].pc = "asked" /\ req'[s].op \in NeedsValue /\ slots'[s].device = req'[s].device
    BY <1>0, <1>1, <2>1, <2>2 DEF SlotsGo
  <2>3. ASSUME NEW q \in Requests, req'[q].pc \in {"idle", "asked"} PROVE Unseen(q)'
    <3>1. Unseen(q)
      BY <1>1, <2>1, <2>3 DEF ValuesGo
    <3>2. row' # NONE => row'.value # q
      BY <2>1, <3>1 DEF ValuesGo, Unseen
    <3>3. req'[r].value # q
      BY <1>0, <2>1, <2>3, <3>1 DEF ValuesGo, Unseen
    <3> QED
      BY <2>1, <3>1, <3>2, <3>3 DEF Unseen
  <2> QED
    BY <2>2, <2>3 DEF FreshInv
<1>3. ASSUME NEW r \in Requests, Expire(r) PROVE FreshInv'
  BY <1>1, <1>3 DEF Expire, Spend, FreshInv, Unseen
<1>4. CASE MigratePut
  <2>1. UNCHANGED <<slots, req>> /\ (row' = row \/ row'.value = "env")
    BY <1>4 DEF MigratePut, Put
  <2> QED
    BY <1>0, <1>1, <2>1 DEF FreshInv, Unseen
<1>5. CASE Lose
  <2>1. DOMAIN slots' = {} /\ row' = row
    BY <1>5 DEF Lose
  <2>2. \A r \in Requests : req'[r] = req[r] \/ (req'[r].pc = "done" /\ req'[r].value = NONE)
    BY <1>5 DEF Lose, NoReq
  <2> QED
    BY <1>0, <1>1, <2>1, <2>2 DEF FreshInv, Unseen
<1>6. CASE UNCHANGED <<row, slots, req>>
  BY <1>1, <1>6 DEF FreshInv, Unseen
<1> QED
  BY <1>2, <1>3, <1>4, <1>5, <1>6 DEF Next, Begin, Open, Frame, Script, InitBegin, InitWrite, RecoveryBegin,
     RecoveryWrite, MigrateBegin, RetireBegin, RetireStrip, Lock, Unlock, Install

\* What was put stays in the history.
LEMMA LawGrows == ASSUME ConstantsOK, IInv, Next PROVE law \subseteq law'
  BY RowMoves DEF RowSteps, Puts, Booked

\* A use that goes on reads one row for its policy and another for the envelope.
LEMMA UsesHold == ASSUME ConstantsOK, IInv, Next PROVE (\A u \in Uses : UseSound(u))'
<1>0. use \in [Uses -> UseRec] /\ (\A u \in Uses : UseSound(u)) /\ law \subseteq law'
  BY LawGrows DEF IInv, Typed
<1>1. CASE UNCHANGED use
  BY <1>0, <1>1 DEF UseSound
<1>2. ASSUME NEW u \in Uses, Begin(u) \/ Open(u) PROVE (\A v \in Uses : UseSound(v))'
  <2>0. use[u] \in UseRec /\ law' = law
    <3>1. use[u] \in UseRec
      BY <1>0
    <3>2. law' = law
      BY <1>2 DEF Begin, Open, Frame
    <3> QED
      BY <3>1, <3>2
  <2>1. \A v \in Uses : v # u => use'[v] = use[v]
    BY <1>0, <1>2, UseMoves
  <2>2. CASE Deny(u)
    <3>1. use'[u].pc = "denied"
      BY <1>0, <2>0, <2>2 DEF Deny, UseRec
    <3> QED
      BY <1>0, <2>0, <2>1, <3>1 DEF UseSound
  <2>3. CASE Begin(u) /\ ~Deny(u)
    <3>1. PICK c \in Caps :
            /\ row # NONE /\ Allowed(row.policy, c)
            /\ use' = [use EXCEPT ![u] = [NoUse EXCEPT !.pc = "row", !.cap = c, !.policy = row.policy]]
      BY <2>3 DEF Begin
    <3>2. use'[u].pc = "row" /\ use'[u].cap = c /\ use'[u].policy = row.policy
      BY <1>0, <3>1 DEF NoUse
    <3>3. row.policy \in Policies
      BY <3>1 DEF IInv, Typed, Entries
    <3> QED
      BY <1>0, <2>0, <2>1, <3>1, <3>2, <3>3 DEF UseSound
  <2>4. CASE Open(u) /\ ~Deny(u)
    <3>1. /\ use[u].pc = "row" /\ row # NONE /\ Opens(row, use[u].policy)
          /\ use' = [use EXCEPT ![u].pc = "released", ![u].value = row.value]
      BY <2>4 DEF Open
    <3>2. use'[u].pc = "released" /\ use'[u].cap = use[u].cap /\ use'[u].policy = use[u].policy /\ use'[u].value = row.value
      BY <1>0, <2>0, <3>1 DEF UseRec
    <3>3. <<use[u].policy, row.value>> \in law
      BY <3>1 DEF Opens, IInv, RowInv
    <3> QED
      BY <1>0, <2>0, <2>1, <3>1, <3>2, <3>3 DEF UseSound
  <2> QED
    BY <1>2, <2>2, <2>3, <2>4
<1> QED
  BY <1>1, <1>2, ChangeFrame DEF Next, Expire, Script, InitBegin, InitWrite, RecoveryBegin,
     RecoveryWrite, MigrateBegin, MigratePut, RetireBegin, RetireStrip, Lock, Unlock, Lose, Install

LEMMA PlainHolds == ASSUME ConstantsOK, IInv, Next PROVE PlainInv'
<1>0. law \subseteq law' /\ (Carried => Carried')
  <2>1. law \subseteq law'
    BY LawGrows
  <2> QED
    BY <2>1 DEF Carried
<1>1. (script.pc = "strip" \/ ~env) => Carried'
  BY <1>0 DEF IInv, PlainInv
<1>2. CASE RetireBegin
  <2>1. Carries /\ law' = law
    BY <1>2 DEF RetireBegin
  <2>2. Carried'
    BY <2>1 DEF Carries, Carried, IInv, RowInv, Typed, Entries
  <2> QED
    BY <2>2 DEF PlainInv
<1>3. CASE RetireStrip
  BY <1>1, <1>3 DEF RetireStrip, PlainInv
<1>4. CASE UNCHANGED <<env, script>>
  BY <1>1, <1>4 DEF PlainInv
<1>5. CASE env' = env /\ script'.pc # "strip"
  BY <1>1, <1>5 DEF PlainInv
<1>6. CASE InitBegin \/ RecoveryBegin \/ MigrateBegin
  <2>1. script'.pc # "strip" /\ env' = env
    BY <1>6 DEF InitBegin, RecoveryBegin, MigrateBegin, Command, NoScript
  <2> QED
    BY <1>5, <2>1
<1>7. CASE InitWrite \/ RecoveryWrite \/ MigratePut \/ Lose
  <2>1. script'.pc # "strip" /\ env' = env
    BY <1>7 DEF InitWrite, RecoveryWrite, MigratePut, Lose, Finish, NoScript
  <2> QED
    BY <1>5, <2>1
<1> QED
  BY <1>2, <1>3, <1>4, <1>6, <1>7, ChangeFrame DEF Next, Expire, Begin, Open, Frame, Script, Lock, Unlock, Install

LEMMA Invariance == ASSUME ConstantsOK PROVE Spec => []IInv
<1>1. Init => IInv
  BY TypedInit
<1>2. IInv /\ [Next]_vars => IInv'
  <2>1. CASE IInv /\ Next
    BY <2>1, TypedHolds, RowHolds, KeyHolds, ReliesHolds, FreshHolds, UsesHold, PlainHolds, Zenon DEF IInv
  <2>2. CASE IInv /\ UNCHANGED vars
    BY <2>2 DEF IInv, vars, Typed, RowInv, KeyInv, Relies, FreshInv, Unseen, UseSound, PlainInv, Carried, Allowed
  <2> QED
    BY <2>1, <2>2
<1> QED
  BY <1>1, <1>2, PTL DEF Spec

-----------------------------------------------------------------------------
(* What holds.                                                             *)

\* Rows, keys, requests, uses and commands are well typed (store.py, keyring.py, endpoint.py).
THEOREM TypeCorrect == ASSUME ConstantsOK PROVE Spec => []TypeOK
<1>1. IInv => TypeOK
  BY DEF IInv, TypeOK, Typed, KeyInv, Entries, ReqRec, UseRec, ScriptRec
<1> QED
  BY <1>1, Invariance, PTL

\* What a use gets out is a value put under the very policy that allowed the use, whatever was
\* changed between the two reads of SecretBroker._open (broker.py:259).
THEOREM ReleasedAsAllowed == ASSUME ConstantsOK PROVE Spec => []ReleasedUnderItsPolicy
<1>1. IInv => ReleasedUnderItsPolicy
  BY DEF IInv, ReleasedUnderItsPolicy, UseSound, Allowed
<1> QED
  BY <1>1, Invariance, PTL

\* The envelope beside a policy was sealed under it: put writes both, over whatever stands there
\* (store.py:222).
THEOREM EnvelopeFits == ASSUME ConstantsOK PROVE Spec => []PolicyFitsEnvelope
<1>1. IInv => PolicyFitsEnvelope
  BY DEF IInv, PolicyFitsEnvelope, RowInv
<1> QED
  BY <1>1, Invariance, PTL

\* A value that waits has not been stored, and is used for the device that sent it (staging.py).
THEOREM StoredOnce == ASSUME ConstantsOK PROVE Spec => []StoredByItsDevice
<1>1. IInv => StoredByItsDevice
  BY DEF IInv, StoredByItsDevice, FreshInv, Unseen, Relies, Typed
<1> QED
  BY <1>1, Invariance, PTL

\* No key is made beside what an older one sealed, however often the keychain is lost and the
\* envelope installed (admin.py:55).
THEOREM NoSecondKey == ASSUME ConstantsOK PROVE Spec => []NoKeyBesideEntries
<1>1. IInv => NoKeyBesideEntries
  BY DEF IInv, NoKeyBesideEntries, KeyInv
<1> QED
  BY <1>1, Invariance, PTL

\* What assess calls healthy can be read and recovered, unless its key is older than the entry's
\* (health.py:42).
THEOREM HealthyIsRecoverable == ASSUME ConstantsOK PROVE Spec => []HealthySurvives
<1>1. IInv => HealthySurvives
  BY DEF IInv, HealthySurvives, Healthy, KeyInv, Typed, Entries
<1> QED
  BY <1>1, Invariance, PTL

\* The line of .env is struck out only when its value was in the vault under an active policy
\* (vault_admin.py:304).
THEOREM PlaintextGoesLast == ASSUME ConstantsOK PROVE Spec => []PlaintextLast
<1>1. IInv => PlaintextLast
  <2> SUFFICES ASSUME IInv, ~env PROVE \E p \in {x[1] : x \in law} : p.status = "active" /\ <<p, "env">> \in law
    BY DEF PlaintextLast
  <2>1. PICK p \in Policies : p.status = "active" /\ <<p, "env">> \in law
    BY DEF IInv, PlainInv, Carried
  <2>2. p \in {x[1] : x \in law}
    BY <2>1
  <2> QED
    BY <2>1, <2>2
<1> QED
  BY <1>1, Invariance, PTL

-----------------------------------------------------------------------------
(* A rescope changes what the human saw.                                   *)

AppOnly == count.script = 0 /\ "delete" \notin Ops
Working(r) == req[r].pc \in {"read", "sealed", "put"}

\* As long as only the app changes entries, the handlers run one after the other, versions rise,
\* and a version names a policy.
Remembers(r) ==
    /\ req[r].pc \in {"asked", "read"} =>
         req[r].expect <= Version /\ (row # NONE /\ req[r].expect = Version => req[r].seen = row.policy)
    /\ req[r].pc \in {"sealed", "put"} =>
         req[r].next.version = Version + 1 /\ (req[r].op = "rescope" => req[r].policy = req[r].seen)
SeenInv == AppOnly =>
    /\ script.pc = "idle"
    /\ \A q, r \in Requests : Working(q) /\ Working(r) => q = r
    /\ \A r \in Requests : Remembers(r)

LEMMA VersionTyped == ASSUME IInv PROVE Version \in Nat /\ (row # NONE => Version >= 1)
  BY DEF IInv, Typed, Entries, Policies, Version, RowInv

LEMMA SeenInit == ASSUME Init PROVE SeenInv
  BY DEF Init, SeenInv, Working, Remembers, NoReq, NoScript

\* A change that leaves the entry alone.
LEMMA SeenMoves ==
    ASSUME ConstantsOK, IInv, SeenInv, AppOnly, NEW r \in Requests, Change(r), row' = row
    PROVE  Remembers(r)' /\ (Working(r)' => Working(r) \/ ~Busy)
<1>0. req \in [Requests -> ReqRec] /\ req[r] \in ReqRec /\ Version' = Version /\ Version \in Nat
  BY VersionTyped DEF IInv, Typed, Version
<1>1. Remembers(r)
  BY DEF SeenInv
<1> DEFINE gone == [NoReq EXCEPT !.pc = "done"]
<1>2. gone.pc = "done"
  BY DEF NoReq
<1>3. Done(r) => req'[r].pc = "done"
  <2> HIDE DEF gone
  <2> QED
    BY <1>0, <1>2 DEF Done, gone
<1>4. CASE Done(r)
  BY <1>3, <1>4 DEF Remembers, Working
<1>5. CASE Ask(r)
  <2>1. PICK op \in Ops, d \in Devices, sc \in Scopes :
          req' = [req EXCEPT ![r] = [NoReq EXCEPT !.pc = "asked", !.op = op, !.device = d, !.scope = sc,
                                       !.expect = Version, !.seen = IF row = NONE THEN NONE ELSE row.policy]]
    BY <1>5 DEF Ask
  <2>2. req'[r].pc = "asked" /\ req'[r].expect = Version /\ (row # NONE => req'[r].seen = row.policy)
    BY <1>0, <2>1 DEF NoReq
  <2> QED
    BY <1>0, <2>2 DEF Remembers, Working
<1>6. CASE Answer(r)
  <2>1. PICK a \in {"yes", "refused"} : req' = [req EXCEPT ![r].approved = a]
    BY <1>6 DEF Answer
  <2>2. req'[r].pc = "asked" /\ req[r].pc = "asked" /\ req'[r].expect = req[r].expect /\ req'[r].seen = req[r].seen
    BY <1>0, <1>6, <2>1 DEF Answer, ReqRec
  <2> QED
    BY <1>0, <1>1, <2>2 DEF Remembers, Working
<1>7. CASE Knock(r) /\ ~Done(r)
  <2>1. PICK d \in Devices :
          IF req[r].op \in NeedsValue
          THEN req' = [req EXCEPT ![r].by = d, ![r].value = r, ![r].pc = "read"]
          ELSE req' = [req EXCEPT ![r].pc = "read"]
    BY <1>7 DEF Knock
  <2>2. req'[r].pc = "read" /\ req[r].pc = "asked" /\ req'[r].expect = req[r].expect /\ req'[r].seen = req[r].seen
    BY <1>0, <1>7, <2>1 DEF Knock, ReqRec
  <2> QED
    BY <1>0, <1>1, <1>7, <2>2 DEF Remembers, Working, Knock
<1>8. CASE Read(r)
  <2> DEFINE p == IF row = NONE THEN NONE ELSE row.policy
             f == Following(r, p)
             pc == IF req[r].op \in NeedsValue THEN "put" ELSE "sealed"
  <2>1. f.version = Version + 1
    BY <1>8, FollowingTyped DEF Read
  <2>2. req' = [req EXCEPT ![r].policy = p, ![r].next = f, ![r].pc = pc] /\ req[r].pc = "read" /\ Reads(r)
    BY <1>8 DEF Read
  <2>3. pc \in {"put", "sealed"}
    OBVIOUS
  <2>4. req[r].op = "rescope" => row # NONE /\ req[r].expect = Version /\ p = row.policy
    BY <2>2 DEF Reads, Seen, Version
  <2>5. req[r].op = "rescope" => p = req[r].seen
    BY <1>1, <2>2, <2>4 DEF Remembers
  <2> HIDE DEF p, f, pc
  <2>6. /\ req'[r].pc = pc /\ req'[r].op = req[r].op /\ req'[r].next = f /\ req'[r].policy = p
        /\ req'[r].seen = req[r].seen
    BY <1>0, <2>2 DEF ReqRec
  <2> QED
    BY <1>0, <2>1, <2>2, <2>3, <2>5, <2>6 DEF Remembers, Working
<1>9. CASE Reseal(r)
  <2>1. /\ req[r].pc = "sealed" /\ req'[r].pc = "put" /\ req'[r].op = req[r].op /\ req'[r].next = req[r].next
        /\ req'[r].policy = req[r].policy /\ req'[r].seen = req[r].seen
    BY <1>0, <1>9 DEF Reseal, ReqRec
  <2> QED
    BY <1>0, <1>1, <2>1 DEF Remembers, Working
<1> QED
  BY <1>4, <1>5, <1>6, <1>7, <1>8, <1>9, Zenon DEF Change, KnockRefused, Lapsed, ReadRefused, Delete, ResealRefused,
     Store, StoreRefused

\* The one that puts is the only one at work, and what it puts is a version that nobody saw.
LEMMA SeenStores ==
    ASSUME ConstantsOK, IInv, SeenInv, AppOnly, NEW r \in Requests, Store(r)
    PROVE  \A q \in Requests : Remembers(q)' /\ (Working(q)' => Working(q))
<1>0. req \in [Requests -> ReqRec] /\ req[r] \in ReqRec /\ Version \in Nat
  BY VersionTyped DEF IInv, Typed
<1>1. req[r].pc = "put" /\ Put(req[r].next, req[r].value, kek) /\ Done(r)
  BY DEF Store
<1>2. req[r].next.version = Version + 1
  BY <1>1 DEF SeenInv, Remembers
<1>3. Version' = Version + 1
  <2>1. row' = [policy |-> req[r].next, bound |-> req[r].next, value |-> req[r].value, key |-> kek]
    BY <1>1 DEF Put
  <2>2. req[r].next \in Policies /\ req[r].value \in Values /\ kek \in Nat
    BY <1>1 DEF IInv, Relies, Typed
  <2>3. row' \in [policy : Policies, bound : Policies, value : Values, key : Nat]
    BY <2>1, <2>2
  <2>4. row' # NONE
    BY <2>3 DEF ConstantsOK
  <2> QED
    BY <1>2, <2>1, <2>4 DEF Version
<1>4. req'[r].pc = "done" /\ \A q \in Requests : q # r => req'[q] = req[q]
  BY <1>0, <1>1 DEF Done, NoReq
<1>5. ASSUME NEW q \in Requests PROVE Remembers(q)' /\ (Working(q)' => Working(q))
  <2>1. CASE q = r
    BY <1>4, <2>1 DEF Remembers, Working
  <2>2. CASE q # r
    <3>1. req'[q] = req[q] /\ ~Working(q) /\ Remembers(q) /\ req[q] \in ReqRec
      BY <1>0, <1>1, <1>4, <2>2 DEF SeenInv, Working
    <3>2. req[q].pc = "asked" => req[q].expect <= Version
      BY <3>1 DEF Remembers
    <3>3. req[q].expect \in Nat
      BY <3>1 DEF ReqRec
    <3> QED
      BY <1>0, <1>3, <3>1, <3>2, <3>3 DEF Remembers, Working
  <2> QED
    BY <2>1, <2>2
<1> QED
  BY <1>5

LEMMA SeenHolds == ASSUME ConstantsOK, IInv, SeenInv, Next PROVE SeenInv'
<1> SUFFICES ASSUME AppOnly' PROVE /\ script'.pc = "idle"
                                   /\ \A q, r \in Requests : Working(q)' /\ Working(r)' => q = r
                                   /\ \A r \in Requests : Remembers(r)'
  BY DEF SeenInv
<1>0. count \in [script : Nat, faults : Nat] /\ req \in [Requests -> ReqRec] /\ count'.script = 0
  BY DEF IInv, Typed, AppOnly
<1>1. count.script = 0
  <2>1. \A pc : ~Command(pc)
    <3> SUFFICES ASSUME NEW pc, Command(pc) PROVE FALSE
      OBVIOUS
    <3>1. count'.script = count.script + 1
      BY <1>0 DEF Command
    <3> QED
      BY <1>0, <3>1
  <2>2. Fault => count'.script = count.script
    BY <1>0 DEF Fault
  <2>3. count' = count \/ Fault
    BY <2>1, ChangeFrame DEF Next, Expire, Begin, Open, Frame, Script, InitBegin, InitWrite, RecoveryBegin,
       RecoveryWrite, MigrateBegin, MigratePut, RetireBegin, RetireStrip, Lock, Unlock, Lose, Install
  <2> QED
    BY <1>0, <2>2, <2>3
<1>2. AppOnly /\ script.pc = "idle" /\ \A r \in Requests : Remembers(r)
  BY <1>1 DEF AppOnly, SeenInv
<1>3. \A q, r \in Requests : Working(q) /\ Working(r) => q = r
  BY <1>2 DEF SeenInv
<1>4. CASE UNCHANGED <<row, req>> /\ script'.pc = "idle"
  BY <1>2, <1>3, <1>4 DEF Working, Remembers, Version
<1>5. CASE Lose
  <2>1. row' = row /\ script'.pc = "idle"
    BY <1>5 DEF Lose, NoScript
  <2>2. \A r \in Requests : req'[r] = req[r] \/ req'[r].pc = "done"
    BY <1>5 DEF Lose, NoReq
  <2> QED
    BY <1>2, <1>3, <2>1, <2>2 DEF Working, Remembers, Version
<1>6. ASSUME NEW r \in Requests, Change(r)
      PROVE  /\ script'.pc = "idle"
             /\ \A p, q \in Requests : Working(p)' /\ Working(q)' => p = q
             /\ \A q \in Requests : Remembers(q)'
  <2>1. script'.pc = "idle" /\ \A q \in Requests : q # r => req'[q] = req[q]
    BY <1>0, <1>2, <1>6, ChangeFrame, ReqMoves DEF Moves
  <2>2. CASE Store(r)
    BY <1>2, <1>3, <2>1, <2>2, SeenStores
  <2>3. CASE row' = row
    <3>1. Remembers(r)' /\ (Working(r)' => Working(r) \/ ~Busy)
      BY <1>2, <1>6, <2>3, SeenMoves
    <3>2. \A q \in Requests : q # r => Remembers(q)' /\ (Working(q)' <=> Working(q))
      BY <1>2, <2>1, <2>3 DEF Remembers, Working, Version
    <3> QED
      BY <1>3, <2>1, <3>1, <3>2 DEF Busy, Working
  <2>4. ~Delete(r)
    <3>1. Delete(r) => req[r].op \in Ops /\ req[r].op = "delete"
      BY DEF Delete, IInv, Relies
    <3> QED
      BY <1>2, <3>1 DEF AppOnly
  <2> QED
    BY <1>6, <2>2, <2>3, <2>4 DEF Change, Ask, Answer, KnockRefused, Knock, Lapsed, Read, ReadRefused, Reseal,
       ResealRefused, StoreRefused
<1> QED
  <2>1. ASSUME NEW r \in Requests, Expire(r) PROVE UNCHANGED <<row, req, script>>
    BY <2>1 DEF Expire
  <2>2. ASSUME NEW u \in Uses, Begin(u) \/ Open(u) PROVE UNCHANGED <<row, req, script>>
    BY <2>2 DEF Begin, Open, Frame
  <2>3. CASE Lock \/ Unlock \/ Install
    BY <1>2, <1>4, <2>3 DEF Lock, Unlock, Install
  <2>4. CASE Script
    <3>1. count'.script = count.script + 1 \/ script.pc # "idle"
      BY <1>0, <2>4 DEF Script, InitBegin, InitWrite, RecoveryBegin, RecoveryWrite, MigrateBegin, MigratePut, RetireBegin,
         RetireStrip, Command
    <3> QED
      BY <1>0, <1>1, <1>2, <3>1
  <2> QED
    BY <1>2, <1>4, <1>5, <1>6, <2>1, <2>2, <2>3, <2>4 DEF Next

\* As long as no command of the owner has run and nothing is deleted, a rescope is put over the
\* policy the human was shown: the version that goes along names it (capabilities/secret_vault.py:266).
THEOREM RescopeAsSeen == ASSUME ConstantsOK PROVE Spec => []RescopeIsTheSeen
<1>1. Init => IInv /\ SeenInv
  BY TypedInit, SeenInit
<1>2. IInv /\ SeenInv /\ [Next]_vars => SeenInv'
  <2>1. CASE UNCHANGED vars
    BY <2>1 DEF vars, SeenInv, AppOnly, Working, Remembers, Version
  <2> QED
    BY <2>1, SeenHolds
<1>3. IInv /\ SeenInv => RescopeIsTheSeen
  BY DEF SeenInv, RescopeIsTheSeen, AppOnly, Remembers
<1> QED
  BY <1>1, <1>2, <1>3, Invariance, PTL DEF Spec

-----------------------------------------------------------------------------
(* The memory (Memory), for any number of calls, records, profiles and faults. *)

CONSTANTS Jobs, Old, Texts, Due, Profiles, Calls, Faults, MaxTroubles
VARIABLES rows, ledger, ledgerFile, index, active, copy, up, deny, prof, flags, job, faults, purged, lost, unsaid
Mem == INSTANCE Memory WITH Ops <- Calls, MaxFaults <- MaxTroubles

JobPcs == {"idle", "recall", "target", "insert", "store", "deleting", "vectors", "done"}
          \cup Mem!Ensuring \cup Mem!Rebuilding \cup Mem!Writing
JobRec == [pc : JobPcs, op : Calls \cup {NONE}, text : Texts \cup {NONE}, id : Mem!Ids \cup {NONE},
           view : SUBSET Mem!Ids, todo : SUBSET Mem!Ids]

MemTyped ==
    /\ rows \in [Mem!Ids -> Mem!Rows \cup {NONE}] /\ copy \in [Mem!Ids -> Mem!Rows \cup {NONE}] \cup {NONE}
    /\ ledger \subseteq Mem!Ids /\ deny \subseteq Mem!Ids /\ purged \subseteq Mem!Ids
    /\ job \in [Jobs -> JobRec] /\ up \in BOOLEAN /\ lost \in BOOLEAN /\ ledgerFile \in BOOLEAN
    /\ active \in Profiles /\ prof \in Profiles /\ index \subseteq Mem!Ids \X Profiles
    /\ flags \in [check : BOOLEAN, pending : BOOLEAN, incomplete : BOOLEAN]

\* What is purged stands in the ledger, and the store that runs knows the ledger.
Denied ==
    /\ up => deny = ledger
    /\ ~lost => ledgerFile /\ purged \subseteq ledger
    /\ ~up => \A j \in Jobs : job[j].pc \in {"idle", "done"}

\* A call writes its record once: before that there is none of its name.
WasThere(i) == i \in Jobs => job[i].pc \in Mem!Writing \cup {"done"}
Written ==
    /\ \A i \in Mem!Ids : rows[i] # NONE => WasThere(i)
    /\ copy # NONE => \A i \in Mem!Ids : copy[i] # NONE => WasThere(i)

\* A call that removes or replaces a record knows which, and one that deletes has written its tombstone.
Meant(j) ==
    /\ job[j].op = NONE <=> job[j].pc \in {"idle", "done"}
    /\ job[j].pc \notin {"idle", "done"} => job[j].text \in Texts
    /\ job[j].pc = "store" /\ job[j].op \in {"forget", "purge"} => job[j].id \in Mem!Ids /\ WasThere(job[j].id)
    /\ job[j].pc \in {"deleting", "vectors", "unindex"} => job[j].id \in Mem!Ids /\ WasThere(job[j].id)
    /\ job[j].pc = "deleting" => job[j].id \in ledger

Followed(r) == \A i \in Mem!Ids : r[i] # NONE /\ r[i].by # NONE => r[r[i].by] # NONE \/ r[i].by \in ledger
Followable == ~lost => Followed(rows) /\ (copy # NONE => Followed(copy))

MemoryInv == MemTyped /\ Denied /\ Written /\ (\A j \in Jobs : Meant(j)) /\ Followable

\* A vector is taken away of a record that no search may find any more.
Sought == Mem!ActiveIds \ unsaid
Passive(j) == job[j].pc \in {"vectors", "unindex"} => job[j].id \notin Sought

\* Whoever will look at the records again, or has seen this one and still has to compare. The
\* reconcile of a restore does neither.
Dropping == {"reconcile", "stale", "drop"}
Announces(j, i) ==
    \/ job[j].pc \in {"look"} \cup (Mem!Rebuilding \ (Dropping \cup {"after"}))
    \/ job[j].pc \in Dropping /\ job[j].op # "restore"
    \/ job[j].pc \in {"looked", "after"} /\ i \in job[j].view

\* Health says that the index is incomplete, and nobody is about to take it back.
Held(i) == flags.incomplete /\ \A j \in Jobs : job[j].pc = "after" => i \in job[j].view

Announced(i) ==
    \/ i \in Mem!Indexed \/ flags.check \/ flags.pending \/ Held(i)
    \/ i \in Jobs /\ job[i].pc \in Mem!Writing
    \/ \E j \in Jobs : Announces(j, i)

SaidInv ==
    /\ up => \A i \in Sought : Announced(i)
    /\ \A j \in Jobs : Passive(j)

USE DEF Mem!Ids

Quiet == UNCHANGED <<rows, ledger, ledgerFile, copy, up, deny, prof, active, purged, lost>>

\* What a step of a call does to the call itself.
LEMMA CallPlaces ==
    /\ {"idle", "recall", "target", "insert", "store", "deleting", "vectors", "done"} \subseteq JobPcs
    /\ {"ensure", "look", "looked", "reconcile", "stale", "drop", "read", "compare", "embed", "put"} \subseteq JobPcs
    /\ {"activate", "again", "after", "get", "unindex", "hash", "upsert", "flag"} \subseteq JobPcs
  BY DEF JobPcs, Mem!Ensuring, Mem!Rebuilding, Mem!Writing

LEMMA CallTyped == ASSUME MemTyped, Mem!Next, Mem!ConstantsOK PROVE job' \in [Jobs -> JobRec]
<1>1. ASSUME NEW j \in Jobs, Mem!Call(j) PROVE job' \in [Jobs -> JobRec]
  <2>1. PICK op \in Calls, t \in Texts, i \in Mem!Ids \cup {NONE} :
           job' = [job EXCEPT ![j] = [Mem!Idle EXCEPT !.pc = IF op \in Mem!Writes \cup {"search"} THEN "ensure" ELSE "store",
                                                  !.op = op, !.text = t, !.id = i]]
    BY <1>1 DEF Mem!Call
  <2> DEFINE pc == IF op \in Mem!Writes \cup {"search"} THEN "ensure" ELSE "store"
             r == [Mem!Idle EXCEPT !.pc = pc, !.op = op, !.text = t, !.id = i]
  <2>2. pc \in JobPcs
    BY CallPlaces
  <2>5. job' = [job EXCEPT ![j] = r]
    BY <2>1
  <2> HIDE DEF pc
  <2>3. Mem!Idle \in JobRec
    BY CallPlaces DEF JobRec, Mem!Idle
  <2>4. r \in JobRec
    BY <2>2, <2>3 DEF JobRec
  <2> HIDE DEF r
  <2> QED
    BY <2>4, <2>5 DEF MemTyped
<1>2. ASSUME NEW j \in Jobs, Mem!Ensures(j) PROVE job' \in [Jobs -> JobRec]
  BY CallPlaces, <1>2 DEF MemTyped, JobRec, Mem!Ensures, Mem!Ensure, Mem!Look, Mem!Looked, Mem!Goes, Mem!Sees,
     Mem!ActiveIds
<1>3. ASSUME NEW j \in Jobs, Mem!Rebuilds(j) PROVE job' \in [Jobs -> JobRec]
  <2>1. Mem!ActiveIds \subseteq Mem!Ids /\ Mem!Indexed \subseteq Mem!Ids
    BY DEF Mem!ActiveIds, Mem!Indexed
  <2>2. CASE Mem!Compare(j)
    <3> DEFINE todo == job[j].view \ Mem!Indexed
    <3>1. todo \in SUBSET Mem!Ids
      BY DEF MemTyped, JobRec
    <3>2. job' = [job EXCEPT ![j].todo = todo, ![j].pc = IF todo = {} THEN "activate" ELSE "embed"]
      BY <2>2 DEF Mem!Compare
    <3> DEFINE pc == IF todo = {} THEN "activate" ELSE "embed"
    <3>3. pc \in JobPcs
      BY CallPlaces
    <3> HIDE DEF todo, pc
    <3>4. job[j] \in JobRec
      BY DEF MemTyped
    <3>5. [job[j] EXCEPT !.todo = todo, !.pc = pc] \in JobRec
      BY <3>1, <3>3, <3>4 DEF JobRec
    <3>6. job' = [job EXCEPT ![j] = [job[j] EXCEPT !.todo = todo, !.pc = pc]]
      BY <3>2 DEF MemTyped, pc
    <3> QED
      BY <3>5, <3>6 DEF MemTyped
  <2>3. CASE Mem!Put(j)
    <3>1. PICK i \in job[j].todo :
             job' = [job EXCEPT ![j].todo = @ \ {i}, ![j].pc = IF job[j].todo = {i} THEN "activate" ELSE "put"]
      BY <2>3 DEF Mem!Put
    <3> DEFINE todo == job[j].todo \ {i}
               pc == IF job[j].todo = {i} THEN "activate" ELSE "put"
    <3>2. todo \in SUBSET Mem!Ids /\ pc \in JobPcs
      BY CallPlaces DEF MemTyped, JobRec
    <3>3. job' = [job EXCEPT ![j].todo = todo, ![j].pc = pc]
      BY <3>1
    <3> HIDE DEF todo, pc
    <3>4. job[j] \in JobRec
      BY DEF MemTyped
    <3>5. [job[j] EXCEPT !.todo = todo, !.pc = pc] \in JobRec
      BY <3>2, <3>4 DEF JobRec
    <3>6. job' = [job EXCEPT ![j] = [job[j] EXCEPT !.todo = todo, !.pc = pc]]
      BY <3>3 DEF MemTyped
    <3> QED
      BY <3>5, <3>6 DEF MemTyped
  <2>4. CASE Mem!Stale(j)
    <3>1. job[j] \in JobRec /\ (Mem!Indexed \ job[j].view) \in SUBSET Mem!Ids
      BY <2>1 DEF MemTyped
    <3>2. [job[j] EXCEPT !.pc = "drop", !.todo = Mem!Indexed \ job[j].view] \in JobRec
      BY CallPlaces, <3>1 DEF JobRec
    <3>3. job' = [job EXCEPT ![j] = [job[j] EXCEPT !.pc = "drop", !.todo = Mem!Indexed \ job[j].view]]
      BY <2>4 DEF MemTyped, Mem!Stale
    <3> QED
      BY <3>2, <3>3 DEF MemTyped
  <2>5. CASE Mem!Reconcile(j) \/ Mem!Read(j) \/ Mem!Again(j)
    BY CallPlaces, <2>1, <2>5 DEF MemTyped, JobRec, Mem!Reconcile, Mem!Read, Mem!Again, Mem!Sees
  <2>6. CASE Mem!Drop(j) \/ Mem!Embed(j) \/ Mem!EmbedFails(j) \/ Mem!Activate(j) \/ Mem!After(j)
    BY CallPlaces, <2>1, <2>6 DEF MemTyped, JobRec, Mem!Drop, Mem!Embed, Mem!EmbedFails, Mem!Activate, Mem!After,
       Mem!Goes, Mem!Ends, Mem!Idle
  <2> QED
    BY CallPlaces, <1>3, <2>2, <2>3, <2>4, <2>5, <2>6 DEF Mem!Rebuilds
<1>4. ASSUME NEW j \in Jobs, Mem!Remembers(j) PROVE job' \in [Jobs -> JobRec]
  <2>1. CASE Mem!Recall(j)
    <3>1. Mem!ActiveIds \in SUBSET Mem!Ids
      BY DEF Mem!ActiveIds
    <3>2. \/ job' = [job EXCEPT ![j].pc = "target", ![j].view = Mem!ActiveIds]
          \/ job' = [job EXCEPT ![j].pc = "insert", ![j].view = Mem!ActiveIds]
          \/ Mem!Ends(j)
      BY <2>1 DEF Mem!Recall, Mem!Sees
    <3>3. job[j] \in JobRec
      BY DEF MemTyped
    <3>4. \A pc \in {"target", "insert"} : [job[j] EXCEPT !.pc = pc, !.view = Mem!ActiveIds] \in JobRec
      BY CallPlaces, <3>1, <3>3 DEF JobRec
    <3>5. \A pc \in {"target", "insert"} : job' = [job EXCEPT ![j].pc = pc, ![j].view = Mem!ActiveIds]
                => job' = [job EXCEPT ![j] = [job[j] EXCEPT !.pc = pc, !.view = Mem!ActiveIds]]
      BY DEF MemTyped
    <3>6. CASE Mem!Ends(j)
      BY CallPlaces, <3>6 DEF MemTyped, JobRec, Mem!Ends, Mem!Idle
    <3> QED
      BY <3>2, <3>4, <3>5, <3>6 DEF MemTyped
  <2>2. CASE Mem!Target(j)
    <3>1. job[j] \in JobRec /\ job[j].view \subseteq Mem!Ids
      BY DEF MemTyped, JobRec
    <3>2. ASSUME NEW i \in job[j].view \cup {NONE}, job' = [job EXCEPT ![j].id = i, ![j].pc = "insert"]
          PROVE  job' \in [Jobs -> JobRec]
      <4>1. [job[j] EXCEPT !.id = i, !.pc = "insert"] \in JobRec
        BY CallPlaces, <3>1 DEF JobRec
      <4>2. job' = [job EXCEPT ![j] = [job[j] EXCEPT !.id = i, !.pc = "insert"]]
        BY <3>2 DEF MemTyped
      <4> QED
        BY <4>1, <4>2 DEF MemTyped
    <3>3. CASE Mem!Ends(j)
      BY CallPlaces, <3>3 DEF MemTyped, JobRec, Mem!Ends, Mem!Idle
    <3> QED
      BY <2>2, <3>2, <3>3 DEF Mem!Target
  <2>3. CASE Mem!Insert(j)
    BY CallPlaces, <2>3 DEF MemTyped, JobRec, Mem!Insert, Mem!Ends, Mem!Goes, Mem!Idle
  <2>4. CASE Mem!Get(j) \/ Mem!Unindex(j) \/ Mem!Hash(j) \/ Mem!Upsert(j) \/ Mem!UpsertFails(j) \/ Mem!Flag(j)
    BY CallPlaces, <2>4 DEF MemTyped, JobRec, Mem!Get, Mem!Unindex, Mem!Hash, Mem!Upsert, Mem!UpsertFails, Mem!Flag,
       Mem!Ends, Mem!Goes, Mem!Idle
  <2> QED
    BY CallPlaces, <1>4, <2>1, <2>2, <2>3, <2>4 DEF Mem!Remembers
<1>5. ASSUME NEW j \in Jobs, Mem!Removes(j) PROVE job' \in [Jobs -> JobRec]
  <2>1. CASE Mem!Retain(j)
    <3>1. Mem!Ends(j) \/ \E i \in Mem!Ids : job' = [job EXCEPT ![j].id = i, ![j].pc = "deleting"]
      BY <2>1 DEF Mem!Retain, Mem!Expired
    <3>2. ASSUME NEW i \in Mem!Ids, job' = [job EXCEPT ![j].id = i, ![j].pc = "deleting"] PROVE job' \in [Jobs -> JobRec]
      <4>1. job[j] \in JobRec
        BY DEF MemTyped
      <4>2. [job[j] EXCEPT !.id = i, !.pc = "deleting"] \in JobRec
        BY CallPlaces, <4>1 DEF JobRec
      <4>3. job' = [job EXCEPT ![j] = [job[j] EXCEPT !.id = i, !.pc = "deleting"]]
        BY <3>2 DEF MemTyped
      <4> QED
        BY <4>2, <4>3 DEF MemTyped
    <3>3. CASE Mem!Ends(j)
      BY CallPlaces, <3>3 DEF MemTyped, JobRec, Mem!Ends, Mem!Idle
    <3> QED
      BY <3>1, <3>2, <3>3
  <2>2. CASE Mem!Forget(j) \/ Mem!Vectors(j) \/ Mem!Purge(j) \/ Mem!Delete(j) \/ Mem!DeleteFails(j)
    BY CallPlaces, <2>2 DEF MemTyped, JobRec, Mem!Forget, Mem!Vectors, Mem!Purge, Mem!Delete, Mem!DeleteFails,
       Mem!Ends, Mem!Goes, Mem!Idle
  <2> QED
    BY CallPlaces, <1>5, <2>1, <2>2 DEF Mem!Removes
<1>6. ASSUME NEW j \in Jobs, Mem!Backup(j) \/ Mem!Restore(j) PROVE job' \in [Jobs -> JobRec]
  BY CallPlaces, <1>6 DEF MemTyped, JobRec, Mem!Backup, Mem!Restore, Mem!Ends, Mem!Goes, Mem!Idle
<1>7. CASE Mem!Crash
  BY CallPlaces, <1>7 DEF MemTyped, JobRec, Mem!Crash, Mem!Idle
<1>8. CASE Mem!Boot \/ Mem!LedgerLost \/ Mem!Finished
  BY CallPlaces, <1>8 DEF MemTyped, Mem!Boot, Mem!LedgerLost, Mem!Finished, Mem!vars
<1> QED
  BY CallPlaces, <1>1, <1>2, <1>3, <1>4, <1>5, <1>6, <1>7, <1>8 DEF Mem!Next

\* What a step of a call does to what is stored.
LEMMA MemoryTypes == ASSUME Mem!ConstantsOK, MemoryInv, Mem!Next PROVE MemTyped'
<1>1. MemTyped /\ \A j \in Jobs : Meant(j)
  BY DEF MemoryInv
<1>2. job' \in [Jobs -> JobRec]
  BY <1>1, CallTyped
<1>3. ASSUME NEW j \in Jobs, Mem!Call(j) \/ Mem!Ensures(j) PROVE MemTyped'
  BY <1>1, <1>2, <1>3 DEF MemTyped, Mem!Call, Mem!Ensures, Mem!Ensure, Mem!Look, Mem!Looked, Mem!Rest, Mem!memory,
     Mem!history
<1>4. ASSUME NEW j \in Jobs, Mem!Rebuilds(j) PROVE MemTyped'
  <2>1. CASE Mem!Put(j)
    <3>1. job[j].todo \subseteq Mem!Ids
      BY <1>1 DEF MemTyped, JobRec
    <3> QED
      BY <1>1, <1>2, <2>1, <3>1 DEF MemTyped, Mem!Put, Mem!Rest, Mem!memory, Mem!history
  <2>2. CASE Mem!Drop(j)
    BY <1>1, <1>2, <2>2 DEF MemTyped, Mem!Drop, Mem!Rest, Mem!memory, Mem!history
  <2>3. CASE Mem!Activate(j)
    BY <1>1, <1>2, <2>3 DEF MemTyped, Mem!Activate, Mem!memory, Mem!history
  <2>4. CASE Mem!Reconcile(j) \/ Mem!Stale(j) \/ Mem!Read(j) \/ Mem!Compare(j) \/ Mem!Embed(j) \/ Mem!Again(j)
    BY <1>1, <1>2, <2>4 DEF MemTyped, Mem!Reconcile, Mem!Stale, Mem!Read, Mem!Compare, Mem!Embed, Mem!Again,
       Mem!Rest, Mem!memory, Mem!history
  <2>5. CASE Mem!EmbedFails(j) \/ Mem!After(j)
    BY <1>1, <1>2, <2>5 DEF MemTyped, Mem!EmbedFails, Mem!After, Mem!Rest, Mem!disk, Mem!memory, Mem!history
  <2> QED
    BY <1>4, <2>1, <2>2, <2>3, <2>4, <2>5 DEF Mem!Rebuilds
<1>5. ASSUME NEW j \in Jobs, Mem!Insert(j) PROVE MemTyped'
  <2>1. rows' \in [Mem!Ids -> Mem!Rows \cup {NONE}]
    <3> DEFINE new == [rows EXCEPT ![j] = Mem!Row(job[j].text, "keep")]
    <3>1. job[j].text \in Texts /\ job[j].id \in Mem!Ids \cup {NONE}
      BY <1>1, <1>5 DEF MemTyped, JobRec, Meant, Mem!Insert, Mem!At
    <3>2. Mem!Row(job[j].text, "keep") \in Mem!Rows
      BY <3>1 DEF Mem!Row, Mem!Rows
    <3>3. new \in [Mem!Ids -> Mem!Rows \cup {NONE}]
      BY <1>1, <3>2 DEF MemTyped
    <3>4. CASE job[j].id \in Mem!Ids /\ ~Mem!Refused(j) /\ rows' = [new EXCEPT ![job[j].id].by = j]
      <4>1. new[job[j].id] \in Mem!Rows
        BY <1>1, <3>2, <3>3, <3>4, Mem!ConstantsOK DEF MemTyped, Mem!Refused, Mem!ConstantsOK
      <4>2. [new[job[j].id] EXCEPT !.by = j] \in Mem!Rows
        BY <4>1 DEF Mem!Rows
      <4> QED
        BY <3>3, <3>4, <4>2
    <3> QED
      BY <1>1, <1>5, <3>1, <3>3, <3>4 DEF Mem!Insert, MemTyped
  <2> QED
    BY <1>1, <1>2, <1>5, <2>1 DEF MemTyped, Mem!Insert, Mem!Rest, Mem!memory, Mem!history
<1>6. ASSUME NEW j \in Jobs, Mem!Recall(j) \/ Mem!Target(j) \/ Mem!Get(j) \/ Mem!Unindex(j) \/ Mem!Hash(j) \/ Mem!Upsert(j) \/ Mem!UpsertFails(j) \/ Mem!Flag(j)
      PROVE  MemTyped'
  <2>1. CASE Mem!Unindex(j) \/ Mem!Upsert(j)
    BY <1>1, <1>2, <2>1 DEF MemTyped, Mem!Unindex, Mem!Upsert, Mem!Rest, Mem!memory, Mem!history
  <2>2. CASE Mem!Flag(j)
    BY <1>1, <1>2, <2>2 DEF MemTyped, Mem!Flag, Mem!Rest, Mem!memory, Mem!history
  <2>3. CASE Mem!Recall(j) \/ Mem!Target(j) \/ Mem!Get(j) \/ Mem!Hash(j) \/ Mem!UpsertFails(j)
    BY <1>1, <1>2, <2>3 DEF MemTyped, Mem!Recall, Mem!Target, Mem!Get, Mem!Hash, Mem!UpsertFails, Mem!Rest, Mem!disk,
       Mem!memory, Mem!history
  <2> QED
    BY <1>6, <2>1, <2>2, <2>3
<1>7. ASSUME NEW j \in Jobs, Mem!Forget(j) PROVE MemTyped'
  <2>1. ASSUME NEW i \in Mem!Ids, rows[i] # NONE PROVE [rows[i] EXCEPT !.forgotten = TRUE] \in Mem!Rows
    BY <1>1, <2>1 DEF MemTyped, Mem!Rows
  <2>2. rows' = rows \/ \E i \in Mem!Ids : rows[i] # NONE /\ rows' = [rows EXCEPT ![i] = [rows[i] EXCEPT !.forgotten = TRUE]]
    BY <1>7 DEF Mem!Forget, Mem!Readable
  <2>3. rows' \in [Mem!Ids -> Mem!Rows \cup {NONE}]
    BY <1>1, <2>1, <2>2 DEF MemTyped
  <2> QED
    BY <1>1, <1>2, <1>7, <2>3 DEF MemTyped, Mem!Forget, Mem!Rest, Mem!memory, Mem!history
<1>8. ASSUME NEW j \in Jobs, Mem!Purge(j) PROVE MemTyped'
  <2>1. job[j].id \in Mem!Ids
    BY <1>1, <1>8 DEF Mem!Purge, Mem!Store, Mem!At, Meant
  <2> QED
    BY <1>1, <1>2, <1>8, <2>1 DEF MemTyped, Mem!Purge, Mem!Tombstone
<1>9. ASSUME NEW j \in Jobs, Mem!Retain(j) PROVE MemTyped'
  <2>1. ASSUME NEW i \in Mem!Ids, rows[i] # NONE PROVE [rows[i] EXCEPT !.forgotten = TRUE] \in Mem!Rows
    BY <1>1, <2>1 DEF MemTyped, Mem!Rows
  <2>2. rows' = rows \/ \E i \in Mem!Ids : rows[i] # NONE /\ rows' = [rows EXCEPT ![i] = [rows[i] EXCEPT !.forgotten = TRUE]]
    BY <1>9 DEF Mem!Retain, Mem!Expired, Mem!IsActive
  <2>3. rows' \in [Mem!Ids -> Mem!Rows \cup {NONE}]
    BY <1>1, <2>1, <2>2 DEF MemTyped
  <2>4. \/ UNCHANGED <<ledger, deny, purged>>
        \/ \E i \in Mem!Ids : ledger' = ledger \cup {i} /\ deny' = deny \cup {i} /\ purged' = purged \cup {i}
    BY <1>9 DEF Mem!Retain, Mem!Expired, Mem!Tombstone
  <2> QED
    BY <1>1, <1>2, <1>9, <2>3, <2>4 DEF MemTyped, Mem!Retain
<1>10. ASSUME NEW j \in Jobs, Mem!Vectors(j) \/ Mem!Delete(j) \/ Mem!DeleteFails(j) PROVE MemTyped'
  BY <1>1, <1>2, <1>10 DEF MemTyped, Mem!Vectors, Mem!Delete, Mem!DeleteFails, Mem!Rest, Mem!disk, Mem!memory,
     Mem!history
<1>11. ASSUME NEW j \in Jobs, Mem!Backup(j) \/ Mem!Restore(j) PROVE MemTyped'
  <2>1. CASE Mem!Backup(j)
    BY <1>1, <1>2, <2>1 DEF MemTyped, Mem!Backup, Mem!memory, Mem!history
  <2>2. CASE Mem!Restore(j)
    <3>1. copy # NONE => Mem!Reconciled(copy, ledger) \in [Mem!Ids -> Mem!Rows \cup {NONE}]
      BY <1>1 DEF MemTyped, Mem!Reconciled
    <3>2. rows' \in [Mem!Ids -> Mem!Rows \cup {NONE}]
      BY <1>1, <2>2, <3>1 DEF MemTyped, Mem!Restore, Mem!Verified, Mem!Restored
    <3> QED
      BY <1>1, <1>2, <2>2, <3>2 DEF MemTyped, Mem!Restore, Mem!history
  <2> QED
    BY <1>11, <2>1, <2>2
<1>12. CASE Mem!Boot
  <2>1. rows' \in [Mem!Ids -> Mem!Rows \cup {NONE}]
    BY <1>1, <1>12 DEF MemTyped, Mem!Boot, Mem!Reconciled
  <2>2. UNCHANGED <<copy, purged, lost, index>>
    BY <1>12 DEF Mem!Boot, Mem!history
  <2>3. ledger' \subseteq Mem!Ids /\ deny' \subseteq Mem!Ids /\ up' \in BOOLEAN /\ ledgerFile' \in BOOLEAN
    BY <1>1, <1>12 DEF MemTyped, Mem!Boot
  <2>4. active' \in Profiles /\ prof' \in Profiles
        /\ flags' \in [check : BOOLEAN, pending : BOOLEAN, incomplete : BOOLEAN]
    BY <1>1, <1>12 DEF MemTyped, Mem!Boot
  <2> QED
    BY <1>1, <1>2, <2>1, <2>2, <2>3, <2>4 DEF MemTyped
<1>13. CASE Mem!Crash \/ Mem!LedgerLost \/ Mem!Finished
  <2>1. CASE Mem!Crash
    BY <1>1, <1>2, <2>1 DEF MemTyped, Mem!Crash, Mem!NoFlags, Mem!disk, Mem!history
  <2>2. CASE Mem!LedgerLost
    BY <1>1, <1>2, <2>2 DEF MemTyped, Mem!LedgerLost, Mem!memory
  <2>3. CASE Mem!Finished
    BY <1>1, <1>2, <2>3 DEF MemTyped, Mem!Finished, Mem!vars
  <2> QED
    BY <1>13, <2>1, <2>2, <2>3
<1> QED
  BY <1>3, <1>4, <1>5, <1>6, <1>7, <1>8, <1>9, <1>10, <1>11, <1>12, <1>13 DEF Mem!Next, Mem!Remembers, Mem!Removes

\* What is left of a call when some fields of it change.
GoesTo(j, pc) == job' = [job EXCEPT ![j].pc = pc]
GoesSeeing(j, pc, view) == job' = [job EXCEPT ![j].pc = pc, ![j].view = view]
GoesDoing(j, todo, pc) == job' = [job EXCEPT ![j].todo = todo, ![j].pc = pc]
GoesToDo(j, pc, todo) == job' = [job EXCEPT ![j].pc = pc, ![j].todo = todo]
GoesFor(j, i, pc) == job' = [job EXCEPT ![j].id = i, ![j].pc = pc]

LEMMA MovesPc ==
    ASSUME MemTyped, NEW j \in Jobs, NEW pc, GoesTo(j, pc)
    PROVE  /\ \A k \in Jobs \ {j} : job'[k] = job[k]
           /\ job'[j].pc = pc
           /\ job'[j].op = job[j].op /\ job'[j].text = job[j].text /\ job'[j].id = job[j].id
                 /\ job'[j].view = job[j].view /\ job'[j].todo = job[j].todo
<1>1. job' = [job EXCEPT ![j] = [job[j] EXCEPT !.pc = pc]]
  BY DEF MemTyped, GoesTo
<1>2. DOMAIN job = Jobs /\ job[j] \in JobRec
  BY DEF MemTyped
<1>3. \A k \in Jobs \ {j} : job'[k] = job[k]
  BY <1>1, <1>2
<1>4. job'[j] = [job[j] EXCEPT !.pc = pc]
  BY <1>1, <1>2
<1> QED
  BY <1>2, <1>3, <1>4 DEF JobRec

LEMMA MovesView ==
    ASSUME MemTyped, NEW j \in Jobs, NEW pc, NEW view, GoesSeeing(j, pc, view)
    PROVE  /\ \A k \in Jobs \ {j} : job'[k] = job[k]
           /\ job'[j].pc = pc /\ job'[j].view = view
           /\ job'[j].op = job[j].op /\ job'[j].text = job[j].text /\ job'[j].id = job[j].id
                 /\ job'[j].todo = job[j].todo
<1>1. job' = [job EXCEPT ![j] = [job[j] EXCEPT !.pc = pc, !.view = view]]
  BY DEF MemTyped, GoesSeeing
<1>2. DOMAIN job = Jobs /\ job[j] \in JobRec
  BY DEF MemTyped
<1>3. \A k \in Jobs \ {j} : job'[k] = job[k]
  BY <1>1, <1>2
<1>4. job'[j] = [job[j] EXCEPT !.pc = pc, !.view = view]
  BY <1>1, <1>2
<1> QED
  BY <1>2, <1>3, <1>4 DEF JobRec

LEMMA MovesTodo ==
    ASSUME MemTyped, NEW j \in Jobs, NEW todo, NEW pc, GoesDoing(j, todo, pc)
    PROVE  /\ \A k \in Jobs \ {j} : job'[k] = job[k]
           /\ job'[j].todo = todo /\ job'[j].pc = pc
           /\ job'[j].op = job[j].op /\ job'[j].text = job[j].text /\ job'[j].id = job[j].id
                 /\ job'[j].view = job[j].view
<1>1. job' = [job EXCEPT ![j] = [job[j] EXCEPT !.todo = todo, !.pc = pc]]
  BY DEF MemTyped, GoesDoing
<1>2. DOMAIN job = Jobs /\ job[j] \in JobRec
  BY DEF MemTyped
<1>3. \A k \in Jobs \ {j} : job'[k] = job[k]
  BY <1>1, <1>2
<1>4. job'[j] = [job[j] EXCEPT !.todo = todo, !.pc = pc]
  BY <1>1, <1>2
<1> QED
  BY <1>2, <1>3, <1>4 DEF JobRec

LEMMA MovesPcTodo ==
    ASSUME MemTyped, NEW j \in Jobs, NEW pc, NEW todo, GoesToDo(j, pc, todo)
    PROVE  /\ \A k \in Jobs \ {j} : job'[k] = job[k]
           /\ job'[j].pc = pc /\ job'[j].todo = todo
           /\ job'[j].op = job[j].op /\ job'[j].text = job[j].text /\ job'[j].id = job[j].id
                 /\ job'[j].view = job[j].view
<1>1. job' = [job EXCEPT ![j] = [job[j] EXCEPT !.pc = pc, !.todo = todo]]
  BY DEF MemTyped, GoesToDo
<1>2. DOMAIN job = Jobs /\ job[j] \in JobRec
  BY DEF MemTyped
<1>3. \A k \in Jobs \ {j} : job'[k] = job[k]
  BY <1>1, <1>2
<1>4. job'[j] = [job[j] EXCEPT !.pc = pc, !.todo = todo]
  BY <1>1, <1>2
<1> QED
  BY <1>2, <1>3, <1>4 DEF JobRec

LEMMA MovesId ==
    ASSUME MemTyped, NEW j \in Jobs, NEW i, NEW pc, GoesFor(j, i, pc)
    PROVE  /\ \A k \in Jobs \ {j} : job'[k] = job[k]
           /\ job'[j].id = i /\ job'[j].pc = pc
           /\ job'[j].op = job[j].op /\ job'[j].text = job[j].text /\ job'[j].view = job[j].view
                 /\ job'[j].todo = job[j].todo
<1>1. job' = [job EXCEPT ![j] = [job[j] EXCEPT !.id = i, !.pc = pc]]
  BY DEF MemTyped, GoesFor
<1>2. DOMAIN job = Jobs /\ job[j] \in JobRec
  BY DEF MemTyped
<1>3. \A k \in Jobs \ {j} : job'[k] = job[k]
  BY <1>1, <1>2
<1>4. job'[j] = [job[j] EXCEPT !.id = i, !.pc = pc]
  BY <1>1, <1>2
<1> QED
  BY <1>2, <1>3, <1>4 DEF JobRec

LEMMA MovesEnd ==
    ASSUME MemTyped, NEW j \in Jobs, Mem!Ends(j)
    PROVE  /\ \A k \in Jobs \ {j} : job'[k] = job[k]
           /\ job'[j].pc = "done" /\ job'[j].op = NONE /\ job'[j].id = NONE
  BY DEF MemTyped, Mem!Ends, Mem!Idle

\* A step of one call: who it is, and that it leaves the others where they are.
Acts(j) == Mem!Call(j) \/ Mem!Ensures(j) \/ Mem!Rebuilds(j) \/ Mem!Remembers(j) \/ Mem!Removes(j) \/ Mem!Backup(j) \/ Mem!Restore(j)

LEMMA OthersStay == ASSUME MemTyped, NEW j \in Jobs, Acts(j)
                    PROVE  /\ up /\ up' /\ \A k \in Jobs \ {j} : job'[k] = job[k]
                           /\ job[j].pc # "done" /\ job'[j].pc # "idle"
<1>1. CASE Mem!Call(j)
  BY <1>1 DEF MemTyped, JobRec, Mem!Call, Mem!Idle, Mem!At, Mem!Rest, Mem!memory
<1>2. CASE Mem!Ensures(j)
  BY <1>2 DEF MemTyped, JobRec, Mem!Ensures, Mem!Ensure, Mem!Look, Mem!Looked, Mem!At, Mem!Goes, Mem!Sees, Mem!Rest,
     Mem!memory
<1>3. CASE Mem!Rebuilds(j)
  <2>1. CASE Mem!EmbedFails(j) \/ Mem!Activate(j) \/ Mem!After(j) \/ Mem!Embed(j)
    BY <2>1 DEF MemTyped, JobRec, Mem!Embed, Mem!EmbedFails, Mem!Activate, Mem!After, Mem!At, Mem!Goes, Mem!Ends,
       Mem!Idle, Mem!Rest, Mem!disk, Mem!memory
  <2>2. CASE Mem!Reconcile(j) \/ Mem!Stale(j) \/ Mem!Read(j) \/ Mem!Again(j)
    BY <2>2 DEF MemTyped, JobRec, Mem!Reconcile, Mem!Stale, Mem!Read, Mem!Again, Mem!At, Mem!Sees, Mem!Rest,
       Mem!memory
  <2>3. CASE Mem!Compare(j) \/ Mem!Put(j)
    <3>1. PICK todo, pc : /\ GoesDoing(j, todo, pc)
                          /\ pc \in {"activate", "embed", "put"}
      BY <2>3 DEF Mem!Compare, Mem!Put, GoesDoing
    <3>2. (\A k \in Jobs \ {j} : job'[k] = job[k]) /\ job'[j].pc = pc
      BY <3>1, MovesTodo
    <3> QED
      BY <2>3, <3>1, <3>2 DEF Mem!Compare, Mem!Put, Mem!At, Mem!Rest, Mem!memory
  <2>4. CASE Mem!Drop(j)
    BY <2>4 DEF MemTyped, JobRec, Mem!Drop, Mem!At, Mem!Goes, Mem!Ends, Mem!Idle, Mem!Rest, Mem!memory
  <2> QED
    BY <1>3, <2>1, <2>2, <2>3, <2>4 DEF Mem!Rebuilds
<1>4. CASE Mem!Remembers(j)
  <2>1. CASE Mem!Insert(j)
    BY <2>1 DEF MemTyped, JobRec, Mem!Insert, Mem!At, Mem!Goes, Mem!Ends, Mem!Idle, Mem!Rest, Mem!memory
  <2>3. CASE Mem!Recall(j)
    BY <2>3 DEF MemTyped, JobRec, Mem!Recall, Mem!At, Mem!Sees, Mem!Ends, Mem!Idle, Mem!Rest, Mem!memory
  <2>4. CASE Mem!Target(j)
    <3>1. Mem!Ends(j) \/ \E i : GoesFor(j, i, "insert")
      BY <2>4 DEF Mem!Target, GoesFor
    <3>2. ASSUME NEW i, GoesFor(j, i, "insert")
          PROVE  (\A k \in Jobs \ {j} : job'[k] = job[k]) /\ job'[j].pc = "insert"
      BY <3>2, MovesId
    <3>3. (\A k \in Jobs \ {j} : job'[k] = job[k]) /\ job'[j].pc \in {"insert", "done"}
      BY <3>1, <3>2, MovesEnd
    <3> QED
      BY <2>4, <3>3 DEF Mem!Target, Mem!At, Mem!Rest, Mem!memory
  <2>2. CASE Mem!Get(j) \/ Mem!Unindex(j) \/ Mem!Hash(j) \/ Mem!Upsert(j) \/ Mem!UpsertFails(j) \/ Mem!Flag(j)
    BY <2>2 DEF MemTyped, JobRec, Mem!Get, Mem!Unindex, Mem!Hash, Mem!Upsert, Mem!UpsertFails, Mem!Flag, Mem!At,
       Mem!Goes, Mem!Ends, Mem!Idle, Mem!Rest, Mem!memory
  <2> QED
    BY <1>4, <2>1, <2>2, <2>3, <2>4 DEF Mem!Remembers
<1>5. CASE Mem!Removes(j)
  <2>1. CASE Mem!Forget(j) \/ Mem!Vectors(j) \/ Mem!Delete(j) \/ Mem!DeleteFails(j)
    BY <2>1 DEF MemTyped, JobRec, Mem!Forget, Mem!Vectors, Mem!Delete, Mem!DeleteFails, Mem!Store, Mem!At, Mem!Goes,
       Mem!Ends, Mem!Idle, Mem!Rest, Mem!memory
  <2>2. CASE Mem!Purge(j)
    BY <2>2 DEF MemTyped, JobRec, Mem!Purge, Mem!Store, Mem!At, Mem!Goes
  <2>3. CASE Mem!Retain(j)
    <3>1. Mem!Ends(j) \/ \E i : GoesFor(j, i, "deleting")
      BY <2>3 DEF Mem!Retain, GoesFor
    <3>2. ASSUME NEW i, GoesFor(j, i, "deleting")
          PROVE  (\A k \in Jobs \ {j} : job'[k] = job[k]) /\ job'[j].pc = "deleting"
      BY <3>2, MovesId
    <3>3. (\A k \in Jobs \ {j} : job'[k] = job[k]) /\ job'[j].pc \in {"deleting", "done"}
      BY <3>1, <3>2, MovesEnd
    <3> QED
      BY <2>3, <3>3 DEF Mem!Retain, Mem!Store, Mem!At
  <2> QED
    BY <1>5, <2>1, <2>2, <2>3 DEF Mem!Removes
<1>6. CASE Mem!Backup(j) \/ Mem!Restore(j)
  BY <1>6 DEF MemTyped, JobRec, Mem!Backup, Mem!Restore, Mem!Store, Mem!At, Mem!Goes, Mem!Ends, Mem!Idle, Mem!memory
<1> QED
  BY <1>1, <1>2, <1>3, <1>4, <1>5, <1>6 DEF Acts

\* A call that has written its record, or is through, does not come back to where it had not.
LEMMA WrittenStays == ASSUME MemTyped, Mem!Next PROVE \A i \in Mem!Ids : WasThere(i) => WasThere(i)'
<1>1. ASSUME NEW j \in Jobs, Acts(j), job[j].pc \in Mem!Writing \cup {"done"} PROVE job'[j].pc \in Mem!Writing \cup {"done"}
  <2>1. CASE job[j].pc \in Mem!Writing
    <3>1. Mem!Get(j) \/ Mem!Unindex(j) \/ Mem!Hash(j) \/ Mem!Upsert(j) \/ Mem!UpsertFails(j) \/ Mem!Flag(j)
      BY <1>1, <2>1 DEF Acts, Mem!Writing, Mem!Ensures, Mem!Rebuilds, Mem!Remembers, Mem!Removes, Mem!At, Mem!Store,
         Mem!Call, Mem!Ensure, Mem!Look, Mem!Looked,
         Mem!Reconcile, Mem!Stale, Mem!Drop, Mem!Read, Mem!Compare, Mem!Embed, Mem!EmbedFails, Mem!Put, Mem!Activate,
         Mem!Again, Mem!After, Mem!Recall, Mem!Target, Mem!Insert,
         Mem!Forget, Mem!Vectors, Mem!Purge, Mem!Delete, Mem!DeleteFails, Mem!Retain, Mem!Backup, Mem!Restore
    <3> QED
      BY <3>1 DEF MemTyped, JobRec, Mem!Writing, Mem!Get, Mem!Unindex, Mem!Hash, Mem!Upsert, Mem!UpsertFails,
         Mem!Flag, Mem!Goes, Mem!Ends, Mem!Idle
  <2> QED
    BY <1>1, <2>1, OthersStay
<1>2. ASSUME NEW j \in Jobs, Acts(j) PROVE \A i \in Mem!Ids : WasThere(i) => WasThere(i)'
  BY <1>1, <1>2, OthersStay DEF WasThere
<1>3. CASE Mem!Crash
  BY <1>3 DEF WasThere, Mem!Crash, Mem!Idle, MemTyped, Mem!Writing
<1>4. CASE Mem!Boot \/ Mem!LedgerLost \/ Mem!Finished
  BY <1>4 DEF WasThere, Mem!Boot, Mem!LedgerLost, Mem!Finished, Mem!vars
<1> QED
  BY <1>2, <1>3, <1>4 DEF Mem!Next, Acts

\* Where records come from: the call that writes one, or the copy.
LEMMA RecordsComeFrom ==
    ASSUME Mem!ConstantsOK, MemoryInv, Mem!Next, NEW i \in Mem!Ids, rows'[i] # NONE
    PROVE  rows[i] # NONE \/ (i \in Jobs /\ Mem!Insert(i) /\ rows' # rows) \/ (copy # NONE /\ copy[i] # NONE)
<1>1. MemTyped
  BY DEF MemoryInv
<1>2. CASE UNCHANGED rows
  BY <1>2
<1>3. ASSUME NEW j \in Jobs, Mem!Insert(j) PROVE rows' = rows \/ i = j \/ rows[i] # NONE
  BY <1>1, <1>3 DEF MemTyped, Mem!Insert, Mem!Refused
<1>4. ASSUME NEW j \in Jobs, Mem!Forget(j) \/ Mem!Retain(j) \/ Mem!Delete(j) PROVE rows[i] # NONE
  BY <1>1, <1>4 DEF MemTyped, Mem!Forget, Mem!Readable, Mem!Retain, Mem!Expired, Mem!IsActive, Mem!Delete
<1>5. ASSUME NEW j \in Jobs, Mem!Restore(j) PROVE UNCHANGED rows \/ (copy # NONE /\ copy[i] # NONE)
  BY <1>1, <1>5 DEF MemTyped, Mem!Restore, Mem!Restored, Mem!Reconciled, Mem!Verified
<1>6. CASE Mem!Boot
  BY <1>1, <1>6 DEF MemTyped, Mem!Boot, Mem!Reconciled
<1>7. ASSUME NEW j \in Jobs, Acts(j) PROVE UNCHANGED rows \/ Mem!Insert(j) \/ Mem!Forget(j) \/ Mem!Retain(j) \/ Mem!Delete(j) \/ Mem!Restore(j)
  BY <1>7 DEF Acts, Mem!Ensures, Mem!Rebuilds, Mem!Remembers, Mem!Removes, Mem!Call, Mem!Ensure, Mem!Look, Mem!Looked,
         Mem!Reconcile, Mem!Stale, Mem!Drop, Mem!Read, Mem!Compare, Mem!Embed, Mem!EmbedFails, Mem!Put, Mem!Activate,
         Mem!Again, Mem!After, Mem!Recall, Mem!Target,
         Mem!Get, Mem!Unindex, Mem!Hash, Mem!Upsert, Mem!UpsertFails, Mem!Flag, Mem!Vectors, Mem!Purge,
         Mem!DeleteFails, Mem!Backup, Mem!Rest, Mem!disk
<1>8. CASE Mem!Crash \/ Mem!LedgerLost \/ Mem!Finished
  BY <1>2, <1>8 DEF Mem!Crash, Mem!LedgerLost, Mem!Finished, Mem!vars, Mem!disk
<1> QED
  BY <1>2, <1>3, <1>4, <1>5, <1>6, <1>7, <1>8 DEF Mem!Next, Acts

LEMMA WrittenKeeps == ASSUME Mem!ConstantsOK, MemoryInv, Mem!Next PROVE Written'
<1>1. MemTyped /\ Written
  BY DEF MemoryInv
<1>2. ASSUME NEW i \in Jobs, Mem!Insert(i), rows' # rows PROVE WasThere(i)'
  BY <1>1, <1>2 DEF MemTyped, JobRec, Mem!Insert, Mem!Goes, Mem!Ends, Mem!Idle, WasThere, Mem!Writing
<1>3. \A i \in Mem!Ids : rows'[i] # NONE => WasThere(i)'
  BY <1>1, <1>2, RecordsComeFrom, WrittenStays DEF Written
<1>4. UNCHANGED copy \/ copy' = rows
  <2>1. ASSUME NEW j \in Jobs, Mem!Rebuilds(j) PROVE UNCHANGED copy
    BY <2>1 DEF Mem!Rebuilds, Mem!Reconcile, Mem!Stale, Mem!Drop, Mem!Read, Mem!Compare, Mem!Embed, Mem!EmbedFails,
       Mem!Put, Mem!Activate, Mem!Again, Mem!After, Mem!Rest, Mem!disk
  <2>2. ASSUME NEW j \in Jobs, Mem!Remembers(j) PROVE UNCHANGED copy
    BY <2>2 DEF Mem!Remembers, Mem!Recall, Mem!Target, Mem!Insert, Mem!Get, Mem!Unindex, Mem!Hash, Mem!Upsert,
       Mem!UpsertFails, Mem!Flag, Mem!Rest, Mem!disk
  <2>3. ASSUME NEW j \in Jobs, Mem!Call(j) \/ Mem!Ensures(j) \/ Mem!Removes(j) PROVE UNCHANGED copy
    BY <2>3 DEF Mem!Call, Mem!Ensures, Mem!Ensure, Mem!Look, Mem!Looked, Mem!Removes, Mem!Forget, Mem!Vectors,
       Mem!Purge, Mem!Delete, Mem!DeleteFails, Mem!Retain, Mem!Rest, Mem!disk
  <2>4. ASSUME NEW j \in Jobs, Mem!Backup(j) \/ Mem!Restore(j) PROVE UNCHANGED copy \/ copy' = rows
    BY <2>4 DEF Mem!Backup, Mem!Restore
  <2>5. CASE Mem!Boot \/ Mem!Crash \/ Mem!LedgerLost \/ Mem!Finished
    BY <2>5 DEF Mem!Boot, Mem!Crash, Mem!LedgerLost, Mem!Finished, Mem!vars, Mem!disk
  <2> QED
    BY <2>1, <2>2, <2>3, <2>4, <2>5 DEF Mem!Next
<1> QED
  BY <1>1, <1>3, <1>4, WrittenStays DEF Written

\* The ledger only grows, but for a start; the calls end with the core.
LEMMA LedgerGrows == ASSUME NEW j \in Jobs, Acts(j) PROVE ledger \subseteq ledger' /\ UNCHANGED <<lost, ledgerFile>>
<1>1. CASE Mem!Rebuilds(j)
  BY <1>1 DEF Mem!Rebuilds, Mem!Reconcile, Mem!Stale, Mem!Drop, Mem!Read, Mem!Compare, Mem!Embed, Mem!EmbedFails,
     Mem!Put, Mem!Activate, Mem!Again, Mem!After, Mem!Rest, Mem!disk,
     Mem!history
<1>2. CASE Mem!Remembers(j)
  BY <1>2 DEF Mem!Remembers, Mem!Recall, Mem!Target, Mem!Insert, Mem!Get, Mem!Unindex, Mem!Hash, Mem!Upsert,
     Mem!UpsertFails, Mem!Flag, Mem!Rest, Mem!disk, Mem!history
<1>3. CASE Mem!Call(j) \/ Mem!Ensures(j)
  BY <1>3 DEF Mem!Call, Mem!Ensures, Mem!Ensure, Mem!Look, Mem!Looked, Mem!Rest, Mem!history
<1>4. CASE Mem!Removes(j)
  BY <1>4 DEF Mem!Removes, Mem!Forget, Mem!Vectors, Mem!Purge, Mem!Delete, Mem!DeleteFails, Mem!Retain,
     Mem!Tombstone, Mem!Rest, Mem!disk, Mem!history
<1>5. CASE Mem!Backup(j) \/ Mem!Restore(j)
  BY <1>5 DEF Mem!Backup, Mem!Restore, Mem!history
<1> QED
  BY <1>1, <1>2, <1>3, <1>4, <1>5 DEF Acts

Plain == {"recall", "target", "insert"} \cup Mem!Ensuring \cup Mem!Rebuilding \cup (Mem!Writing \ {"unindex"})

LEMMA PlainlyMeant ==
    ASSUME MemoryInv, NEW j \in Jobs, job[j].pc \notin {"idle", "done"}, job'[j].pc \in Plain, job'[j].op = job[j].op,
           job'[j].text = job[j].text
    PROVE  Meant(j)'
  BY DEF MemoryInv, Meant, Plain, Mem!Ensuring, Mem!Rebuilding, Mem!Writing

LEMMA EndMeant == ASSUME MemTyped, NEW j \in Jobs, Mem!Ends(j) PROVE Meant(j)'
  BY MovesEnd DEF Meant

LEMMA MeantOfCall == ASSUME Mem!ConstantsOK, MemoryInv, NEW j \in Jobs, Mem!Next, Mem!Call(j) PROVE Meant(j)'
<1>1. PICK op \in Calls, t \in Texts, i \in Mem!Ids \cup {NONE} :
         /\ op \in {"forget", "purge"} <=> i # NONE
         /\ i # NONE => rows[i] # NONE
         /\ job' = [job EXCEPT ![j] = [Mem!Idle EXCEPT !.pc = IF op \in Mem!Writes \cup {"search"} THEN "ensure" ELSE "store",
                                                   !.op = op, !.text = t, !.id = i]]
  BY DEF Mem!Call
<1>2. job'[j].op = op /\ job'[j].text = t /\ job'[j].id = i /\ job'[j].pc \in {"ensure", "store"}
  BY <1>1 DEF MemoryInv, MemTyped, Mem!Idle
<1>3. op # NONE
  BY DEF Mem!ConstantsOK
<1>4. i # NONE => i \in Mem!Ids /\ WasThere(i)'
  BY <1>1, WrittenStays DEF MemoryInv, Written
<1> QED
  BY <1>1, <1>2, <1>3, <1>4 DEF Meant

LEMMA MeantOfWork ==
    ASSUME Mem!ConstantsOK, MemoryInv, NEW j \in Jobs, Mem!Next, Mem!Ensures(j) \/ Mem!Rebuilds(j) PROVE Meant(j)'
<1>1. MemTyped /\ Meant(j)
  BY DEF MemoryInv
<1>2. CASE Mem!Ensure(j) \/ Mem!Looked(j)
  <2>1. \E pc \in {"look", "reconcile", "recall"} : GoesTo(j, pc)
    BY <1>2 DEF Mem!Ensure, Mem!Looked, Mem!Goes, GoesTo
  <2> QED
    BY <1>1, <1>2, <2>1, MovesPc, PlainlyMeant DEF Mem!Ensure, Mem!Looked, Mem!At, Plain, Mem!Ensuring, Mem!Rebuilding
<1>3. CASE Mem!Look(j) \/ Mem!Reconcile(j) \/ Mem!Read(j) \/ Mem!Again(j)
  <2>1. \E pc \in {"looked", "stale", "compare", "after"} : GoesSeeing(j, pc, Mem!ActiveIds)
    BY <1>3 DEF Mem!Look, Mem!Reconcile, Mem!Read, Mem!Again, Mem!Sees, GoesSeeing
  <2> QED
    BY <1>1, <1>3, <2>1, MovesView, PlainlyMeant DEF Mem!Look, Mem!Reconcile, Mem!Read, Mem!Again, Mem!At, Plain,
       Mem!Ensuring, Mem!Rebuilding
<1>4. CASE Mem!Compare(j) \/ Mem!Put(j)
  <2>1. \E todo, pc : pc \in {"activate", "embed", "put"} /\ GoesDoing(j, todo, pc)
    BY <1>4 DEF Mem!Compare, Mem!Put, GoesDoing
  <2> QED
    BY <1>1, <1>4, <2>1, MovesTodo, PlainlyMeant DEF Mem!Compare, Mem!Put, Mem!At, Plain, Mem!Rebuilding
<1>5. CASE Mem!Stale(j)
  <2>1. GoesToDo(j, "drop", Mem!Indexed \ job[j].view)
    BY <1>5 DEF Mem!Stale, GoesToDo
  <2> QED
    BY <1>1, <1>5, <2>1, MovesPcTodo, PlainlyMeant DEF Mem!Stale, Mem!At, Plain, Mem!Rebuilding
<1>6. CASE Mem!Drop(j) \/ Mem!EmbedFails(j)
  <2>1. Mem!Ends(j) \/ GoesTo(j, "read")
    BY <1>6 DEF Mem!Drop, Mem!EmbedFails, Mem!Goes, GoesTo
  <2> QED
    BY <1>1, <1>6, <2>1, MovesPc, PlainlyMeant, EndMeant DEF Mem!Drop, Mem!EmbedFails, Mem!At, Plain, Mem!Rebuilding
<1>7. CASE Mem!Embed(j) \/ Mem!Activate(j) \/ Mem!After(j)
  <2>1. \E pc \in {"put", "again", "recall"} : GoesTo(j, pc)
    BY <1>7 DEF Mem!Embed, Mem!Activate, Mem!After, Mem!Goes, GoesTo
  <2> QED
    BY <1>1, <1>7, <2>1, MovesPc, PlainlyMeant DEF Mem!Embed, Mem!Activate, Mem!After, Mem!At, Plain, Mem!Rebuilding
<1> QED
  BY <1>2, <1>3, <1>4, <1>5, <1>6, <1>7 DEF Mem!Ensures, Mem!Rebuilds

LEMMA MeantOfWrite == ASSUME Mem!ConstantsOK, MemoryInv, NEW j \in Jobs, Mem!Next, Mem!Remembers(j) PROVE Meant(j)'
<1>1. MemTyped /\ Meant(j)
  BY DEF MemoryInv
<1>2. CASE Mem!Recall(j)
  <2>1. Mem!Ends(j) \/ \E pc \in {"target", "insert"} : GoesSeeing(j, pc, Mem!ActiveIds)
    BY <1>2 DEF Mem!Recall, Mem!Sees, GoesSeeing
  <2> QED
    BY <1>1, <1>2, <2>1, MovesView, PlainlyMeant, EndMeant DEF Mem!Recall, Mem!At, Plain
<1>3. CASE Mem!Target(j)
  <2>1. Mem!Ends(j) \/ \E i : GoesFor(j, i, "insert")
    BY <1>3 DEF Mem!Target, GoesFor
  <2> QED
    BY <1>1, <1>3, <2>1, MovesId, PlainlyMeant, EndMeant DEF Mem!Target, Mem!At, Plain
<1>4. CASE Mem!Insert(j)
  <2>1. \/ Mem!Ends(j) \/ GoesTo(j, "get")
        \/ job[j].id \in Mem!Ids /\ rows[job[j].id] # NONE /\ GoesTo(j, "unindex")
    BY <1>1, <1>4 DEF Mem!Insert, Mem!Refused, Mem!Goes, GoesTo, MemTyped, JobRec
  <2>2. CASE GoesTo(j, "unindex") /\ job[j].id \in Mem!Ids /\ rows[job[j].id] # NONE
    <3>1. WasThere(job[j].id)'
      <4>1. PICK i \in Mem!Ids : i = job[j].id /\ WasThere(i)
        BY <2>2 DEF MemoryInv, Written
      <4>2. job'[j].id = i
        BY <1>1, <2>2, <4>1, MovesPc
      <4>3. WasThere(i)'
        BY <1>1, <4>1, WrittenStays
      <4> QED
        BY <4>2, <4>3 DEF WasThere
    <3> QED
      BY <1>1, <1>4, <2>2, <3>1, MovesPc DEF Meant, Mem!Insert, Mem!At
  <2> QED
    BY <1>1, <1>4, <2>1, <2>2, MovesPc, PlainlyMeant, EndMeant DEF Mem!Insert, Mem!At, Plain, Mem!Writing
<1>5. CASE Mem!Get(j) \/ Mem!Unindex(j) \/ Mem!Hash(j) \/ Mem!Upsert(j) \/ Mem!UpsertFails(j)
  <2>1. \E pc \in {"hash", "flag", "upsert"} : GoesTo(j, pc)
    BY <1>5 DEF Mem!Get, Mem!Unindex, Mem!Hash, Mem!Upsert, Mem!UpsertFails, Mem!Goes, GoesTo
  <2> QED
    BY <1>1, <1>5, <2>1, MovesPc, PlainlyMeant DEF Mem!Get, Mem!Unindex, Mem!Hash, Mem!Upsert, Mem!UpsertFails,
       Mem!At, Plain, Mem!Writing
<1>6. CASE Mem!Flag(j)
  BY <1>1, <1>6, EndMeant DEF Mem!Flag
<1> QED
  BY <1>2, <1>3, <1>4, <1>5, <1>6 DEF Mem!Remembers

LEMMA MeantOfRemoval ==
    ASSUME Mem!ConstantsOK, MemoryInv, NEW j \in Jobs, Mem!Next, Mem!Removes(j) \/ Mem!Backup(j) \/ Mem!Restore(j) PROVE Meant(j)'
<1>1. MemTyped /\ Meant(j)
  BY DEF MemoryInv
<1>2. ASSUME NEW pc \in {"vectors", "deleting"}, NEW i \in Mem!Ids, WasThere(i), job'[j].id = i, job'[j].pc = pc,
             job'[j].op # NONE, job'[j].text \in Texts, pc = "deleting" => i \in ledger'
      PROVE  Meant(j)'
  <2>1. WasThere(i)'
    BY <1>1, <1>2, WrittenStays
  <2> QED
    BY <1>2, <2>1 DEF Meant
<1>3. CASE Mem!Forget(j)
  <2>1. job[j].id \in Mem!Ids /\ WasThere(job[j].id) /\ GoesTo(j, "vectors")
    BY <1>1, <1>3 DEF Mem!Forget, Mem!Store, Mem!At, Meant, Mem!Goes, GoesTo
  <2>2. job[j].op # NONE /\ job[j].text \in Texts
    BY <1>1, <1>3 DEF Mem!Forget, Mem!Store, Mem!At, Meant
  <2> QED
    BY <1>1, <1>2, <2>1, <2>2, MovesPc
<1>4. CASE Mem!Purge(j)
  <2>1. job[j].id \in Mem!Ids /\ WasThere(job[j].id) /\ job[j].op # NONE /\ job[j].text \in Texts
    BY <1>1, <1>4 DEF Mem!Purge, Mem!Store, Mem!At, Meant
  <2>2. GoesTo(j, "vectors") \/ (GoesTo(j, "deleting") /\ job[j].id \in ledger')
    BY <1>4 DEF Mem!Purge, Mem!Tombstone, Mem!Goes, GoesTo
  <2> QED
    BY <1>1, <1>2, <2>1, <2>2, MovesPc
<1>5. CASE Mem!Delete(j)
  <2>1. job[j].id \in Mem!Ids /\ WasThere(job[j].id) /\ job[j].op # NONE /\ job[j].text \in Texts
    BY <1>1, <1>5 DEF Mem!Delete, Mem!At, Meant
  <2>2. Mem!Ends(j) \/ GoesTo(j, "vectors")
    BY <1>5 DEF Mem!Delete, Mem!Goes, GoesTo
  <2> QED
    BY <1>1, <1>2, <2>1, <2>2, MovesPc, EndMeant
<1>6. CASE Mem!Retain(j)
  <2>1. Mem!Ends(j) \/ \E i \in Mem!Ids : rows[i] # NONE /\ i \in ledger' /\ GoesFor(j, i, "deleting")
    BY <1>6 DEF Mem!Retain, Mem!Expired, Mem!IsActive, Mem!Tombstone, GoesFor
  <2>2. job[j].op # NONE /\ job[j].text \in Texts
    BY <1>1, <1>6 DEF Mem!Retain, Mem!Store, Mem!At, Meant
  <2>3. ASSUME NEW i \in Mem!Ids, rows[i] # NONE, i \in ledger', GoesFor(j, i, "deleting") PROVE Meant(j)'
    <3>1. WasThere(i)
      BY <2>3 DEF MemoryInv, Written
    <3> QED
      BY <1>1, <1>2, <2>2, <2>3, <3>1, MovesId
  <2> QED
    BY <1>1, <2>1, <2>3, EndMeant
<1>7. CASE Mem!Restore(j)
  <2>1. Mem!Ends(j) \/ GoesTo(j, "reconcile")
    BY <1>7 DEF Mem!Restore, Mem!Goes, GoesTo
  <2> QED
    BY <1>1, <1>7, <2>1, MovesPc, PlainlyMeant, EndMeant DEF Mem!Restore, Mem!Store, Mem!At, Plain, Mem!Rebuilding
<1>8. CASE Mem!Vectors(j) \/ Mem!DeleteFails(j) \/ Mem!Backup(j)
  BY <1>1, <1>8, EndMeant DEF Mem!Vectors, Mem!DeleteFails, Mem!Backup
<1> QED
  BY <1>3, <1>4, <1>5, <1>6, <1>7, <1>8 DEF Mem!Removes

LEMMA MeantKeeps == ASSUME Mem!ConstantsOK, MemoryInv, Mem!Next PROVE \A k \in Jobs : Meant(k)'
<1>1. MemTyped /\ Denied /\ \A k \in Jobs : Meant(k)
  BY DEF MemoryInv
<1>2. ASSUME NEW k \in Jobs, job'[k] = job[k], ledger \subseteq ledger' PROVE Meant(k)'
  <2>1. \A i \in Mem!Ids : WasThere(i) => WasThere(i)'
    BY <1>1, WrittenStays
  <2>2. Meant(k)
    BY <1>1
  <2>3. ASSUME NEW i \in Mem!Ids, i = job[k].id, WasThere(i) PROVE WasThere(job[k].id)'
    <3>1. WasThere(i)' /\ job'[k].id = i
      BY <1>2, <2>1, <2>3
    <3> QED
      BY <3>1 DEF WasThere
  <2> QED
    BY <1>2, <2>2, <2>3 DEF Meant
<1>3. ASSUME NEW j \in Jobs, Acts(j) PROVE \A k \in Jobs : Meant(k)'
  <2>1. \A k \in Jobs \ {j} : Meant(k)'
    BY <1>1, <1>2, <1>3, OthersStay, LedgerGrows
  <2>2. Meant(j)'
    BY <1>3, MeantOfCall, MeantOfWork, MeantOfWrite, MeantOfRemoval DEF Acts
  <2> QED
    BY <2>1, <2>2
<1>4. CASE Mem!Crash
  BY <1>4 DEF Mem!Crash, Mem!Idle, Meant
<1>5. CASE Mem!Boot
  BY <1>1, <1>5 DEF Mem!Boot, Denied, Meant
<1>6. CASE Mem!LedgerLost \/ Mem!Finished
  BY <1>2, <1>6 DEF Mem!LedgerLost, Mem!Finished, Mem!vars
<1> QED
  BY <1>3, <1>4, <1>5, <1>6 DEF Mem!Next, Acts

LEMMA DeniedKeeps == ASSUME Mem!ConstantsOK, MemoryInv, Mem!Next PROVE Denied'
<1>1. MemTyped /\ Denied
  BY DEF MemoryInv
<1>2. ASSUME NEW j \in Jobs, Acts(j) PROVE Denied'
  <2>1. up /\ up' /\ UNCHANGED <<lost, ledgerFile>>
    BY <1>1, <1>2, OthersStay, LedgerGrows
  <2>2. CASE Mem!Purge(j) \/ Mem!Retain(j)
    BY <1>1, <2>1, <2>2 DEF Mem!Purge, Mem!Retain, Mem!Tombstone, Denied
  <2>3. CASE Mem!Restore(j)
    BY <1>1, <2>1, <2>3 DEF Mem!Restore, Denied, Mem!history
  <2>4. CASE Mem!Rebuilds(j)
    BY <1>1, <2>1, <2>4 DEF Mem!Rebuilds, Mem!Reconcile, Mem!Stale, Mem!Drop, Mem!Read, Mem!Compare, Mem!Embed,
       Mem!EmbedFails, Mem!Put, Mem!Activate, Mem!Again,
       Mem!After, Mem!Rest, Mem!disk, Mem!memory, Mem!history, Denied
  <2>5. CASE Mem!Remembers(j)
    BY <1>1, <2>1, <2>5 DEF Mem!Remembers, Mem!Recall, Mem!Target, Mem!Insert, Mem!Get, Mem!Unindex, Mem!Hash,
       Mem!Upsert, Mem!UpsertFails, Mem!Flag, Mem!Rest, Mem!disk,
       Mem!memory, Mem!history, Denied
  <2>6. CASE Mem!Call(j) \/ Mem!Ensures(j) \/ Mem!Backup(j)
    BY <1>1, <2>1, <2>6 DEF Mem!Call, Mem!Ensures, Mem!Ensure, Mem!Look, Mem!Looked, Mem!Backup, Mem!Rest,
       Mem!memory, Mem!history, Denied
  <2>7. CASE Mem!Forget(j) \/ Mem!Vectors(j) \/ Mem!Delete(j) \/ Mem!DeleteFails(j)
    BY <1>1, <2>1, <2>7 DEF Mem!Forget, Mem!Vectors, Mem!Delete, Mem!DeleteFails, Mem!Rest, Mem!disk, Mem!memory,
       Mem!history, Denied
  <2> QED
    BY <1>2, <2>2, <2>3, <2>4, <2>5, <2>6, <2>7 DEF Acts, Mem!Removes
<1>3. CASE Mem!Crash
  BY <1>1, <1>3 DEF Mem!Crash, Denied, Mem!Idle, Mem!disk, Mem!history
<1>4. CASE Mem!Boot
  BY <1>1, <1>4 DEF Mem!Boot, Denied, Mem!history
<1>5. CASE Mem!LedgerLost
  BY <1>1, <1>5 DEF Mem!LedgerLost, Denied, Mem!memory
<1>6. CASE Mem!Finished
  BY <1>1, <1>6 DEF Mem!Finished, Denied, Mem!vars
<1> QED
  BY <1>2, <1>3, <1>4, <1>5, <1>6 DEF Mem!Next, Acts

\* Who is named by a record is named in rows that are like it but for records that were purged, or are new.
FollowedIn(r, l) == \A i \in Mem!Ids : r[i] # NONE /\ r[i].by # NONE => r[r[i].by] # NONE \/ r[i].by \in l

LEMMA FollowedOn ==
    ASSUME NEW r, NEW s, NEW l, NEW m, FollowedIn(r, l), l \subseteq m,
           \A i \in Mem!Ids : r[i] # NONE => s[i] # NONE \/ i \in m,
           \A i \in Mem!Ids : s[i] # NONE /\ s[i].by # NONE => r[i] # NONE /\ s[i].by = r[i].by,
           r \in [Mem!Ids -> Mem!Rows \cup {NONE}], s \in [Mem!Ids -> Mem!Rows \cup {NONE}]
    PROVE  FollowedIn(s, m)
<1> SUFFICES ASSUME NEW i \in Mem!Ids, s[i] # NONE, s[i].by # NONE PROVE s[s[i].by] # NONE \/ s[i].by \in m
  BY DEF FollowedIn
<1>1. s[i].by \in Mem!Ids
  BY DEF Mem!Rows
<1>2. r[i] # NONE /\ r[i].by = s[i].by
  OBVIOUS
<1>3. r[r[i].by] # NONE \/ r[i].by \in l
  BY <1>2 DEF FollowedIn
<1> QED
  BY <1>1, <1>2, <1>3

LEMMA FollowableKeeps == ASSUME Mem!ConstantsOK, MemoryInv, Mem!Next PROVE Followable'
<1>1. /\ MemTyped /\ MemTyped' /\ \A k \in Jobs : Meant(k)
      /\ ~lost => FollowedIn(rows, ledger) /\ (copy # NONE => FollowedIn(copy, ledger))
  BY MemoryTypes DEF MemoryInv, Followable, Followed, FollowedIn
<1>2. Followable' <=> (~lost' => FollowedIn(rows', ledger') /\ (copy' # NONE => FollowedIn(copy', ledger')))
  BY DEF Followable, Followed, FollowedIn
<1>3. ASSUME ~lost, ledger \subseteq ledger' PROVE copy # NONE => FollowedIn(copy, ledger')
  BY <1>1, <1>3 DEF FollowedIn
<1>4. ASSUME ~lost, ledger \subseteq ledger', UNCHANGED rows PROVE FollowedIn(rows', ledger')
  BY <1>1, <1>4 DEF FollowedIn
<1>5. ASSUME NEW j \in Jobs, Acts(j), ~lost PROVE FollowedIn(rows', ledger') /\ (copy' # NONE => FollowedIn(copy', ledger'))
  <2>1. ledger \subseteq ledger'
    BY <1>5, LedgerGrows
  <2>2. CASE UNCHANGED <<rows, copy>>
    BY <1>3, <1>4, <1>5, <2>1, <2>2
  <2>3. CASE Mem!Backup(j)
    BY <1>1, <1>5, <2>3 DEF Mem!Backup
  <2>4. CASE Mem!Restore(j)
    <3>1. copy' = copy /\ ledger' = ledger
      BY <2>4 DEF Mem!Restore
    <3>2. rows' = rows \/ (copy # NONE /\ rows' = Mem!Reconciled(copy, ledger))
      BY <2>4 DEF Mem!Restore, Mem!Verified, Mem!Restored
    <3>3. copy # NONE => FollowedIn(Mem!Reconciled(copy, ledger), ledger)
      <4> SUFFICES ASSUME copy # NONE, NEW i \in Mem!Ids, Mem!Reconciled(copy, ledger)[i] # NONE,
                          Mem!Reconciled(copy, ledger)[i].by # NONE
                   PROVE  Mem!Reconciled(copy, ledger)[Mem!Reconciled(copy, ledger)[i].by] # NONE
                          \/ Mem!Reconciled(copy, ledger)[i].by \in ledger
        BY DEF FollowedIn
      <4>1. Mem!Reconciled(copy, ledger)[i] = copy[i] /\ copy[i] # NONE
        BY DEF Mem!Reconciled
      <4>2. copy[i].by \in Mem!Ids
        BY <1>1, <4>1 DEF MemTyped, Mem!Rows
      <4>3. copy[copy[i].by] # NONE \/ copy[i].by \in ledger
        BY <1>1, <1>5, <4>1 DEF FollowedIn
      <4> QED
        BY <4>1, <4>2, <4>3 DEF Mem!Reconciled
    <3> QED
      BY <1>1, <1>5, <3>1, <3>2, <3>3
  <2>5. CASE UNCHANGED copy /\ \E i \in Mem!Ids : i \in ledger' /\ rows' = [rows EXCEPT ![i] = NONE]
    <3>1. FollowedIn(rows', ledger')
      <4>1. PICK i \in Mem!Ids : i \in ledger' /\ rows' = [rows EXCEPT ![i] = NONE]
        BY <2>5
      <4>2. /\ \A k \in Mem!Ids : rows[k] # NONE => rows'[k] # NONE \/ k \in ledger'
            /\ \A k \in Mem!Ids : rows'[k] # NONE => rows'[k] = rows[k]
        BY <1>1, <4>1 DEF MemTyped
      <4>6. /\ FollowedIn(rows, ledger) /\ rows \in [Mem!Ids -> Mem!Rows \cup {NONE}]
            /\ rows' \in [Mem!Ids -> Mem!Rows \cup {NONE}]
        BY <1>1, <1>5 DEF MemTyped
      <4> QED
        BY <2>1, <4>2, <4>6, FollowedOn
    <3> QED
      BY <1>3, <1>5, <2>1, <2>5, <3>1
  <2>6. CASE UNCHANGED copy /\ \E i \in Mem!Ids : rows[i] # NONE /\ rows' = [rows EXCEPT ![i].forgotten = TRUE]
    <3>1. FollowedIn(rows', ledger')
      <4>1. PICK i \in Mem!Ids : rows[i] # NONE /\ rows' = [rows EXCEPT ![i].forgotten = TRUE]
        BY <2>6
      <4>2. rows[i] \in Mem!Rows
        BY <1>1, <4>1 DEF MemTyped
      <4>3. rows'[i].by = rows[i].by /\ rows'[i] \in Mem!Rows /\ \A k \in Mem!Ids \ {i} : rows'[k] = rows[k]
        BY <1>1, <4>1, <4>2 DEF MemTyped, Mem!Rows
      <4>4. rows'[i] # NONE
        BY <4>3 DEF Mem!ConstantsOK
      <4>5. /\ \A k \in Mem!Ids : rows[k] # NONE => rows'[k] # NONE
            /\ \A k \in Mem!Ids : rows'[k] # NONE => rows[k] # NONE /\ rows'[k].by = rows[k].by
        BY <4>1, <4>3, <4>4
      <4>6. /\ FollowedIn(rows, ledger) /\ rows \in [Mem!Ids -> Mem!Rows \cup {NONE}]
            /\ rows' \in [Mem!Ids -> Mem!Rows \cup {NONE}]
        BY <1>1, <1>5 DEF MemTyped
      <4> QED
        BY <2>1, <4>5, <4>6, FollowedOn
    <3> QED
      BY <1>3, <1>5, <2>1, <2>6, <3>1
  <2>7. CASE Mem!Insert(j)
    <3> DEFINE new == [rows EXCEPT ![j] = Mem!Row(job[j].text, "keep")]
    <3>1. job[j].text \in Texts /\ job[j].id \in Mem!Ids \cup {NONE} /\ rows \in [Mem!Ids -> Mem!Rows \cup {NONE}]
      BY <1>1, <2>7 DEF Mem!Insert, Mem!At, Meant, MemTyped, JobRec
    <3>2. Mem!Row(job[j].text, "keep") \in Mem!Rows /\ Mem!Row(job[j].text, "keep").by = NONE
      BY <3>1 DEF Mem!Row, Mem!Rows
    <3>3. Mem!Row(job[j].text, "keep") # NONE
      BY <3>2 DEF Mem!ConstantsOK
    <3>4. FollowedIn(new, ledger) /\ new \in [Mem!Ids -> Mem!Rows \cup {NONE}]
      <4>1. new \in [Mem!Ids -> Mem!Rows \cup {NONE}]
        BY <3>1, <3>2
      <4>2. /\ \A k \in Mem!Ids : rows[k] # NONE => new[k] # NONE
            /\ \A k \in Mem!Ids : new[k] # NONE /\ new[k].by # NONE => rows[k] # NONE /\ new[k].by = rows[k].by
        BY <3>1, <3>2, <3>3
      <4> HIDE DEF new
      <4> QED
        BY <1>1, <1>5, <3>1, <4>1, <4>2, FollowedOn
    <3>5. ASSUME NEW o \in Mem!Ids, o = job[j].id, ~Mem!Refused(j), rows' = [new EXCEPT ![o].by = j] PROVE FollowedIn(rows', ledger)
      <4>0. rows[o] # NONE
        BY <3>5 DEF Mem!Refused, Mem!ConstantsOK
      <4>1. new[o] \in Mem!Rows /\ new[j] # NONE
        BY <3>1, <3>2, <3>3, <4>0
      <4>2. /\ rows'[o].by = j /\ rows'[o] \in Mem!Rows /\ \A k \in Mem!Ids \ {o} : rows'[k] = new[k]
        BY <3>4, <3>5, <4>1 DEF Mem!Rows
      <4>3. rows'[o] # NONE
        BY <4>2 DEF Mem!ConstantsOK
      <4> HIDE DEF new
      <4> SUFFICES ASSUME NEW k \in Mem!Ids, rows'[k] # NONE, rows'[k].by # NONE
                   PROVE  rows'[rows'[k].by] # NONE \/ rows'[k].by \in ledger
        BY DEF FollowedIn
      <4>4. CASE k = o
        BY <4>1, <4>2, <4>3, <4>4
      <4>5. CASE k # o
        <5>1. new[k] # NONE /\ new[k].by = rows'[k].by /\ new[k] \in Mem!Rows
          BY <3>4, <4>2, <4>5
        <5>2. new[k].by \in Mem!Ids
          BY <4>5, <5>1 DEF Mem!Rows
        <5>3. new[new[k].by] # NONE \/ new[k].by \in ledger
          BY <3>4, <4>5, <5>1 DEF FollowedIn
        <5> QED
          BY <4>2, <4>3, <5>1, <5>2, <5>3
      <4> QED
        BY <4>4, <4>5
    <3>6. UNCHANGED <<ledger, copy>>
      BY <2>7 DEF Mem!Insert, Mem!Rest
    <3>7. rows' = rows \/ rows' = new \/ (job[j].id \in Mem!Ids /\ ~Mem!Refused(j) /\ rows' = [new EXCEPT ![job[j].id].by = j])
      BY <2>7, <3>1 DEF Mem!Insert
    <3> QED
      BY <1>1, <1>5, <3>4, <3>5, <3>6, <3>7
  <2>8. CASE Mem!Forget(j) \/ Mem!Delete(j) \/ Mem!Retain(j)
    <3>1. CASE Mem!Forget(j)
      BY <2>2, <2>6, <3>1 DEF Mem!Forget, Mem!Readable, Mem!Rest
    <3>2. CASE Mem!Delete(j)
      BY <1>1, <2>1, <2>5, <3>2 DEF Mem!Delete, Mem!At, Meant, Mem!Rest
    <3>3. CASE Mem!Retain(j)
      BY <2>2, <2>6, <3>3 DEF Mem!Retain, Mem!Expired, Mem!IsActive
    <3> QED
      BY <2>8, <3>1, <3>2, <3>3
  <2>9. CASE Mem!Rebuilds(j)
    BY <2>2, <2>9 DEF Mem!Rebuilds, Mem!Reconcile, Mem!Stale, Mem!Drop, Mem!Read, Mem!Compare, Mem!Embed,
       Mem!EmbedFails, Mem!Put, Mem!Activate, Mem!Again,
       Mem!After, Mem!Rest, Mem!disk
  <2>10. CASE Mem!Remembers(j)
    BY <2>2, <2>7, <2>10 DEF Mem!Remembers, Mem!Recall, Mem!Target, Mem!Get, Mem!Unindex, Mem!Hash, Mem!Upsert,
       Mem!UpsertFails, Mem!Flag, Mem!Rest, Mem!disk
  <2>11. CASE Mem!Call(j) \/ Mem!Ensures(j) \/ Mem!Vectors(j) \/ Mem!DeleteFails(j) \/ Mem!Purge(j)
    BY <2>2, <2>11 DEF Mem!Call, Mem!Ensures, Mem!Ensure, Mem!Look, Mem!Looked, Mem!Vectors, Mem!DeleteFails,
       Mem!Purge, Mem!Rest, Mem!disk
  <2> QED
    BY <1>5, <2>3, <2>4, <2>8, <2>9, <2>10, <2>11 DEF Acts, Mem!Removes
<1>6. ASSUME NEW j \in Jobs, Acts(j) PROVE Followable'
  BY <1>2, <1>5, <1>6, LedgerGrows
<1>7. CASE Mem!Boot
  <2> SUFFICES ASSUME ~lost PROVE FollowedIn(rows', ledger') /\ (copy' # NONE => FollowedIn(copy', ledger'))
    BY <1>2, <1>7 DEF Mem!Boot, Mem!history
  <2>1. ledger' = ledger /\ copy' = copy /\ rows' = Mem!Reconciled(rows, ledger)
    BY <1>7 DEF Mem!Boot, MemoryInv, Denied
  <2>2. /\ \A k \in Mem!Ids : rows[k] # NONE => rows'[k] # NONE \/ k \in ledger'
        /\ \A k \in Mem!Ids : rows'[k] # NONE => rows'[k] = rows[k]
    BY <2>1 DEF Mem!Reconciled
  <2> QED
    BY <1>1, <2>1, <2>2, FollowedOn DEF MemTyped
<1>8. CASE Mem!Crash \/ Mem!LedgerLost \/ Mem!Finished
  BY <1>1, <1>2, <1>8 DEF Mem!Crash, Mem!LedgerLost, Mem!Finished, Mem!vars, Mem!disk, Mem!history
<1> QED
  BY <1>6, <1>7, <1>8 DEF Mem!Next, Acts

LEMMA MemoryKeeps == ASSUME Mem!ConstantsOK, MemoryInv, [Mem!Next]_Mem!vars PROVE MemoryInv'
<1>1. CASE Mem!Next
  BY <1>1, MemoryTypes, DeniedKeeps, WrittenKeeps, MeantKeeps, FollowableKeeps DEF MemoryInv
<1>2. CASE UNCHANGED Mem!vars
  BY <1>2 DEF MemoryInv, MemTyped, Denied, Written, WasThere, Meant, Followable, Followed, Mem!vars
<1> QED
  BY <1>1, <1>2

LEMMA MemoryStart == ASSUME Mem!ConstantsOK, Mem!Init PROVE MemoryInv
<1>1. \A t \in Texts, d \in Due : Mem!Row(t, d) \in Mem!Rows /\ Mem!Row(t, d).by = NONE
  BY DEF Mem!Row, Mem!Rows, Mem!ConstantsOK
<1>2. PICK d \in [Old -> Due], t \in Texts : rows = [i \in Mem!Ids |-> IF i \in Old THEN Mem!Row(t, d[i]) ELSE NONE]
  BY DEF Mem!Init
<1>3. Mem!Idle \in JobRec
  BY CallPlaces DEF JobRec, Mem!Idle
<1>4. rows \in [Mem!Ids -> Mem!Rows \cup {NONE}]
  BY <1>1, <1>2
<1>5. MemTyped
  BY <1>3, <1>4 DEF Mem!Init, MemTyped, Mem!NoFlags
<1>6. Written
  BY <1>2 DEF Mem!Init, Written, WasThere, Mem!ConstantsOK
<1>7. \A j \in Jobs : Meant(j)
  BY DEF Mem!Init, Meant, Mem!Idle
<1>8. Denied /\ Followable
  BY <1>1, <1>2 DEF Mem!Init, Denied, Mem!Idle, Followable, Followed
<1> QED
  BY <1>5, <1>6, <1>7, <1>8 DEF MemoryInv

LEMMA MemoryInvariance == ASSUME Mem!ConstantsOK PROVE Mem!Spec => []MemoryInv
  BY MemoryStart, MemoryKeeps, PTL DEF Mem!Spec

\* Records, calls and flags keep their types (MemoryService, MemoryStore).
THEOREM MemoryTypeCorrect == ASSUME Mem!ConstantsOK PROVE Mem!Spec => []Mem!TypeOK
<1>1. MemoryInv => Mem!TypeOK
  BY DEF MemoryInv, MemTyped, JobRec, JobPcs, Mem!TypeOK, Mem!NoFlags
<1> QED
  BY <1>1, MemoryInvariance, PTL

\* What was purged is never read again, whatever crashed or was put back since: it stands in the ledger, and
\* the store that runs knows the ledger (_purge_sync, _restore_sync).
THEOREM PurgedIsGone == ASSUME Mem!ConstantsOK PROVE Mem!Spec => []Mem!PurgedStaysGone
<1>1. MemoryInv => Mem!PurgedStaysGone
  BY DEF MemoryInv, Denied, Mem!PurgedStaysGone, Mem!Readable
<1> QED
  BY <1>1, MemoryInvariance, PTL

\* A corrected record names one that is there, or one that was purged (supersede, reconcile_purged).
THEOREM SuccessorIsThere == ASSUME Mem!ConstantsOK PROVE Mem!Spec => []Mem!SuccessorKnown
<1>1. MemoryInv => Mem!SuccessorKnown
  BY DEF MemoryInv, Followable, Followed, Mem!SuccessorKnown
<1> QED
  BY <1>1, MemoryInvariance, PTL

\* What nobody looks for is only forgotten at a start.
LEMMA UnsaidGrows == ASSUME NEW j \in Jobs, Acts(j) PROVE unsaid \subseteq unsaid'
<1>1. CASE Mem!Rebuilds(j)
  BY <1>1 DEF Mem!Rebuilds, Mem!Reconcile, Mem!Stale, Mem!Drop, Mem!Read, Mem!Compare, Mem!Embed, Mem!EmbedFails,
     Mem!Put, Mem!Activate, Mem!Again, Mem!After, Mem!Rest, Mem!history
<1>2. CASE Mem!Remembers(j)
  BY <1>2 DEF Mem!Remembers, Mem!Recall, Mem!Target, Mem!Insert, Mem!Get, Mem!Unindex, Mem!Hash, Mem!Upsert,
     Mem!UpsertFails, Mem!Flag, Mem!Rest, Mem!history
<1>3. CASE Mem!Removes(j)
  BY <1>3 DEF Mem!Removes, Mem!Forget, Mem!Vectors, Mem!Purge, Mem!Delete, Mem!DeleteFails, Mem!Retain, Mem!Rest,
     Mem!history
<1>4. CASE Mem!Call(j) \/ Mem!Ensures(j) \/ Mem!Backup(j)
  BY <1>4 DEF Mem!Call, Mem!Ensures, Mem!Ensure, Mem!Look, Mem!Looked, Mem!Backup, Mem!Rest, Mem!history
<1>5. CASE Mem!Restore(j)
  BY <1>5 DEF Mem!Restore, Mem!CameBack
<1> QED
  BY <1>1, <1>2, <1>3, <1>4, <1>5 DEF Acts

LEMMA NoneComesBack ==
    ASSUME Mem!ConstantsOK, MemoryInv, NEW j \in Jobs, Acts(j), NEW i \in Mem!Ids, i \in Mem!ActiveIds', i \notin unsaid'
    PROVE  i \in Mem!ActiveIds \/ (i = j /\ Mem!Insert(j) /\ job'[j].pc \in Mem!Writing)
<1>1. MemTyped /\ \A k \in Jobs : Meant(k)
  BY DEF MemoryInv
<1>2. i \notin deny' /\ rows'[i] # NONE /\ ~rows'[i].forgotten /\ rows'[i].by = NONE
  BY DEF Mem!ActiveIds, Mem!IsActive
<1>4. CASE UNCHANGED rows /\ deny \subseteq deny'
  BY <1>2, <1>4 DEF Mem!ActiveIds, Mem!IsActive
<1>3. CASE Mem!Restore(j)
  <2>1. UNCHANGED <<rows, deny>> \/ Mem!CameBack
    BY <1>3 DEF Mem!Restore
  <2>2. CASE Mem!CameBack
    BY <2>2 DEF Mem!CameBack
  <2> QED
    BY <1>4, <2>1, <2>2
<1>5. CASE Mem!Insert(j)
  <2>1. deny' = deny /\ rows \in [Mem!Ids -> Mem!Rows \cup {NONE}]
    BY <1>1, <1>5 DEF Mem!Insert, Mem!Rest, Mem!memory, MemTyped
  <2>2. CASE rows' = rows
    BY <1>4, <2>1, <2>2
  <2>3. CASE rows' # rows
    <3>1. job'[j].pc \in Mem!Writing
      BY <1>1, <1>5, <2>3 DEF Mem!Insert, Mem!Goes, Mem!Ends, MemTyped, JobRec, Mem!Writing
    <3>2. CASE i = j
      BY <1>5, <3>1, <3>2
    <3>3. CASE i # j
      <4>1. rows'[i] = rows[i] \/ (i = job[j].id /\ rows' = [[rows EXCEPT ![j] = Mem!Row(job[j].text,
            "keep")] EXCEPT ![i].by = j])
        BY <1>5, <2>1, <3>3 DEF Mem!Insert
      <4>2. CASE i = job[j].id /\ rows' = [[rows EXCEPT ![j] = Mem!Row(job[j].text, "keep")] EXCEPT ![i].by = j]
        <5>1. rows[i] # NONE
          BY <1>1, <1>5, <2>3, <4>2 DEF Mem!Insert, Mem!Refused, Mem!ConstantsOK
        <5>2. rows'[i].by = j
          BY <2>1, <3>3, <4>2, <5>1 DEF Mem!Rows
        <5> QED
          BY <1>2, <5>2 DEF Mem!ConstantsOK
      <4> QED
        BY <1>2, <2>1, <4>1, <4>2 DEF Mem!ActiveIds, Mem!IsActive
    <3> QED
      BY <3>2, <3>3
  <2> QED
    BY <2>2, <2>3
<1>6. CASE Mem!Forget(j) \/ Mem!Retain(j)
  <2>1. deny \subseteq deny'
    BY <1>6 DEF Mem!Forget, Mem!Retain, Mem!Tombstone, Mem!Rest, Mem!memory
  <2>2. rows' = rows \/ \E k \in Mem!Ids : rows[k] # NONE /\ rows' = [rows EXCEPT ![k].forgotten = TRUE]
    BY <1>6 DEF Mem!Forget, Mem!Readable, Mem!Retain, Mem!Expired, Mem!IsActive
  <2>3. ASSUME NEW k \in Mem!Ids, rows[k] # NONE, rows' = [rows EXCEPT ![k].forgotten = TRUE] PROVE rows'[i] = rows[i]
    <3>1. rows[k] \in Mem!Rows
      BY <1>1, <2>3 DEF MemTyped
    <3>2. rows'[k].forgotten
      BY <1>1, <2>3, <3>1 DEF MemTyped, Mem!Rows
    <3> QED
      BY <1>1, <1>2, <2>3, <3>2 DEF MemTyped
  <2> QED
    BY <1>2, <2>1, <2>2, <2>3 DEF Mem!ActiveIds, Mem!IsActive
<1>7. CASE Mem!Delete(j)
  BY <1>1, <1>2, <1>7 DEF Mem!Delete, Mem!Rest, Mem!memory, MemTyped, Mem!ActiveIds, Mem!IsActive
<1>8. CASE Mem!Rebuilds(j)
  BY <1>4, <1>8 DEF Mem!Rebuilds, Mem!Reconcile, Mem!Stale, Mem!Drop, Mem!Read, Mem!Compare, Mem!Embed,
     Mem!EmbedFails, Mem!Put, Mem!Activate, Mem!Again,
     Mem!After, Mem!Rest, Mem!disk, Mem!memory
<1>9. CASE Mem!Remembers(j)
  BY <1>4, <1>5, <1>9 DEF Mem!Remembers, Mem!Recall, Mem!Target, Mem!Get, Mem!Unindex, Mem!Hash, Mem!Upsert,
     Mem!UpsertFails, Mem!Flag, Mem!Rest, Mem!disk, Mem!memory
<1>10. CASE Mem!Call(j) \/ Mem!Ensures(j) \/ Mem!Vectors(j) \/ Mem!DeleteFails(j) \/ Mem!Purge(j) \/ Mem!Backup(j)
  BY <1>4, <1>10 DEF Mem!Call, Mem!Ensures, Mem!Ensure, Mem!Look, Mem!Looked, Mem!Vectors, Mem!DeleteFails,
     Mem!Purge, Mem!Backup, Mem!Tombstone, Mem!Rest, Mem!disk, Mem!memory
<1> QED
  BY <1>3, <1>5, <1>6, <1>7, <1>8, <1>9, <1>10 DEF Acts, Mem!Removes

LEMMA PassiveKeeps ==
    ASSUME Mem!ConstantsOK, MemoryInv, SaidInv, NEW j \in Jobs, Acts(j), NEW k \in Jobs PROVE Passive(k)'
<1>1. MemTyped /\ Passive(k) /\ Meant(k) /\ Written /\ up
  BY OthersStay DEF MemoryInv, SaidInv
<1>2. ASSUME NEW i \in Mem!Ids, i \notin Sought, WasThere(i) PROVE i \notin Sought'
  BY <1>2, NoneComesBack, UnsaidGrows DEF Sought, WasThere, Mem!Insert, Mem!At, Mem!Writing
<1>3. ASSUME job'[k].id = job[k].id, job'[k].pc \in {"vectors", "unindex"} => job[k].pc \in {"vectors", "unindex"}
      PROVE  Passive(k)'
  <2> SUFFICES ASSUME job[k].pc \in {"vectors", "unindex"} PROVE job[k].id \notin Sought'
    BY <1>3 DEF Passive
  <2>1. job[k].id \in Mem!Ids /\ WasThere(job[k].id) /\ job[k].id \notin Sought
    BY <1>1 DEF Meant, Passive
  <2> QED
    BY <1>2, <2>1
<1>4. CASE k # j
  BY <1>1, <1>3, <1>4, OthersStay
<1>5. ASSUME job'[j].pc \notin {"vectors", "unindex"}, k = j PROVE Passive(k)'
  BY <1>5 DEF Passive
<1>6. CASE k = j
  <2>1. CASE Mem!Insert(j)
    <3>1. CASE GoesTo(j, "unindex") /\ job[j].id # NONE /\ ~Mem!Refused(j)
               /\ rows' = [[rows EXCEPT ![j] = Mem!Row(job[j].text, "keep")] EXCEPT ![job[j].id].by = j]
      <4>1. rows \in [Mem!Ids -> Mem!Rows \cup {NONE}] /\ job[j].id \in Mem!Ids /\ job[j].text \in Texts
            /\ rows[job[j].id] # NONE
        BY <1>1, <1>6, <2>1, <3>1 DEF MemTyped, JobRec, Mem!Refused, Meant, Mem!Insert, Mem!At
      <4>2. Mem!Row(job[j].text, "keep") \in Mem!Rows
        BY <4>1 DEF Mem!Row, Mem!Rows
      <4>3. rows'[job[j].id].by = j
        BY <3>1, <4>1, <4>2 DEF Mem!Rows
      <4>4. job'[j].id = job[j].id
        BY <1>1, <3>1, MovesPc
      <4>5. j # NONE
        BY DEF Mem!ConstantsOK
      <4> QED
        BY <1>6, <4>3, <4>4, <4>5 DEF Passive, Sought, Mem!ActiveIds, Mem!IsActive
    <3>2. Mem!Ends(j) \/ GoesTo(j, "get") \/ (GoesTo(j, "unindex") /\ job[j].id # NONE /\ ~Mem!Refused(j)
               /\ rows' = [[rows EXCEPT ![j] = Mem!Row(job[j].text, "keep")] EXCEPT ![job[j].id].by = j])
      BY <2>1 DEF Mem!Insert, Mem!Goes, GoesTo
    <3> QED
      BY <1>1, <1>5, <1>6, <3>1, <3>2, MovesPc, MovesEnd
  <2>2. CASE Mem!Forget(j) \/ Mem!Purge(j) \/ Mem!Delete(j)
    <3>1. job[j].pc \in {"store", "deleting"} /\ (job[j].pc = "store" => job[j].op \in {"forget", "purge"}) /\ job[j].id \in Mem!Ids
      BY <1>1, <1>6, <2>2 DEF Mem!Forget, Mem!Purge, Mem!Delete, Mem!Store, Mem!At, Meant
    <3>2. CASE Mem!Forget(j)
      <4>1. GoesTo(j, "vectors") /\ deny' = deny
        BY <3>2 DEF Mem!Forget, Mem!Goes, GoesTo, Mem!Rest, Mem!memory
      <4>2. CASE job[j].id \notin Mem!Readable
        <5>1. rows' = rows
          BY <3>2, <4>2 DEF Mem!Forget
        <5> QED
          BY <1>1, <1>6, <3>1, <4>1, <4>2, <5>1, MovesPc DEF Passive, Sought, Mem!Readable, Mem!ActiveIds, Mem!IsActive
      <4>3. CASE job[j].id \in Mem!Readable
        <5>1. rows[job[j].id] \in Mem!Rows
          BY <1>1, <4>3 DEF Mem!Readable, MemTyped
        <5>2. rows'[job[j].id].forgotten
          BY <1>1, <3>1, <3>2, <4>3, <5>1 DEF Mem!Forget, MemTyped, Mem!Rows
        <5> QED
          BY <1>1, <1>6, <4>1, <5>2, MovesPc DEF Passive, Sought, Mem!ActiveIds, Mem!IsActive
      <4> QED
        BY <4>2, <4>3
    <3>3. CASE Mem!Purge(j)
      <4>1. GoesTo(j, "deleting") \/ (GoesTo(j, "vectors") /\ rows[job[j].id] = NONE /\ rows' = rows)
        BY <3>3 DEF Mem!Purge, Mem!Goes, GoesTo
      <4> QED
        BY <1>1, <1>5, <1>6, <4>1, MovesPc DEF Passive, Sought, Mem!ActiveIds, Mem!IsActive
    <3>4. CASE Mem!Delete(j)
      <4>1. Mem!Ends(j) \/ GoesTo(j, "vectors")
        BY <3>4 DEF Mem!Delete, Mem!Goes, GoesTo
      <4>2. rows'[job[j].id] = NONE
        BY <1>1, <3>1, <3>4 DEF Mem!Delete, MemTyped
      <4> QED
        BY <1>1, <1>5, <1>6, <4>1, <4>2, MovesPc, MovesEnd DEF Passive, Sought, Mem!ActiveIds, Mem!IsActive
    <3> QED
      BY <2>2, <3>2, <3>3, <3>4
  <2>3. CASE Mem!Retain(j)
    <3>1. Mem!Ends(j) \/ \E i : GoesFor(j, i, "deleting")
      BY <2>3 DEF Mem!Retain, GoesFor
    <3> QED
      BY <1>1, <1>5, <1>6, <3>1, MovesEnd, MovesId
  <2>4. CASE Mem!Call(j)
    BY <1>1, <1>5, <1>6, <2>4 DEF Mem!Call, Mem!Idle, MemTyped
  <2>5. CASE Mem!Target(j)
    <3>1. Mem!Ends(j) \/ \E i : GoesFor(j, i, "insert")
      BY <2>5 DEF Mem!Target, GoesFor
    <3> QED
      BY <1>1, <1>5, <1>6, <3>1, MovesEnd, MovesId
  <2>6. CASE Mem!Vectors(j) \/ Mem!DeleteFails(j) \/ Mem!Backup(j) \/ Mem!EmbedFails(j) \/ Mem!Flag(j)
    BY <1>1, <1>5, <1>6, <2>6, MovesEnd DEF Mem!Vectors, Mem!DeleteFails, Mem!Backup, Mem!EmbedFails, Mem!Flag
  <2>7. CASE Mem!Get(j) \/ Mem!Unindex(j) \/ Mem!Hash(j) \/ Mem!Upsert(j) \/ Mem!UpsertFails(j)
    <3>1. \E pc \in {"hash", "flag", "upsert"} : GoesTo(j, pc)
      BY <2>7 DEF Mem!Get, Mem!Unindex, Mem!Hash, Mem!Upsert, Mem!UpsertFails, Mem!Goes, GoesTo
    <3> QED
      BY <1>1, <1>5, <1>6, <3>1, MovesPc
  <2>8. CASE Mem!Restore(j) \/ Mem!Drop(j)
    <3>1. Mem!Ends(j) \/ \E pc \in {"read", "reconcile"} : GoesTo(j, pc)
      BY <2>8 DEF Mem!Restore, Mem!Drop, Mem!Goes, GoesTo
    <3> QED
      BY <1>1, <1>5, <1>6, <3>1, MovesPc, MovesEnd
  <2>9. CASE Mem!Recall(j)
    <3>1. Mem!Ends(j) \/ \E pc \in {"target", "insert"} : GoesSeeing(j, pc, Mem!ActiveIds)
      BY <2>9 DEF Mem!Recall, Mem!Sees, GoesSeeing
    <3> QED
      BY <1>1, <1>5, <1>6, <3>1, MovesView, MovesEnd
  <2>10. CASE Mem!Ensure(j) \/ Mem!Looked(j) \/ Mem!Embed(j) \/ Mem!Activate(j) \/ Mem!After(j)
    <3>1. \E pc \in {"look", "reconcile", "recall", "put", "again"} : GoesTo(j, pc)
      BY <2>10 DEF Mem!Ensure, Mem!Looked, Mem!Embed, Mem!Activate, Mem!After, Mem!Goes, GoesTo
    <3> QED
      BY <1>1, <1>5, <1>6, <3>1, MovesPc
  <2>11. CASE Mem!Look(j) \/ Mem!Reconcile(j) \/ Mem!Read(j) \/ Mem!Again(j)
    <3>1. \E pc \in {"looked", "stale", "compare", "after"} : GoesSeeing(j, pc, Mem!ActiveIds)
      BY <2>11 DEF Mem!Look, Mem!Reconcile, Mem!Read, Mem!Again, Mem!Sees, GoesSeeing
    <3> QED
      BY <1>1, <1>5, <1>6, <3>1, MovesView
  <2>12. CASE Mem!Compare(j) \/ Mem!Put(j)
    <3>1. \E todo, pc : pc \in {"activate", "embed", "put"} /\ GoesDoing(j, todo, pc)
      BY <2>12 DEF Mem!Compare, Mem!Put, GoesDoing
    <3> QED
      BY <1>1, <1>5, <1>6, <3>1, MovesTodo
  <2>13. CASE Mem!Stale(j)
    <3>1. GoesToDo(j, "drop", Mem!Indexed \ job[j].view)
      BY <2>13 DEF Mem!Stale, GoesToDo
    <3> QED
      BY <1>1, <1>5, <1>6, <3>1, MovesPcTodo
  <2> QED
    BY <2>1, <2>2, <2>3, <2>4, <2>5, <2>6, <2>7, <2>8, <2>9, <2>10, <2>11, <2>12, <2>13
       DEF Acts, Mem!Ensures, Mem!Rebuilds, Mem!Remembers, Mem!Removes
<1> QED
  BY <1>4, <1>6

\* What one call leaves of an announcement: another one's, and what it does not take back itself.
LEMMA StaysAnnounced ==
    ASSUME NEW j \in Jobs, NEW i \in Mem!Ids, Announced(i), \A k \in Jobs \ {j} : job'[k] = job[k],
           i \in Mem!Indexed => i \in Mem!Indexed',
           flags.check => flags'.check, flags.pending => flags'.pending, Held(i) => Held(i)',
           i = j /\ job[j].pc \in Mem!Writing => job'[j].pc \in Mem!Writing,
           Announces(j, i) => Announces(j, i)'
    PROVE  Announced(i)'
<1>1. CASE \E k \in Jobs : Announces(k, i)
  <2>1. PICK k \in Jobs : Announces(k, i)
    BY <1>1
  <2>2. Announces(k, i)'
    BY <2>1 DEF Announces
  <2> QED
    BY <2>2 DEF Announced
<1>2. CASE i \in Jobs /\ job[i].pc \in Mem!Writing
  <2>1. job'[i].pc \in Mem!Writing
    BY <1>2
  <2> QED
    BY <1>2, <2>1 DEF Announced
<1> QED
  BY <1>1, <1>2 DEF Announced

\* Nobody takes back that the index is incomplete but who has looked for the last time.
LEMMA HeldStays ==
    ASSUME NEW j \in Jobs, NEW i \in Mem!Ids, Held(i), \A k \in Jobs \ {j} : job'[k] = job[k],
           flags.incomplete => flags'.incomplete, job'[j].pc = "after" => i \in job'[j].view
    PROVE  Held(i)'
  BY DEF Held

LEMMA AnnouncedOfWork ==
    ASSUME Mem!ConstantsOK, MemoryInv, SaidInv, NEW j \in Jobs, Mem!Ensures(j) \/ Mem!Rebuilds(j), NEW i \in Mem!ActiveIds,
           Announced(i), i \notin unsaid'
    PROVE  Announced(i)'
<1>1. /\ MemTyped /\ Meant(j) /\ up /\ i \in Mem!Ids /\ \A k \in Jobs \ {j} : job'[k] = job[k]
  BY OthersStay DEF MemoryInv, Mem!ActiveIds, Acts
<1>2. UNCHANGED prof
  BY DEF Mem!Ensures, Mem!Ensure, Mem!Look, Mem!Looked, Mem!Rebuilds, Mem!Reconcile, Mem!Stale, Mem!Drop, Mem!Read,
     Mem!Compare, Mem!Embed, Mem!EmbedFails, Mem!Put, Mem!Activate,
     Mem!Again, Mem!After, Mem!Rest, Mem!memory
<1>3. ASSUME job'[j].pc \in {"look"} \cup (Mem!Rebuilding \ (Dropping \cup {"after"})) PROVE Announced(i)'
  BY <1>3 DEF Announced, Announces
<1>4. ASSUME job'[j].pc \in {"looked", "after"}, job'[j].view = Mem!ActiveIds PROVE Announced(i)'
  BY <1>4 DEF Announced, Announces
<1>5. CASE Mem!Ensure(j)
  <2>1. CASE flags.check
    <3>1. GoesTo(j, "look")
      BY <1>5, <2>1 DEF Mem!Ensure, Mem!Goes, GoesTo
    <3> QED
      BY <1>1, <1>3, <3>1, MovesPc
  <2>2. CASE ~flags.check
    <3>1. index' = index /\ job[j].pc = "ensure" /\ (flags.pending => flags'.pending) /\ (flags.incomplete => flags'.incomplete)
      BY <1>1, <1>5, <2>2 DEF Mem!Ensure, Mem!At, MemTyped
    <3>2. \E pc \in {"reconcile", "recall"} : GoesTo(j, pc)
      BY <1>5, <2>2 DEF Mem!Ensure, Mem!Goes, GoesTo
    <3>3. Held(i) => Held(i)'
      BY <1>1, <3>1, <3>2, MovesPc, HeldStays
    <3> QED
      BY <1>1, <1>2, <2>2, <3>1, <3>3, StaysAnnounced DEF Announces, Dropping, Mem!Rebuilding, Mem!Writing, Mem!Indexed
  <2> QED
    BY <2>1, <2>2
<1>6. CASE Mem!Look(j) \/ Mem!Read(j) \/ Mem!Again(j)
  <2>1. \E pc \in {"looked", "compare", "after"} : GoesSeeing(j, pc, Mem!ActiveIds)
    BY <1>6 DEF Mem!Look, Mem!Read, Mem!Again, Mem!Sees, GoesSeeing
  <2> QED
    BY <1>1, <1>3, <1>4, <2>1, MovesView DEF Mem!Rebuilding, Dropping
<1>7. CASE Mem!Looked(j) \/ Mem!After(j)
  <2>1. index' = index /\ job[j].pc \in {"looked", "after"}
    BY <1>7 DEF Mem!Looked, Mem!After, Mem!At, Mem!Rest
  <2>2. /\ flags.check => flags'.check
        /\ flags'.pending <=> flags.pending \/ job[j].view \ Mem!Indexed # {}
        /\ job[j].pc = "looked" /\ flags.incomplete => flags'.incomplete
    BY <1>1, <1>7 DEF Mem!Looked, Mem!After, Mem!At, MemTyped
  <2>6. \E pc \in {"reconcile", "recall"} : GoesTo(j, pc)
    BY <1>7 DEF Mem!Looked, Mem!After, Mem!Goes, GoesTo
  <2>7. ~Announces(j, i) /\ Held(i) => Held(i)'
    <3>1. CASE job[j].pc = "looked"
      BY <1>1, <2>2, <2>6, <3>1, MovesPc, HeldStays
    <3>2. CASE job[j].pc = "after"
      BY <3>2 DEF Held, Announces
    <3> QED
      BY <2>1, <3>1, <3>2
  <2>3. CASE Announces(j, i) /\ i \notin Mem!Indexed
    <3>1. i \in job[j].view
      BY <2>1, <2>3 DEF Announces, Dropping, Mem!Rebuilding
    <3>2. flags'.pending
      BY <2>2, <2>3, <3>1
    <3> QED
      BY <3>2 DEF Announced
  <2>4. CASE i \in Mem!Indexed
    BY <1>2, <2>1, <2>4 DEF Announced, Mem!Indexed
  <2>5. CASE ~Announces(j, i)
    BY <1>1, <1>2, <2>1, <2>2, <2>5, <2>7, StaysAnnounced DEF Mem!Writing, Mem!Indexed
  <2> QED
    BY <2>3, <2>4, <2>5
<1>8. CASE Mem!Drop(j)
  <2>1. CASE job[j].op # "restore"
    <3>1. GoesTo(j, "read")
      BY <1>8, <2>1 DEF Mem!Drop, Mem!Goes, GoesTo
    <3> QED
      BY <1>1, <1>3, <3>1, MovesPc DEF Mem!Rebuilding, Dropping
  <2>2. CASE job[j].op = "restore"
    <3>1. /\ job[j].pc = "drop" /\ flags' = flags /\ Mem!Ends(j) /\ index' = index \ (job[j].todo \X {prof})
          /\ i \notin job[j].todo
      BY <1>8, <2>2 DEF Mem!Drop, Mem!At
    <3>2. i \in Mem!Indexed => i \in Mem!Indexed'
      BY <1>2, <3>1 DEF Mem!Indexed
    <3>3. Held(i) => Held(i)'
      BY <1>1, <3>1, MovesEnd, HeldStays
    <3>4. ~Announces(j, i)
      BY <2>2, <3>1 DEF Announces, Dropping, Mem!Rebuilding
    <3> QED
      BY <1>1, <3>1, <3>2, <3>3, <3>4, StaysAnnounced DEF Mem!Writing
  <2> QED
    BY <2>1, <2>2
<1>9. CASE Mem!Embed(j) \/ Mem!Activate(j)
  <2>1. \E pc \in {"put", "again"} : GoesTo(j, pc)
    BY <1>9 DEF Mem!Embed, Mem!Activate, Mem!Goes, GoesTo
  <2> QED
    BY <1>1, <1>3, <2>1, MovesPc DEF Mem!Rebuilding, Dropping
<1>10. CASE Mem!Reconcile(j) \/ Mem!Stale(j)
  <2>1. /\ job[j].pc \in {"reconcile", "stale"} /\ job'[j].pc \in {"stale", "drop"} /\ job'[j].op = job[j].op
    <3>1. CASE Mem!Reconcile(j)
      <4>1. GoesSeeing(j, "stale", Mem!ActiveIds) /\ job[j].pc = "reconcile"
        BY <3>1 DEF Mem!Reconcile, Mem!Sees, Mem!At, GoesSeeing
      <4> QED
        BY <1>1, <4>1, MovesView
    <3>2. CASE Mem!Stale(j)
      <4>1. GoesToDo(j, "drop", Mem!Indexed \ job[j].view) /\ job[j].pc = "stale"
        BY <3>2 DEF Mem!Stale, Mem!At, GoesToDo
      <4> QED
        BY <1>1, <4>1, MovesPcTodo
    <3> QED
      BY <1>10, <3>1, <3>2
  <2>2. flags' = flags /\ index' = index
    BY <1>10 DEF Mem!Reconcile, Mem!Stale
  <2>3. Held(i) => Held(i)'
    BY <1>1, <2>1, <2>2, HeldStays
  <2>4. Announces(j, i) => Announces(j, i)'
    BY <2>1 DEF Announces, Dropping, Mem!Rebuilding
  <2> QED
    BY <1>1, <1>2, <2>1, <2>2, <2>3, <2>4, StaysAnnounced DEF Mem!Writing, Mem!Indexed
<1>11. CASE Mem!Compare(j) \/ Mem!Put(j)
  <2>1. \E todo, pc : pc \in {"activate", "embed", "put"} /\ GoesDoing(j, todo, pc)
    BY <1>11 DEF Mem!Compare, Mem!Put, GoesDoing
  <2> QED
    BY <1>1, <1>3, <2>1, MovesTodo DEF Mem!Rebuilding, Dropping
<1>12. CASE Mem!EmbedFails(j)
  <2>1. flags'.incomplete /\ Mem!Ends(j) /\ i \notin Mem!Overlooked
    BY <1>1, <1>12 DEF Mem!EmbedFails, MemTyped
  <2>2. job'[j].pc = "done"
    BY <1>1, <2>1, MovesEnd
  <2>3. \A k \in Jobs : job[k].pc = "after" => i \in job[k].view
    BY <2>1 DEF Mem!Overlooked
  <2>4. Held(i)'
    BY <1>1, <2>1, <2>2, <2>3 DEF Held
  <2> QED
    BY <2>4 DEF Announced
<1> QED
  BY <1>5, <1>6, <1>7, <1>8, <1>9, <1>10, <1>11, <1>12 DEF Mem!Ensures, Mem!Rebuilds

\* Who calls, stores or removes does not come to the second look of a rebuild in that step.
LEMMA LooksLastAfterAll ==
    ASSUME MemTyped, NEW j \in Jobs,
           Mem!Call(j) \/ Mem!Remembers(j) \/ Mem!Removes(j) \/ Mem!Backup(j) \/ Mem!Restore(j)
    PROVE  job'[j].pc # "after"
<1>1. job[j] \in JobRec /\ DOMAIN job = Jobs
  BY DEF MemTyped
<1>2. CASE Mem!Call(j)
  <2>1. PICK op \in Calls, x \in Texts, i \in Mem!Ids \cup {NONE} :
           job' = [job EXCEPT ![j] = [Mem!Idle EXCEPT !.pc = IF op \in Mem!Writes \cup {"search"} THEN "ensure"
                                                             ELSE "store",
                                                      !.op = op, !.text = x, !.id = i]]
    BY <1>2 DEF Mem!Call
  <2> QED
    BY <1>1, <2>1 DEF Mem!Idle
<1>3. CASE Mem!Remembers(j)
  BY <1>1, <1>3 DEF Mem!Remembers, Mem!Recall, Mem!Target, Mem!Insert, Mem!Get, Mem!Unindex, Mem!Hash, Mem!Upsert,
     Mem!UpsertFails, Mem!Flag, Mem!Goes, Mem!Sees, Mem!Ends, Mem!Idle, Mem!At, JobRec
<1>4. CASE Mem!Removes(j)
  BY <1>1, <1>4 DEF Mem!Removes, Mem!Forget, Mem!Vectors, Mem!Purge, Mem!Delete, Mem!DeleteFails, Mem!Retain,
     Mem!Goes, Mem!Ends, Mem!Idle, JobRec
<1>5. CASE Mem!Backup(j) \/ Mem!Restore(j)
  BY <1>1, <1>5 DEF Mem!Backup, Mem!Restore, Mem!Goes, Mem!Ends, Mem!Idle, JobRec
<1> QED
  BY <1>2, <1>3, <1>4, <1>5

LEMMA AnnouncedOfCalls ==
    ASSUME Mem!ConstantsOK, MemoryInv, SaidInv, NEW j \in Jobs,
           Mem!Call(j) \/ Mem!Remembers(j) \/ Mem!Removes(j) \/ Mem!Backup(j) \/ Mem!Restore(j),
           NEW i \in Mem!ActiveIds, Announced(i), i \notin unsaid'
    PROVE  Announced(i)'
<1>1. /\ MemTyped /\ Meant(j) /\ Passive(j) /\ up /\ i \in Mem!Ids /\ i \in Sought
      /\ \A k \in Jobs \ {j} : job'[k] = job[k]
  BY OthersStay, UnsaidGrows DEF MemoryInv, SaidInv, Sought, Mem!ActiveIds, Acts
<1>3. prof' = prof
  BY DEF Mem!Restore, Mem!Call, Mem!Remembers, Mem!Recall, Mem!Target, Mem!Insert, Mem!Get, Mem!Unindex, Mem!Hash,
     Mem!Upsert, Mem!UpsertFails, Mem!Flag, Mem!Removes, Mem!Forget,
     Mem!Vectors, Mem!Purge, Mem!Delete, Mem!DeleteFails, Mem!Retain, Mem!Backup, Mem!Rest, Mem!memory
<1>4. i \in Mem!Indexed => i \in Mem!Indexed'
  <2>1. CASE Mem!Unindex(j) \/ Mem!Vectors(j)
    <3>1. job[j].id # i
      BY <1>1, <2>1 DEF Mem!Unindex, Mem!Vectors, Mem!At, Passive
    <3> QED
      BY <1>3, <2>1, <3>1 DEF Mem!Unindex, Mem!Vectors, Mem!Indexed
  <2>2. CASE Mem!Upsert(j)
    BY <1>3, <2>2 DEF Mem!Upsert, Mem!Indexed
  <2>3. CASE UNCHANGED index
    BY <1>3, <2>3 DEF Mem!Indexed
  <2> QED
    BY <2>1, <2>2, <2>3 DEF Mem!Restore, Mem!Call, Mem!Remembers, Mem!Recall, Mem!Target, Mem!Insert, Mem!Get, Mem!Hash,
       Mem!UpsertFails, Mem!Flag, Mem!Removes, Mem!Forget,
       Mem!Purge, Mem!Delete, Mem!DeleteFails, Mem!Retain, Mem!Backup, Mem!Rest, Mem!disk
<1>5. CASE Mem!Flag(j)
  <2>1. flags' = [flags EXCEPT !.incomplete = @ \/ j \notin Mem!Indexed, !.pending = @ \/ j \notin Mem!Indexed] /\ index' = index
    BY <1>5 DEF Mem!Flag
  <2>2. /\ flags.check => flags'.check
        /\ flags'.pending <=> flags.pending \/ j \notin Mem!Indexed
        /\ flags.incomplete => flags'.incomplete
    BY <1>1, <2>1 DEF MemTyped
  <2>5. job'[j].pc = "done"
    BY <1>1, <1>5, MovesEnd DEF Mem!Flag
  <2>6. Held(i) => Held(i)'
    BY <1>1, <2>2, <2>5, HeldStays
  <2>3. CASE i = j
    BY <1>4, <2>2, <2>3 DEF Announced
  <2>4. CASE i # j
    BY <1>1, <1>4, <1>5, <2>2, <2>4, <2>6, StaysAnnounced DEF Mem!Flag, Mem!At, Announces, Dropping, Mem!Rebuilding
  <2> QED
    BY <2>3, <2>4
<1>6. CASE ~Mem!Flag(j)
  <2>1. flags' = flags
    BY <1>6 DEF Mem!Restore, Mem!Call, Mem!Remembers, Mem!Recall, Mem!Target, Mem!Insert, Mem!Get, Mem!Unindex, Mem!Hash,
       Mem!Upsert, Mem!UpsertFails, Mem!Removes, Mem!Forget,
     Mem!Vectors, Mem!Purge, Mem!Delete, Mem!DeleteFails, Mem!Retain, Mem!Backup
  <2>2. job[j].pc \in Mem!Writing => job'[j].pc \in Mem!Writing
    <3>1. CASE Mem!Get(j) \/ Mem!Unindex(j) \/ Mem!Hash(j) \/ Mem!Upsert(j) \/ Mem!UpsertFails(j)
      <4>1. \E pc \in {"hash", "flag", "upsert"} : GoesTo(j, pc)
        BY <3>1 DEF Mem!Get, Mem!Unindex, Mem!Hash, Mem!Upsert, Mem!UpsertFails, Mem!Goes, GoesTo
      <4> QED
        BY <1>1, <4>1, MovesPc DEF Mem!Writing
    <3> QED
      BY <1>6, <3>1 DEF Mem!Restore, Mem!Call, Mem!Remembers, Mem!Recall, Mem!Target, Mem!Insert, Mem!Removes, Mem!Forget,
         Mem!Vectors, Mem!Purge, Mem!Delete, Mem!DeleteFails,
         Mem!Retain, Mem!Backup, Mem!Store, Mem!At, Mem!Writing
  <2>3. ~Announces(j, i)
    BY <1>6 DEF Mem!Restore, Mem!Call, Mem!Remembers, Mem!Recall, Mem!Target, Mem!Insert, Mem!Get, Mem!Unindex, Mem!Hash,
       Mem!Upsert, Mem!UpsertFails, Mem!Removes, Mem!Forget,
     Mem!Vectors, Mem!Purge, Mem!Delete, Mem!DeleteFails, Mem!Retain, Mem!Backup, Mem!Store, Mem!At, Announces,
     Dropping, Mem!Rebuilding
  <2>4. job'[j].pc # "after"
    BY <1>1, LooksLastAfterAll
  <2>5. Held(i) => Held(i)'
    BY <1>1, <2>1, <2>4, HeldStays
  <2> QED
    BY <1>1, <1>4, <2>1, <2>2, <2>3, <2>5, StaysAnnounced
<1> QED
  BY <1>5, <1>6

LEMMA SaidKeeps == ASSUME Mem!ConstantsOK, MemoryInv, SaidInv, [Mem!Next]_Mem!vars PROVE SaidInv'
<1>1. MemTyped /\ Denied
  BY DEF MemoryInv
<1>2. ASSUME NEW j \in Jobs, Acts(j) PROVE SaidInv'
  <2>1. ASSUME NEW i \in Sought' PROVE Announced(i)'
    <3>1. i \in Mem!Ids /\ up /\ i \in Mem!ActiveIds' /\ i \notin unsaid' /\ i \notin unsaid
      BY <1>1, <1>2, <2>1, OthersStay, UnsaidGrows DEF Sought, Mem!ActiveIds
    <3>2. CASE i \in Mem!ActiveIds
      <4>1. Announced(i)
        BY <3>1, <3>2 DEF SaidInv, Sought
      <4> QED
        BY <1>2, <3>1, <3>2, <4>1, AnnouncedOfWork, AnnouncedOfCalls DEF Acts
    <3>3. CASE i = j /\ Mem!Insert(j) /\ job'[j].pc \in Mem!Writing
      BY <3>3 DEF Announced
    <3> QED
      BY <1>2, <3>1, <3>2, <3>3, NoneComesBack
  <2> QED
    BY <1>2, <2>1, PassiveKeeps DEF SaidInv
<1>3. CASE Mem!Boot
  <2>1. up' /\ flags'.check /\ job' = job
    BY <1>3 DEF Mem!Boot
  <2> QED
    BY <1>1, <1>3, <2>1 DEF Mem!Boot, Denied, SaidInv, Announced, Passive
<1>4. CASE Mem!Crash
  BY <1>4 DEF Mem!Crash, Mem!Idle, SaidInv, Passive
<1>5. CASE Mem!LedgerLost \/ UNCHANGED Mem!vars
  <2>1. UNCHANGED <<rows, deny, index, prof, flags, job, up, unsaid>>
    BY <1>5 DEF Mem!LedgerLost, Mem!memory, Mem!vars
  <2>2. Mem!ActiveIds' = Mem!ActiveIds /\ Mem!Indexed' = Mem!Indexed
    BY <2>1 DEF Mem!ActiveIds, Mem!Indexed, Mem!IsActive
  <2> QED
    BY <2>1, <2>2 DEF SaidInv, Sought, Announced, Announces, Held, Passive
<1> QED
  BY <1>2, <1>3, <1>4, <1>5 DEF Mem!Next, Acts, Mem!Finished

\* For any number of calls at once: when nobody works on the index, a record without a vector is
\* announced or about to be (ensure_index, check_index_consistency), but for one that came back
\* with a copy, one the reconcile of a restore dropped, and one whose rebuild was left unanswered
\* while another took the flag back.
THEOREM MissingIsSaid == ASSUME Mem!ConstantsOK PROVE Mem!Spec => []Mem!IncompleteIsSaid
<1>1. Mem!Init => SaidInv
  BY DEF Mem!Init, SaidInv, Passive, Mem!Idle
<1>2. MemoryInv /\ SaidInv => Mem!IncompleteIsSaid
  <2> SUFFICES ASSUME MemoryInv, SaidInv, up, \A j \in Jobs : job[j].pc \notin {"look", "looked"} \cup Mem!Rebuilding,
                      NEW i \in Mem!ActiveIds, i \notin Mem!Indexed, i \notin unsaid
               PROVE  flags # Mem!NoFlags \/ (i \in Jobs /\ job[i].pc \in Mem!Writing)
    BY DEF Mem!IncompleteIsSaid
  <2>1. Announced(i) /\ \A j \in Jobs : ~Announces(j, i)
    BY DEF SaidInv, Sought, Announces, Dropping, Mem!Rebuilding
  <2> QED
    BY <2>1 DEF Announced, Held, Mem!NoFlags
<1> QED
  BY <1>1, <1>2, MemoryInvariance, SaidKeeps, PTL DEF Mem!Spec

=============================================================================
