------------------------------- MODULE Vault --------------------------------
(***************************************************************************)
(* The secret vault (src/solvio/secret_vault/, capabilities/               *)
(* secret_vault.py, scripts/vault_admin.py): one secret, the key it is     *)
(* sealed under, the values that wait for an approval, the changes the app *)
(* asks for, a script of the owner, and the uses.  A handler of the core   *)
(* runs alone in the core; the script and the uses run beside it.          *)
(***************************************************************************)
EXTENDS Integers, FiniteSets

CONSTANTS
    Devices,        \* the paired phones
    Requests,       \* changes the app asks for
    Ops,            \* the changes asked for in an instance
    Uses,           \* operations that borrow the value
    Caps,           \* capabilities
    Scopes,         \* the sets of capabilities an owner may choose
    MAX_PENDING,    \* values that may wait
    MaxScript,      \* bound: commands of the script
    MaxFaults,      \* bound: keychains locked or lost
    NONE

VARIABLES
    row,            \* the row of secrets: policy and envelope, or NONE
    kek,            \* the key in the keychain, 0 when there is none
    keys,           \* the keys there have been
    locked,         \* the keychain does not answer
    recov,          \* the key in the envelope of the recovery, 0 when there is none
    env,            \* the value still stands in .env
    slots,          \* _slots: the values that wait, each under its id
    req,            \* the changes, from the phone to the handler
    use,            \* the uses
    script,         \* the command that runs
    count,          \* commands, losses
    law             \* history: every value with the policy it was put under

vars == <<row, kek, keys, locked, recov, env, slots, req, use, script, count, law>>

Statuses == {"active", "disabled"}
Policies == [version : Nat, status : Statuses, scope : SUBSET Caps]
NeedsValue == {"add", "replace"}

\* What stands in .env is a value of its own, as is what each request carries.
Values == Requests \cup {"env"}

\* Nothing is taken for something else: no request, entry or status is called NONE.
ConstantsOK ==
    /\ Ops \subseteq NeedsValue \cup {"rescope", "disable", "enable", "delete"} /\ Scopes \subseteq SUBSET Caps
    /\ "env" \notin Requests /\ NONE \notin Values /\ NONE \notin Policies
    /\ NONE \notin [policy : Policies, bound : Policies, value : Values, key : Nat]

Busy == \E r \in Requests : req[r].pc \in {"read", "sealed", "put"}

NoUse == [pc |-> "idle", cap |-> NONE, policy |-> NONE, value |-> NONE]
NoReq == [pc |-> "idle", op |-> NONE, device |-> NONE, by |-> NONE, scope |-> {}, expect |-> 0, approved |-> "no",
          policy |-> NONE, next |-> NONE, value |-> NONE, key |-> 0, seen |-> NONE]
NoScript == [pc |-> "idle", policy |-> NONE, key |-> 0]

TypeOK ==
    /\ row # NONE => row.policy \in Policies /\ row.value \in Values /\ row.key \in 1..keys
    /\ kek \in 0..keys /\ recov \in 0..keys /\ locked \in BOOLEAN /\ env \in BOOLEAN
    /\ DOMAIN slots \subseteq Requests /\ \A s \in DOMAIN slots : slots[s].device \in Devices
    /\ \A r \in Requests : req[r].pc \in {"idle", "asked", "read", "sealed", "put", "done"}
    /\ \A u \in Uses : use[u].pc \in {"idle", "row", "sealed", "released", "denied"}
    /\ script.pc \in {"idle", "init", "recovery", "migrate", "strip"}

----------------------------------------------------------------------------
(* The store, the key, the envelope.                                       *)

Version == IF row = NONE THEN 0 ELSE row.policy.version
Readable == kek # 0 /\ ~locked

\* Mutant: policy and envelope are written apart, the policy first.
Put_PolicyFirst(p, v, k) ==
    row' = IF row = NONE THEN [policy |-> p, bound |-> p, value |-> v, key |-> k]
           ELSE [row EXCEPT !.policy = p]

\* put: policy and envelope in one transaction, over whatever stands there.
Put(p, v, k) == row' = [policy |-> p, bound |-> p, value |-> v, key |-> k]
Booked(p, v) == law' = law \cup {<<p, v>>}

\* Mutant: what was sealed under another policy opens as well.
Opens_ByKey(r, p) == kek # 0 /\ r.key = kek

\* The stored digest against the computed one, then unseal with both in the AAD.
Opens(r, p) == kek # 0 /\ r.key = kek /\ r.bound = p

----------------------------------------------------------------------------
(* Values that wait: staging.                                              *)

\* Mutant: a value is taken without being spent.
Spend_Keeps(s) == slots' = slots

\* take: out of the slots before anything else can go wrong.
Spend(s) == slots' = [x \in DOMAIN slots \ {s} |-> slots[x]]

\* stage: for this device, while there is room and the key answers.
Stage(r, d) ==
    /\ Cardinality(DOMAIN slots) < MAX_PENDING /\ Readable
    /\ slots' = [x \in DOMAIN slots \cup {r} |->
                    IF x = r THEN [device |-> d, key |-> kek] ELSE slots[x]]

\* The time of a value runs out.
Expire(s) ==
    /\ s \in DOMAIN slots /\ Spend(s)
    /\ UNCHANGED <<row, kek, keys, locked, recov, env, req, use, script, count, law>>

----------------------------------------------------------------------------
(* The changes of the app: h_mutation, the router, the handlers.           *)

Others == <<kek, keys, locked, recov, env, use, script, count>>

\* The first request: proven by the device, its value put aside, approval asked for.  The
\* version goes along as an argument.
Ask(r) ==
    /\ req[r].pc = "idle"
    /\ \E op \in Ops, d \in Devices, sc \in Scopes :
         /\ op \in NeedsValue \cup {"rescope"} \/ sc = CHOOSE x \in Scopes : TRUE
         /\ IF op \in NeedsValue THEN Stage(r, d) ELSE slots' = slots
         /\ req' = [req EXCEPT ![r] = [NoReq EXCEPT !.pc = "asked", !.op = op, !.device = d, !.scope = sc,
                                          !.expect = Version, !.seen = IF row = NONE THEN NONE ELSE row.policy]]
    /\ UNCHANGED <<row, law, Others>>

Answer(r) ==
    /\ req[r].pc = "asked" /\ req[r].approved = "no"
    /\ \E a \in {"yes", "refused"} : req' = [req EXCEPT ![r].approved = a]
    /\ UNCHANGED <<row, slots, law, Others>>

\* Mutant: whoever knows the id may use the value.
Peek_AnyDevice(r, d) == r \in DOMAIN slots

\* peek: the value is still there and is this device's.
Peek(r, d) == r \in DOMAIN slots /\ slots[r].device = d

Done(r) == req' = [req EXCEPT ![r] = [NoReq EXCEPT !.pc = "done"]]

\* The request that is refused takes its value with it.
KnockRefused(r) ==
    /\ req[r].pc = "asked" /\ req[r].approved = "refused"
    /\ Done(r) /\ Spend(r)
    /\ UNCHANGED <<row, law, Others>>

\* The second request of a device: the one that asked, or another that carries the id.
Knock(r) ==
    /\ req[r].pc = "asked" /\ req[r].approved = "yes" /\ ~Busy
    /\ \E d \in Devices :
         IF req[r].op \in NeedsValue
         THEN /\ Peek(r, d)
              /\ Spend(r)
              /\ IF Readable /\ slots[r].key = kek
                 THEN req' = [req EXCEPT ![r].by = d, ![r].value = r, ![r].pc = "read"]
                 ELSE Done(r)
         ELSE /\ d = req[r].device /\ slots' = slots
              /\ req' = [req EXCEPT ![r].pc = "read"]
    /\ UNCHANGED <<row, law, Others>>


\* The value came and went: the answer is 409, or there is nothing to use it for.
Lapsed(r) ==
    /\ req[r].pc = "asked" /\ req[r].op \in NeedsValue /\ r \notin DOMAIN slots
    /\ Done(r) /\ UNCHANGED <<row, slots, law, Others>>

\* Mutant: the handler looks only whether there is an entry.
Seen_Exists(r) == row # NONE

\* rescope: the version the human saw.
Seen(r) == row # NONE /\ req[r].expect = row.policy.version

\* What the handler reads of the row, and the policy it makes of it.
Following(r, p) ==
    CASE req[r].op = "add" -> [version |-> 1, status |-> "active", scope |-> req[r].scope]
      [] req[r].op = "replace" -> [p EXCEPT !.version = @ + 1, !.status = "active"]
      [] req[r].op = "rescope" -> [p EXCEPT !.version = @ + 1, !.scope = req[r].scope]
      [] req[r].op = "disable" -> [p EXCEPT !.version = @ + 1, !.status = "disabled"]
      [] req[r].op = "enable" -> [p EXCEPT !.version = @ + 1, !.status = "active"]

Reads(r) ==
    CASE req[r].op = "add" -> row = NONE
      [] req[r].op = "rescope" -> Seen(r)
      [] req[r].op = "disable" -> row # NONE /\ row.policy.status # "disabled"
      [] req[r].op = "enable" -> row # NONE /\ row.policy.status # "active"
      [] OTHER -> row # NONE

Read(r) ==
    /\ req[r].pc = "read" /\ req[r].op # "delete" /\ Reads(r)
    /\ LET p == IF row = NONE THEN NONE ELSE row.policy IN
       req' = [req EXCEPT ![r].policy = p, ![r].next = Following(r, p),
                          ![r].pc = IF req[r].op \in NeedsValue THEN "put" ELSE "sealed"]
    /\ UNCHANGED <<row, slots, law, Others>>

ReadRefused(r) ==
    /\ req[r].pc = "read" /\ req[r].op # "delete" /\ ~Reads(r)
    /\ Done(r) /\ UNCHANGED <<row, slots, law, Others>>

Delete(r) ==
    /\ req[r].pc = "read" /\ req[r].op = "delete"
    /\ row' = NONE /\ Done(r) /\ UNCHANGED <<slots, law, Others>>

\* _reseal: the second read, the digest of the first, the value opened.
Reseal(r) ==
    /\ req[r].pc = "sealed" /\ row # NONE /\ ~locked /\ Opens(row, req[r].policy)
    /\ req' = [req EXCEPT ![r].value = row.value, ![r].pc = "put"]
    /\ UNCHANGED <<row, slots, law, Others>>

ResealRefused(r) ==
    /\ req[r].pc = "sealed" /\ (row = NONE \/ locked \/ ~Opens(row, req[r].policy))
    /\ Done(r) /\ UNCHANGED <<row, slots, law, Others>>

\* The key is read once more only for a value that is new.
Store(r) ==
    /\ req[r].pc = "put" /\ Readable
    /\ Put(req[r].next, req[r].value, kek) /\ Booked(req[r].next, req[r].value)
    /\ Done(r) /\ UNCHANGED <<slots, Others>>

StoreRefused(r) ==
    /\ req[r].pc = "put" /\ ~Readable
    /\ Done(r) /\ UNCHANGED <<row, slots, law, Others>>

Change(r) == Ask(r) \/ Answer(r) \/ KnockRefused(r) \/ Knock(r) \/ Lapsed(r) \/ Read(r) \/ ReadRefused(r)
             \/ Delete(r) \/ Reseal(r) \/ ResealRefused(r) \/ Store(r) \/ StoreRefused(r)

----------------------------------------------------------------------------
(* A use: SecretBroker._open.                                              *)

Frame == <<row, kek, keys, locked, recov, env, slots, req, script, count, law>>

\* Mutant: the state of the entry is not looked at.
Allowed_AnyStatus(p, c) == c \in p.scope

\* evaluate: active, and this capability is in its scope.
Allowed(p, c) == p.status = "active" /\ c \in p.scope

Deny(u) == use' = [use EXCEPT ![u].pc = "denied"]

Begin(u) ==
    /\ use[u].pc = "idle"
    /\ \E c \in Caps :
         IF row # NONE /\ Allowed(row.policy, c)
         THEN use' = [use EXCEPT ![u] = [NoUse EXCEPT !.pc = "row", !.cap = c, !.policy = row.policy]]
         ELSE Deny(u)
    /\ UNCHANGED Frame

\* The envelope is read anew, and so is the key.
Open(u) ==
    /\ use[u].pc = "row"
    /\ IF row # NONE /\ ~locked /\ Opens(row, use[u].policy)
       THEN use' = [use EXCEPT ![u].pc = "released", ![u].value = row.value]
       ELSE Deny(u)
    /\ UNCHANGED Frame

----------------------------------------------------------------------------
(* The script of the owner.                                                *)

Command(pc) ==
    /\ script.pc = "idle" /\ count.script < MaxScript
    /\ count' = [count EXCEPT !.script = @ + 1]
    /\ script' = [NoScript EXCEPT !.pc = pc, !.policy = IF row = NONE THEN NONE ELSE row.policy, !.key = kek]
Finish == script' = NoScript

\* Mutant: an entry is no obstacle to a new key.
MayInitialize_Always == kek = 0 /\ ~locked

\* initialize: no key, proven so, and no entry that would need one.
MayInitialize == kek = 0 /\ ~locked /\ row = NONE

InitBegin ==
    /\ Command("init") /\ MayInitialize
    /\ UNCHANGED <<row, kek, keys, locked, recov, env, slots, req, use, law>>
InitWrite ==
    /\ script.pc = "init" /\ Finish
    /\ IF locked THEN UNCHANGED <<kek, keys>> ELSE kek' = keys + 1 /\ keys' = keys + 1
    /\ UNCHANGED <<row, locked, recov, env, slots, req, use, count, law>>

\* recovery-set: the key is read, then a human types twice.
RecoveryBegin ==
    /\ Command("recovery") /\ Readable
    /\ UNCHANGED <<row, kek, keys, locked, recov, env, slots, req, use, law>>
RecoveryWrite ==
    /\ script.pc = "recovery" /\ Finish /\ recov' = script.key
    /\ UNCHANGED <<row, kek, keys, locked, env, slots, req, use, count, law>>

\* migrate: the value of .env over whatever stands there, with the scope of the plan.
MigrateBegin ==
    /\ Command("migrate") /\ env /\ Readable
    /\ UNCHANGED <<row, kek, keys, locked, recov, env, slots, req, use, law>>
MigratePut ==
    /\ script.pc = "migrate" /\ Finish
    /\ IF Readable
       THEN LET p == [version |-> IF script.policy = NONE THEN 1 ELSE script.policy.version + 1,
                      status |-> "active", scope |-> Caps] IN
            Put(p, "env", kek) /\ Booked(p, "env")
       ELSE UNCHANGED <<row, law>>
    /\ UNCHANGED <<kek, keys, locked, recov, env, slots, req, use, count>>


\* _verify: the same value comes out, through the door every executor takes.
Carries == row # NONE /\ ~locked /\ row.policy.status = "active" /\ Opens(row, row.policy) /\ row.value = "env"

\* retire-plaintext: looked at, then the line is struck out.
RetireBegin ==
    /\ Command("strip") /\ env /\ Carries
    /\ UNCHANGED <<row, kek, keys, locked, recov, env, slots, req, use, law>>
RetireStrip ==
    /\ script.pc = "strip" /\ Finish /\ env' = FALSE
    /\ UNCHANGED <<row, kek, keys, locked, recov, slots, req, use, count, law>>

Script == InitBegin \/ InitWrite \/ RecoveryBegin \/ RecoveryWrite \/ MigrateBegin \/ MigratePut
          \/ RetireBegin \/ RetireStrip

----------------------------------------------------------------------------
(* The keychain: locked and unlocked, and lost with the machine; the key   *)
(* is then what the passphrase gets out of the envelope.                   *)

Fault == count.faults < MaxFaults /\ count' = [count EXCEPT !.faults = @ + 1]

Lock ==
    /\ ~locked /\ Fault /\ locked' = TRUE
    /\ UNCHANGED <<row, kek, keys, recov, env, slots, req, use, script, law>>
Unlock ==
    /\ locked /\ locked' = FALSE
    /\ UNCHANGED <<row, kek, keys, recov, env, slots, req, use, script, count, law>>

Lose ==
    /\ kek # 0 /\ Fault /\ kek' = 0
    /\ script' = NoScript /\ slots' = [s \in {} |-> NONE]
    /\ req' = [r \in Requests |-> IF req[r].pc \in {"idle", "asked"} THEN req[r] ELSE [NoReq EXCEPT !.pc = "done"]]
    /\ UNCHANGED <<row, keys, locked, recov, env, use, law>>

Install ==
    /\ kek = 0 /\ recov # 0 /\ script.pc = "idle" /\ kek' = recov
    /\ UNCHANGED <<row, keys, locked, recov, env, slots, req, use, script, count, law>>

----------------------------------------------------------------------------
Init ==
    /\ row = NONE /\ kek \in {0, 1} /\ keys = kek /\ locked = FALSE /\ recov = 0 /\ env = TRUE
    /\ slots = [s \in {} |-> NONE] /\ req = [r \in Requests |-> NoReq] /\ use = [u \in Uses |-> NoUse]
    /\ script = NoScript /\ count = [script |-> 0, faults |-> 0] /\ law = {}

Next ==
    \/ \E r \in Requests : Change(r) \/ Expire(r)
    \/ \E u \in Uses : Begin(u) \/ Open(u)
    \/ Script \/ Lock \/ Unlock \/ Lose \/ Install

Spec == Init /\ [][Next]_vars

----------------------------------------------------------------------------
(* Properties.                                                             *)

\* A value leaves the vault only under a policy that allows the use and that this very value
\* was put under, whatever was changed between the two reads.
ReleasedUnderItsPolicy == \A u \in Uses : use[u].pc = "released" =>
    /\ use[u].policy.status = "active" /\ use[u].cap \in use[u].policy.scope
    /\ <<use[u].policy, use[u].value>> \in law

\* A value that waited is stored for the device that sent it, and once.
StoredByItsDevice ==
    /\ \A s \in DOMAIN slots : req[s].value # s /\ (row # NONE => row.value # s)
    /\ \A r \in Requests : req[r].by \in {NONE, req[r].device}

\* No key is made beside what is sealed under an older one, and a key that has been lost
\* is replaced by the one in the envelope or by none.
NoKeyBesideEntries == row # NONE => kek \in {0, row.key, recov}

\* The word of assess.
Healthy == kek # 0 /\ ~locked /\ recov = kek /\ (row # NONE => ~env)

\* What is called healthy can be read and outlives the loss of the keychain.  assess compares
\* the keychain with the envelope and neither with an entry, so it is silent on one case: an
\* entry sealed under a later key, which is lost, and the older one brought back.
HealthySurvives == Healthy /\ row # NONE => (row.key = kek /\ row.key = recov) \/ kek < row.key

\* The plaintext is taken out of .env only when it had come out of the vault.
PlaintextLast == ~env => \E p \in {x[1] : x \in law} : p.status = "active" /\ <<p, "env">> \in law

\* What is in the vault can always be opened with the policy beside it.
PolicyFitsEnvelope == row # NONE => row.bound = row.policy /\ <<row.policy, row.value>> \in law

\* rescope changes the entry the human saw, as long as only the app changes entries and
\* none is deleted: the version starts anew with a new entry, and a script does not look.
RescopeIsTheSeen == \A r \in Requests :
    count.script = 0 /\ "delete" \notin Ops /\ req[r].pc = "put" /\ req[r].op = "rescope"
    => req[r].policy = req[r].seen

\* What a comment says and the code does not do.

\* Once an owner has disabled the secret only an owner who enables it makes it usable.
DisableHolds == [][row # NONE /\ row' # NONE /\ row.policy.status = "disabled" /\ row'.policy.status = "active"
                     => \E r \in Requests : req[r].pc = "put" /\ req[r].op = "enable"]_vars
=============================================================================
