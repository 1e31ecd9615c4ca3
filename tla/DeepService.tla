----------------------------- MODULE DeepService -----------------------------
(***************************************************************************)
(* The service of the deep tasks: the jail with its lock and its file of   *)
(* credentials, the executor that is started in it, and what has to be     *)
(* true before a core serves with it.  Several processes of the core may   *)
(* want the same jail, after one of them has died with its executor left   *)
(* behind.  All executors want the same port.                              *)
(***************************************************************************)
EXTENDS Integers, FiniteSets

CONSTANTS
    Cores,          \* processes of the core, in no order
    NONE,
    MaxStarts       \* bound: starts of a core

CoresOK == NONE \notin Cores /\ MaxStarts \in Nat

VARIABLES
    core,           \* what each core is doing
    lock,           \* the holder of the flock
    env,            \* whose token the file of credentials carries
    exec,           \* the executor each core started: none, up or gone
    wide,           \* the executors whose surface is larger than allowed
    port,           \* whose executor answers at the port of the gateway
    launches

vars == <<core, lock, env, exec, wide, port, launches>>

TypeOK ==
    /\ core \in [Cores -> {"off", "locking", "jailed", "provisioned", "waiting", "asking", "serving", "stopping", "killing"}]
    /\ {lock, env, port} \subseteq Cores \cup {NONE}
    /\ exec \in [Cores -> {"none", "up", "gone"}]
    /\ wide \subseteq Cores
    /\ port # NONE => exec[port] = "up"

Goes(c, pc) == core' = [core EXCEPT ![c] = pc]

\* Without the broker, or without a jail that is configured, nothing begins.
Start(c) ==
    /\ core[c] = "off" /\ exec[c] # "up" /\ launches < MaxStarts
    /\ launches' = launches + 1
    /\ Goes(c, "locking")
    /\ UNCHANGED <<lock, env, exec, wide, port>>

\* Mutant: the note in the file is the lock; who is named there is taken for dead at once.
Acquirable_Note(c) == TRUE

\* A flock is free when nobody alive holds it.
Acquirable(c) == lock = NONE

Acquire(c) ==
    /\ core[c] = "locking"
    /\ IF Acquirable(c) THEN lock' = c /\ Goes(c, "jailed") ELSE UNCHANGED lock /\ Goes(c, "stopping")
    /\ UNCHANGED <<env, exec, wide, port, launches>>

Provision(c) ==
    /\ core[c] = "jailed" /\ env' = c /\ Goes(c, "provisioned")
    /\ UNCHANGED <<lock, exec, wide, port, launches>>

\* The gateway binds its port or leaves again.  What its surface is shows only later.
Launch(c) ==
    /\ core[c] = "provisioned"
    /\ IF port = NONE THEN /\ port' = c /\ exec' = [exec EXCEPT ![c] = "up"]
                           /\ wide' \in {wide \ {c}, wide \cup {c}}
       ELSE exec' = [exec EXCEPT ![c] = "gone"] /\ UNCHANGED <<port, wide>>
    /\ Goes(c, "waiting")
    /\ UNCHANGED <<lock, env, launches>>

\* No sandbox, no executor.
LaunchRefused(c) ==
    /\ core[c] = "provisioned" /\ Goes(c, "stopping")
    /\ UNCHANGED <<lock, env, exec, wide, port, launches>>

\* Whoever answers is healthy; else an executor that has gone is given up, or the time is up.
Healthy(c) ==
    /\ core[c] = "waiting" /\ port # NONE /\ Goes(c, "asking")
    /\ UNCHANGED <<lock, env, exec, wide, port, launches>>

GivenUp(c) ==
    /\ core[c] = "waiting" /\ Goes(c, "stopping")
    /\ UNCHANGED <<lock, env, exec, wide, port, launches>>

\* Mutant: the configuration that was written is believed.
Allowed_Config(p) == TRUE

\* What the running process says of itself, not the file.
Allowed(p) == p # NONE /\ p \notin wide

\* assert_posture: an answer that names more than is allowed is an end, and so is none.
Ask(c) ==
    /\ core[c] = "asking" /\ Goes(c, IF Allowed(port) THEN "serving" ELSE "stopping")
    /\ UNCHANGED <<lock, env, exec, wide, port, launches>>

Shutdown(c) ==
    /\ core[c] = "serving" /\ Goes(c, "stopping")
    /\ UNCHANGED <<lock, env, exec, wide, port, launches>>

\* Mutant: the file of the lock is removed, whoever holds it.
Released_Anyone(c) == NONE

\* Only a lock of one's own is given back.
Released(c) == IF lock = c THEN NONE ELSE lock

\* stop: the lock first, then the executor.
Unlock(c) ==
    /\ core[c] = "stopping" /\ lock' = Released(c) /\ Goes(c, "killing")
    /\ UNCHANGED <<env, exec, wide, port, launches>>

Gone(c) == /\ exec' = [exec EXCEPT ![c] = IF @ = "up" THEN "gone" ELSE @]
           /\ port' = IF port = c THEN NONE ELSE port

StopProcess(c) ==
    /\ core[c] = "killing" /\ Gone(c) /\ Goes(c, "off")
    /\ UNCHANGED <<lock, env, wide, launches>>

ExecutorDies(c) ==
    /\ exec[c] = "up" /\ Gone(c)
    /\ UNCHANGED <<core, lock, env, wide, launches>>

\* The system gives the lock back, the executor goes on.
Crash(c) ==
    /\ core[c] # "off" /\ Goes(c, "off")
    /\ lock' = IF lock = c THEN NONE ELSE lock
    /\ UNCHANGED <<env, exec, wide, port, launches>>

Init == /\ core = [c \in Cores |-> "off"] /\ lock = NONE /\ env = NONE
        /\ exec = [c \in Cores |-> "none"] /\ wide = {} /\ port = NONE /\ launches = 0

Next == \E c \in Cores :
    \/ Start(c) \/ Acquire(c) \/ Provision(c) \/ Launch(c) \/ LaunchRefused(c) \/ Healthy(c) \/ GivenUp(c)
    \/ Ask(c) \/ Shutdown(c) \/ Unlock(c) \/ StopProcess(c) \/ ExecutorDies(c) \/ Crash(c)

Spec == Init /\ [][Next]_vars

----------------------------------------------------------------------------
(* Properties.                                                             *)

\* A core that serves holds the jail, and the file in it carries its own token, however
\* many cores tried, failed, stopped or died meanwhile.
JailIsItsOwn == \A c \in Cores :
    core[c] \in {"provisioned", "waiting", "asking", "serving"} => lock = c /\ env = c

\* What answers a core that serves has said of itself that it offers no more than allowed,
\* even when it is not the executor this core has started.
PostureWasAsked == \A c \in Cores : core[c] = "serving" /\ port # NONE => port \notin wide

\* What the comments say and the code does not do: the executor that answers is one's own.
\* (An executor that outlived its core holds the port, and is taken for the new one.)
OwnExecutor == \A c \in Cores : core[c] = "serving" /\ port # NONE => port = c
=============================================================================
