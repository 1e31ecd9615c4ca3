----------------------------- MODULE MCKeeping -----------------------------
(***************************************************************************)
(* Small instances, for TLC, of what keeps data and secrets: the backup on *)
(* the volume at home, the one outside the house, the vault, the memory,   *)
(* and the portals that are signed in to.  A behaviour is of one part, the *)
(* others stay Off.                                                        *)
(***************************************************************************)
EXTENDS Integers, FiniteSets, TLC

CONSTANT Off

VARIABLES
    part,
    source, blocks, sets, state, lock, job, plugged, count,                       \* Backup
    day, cfg, locked, book, last, sweeps, offState, inbox, run, outcome,
    remote, touched, target, offCount,                                            \* Offsite
    row, kek, keys, keychainLocked, recov, env, slots, ask, use, script, steps, law, \* Vault
    rows, ledger, ledgerFile, index, active, copy, up, deny, prof, flags, memoryJob,
    faults, purged, lost, unsaid,                                       \* Memory
    caller, pending, asked, outstanding, vault, ops, session, builds, left, calls,
    turns, broken                                                       \* Portal

backupVars == <<source, blocks, sets, state, lock, job, plugged, count>>
offsiteVars == <<day, cfg, locked, book, last, sweeps, offState, inbox, run, outcome, remote, touched, target, offCount>>
vaultVars == <<row, kek, keys, keychainLocked, recov, env, slots, ask, use, script, steps, law>>
memoryVars == <<rows, ledger, ledgerFile, index, active, copy, up, deny, prof, flags, memoryJob, faults,
        purged, lost, unsaid>>
portalVars == <<caller, pending, asked, outstanding, vault, ops, session, builds, left, calls, turns,
        broken>>
vars == <<part, backupVars, offsiteVars, vaultVars, memoryVars, portalVars>>

backupOff == /\ source = Off /\ blocks = Off /\ sets = Off /\ state = Off /\ lock = Off /\ job = Off
             /\ plugged = Off /\ count = Off
offsiteOff == /\ day = Off /\ cfg = Off /\ locked = Off /\ book = Off /\ last = Off /\ sweeps = Off
              /\ offState = Off /\ inbox = Off /\ run = Off /\ outcome = Off /\ remote = Off
              /\ touched = Off /\ target = Off /\ offCount = Off
vaultOff == /\ row = Off /\ kek = Off /\ keys = Off /\ keychainLocked = Off /\ recov = Off /\ env = Off
            /\ slots = Off /\ ask = Off /\ use = Off /\ script = Off /\ steps = Off /\ law = Off
memoryOff == /\ rows = Off /\ ledger = Off /\ ledgerFile = Off /\ index = Off /\ active = Off /\ copy = Off
             /\ up = Off /\ deny = Off /\ prof = Off /\ flags = Off /\ memoryJob = Off /\ faults = Off
             /\ purged = Off /\ lost = Off /\ unsaid = Off
portalOff == /\ caller = Off /\ pending = Off /\ asked = Off /\ outstanding = Off /\ vault = Off
             /\ ops = Off /\ session = Off /\ builds = Off /\ left = Off /\ calls = Off /\ turns = Off
             /\ broken = Off

----------------------------------------------------------------------------
(* The backup at home.                                                     *)

Kinds == [file |-> "file", sqlite |-> "sqlite", bundle |-> "bundle"]

\* Two processes and an item of every kind; a year of sets of one database.
Sets == INSTANCE Backup WITH
    Procs <- {1, 2}, Items <- <<"file", "sqlite", "bundle">>, Kind <- Kinds, MaxVersions <- 2, MaxSets <- 2, MaxFaults <- 1,
    Faults <- {"crash", "unplug", "rot", "unreadable", "ha"}, KEEP_DAILY <- 1, KEEP_WEEKLY <- 1, KEEP_MONTHLY <- 2,
    DaysPerWeek <- 2, WeeksPerMonth <- 1
Retention == INSTANCE Backup WITH
    Procs <- {1}, Items <- <<"sqlite">>, Kind <- Kinds, MaxVersions <- 1, MaxSets <- 7, MaxFaults <- 1,
    Faults <- {"crash", "unreadable"}, KEEP_DAILY <- 1, KEEP_WEEKLY <- 1, KEEP_MONTHLY <- 3,
    DaysPerWeek <- 2, WeeksPerMonth <- 1

BackupInit == /\ offsiteOff /\ vaultOff /\ memoryOff /\ portalOff
              /\ \/ part = "sets" /\ Sets!Init
                 \/ part = "retention" /\ Retention!Init
Backups == /\ UNCHANGED <<part, offsiteVars, vaultVars, memoryVars, portalVars>>
           /\ \/ part = "sets" /\ Sets!Next
              \/ part = "retention" /\ Retention!Next

----------------------------------------------------------------------------
(* The backup outside the house.                                           *)

Short == [daily |-> 3, weekly |-> 4, monthly |-> 5]

\* The daily run alone, under every fault of its own; sweeps and health; restores.
Runs == INSTANCE Offsite WITH
    MaxDay <- 3, MaxRuns <- 3, MaxFaults <- 1, DaysPerWeek <- 2, DaysPerMonth <- 3, Lifecycle <- Short,
    StaleAfter <- 2, ProofFresh <- 3, Faults <- {"die", "store", "provider", "local", "force", "tamper"},
    state <- offState, count <- offCount
Looks == INSTANCE Offsite WITH
    MaxDay <- 4, MaxRuns <- 1, MaxFaults <- 1, DaysPerWeek <- 2, DaysPerMonth <- 3, Lifecycle <- Short,
    StaleAfter <- 2, ProofFresh <- 3, Faults <- {"tamper"},
    state <- offState, count <- offCount
Restores == INSTANCE Offsite WITH
    MaxDay <- 3, MaxRuns <- 1, MaxFaults <- 2, DaysPerWeek <- 2, DaysPerMonth <- 3, Lifecycle <- Short,
    StaleAfter <- 2, ProofFresh <- 3, Faults <- {"stray", "locked", "provider", "rotate", "incomplete", "die"},
    state <- offState, count <- offCount

OffsiteInit == /\ backupOff /\ vaultOff /\ memoryOff /\ portalOff
               /\ \/ part = "runs" /\ Runs!Init
                  \/ part = "looks" /\ Looks!Init
                  \/ part = "restores" /\ Restores!Init
Offsites == /\ UNCHANGED <<part, backupVars, vaultVars, memoryVars, portalVars>>
            /\ \/ part = "runs" /\ (Runs!Run \/ Runs!World)
               \/ part = "looks" /\ Looks!Next
               \/ part = "restores" /\ Restores!Next

----------------------------------------------------------------------------
(* The vault. *)

\* Two changes of the app beside a use and a migration; the key, its loss and the script.
Changes == INSTANCE Vault WITH
    Devices <- {"d1", "d2"}, Requests <- {"r1", "r2"}, Ops <- {"add", "replace", "rescope", "disable"}, Uses <- {"u"},
    Caps <- {"a", "b"}, Scopes <- {{"a"}}, MAX_PENDING <- 1, MaxScript <- 1, MaxFaults <- 0, NONE <- Off,
    locked <- keychainLocked, req <- ask, count <- steps
Key == INSTANCE Vault WITH
    Devices <- {"d1"}, Requests <- {"r1"}, Ops <- {"add", "delete"}, Uses <- {"u"},
    Caps <- {"a"}, Scopes <- {{"a"}}, MAX_PENDING <- 1, MaxScript <- 5, MaxFaults <- 2, NONE <- Off,
    locked <- keychainLocked, req <- ask, count <- steps

ASSUME VaultAssumption == Changes!ConstantsOK /\ Key!ConstantsOK

VaultInit == /\ backupOff /\ offsiteOff /\ memoryOff /\ portalOff
             /\ \/ part = "changes" /\ Changes!Init
                \/ part = "key" /\ Key!Init
Vaults == /\ UNCHANGED <<part, backupVars, offsiteVars, memoryVars, portalVars>>
          /\ \/ part = "changes" /\ Changes!Next
             \/ part = "key" /\ Key!Next

----------------------------------------------------------------------------
(* What is remembered. *)

\* Two calls over the index, with a model and a core that may fail; three over what is purged, and
\* four over a copy that is put back.
Remembered == INSTANCE Memory WITH
    Jobs <- {"j1", "j2"}, Old <- {"o"}, Texts <- {"a", "b"}, Due <- {"keep"},
    Profiles <- {"p", "q"}, Ops <- {"remember", "correct", "search", "forget"},
    Faults <- {"model", "embed", "crash"}, MaxFaults <- 1, NONE <- Off, job <- memoryJob
Purged == INSTANCE Memory WITH
    Jobs <- {"j1", "j2", "j3"}, Old <- {"o"}, Texts <- {"a"}, Due <- {"purge", "forget"},
    Profiles <- {"p"}, Ops <- {"forget", "purge", "retain", "backup", "restore"},
    Faults <- {"delete", "crash", "ledger"}, MaxFaults <- 1, NONE <- Off, job <- memoryJob

Copied == INSTANCE Memory WITH
    Jobs <- {"j1", "j2", "j3", "j4"}, Old <- {"o"}, Texts <- {"a"}, Due <- {"keep"},
    Profiles <- {"p"}, Ops <- {"search", "forget", "backup", "restore"},
    Faults <- {}, MaxFaults <- 0, NONE <- Off, job <- memoryJob

ASSUME MemoryAssumption == Remembered!ConstantsOK /\ Purged!ConstantsOK /\ Copied!ConstantsOK

MemoryInit == /\ backupOff /\ offsiteOff /\ vaultOff /\ portalOff
              /\ \/ part = "memory" /\ Remembered!Init
                 \/ part = "purged" /\ Purged!Init
                 \/ part = "copied" /\ Copied!Init
Memories == /\ UNCHANGED <<part, backupVars, offsiteVars, vaultVars, portalVars>>
            /\ \/ part = "memory" /\ Remembered!Next
               \/ part = "purged" /\ Purged!Next
               \/ part = "copied" /\ Copied!Next

----------------------------------------------------------------------------
(* A portal that is signed in to. *)

\* The pages a session may show: none yet, the login form, the same place with another form, signed
\* in, a place outside the binding.
PortalPages ==
    [page \in {"blank", "login", "altered", "inside", "other"} |->
        [origin |-> CASE page = "other" -> "X" [] page = "blank" -> "none" [] OTHER -> "L",
         form |-> CASE page = "altered" -> "g" [] page \in {"login", "other"} -> "f" [] OTHER -> Off,
         success |-> page = "inside"]]

\* A login whose answer or browser is lost; two tasks at one session; sessions that age; a login
\* after a login, over a restart; new code; a locked keychain.
OneLogin == INSTANCE Portal WITH
    Pages <- PortalPages, Allowed <- {"L", "A"}, LoginOrigin <- "L", WriteOrigin <- "A",
    NONE <- Off, Callers <- {"a"}, Does <- {"open", "read", "close", "login"},
    Turns <- {<<"login", "altered">>, <<"login", "inside">>, <<"login", "other">>, <<"altered", "login">>},
    Fields <- <<"user", "pass">>, Breaks <- {"late", "cdp"}, MaxCalls <- 4, MaxSessions <- 1,
    MaxTurns <- 1, MaxWrites <- 2, MaxBreaks <- 1
TwoLogins == INSTANCE Portal WITH
    Pages <- PortalPages, Allowed <- {"L", "A"}, LoginOrigin <- "L", WriteOrigin <- "A",
    NONE <- Off, Callers <- {"a", "b"}, Does <- {"open", "read", "close", "login"},
    Turns <- {<<"login", "altered">>, <<"login", "inside">>}, Fields <- <<"pass">>, Breaks <- {},
    MaxCalls <- 4, MaxSessions <- 1, MaxTurns <- 1, MaxWrites <- 2, MaxBreaks <- 0
Aging == INSTANCE Portal WITH
    Pages <- PortalPages, Allowed <- {"L", "A"}, LoginOrigin <- "L", WriteOrigin <- "A",
    NONE <- Off, Callers <- {"a", "b"}, Does <- {"open", "read", "close"},
    Turns <- {<<"login", "altered">>}, Fields <- <<"pass">>, Breaks <- {"age"}, MaxCalls <- 3,
    MaxSessions <- 1, MaxTurns <- 0, MaxWrites <- 0, MaxBreaks <- 1
LongSession == INSTANCE Portal WITH
    Pages <- PortalPages, Allowed <- {"L", "A"}, LoginOrigin <- "L", WriteOrigin <- "A",
    NONE <- Off, Callers <- {"a"}, Does <- {"open", "read", "login"},
    Turns <- {<<"login", "inside">>, <<"inside", "login">>}, Fields <- <<"pass">>,
    Breaks <- {"age", "restart"}, MaxCalls <- 4, MaxSessions <- 1, MaxTurns <- 2, MaxWrites <- 1,
    MaxBreaks <- 1
NewCode == INSTANCE Portal WITH
    Pages <- PortalPages, Allowed <- {"L", "A"}, LoginOrigin <- "L", WriteOrigin <- "A",
    NONE <- Off, Callers <- {"a"}, Does <- {"open"}, Turns <- {<<"login", "altered">>},
    Fields <- <<"pass">>, Breaks <- {"deliver", "restart"}, MaxCalls <- 2, MaxSessions <- 2,
    MaxTurns <- 0, MaxWrites <- 0, MaxBreaks <- 2
Keychain == INSTANCE Portal WITH
    Pages <- PortalPages, Allowed <- {"L", "A"}, LoginOrigin <- "L", WriteOrigin <- "A",
    NONE <- Off, Callers <- {"a"}, Does <- {"open", "close", "login"},
    Turns <- {<<"login", "altered">>, <<"login", "other">>}, Fields <- <<"pass">>,
    Breaks <- {"vault", "cdp"}, MaxCalls <- 4, MaxSessions <- 1, MaxTurns <- 1, MaxWrites <- 2,
    MaxBreaks <- 2

ASSUME PortalAssumption ==
    /\ OneLogin!ConstantsOK /\ TwoLogins!ConstantsOK /\ Aging!ConstantsOK /\ LongSession!ConstantsOK
    /\ NewCode!ConstantsOK /\ Keychain!ConstantsOK

PortalInit == /\ backupOff /\ offsiteOff /\ vaultOff /\ memoryOff
              /\ \/ part = "login" /\ OneLogin!Init
                 \/ part = "two logins" /\ TwoLogins!Init
                 \/ part = "aging" /\ Aging!Init
                 \/ part = "long session" /\ LongSession!Init
                 \/ part = "new code" /\ NewCode!Init
                 \/ part = "keychain" /\ Keychain!Init
Portals == /\ UNCHANGED <<part, backupVars, offsiteVars, vaultVars, memoryVars>>
           /\ \/ part = "login" /\ OneLogin!Next
              \/ part = "two logins" /\ TwoLogins!Next
              \/ part = "aging" /\ Aging!Next
              \/ part = "long session" /\ LongSession!Next
              \/ part = "new code" /\ NewCode!Next
              \/ part = "keychain" /\ Keychain!Next

----------------------------------------------------------------------------
Init == BackupInit \/ OffsiteInit \/ VaultInit \/ MemoryInit \/ PortalInit
Next == Backups \/ Offsites \/ Vaults \/ Memories \/ Portals
Spec == Init /\ [][Next]_vars

(* Properties, each a conjunction over the parts it is about.              *)

\* Every block of a finished set is there and is what its manifest says, the set state.json
\* names as the last success can be restored as long as retention has not pruned it (job.py:131),
\* and retention reaches back as far as planned.  Outside the house a day has one good generation
\* that nobody forced, one booked as verified was read back, a run begins with nothing open, the
\* sweep calls nothing missing that was due, what health calls healthy can be restored, and a
\* restore that ends well is of a whole generation.
CopiesAreGood ==
    /\ part = "sets" => Sets!TypeOK /\ Sets!SetsAreWhole /\ Sets!SuccessIsRestorable
    /\ part = "retention" => Retention!HistoryReachesBack
    /\ part = "runs" => Runs!TypeOK /\ Runs!CalendarHolds /\ Runs!VerifiedIsHeld /\ Runs!NothingInherited
    /\ part = "looks" => Looks!NoFalseAlarm /\ Looks!HealthyIsRestorable
    /\ part = "restores" => Restores!RestoredIsWhole


\* What was purged is never read again, a record no search would find by its meaning is
\* announced, unless it came back with a copy (semantic.py:284) or the rebuild that missed it was
\* left unanswered while another one ended, and a corrected record names its successor.
MemoryHolds ==
    /\ part = "memory" => Remembered!TypeOK /\ Remembered!IncompleteIsSaid /\ Remembered!SuccessorKnown
    /\ part = "purged" => Purged!TypeOK /\ Purged!PurgedStaysGone
    /\ part = "copied" => Copied!IncompleteIsSaid

\* A login is carried out as it was described and approved, unless another task describes the
\* session anew in between (portal.py:268), and into the form that was compared, unless the page
\* turns under our hands; a session that is closed leaves no approval behind that could be given.
LoginIsTheApproved ==
    [][/\ part = "login" => OneLogin!ExecutedIsApproved /\ OneLogin!FilledAsCompared /\ OneLogin!NoTrap
       /\ part = "two logins" => /\ TwoLogins!ExecutedIsApproved /\ TwoLogins!FilledAsCompared
                                 /\ TwoLogins!NoTrap
       /\ part = "keychain" => Keychain!ExecutedIsApproved /\ Keychain!FilledAsCompared /\ Keychain!NoTrap]_vars
=============================================================================
