------------------------------ MODULE Offsite ------------------------------
(***************************************************************************)
(* The backup outside the house (storage/offsite/): the daily run with its *)
(* gates, upload, class copies and read-back, the book offsite.sqlite3 and *)
(* state.json, the restore proof, the retention sweep, the restore into an *)
(* empty place, the health verdict, and the provider with its lifecycle.   *)
(*                                                                         *)
(* A generation is the number of the run that began it; its day is what    *)
(* its name says.  An object is its key and whether it holds what that     *)
(* generation wrote.  Time is the day; requests with their retries either  *)
(* succeed or end in a category.  One run at a time (job.lock).            *)
(***************************************************************************)
EXTENDS Integers, FiniteSets, FiniteSetsExt

CONSTANTS
    MaxDay, MaxRuns, MaxFaults,     \* bounds: days, runs that pass the gates, faults
    DaysPerWeek, DaysPerMonth,
    Lifecycle,                      \* class |-> days the provider keeps an object
    StaleAfter, ProofFresh,         \* days after which health calls an upload or a proof old
    Faults                          \* which of die, store, provider, tamper, stray, incomplete, locked, rotate, force, local may happen

Classes == {"daily", "weekly", "monthly"}

ConstantsOK ==
    /\ {MaxDay, MaxRuns, DaysPerWeek, DaysPerMonth, StaleAfter, ProofFresh} \subseteq Nat \ {0}
    /\ MaxFaults \in Nat /\ Lifecycle \in [Classes -> Nat \ {0}]

VARIABLES
    day,
    cfg,       \* version of the recipient
    locked,    \* the keychain is locked
    book,      \* offsite_generations
    last,      \* the newest restore proof, and the day of the last one that passed
    sweeps,    \* what the last sweep wrote into offsite_retention
    state,     \* state.json
    inbox,     \* notifications: category and quiet window
    run,       \* the run of now
    outcome,   \* what the last run_once returned
    remote,    \* class |-> key |-> what lies there
    touched,   \* objects somebody else changed, and whether they had been read back
    target,    \* where the last restore wrote, and what
    count      \* generations begun, faults

vars == <<day, cfg, locked, book, last, sweeps, state, inbox, run, outcome, remote, touched, target, count>>

Gens == 1..MaxRuns
Stranger == 0         \* a key no generation has
OPEN_STATES == {"prepared", "uploading"}
SUCCESS_STATES == {"uploaded", "verified"}
NoRow == [state |-> "none", day |-> 0, classes |-> {}, keys |-> {}, whole |-> TRUE, version |-> 0, forced |-> FALSE]
Idle == [pc |-> "idle", gen |-> 0, day |-> 0, classes |-> {}, whole |-> TRUE, force |-> FALSE, category |-> ""]

Week(d) == (d - 1) \div DaysPerWeek
Month(d) == (d - 1) \div DaysPerMonth
Rows(states) == {g \in Gens : book[g].state \in states}

TypeOK ==
    /\ day \in 1..MaxDay
    /\ \A g \in Gens : /\ book[g].state \in {"none", "prepared", "uploading", "uploaded", "verified", "failed"}
                       /\ book[g].keys \subseteq book[g].classes
                       /\ book[g].state \in SUCCESS_STATES => book[g].keys = book[g].classes
    /\ run.pc \in {"idle", "begun", "packed", "booked", "uploading", "put", "uploaded", "compared", "verified", "report"}
    /\ \A c \in Classes : remote[c] \in [Gens \cup {Stranger} -> {"none", "own", "other", "gone"}]
    /\ state.failures \in Nat /\ last.result \in {"none", "ok", "failed"} /\ last.passed \in 0..day

Fault(kind) == kind \in Faults /\ count.faults < MaxFaults /\ count' = [count EXCEPT !.faults = @ + 1]

----------------------------------------------------------------------------
(* run_once.                                                               *)

\* Mutant: only what has been read back stands in the way of a second run.
SuccessfulOn_Verified(d) == {g \in Rows({"verified"}) : book[g].day = d}

\* successful_on: the generations of this calendar day that count as good.
SuccessfulOn(d) == {g \in Rows(SUCCESS_STATES) : book[g].day = d}

\* classes_for: the first good one of its week and of its month is copied there too.
ClassesFor(d) ==
    {"daily"} \cup (IF \E g \in Rows(SUCCESS_STATES) : Week(book[g].day) = Week(d) THEN {} ELSE {"weekly"})
              \cup (IF \E g \in Rows(SUCCESS_STATES) : Month(book[g].day) = Month(d) THEN {} ELSE {"monthly"})

\* Mutant: only what was uploading is looked at.
Recovered_Uploading(force) ==
    [g \in Gens |-> IF book[g].state = "uploading" /\ ~(force /\ book[g].day = day)
                    THEN [book[g] EXCEPT !.state = "failed"] ELSE book[g]]

\* Rows an interrupted run left are closed; a forced run leaves those of its own day.
Recovered(force) ==
    [g \in Gens |-> IF book[g].state \in OPEN_STATES /\ ~(force /\ book[g].day = day)
                    THEN [book[g] EXCEPT !.state = "failed"] ELSE book[g]]

\* Gate 4: there is a good one of today.
Skip ==
    /\ run.pc = "idle" /\ SuccessfulOn(day) # {}
    /\ outcome' = [ok |-> "skipped", gen |-> Max(SuccessfulOn(day))]
    /\ UNCHANGED <<day, cfg, locked, book, last, sweeps, state, inbox, run, remote, touched, target, count>>

\* Past the gates: open rows are settled, the generation gets its name and its classes.
Begin(force) ==
    /\ run.pc = "idle" /\ count.gens < MaxRuns
    /\ IF force THEN "force" \in Faults ELSE SuccessfulOn(day) = {}
    /\ book' = Recovered(force)
    /\ run' = [Idle EXCEPT !.pc = "begun", !.gen = count.gens + 1, !.day = day, !.force = force, !.classes = ClassesFor(day)]
    /\ count' = [count EXCEPT !.gens = @ + 1]
    /\ UNCHANGED <<day, cfg, locked, last, sweeps, state, inbox, outcome, remote, touched, target>>

\* _finish_failed: the row, if there is one, and the state; then the caller reports.
FinishFailed(category) ==
    /\ book' = IF book[run.gen].state = "none" THEN book ELSE [book EXCEPT ![run.gen].state = "failed"]
    /\ state' = [state EXCEPT !.failures = @ + 1, !.category = category]
    /\ run' = [run EXCEPT !.pc = "report", !.category = category]
    /\ outcome' = [ok |-> "failed", gen |-> run.gen]

\* Credential, staging, provenance and envelope; a set can be made with errors.
Prepare ==
    /\ run.pc = "begun"
    /\ \/ run' = [run EXCEPT !.pc = "packed"] /\ UNCHANGED count
       \/ Fault("incomplete") /\ run' = [run EXCEPT !.pc = "packed", !.whole = FALSE]
    /\ UNCHANGED <<day, cfg, locked, book, last, sweeps, state, inbox, outcome, remote, touched, target>>

PrepareFails ==
    /\ run.pc = "begun" /\ Fault("store")
    /\ \E category \in {"auth_failed", "staging_failed", "encryption_failed"} : FinishFailed(category)
    /\ UNCHANGED <<day, cfg, locked, last, sweeps, inbox, remote, touched, target>>

\* The local backup holds its lock: no failure.
LocalBackupRuns ==
    /\ run.pc = "begun" /\ Fault("local")
    /\ run' = Idle /\ outcome' = [ok |-> "skipped", gen |-> 0]
    /\ UNCHANGED <<day, cfg, locked, book, last, sweeps, state, inbox, remote, touched, target>>

BookStart ==
    /\ run.pc = "packed"
    /\ book' = [book EXCEPT ![run.gen] = [state |-> "prepared", day |-> run.day, classes |-> run.classes, keys |-> {},
                                          whole |-> run.whole, version |-> cfg, forced |-> run.force]]
    /\ run' = [run EXCEPT !.pc = "booked"]
    /\ UNCHANGED <<day, cfg, locked, last, sweeps, state, inbox, outcome, remote, touched, target, count>>

Uploading ==
    /\ run.pc = "booked"
    /\ book' = [book EXCEPT ![run.gen].state = "uploading"]
    /\ run' = [run EXCEPT !.pc = "uploading"]
    /\ UNCHANGED <<day, cfg, locked, last, sweeps, state, inbox, outcome, remote, touched, target, count>>

\* The PUT, then one COPY per class; the keys are booked with the state.
Copied == {c \in run.classes : remote[c][run.gen] # "none"}

Put(c) ==
    /\ run.pc \in {"uploading", "put"} /\ c \in run.classes \ Copied
    /\ c # "daily" => remote["daily"][run.gen] \in {"own", "other"}
    /\ remote' = [remote EXCEPT ![c][run.gen] = IF c = "daily" THEN "own" ELSE remote["daily"][run.gen]]
    /\ run' = [run EXCEPT !.pc = "put"]
    /\ UNCHANGED <<day, cfg, locked, book, last, sweeps, state, inbox, outcome, touched, target, count>>

\* What is to be copied is not there.
CopyFails ==
    /\ run.pc = "put" /\ Copied # run.classes /\ remote["daily"][run.gen] = "gone"
    /\ FinishFailed("integrity_failed")
    /\ UNCHANGED <<day, cfg, locked, last, sweeps, inbox, remote, touched, target, count>>

\* Mutant: the state is booked without the keys.
Uploaded_Bare ==
    /\ run.pc = "put" /\ Copied = run.classes
    /\ book' = [book EXCEPT ![run.gen].state = "uploaded"]
    /\ run' = [run EXCEPT !.pc = "uploaded"]
    /\ UNCHANGED <<day, cfg, locked, last, sweeps, state, inbox, outcome, remote, touched, target, count>>

Uploaded ==
    /\ run.pc = "put" /\ Copied = run.classes
    /\ book' = [book EXCEPT ![run.gen].state = "uploaded", ![run.gen].keys = run.classes]
    /\ run' = [run EXCEPT !.pc = "uploaded"]
    /\ UNCHANGED <<day, cfg, locked, last, sweeps, state, inbox, outcome, remote, touched, target, count>>

\* A request of the upload or the read-back fails for good; what a PUT did may stay.
TransportFails ==
    /\ run.pc \in {"uploading", "put", "uploaded"} /\ Fault("provider")
    /\ \E category \in {"remote_unavailable", "auth_failed"} : FinishFailed(category)
    /\ \/ UNCHANGED remote
       \/ run.pc = "uploading" /\ remote' = [remote EXCEPT !["daily"][run.gen] = "own"]
    /\ UNCHANGED <<day, cfg, locked, last, sweeps, inbox, touched, target>>

\* Mutant: what lies there is not compared.
ReadsBack_Any(g) == remote["daily"][g] # "none"

\* GET and SHA-256 against what was written.
ReadsBack(g) == remote["daily"][g] = "own"

Compare ==
    /\ run.pc = "uploaded"
    /\ IF ReadsBack(run.gen)
       THEN run' = [run EXCEPT !.pc = "compared"] /\ UNCHANGED <<book, state, outcome>>
       ELSE FinishFailed("integrity_failed")
    /\ UNCHANGED <<day, cfg, locked, last, sweeps, inbox, remote, touched, target, count>>

Verified ==
    /\ run.pc = "compared"
    /\ book' = [book EXCEPT ![run.gen].state = "verified"]
    /\ run' = [run EXCEPT !.pc = "verified"]
    /\ UNCHANGED <<day, cfg, locked, last, sweeps, state, inbox, outcome, remote, touched, target, count>>

Succeeded ==
    /\ run.pc = "verified"
    /\ state' = [state EXCEPT !.failures = 0, !.success = day]
    /\ outcome' = [ok |-> "ok", gen |-> run.gen]
    /\ run' = Idle
    /\ UNCHANGED <<day, cfg, locked, book, last, sweeps, inbox, remote, touched, target, count>>

\* run_and_report: one notification per category and quiet window.
Report ==
    /\ run.pc = "report"
    /\ inbox' = inbox \cup {<<run.category, day>>}
    /\ run' = Idle
    /\ UNCHANGED <<day, cfg, locked, book, last, sweeps, state, outcome, remote, touched, target, count>>

Die ==
    /\ run.pc # "idle" /\ Fault("die")
    /\ run' = Idle
    /\ UNCHANGED <<day, cfg, locked, book, last, sweeps, state, inbox, outcome, remote, touched, target>>

----------------------------------------------------------------------------
(* Proof, sweep and restore.                                               *)

\* The newest verified generation, or none.
Newest == LET v == Rows({"verified"}) IN IF v = {} THEN 0 ELSE Max(v)

\* unpack: the envelope opens for the identity of now.
Unpacks(g) == ~locked /\ book[g].version = cfg

\* fetch_generation and open_generation: the daily object, as written, and its envelope.
Opens(g) == remote["daily"][g] = "own" /\ Unpacks(g)

\* _run_proof: the object read back as written, unpacked, counted against its manifest.
Proves(g) == ReadsBack(g) /\ Unpacks(g)

Proof ==
    /\ Newest # 0
    /\ last' = IF Proves(Newest) THEN [result |-> "ok", passed |-> day, gen |-> Newest]
               ELSE [last EXCEPT !.result = "failed", !.gen = Newest]
    /\ UNCHANGED <<day, cfg, locked, book, sweeps, state, inbox, run, outcome, remote, touched, target, count>>

ProofUnreachable ==
    /\ Newest # 0 /\ Fault("provider")
    /\ last' = [last EXCEPT !.result = "failed", !.gen = Newest]
    /\ UNCHANGED <<day, cfg, locked, book, sweeps, state, inbox, run, outcome, remote, touched, target>>

Booked(c) == {g \in Rows(SUCCESS_STATES) : c \in book[g].classes}

\* Mutant: an object is due a day later than the provider takes it.
Due_Later(c, g) == day - book[g].day > Lifecycle[c]

\* Old enough for the lifecycle of its class.
Due(c, g) == day - book[g].day >= Lifecycle[c]

\* What is listed and not booked as good.
Strays(c) == {g \in Gens \cup {Stranger} : remote[c][g] \in {"own", "other"}} \ Booked(c)

Sweep ==
    LET absent(c) == {g \in Booked(c) : remote[c][g] \notin {"own", "other"}}
        seen(event, S(_)) == UNION {{<<event, c, g>> : g \in S(c)} : c \in Classes}
    IN  /\ sweeps' = seen("expired_as_planned", LAMBDA c : {g \in absent(c) : Due(c, g)})
                   \cup seen("missing_early", LAMBDA c : {g \in absent(c) : ~Due(c, g)})
                   \cup seen("foreign_object", Strays)
        /\ UNCHANGED <<day, cfg, locked, book, last, state, inbox, run, outcome, remote, touched, target, count>>

\* Mutant: the set is held against its own manifest only.
Complete_Own(g, only) == TRUE

\* _missing_required: every required item of the inventory, unless parts were asked for.
Complete(g, only) == only \/ book[g].whole

\* restore: an empty place, a verified generation, and every check before anything is put there.
Restore(g, only) ==
    /\ target.state = "empty" /\ book[g].state = "verified"
    /\ target' = IF Opens(g) /\ Complete(g, only)
                 THEN [state |-> IF only THEN "parts" ELSE "restored", gen |-> g] ELSE target
    /\ UNCHANGED <<day, cfg, locked, book, last, sweeps, state, inbox, run, outcome, remote, touched, count>>

\* --finalize: count, report and leave the one marker.
Finalize ==
    /\ target.state \in {"restored", "parts"}
    /\ target' = [target EXCEPT !.state = "finalized"]
    /\ UNCHANGED <<day, cfg, locked, book, last, sweeps, state, inbox, run, outcome, remote, touched, count>>

\* A restore that dies leaves .incoming; its place is no longer empty.
RestoreDies ==
    /\ target.state = "empty" /\ Newest # 0 /\ Fault("die")
    /\ target' = [state |-> "remains", gen |-> Newest]
    /\ UNCHANGED <<day, cfg, locked, book, last, sweeps, state, inbox, run, outcome, remote, touched>>

----------------------------------------------------------------------------
(* Health.                                                                 *)

\* Mutant: an upload does not grow old.
UploadIsFresh_Any == state.success # 0

UploadIsFresh == state.success # 0 /\ day - state.success < StaleAfter
ProofIsFresh == last.passed # 0 /\ day - last.passed < ProofFresh

\* assess, of a configured and enabled backup, in its order.
Assess ==
    IF locked THEN "auth_required"
    ELSE IF state.category = "auth_failed" /\ state.failures > 0 THEN "auth_required"
    ELSE IF last.result = "failed" \/ state.category = "integrity_failed" THEN "unavailable"
    ELSE IF \/ Newest = 0 \/ state.failures >= 2
            \/ ~UploadIsFresh \/ ~ProofIsFresh
            \/ Rows(OPEN_STATES) # {} \/ ~book[Newest].whole THEN "degraded"
    ELSE "healthy"

----------------------------------------------------------------------------
(* The world.                                                              *)

\* A run takes less than a day: it sees one midnight at most.
NextDay == day < MaxDay /\ (run.pc # "idle" => run.day = day) /\ day' = day + 1
           /\ UNCHANGED <<cfg, locked, book, last, sweeps, state, inbox, run, outcome, remote, touched, target, count>>

\* The lifecycle rule of a bucket, at an age of which the day of the name is a part.
Expire(c, g) ==
    /\ remote[c][g] \in {"own", "other"} /\ book[g].day # 0 /\ day - book[g].day >= Lifecycle[c]
    /\ remote' = [remote EXCEPT ![c][g] = "gone"]
    /\ UNCHANGED <<day, cfg, locked, book, last, sweeps, state, inbox, run, outcome, touched, target, count>>

\* An object is replaced or disappears.
Tamper(c, g) ==
    /\ remote[c][g] = "own" /\ Fault("tamper")
    /\ \E to \in {"other", "gone"} : remote' = [remote EXCEPT ![c][g] = to]
    /\ touched' = touched \cup {<<c, g, book[g].state = "verified" \/ (run.pc = "compared" /\ run.gen = g)>>}
    /\ UNCHANGED <<day, cfg, locked, book, last, sweeps, state, inbox, run, outcome, target>>

PutStray ==
    /\ remote["daily"][Stranger] = "none" /\ Fault("stray")
    /\ remote' = [remote EXCEPT !["daily"][Stranger] = "other"]
    /\ UNCHANGED <<day, cfg, locked, book, last, sweeps, state, inbox, run, outcome, touched, target>>

KeychainLocks ==
    /\ Fault("locked") /\ locked' = ~locked
    /\ UNCHANGED <<day, cfg, book, last, sweeps, state, inbox, run, outcome, remote, touched, target>>

\* identity-rotate: a new pair; the old key stays in the keychain.
Rotate ==
    /\ cfg = 1 /\ Fault("rotate") /\ cfg' = 2
    /\ UNCHANGED <<day, locked, book, last, sweeps, state, inbox, run, outcome, remote, touched, target>>

Init ==
    /\ day = 1 /\ cfg = 1 /\ locked = FALSE
    /\ book = [g \in Gens |-> NoRow]
    /\ last = [result |-> "none", passed |-> 0, gen |-> 0]
    /\ sweeps = {} /\ inbox = {} /\ touched = {}
    /\ state = [failures |-> 0, category |-> "", success |-> 0]
    /\ run = Idle /\ outcome = [ok |-> "none", gen |-> 0]
    /\ remote = [c \in Classes |-> [g \in Gens \cup {Stranger} |-> "none"]]
    /\ target = [state |-> "empty", gen |-> 0]
    /\ count = [gens |-> 0, faults |-> 0]

Run == \/ Skip \/ (\E force \in BOOLEAN : Begin(force)) \/ Prepare \/ PrepareFails \/ LocalBackupRuns \/ BookStart
       \/ Uploading \/ (\E c \in Classes : Put(c)) \/ CopyFails \/ Uploaded \/ TransportFails \/ Compare \/ Verified \/ Succeeded
       \/ Report \/ Die
Look == Proof \/ ProofUnreachable \/ Sweep \/ (\E g \in Gens, only \in BOOLEAN : Restore(g, only)) \/ Finalize \/ RestoreDies
World == \/ NextDay \/ (\E c \in Classes, g \in Gens : Expire(c, g) \/ Tamper(c, g)) \/ PutStray \/ KeychainLocks \/ Rotate

Next == Run \/ Look \/ World

Spec == Init /\ [][Next]_vars

\* Without proofs, sweeps and restores.
RunSpec == Init /\ [][Run \/ World]_vars

----------------------------------------------------------------------------
(* Properties.                                                             *)

\* Each week and each month with a good generation has exactly one copy in its bucket, and
\* no calendar day gets two good ones unasked, whatever died or failed in between.
CalendarHolds ==
    LET good(P(_)) == {g \in Rows(SUCCESS_STATES) : P(g)}
    IN  \A d \in 1..MaxDay :
          /\ Cardinality(good(LAMBDA g : book[g].day = d /\ ~book[g].forced)) <= 1
          /\ LET w == good(LAMBDA g : Week(book[g].day) = Week(d)) IN
             w # {} => Cardinality({g \in w : "weekly" \in book[g].keys}) = 1
          /\ LET m == good(LAMBDA g : Month(book[g].day) = Month(d)) IN
             m # {} => Cardinality({g \in m : "monthly" \in book[g].keys}) = 1

\* What the book calls verified lies at the provider as it was written, until somebody else
\* or the lifecycle takes it.
VerifiedIsHeld == \A g \in Rows({"verified"}) :
    remote["daily"][g] = "own" \/ <<"daily", g, TRUE>> \in touched \/ Due("daily", g)

\* Once a run is past the gates nothing an interrupted one left is open any more.
NothingInherited == run.pc \in {"packed", "put"} /\ ~run.force => Rows(OPEN_STATES) \subseteq {run.gen}

\* The sweep cries only when something disappeared before its time, and never about what
\* the lifecycle rule took.
NoFalseAlarm == \A c \in Classes, g \in Gens :
    <<"missing_early", c, g>> \in sweeps => remote[c][g] = "gone" /\ \E late \in BOOLEAN : <<c, g, late>> \in touched

\* Healthy says that the newest generation can be had back, unless somebody has meddled
\* with it since it was last read.
HealthyIsRestorable == Assess = "healthy" =>
    \/ Opens(Newest) \/ <<"daily", Newest, TRUE>> \in touched

\* A restore that is called complete is: it came from a verified generation, whole.
RestoredIsWhole == target.state = "restored" => book[target.gen].whole /\ book[target.gen].state = "verified"

\* What the documents say and the code does not do.

\* A foreign object is one the book does not know.
ForeignIsUnknown == \A c \in Classes, g \in Gens : <<"foreign_object", c, g>> \in sweeps => book[g].state = "none"

\* A failure always reaches the book.
FailureReachesTheBook == [][run.pc # "report" /\ run'.pc = "report" => book'[run.gen].state = "failed"]_vars

\* A day that is done is a day whose generation has been read back.
SkippedDayIsVerified == outcome.ok = "skipped" /\ outcome.gen # 0 => book[outcome.gen].state # "uploaded"

\* When the last run succeeded and the last proof passed nothing is unavailable.
SuccessIsForgiven == state.success # 0 /\ state.failures = 0 /\ last.result = "ok" => Assess # "unavailable"

\* A verified generation that lies in any of the buckets can be had back.
HeldIsRestorable == \A g \in Rows({"verified"}) :
    (\E c \in Classes : remote[c][g] = "own") /\ ~locked /\ book[g].version = cfg => Opens(g)

\* What was written for an identity that is still in the keychain opens with it.
OldGenerationsOpen == \A g \in Rows({"verified"}) : remote["daily"][g] = "own" /\ ~locked => Opens(g)
=============================================================================
