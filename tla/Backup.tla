------------------------------- MODULE Backup -------------------------------
(***************************************************************************)
(* The local backup of storage/: the launchd job and a run by hand build   *)
(* sets on the external volume, sharing unchanged blocks with the set      *)
(* before by hard links, prune old sets, check the new one and keep the    *)
(* book (state.json).                                                      *)
(*                                                                         *)
(* A set is its manifest and its blocks: for every item the digest written *)
(* down and the block it has, named by the set that wrote it.  A block     *)
(* shared by a link is one block.  What a crash leaves under .incoming- is *)
(* never read and is left out.  Ids count the days: a set is made at a     *)
(* later day than the one before.                                          *)
(***************************************************************************)
EXTENDS Integers, FiniteSets, Sequences, FiniteSetsExt

CONSTANTS
    Procs,           \* processes that may run a backup
    Items,           \* a sequence of items of the inventory
    Kind,            \* file (and tree), sqlite or bundle (and the one of Home Assistant)
    MaxVersions,     \* bound: versions a source goes through
    MaxSets,         \* bound: sets ever begun
    MaxFaults,       \* bound: crashes, pulled cables, unreadable sources, rotten blocks
    Faults,          \* which of them may happen
    KEEP_DAILY, KEEP_WEEKLY, KEEP_MONTHLY,
    DaysPerWeek, WeeksPerMonth

ConstantsOK ==
    /\ Procs \subseteq Nat \ {0} /\ MaxVersions \in Nat \ {0}
    /\ MaxSets \in Nat /\ MaxFaults \in Nat
    /\ {KEEP_DAILY, KEEP_WEEKLY, KEEP_MONTHLY, DaysPerWeek, WeeksPerMonth} \subseteq Nat \ {0}

VARIABLES
    source,      \* the version of each item
    blocks,      \* the content of each block: a version, 0 for none, -1 when rotten
    sets,        \* the finished sets: id |-> manifest
    state,       \* state.json: last_backup_id of the last success, consecutive_failures
    lock,        \* backup.lock: the process holding it, 0 when free
    job,         \* run_once of each process
    plugged,     \* the volume is there and trusted
    count        \* sets begun, faults, and what was ever published

vars == <<source, blocks, sets, state, lock, job, plugged, count>>

Ids == 1..MaxSets
Names == DOMAIN Items
Rotten == -1
Nothing == [i \in Names |-> 0]
Idle == [pc |-> "idle", book |-> [last |-> 0, fails |-> 0], id |-> 0, prev |-> 0, at |-> 1,
         dig |-> Nothing, block |-> Nothing, errors |-> FALSE, label |-> FALSE, ha |-> FALSE]

TypeOK ==
    /\ source \in [Names -> 1..MaxVersions]
    /\ blocks \in [Names \X Ids -> Rotten..MaxVersions]
    /\ DOMAIN sets \subseteq Ids
    /\ \A s \in DOMAIN sets : sets[s].dig \in [Names -> 0..MaxVersions]
                              /\ sets[s].block \in [Names -> 0..MaxSets] /\ sets[s].block # Nothing
                              /\ sets[s].ok \in BOOLEAN
    /\ state \in [last : 0..MaxSets, fails : Nat]
    /\ lock \in Procs \cup {0}
    /\ \A p \in Procs : job[p].pc \in {"idle", "loaded", "item", "copy", "ha", "publish", "prune",
                                       "verify", "book"}
    /\ plugged \in BOOLEAN
    /\ count.begun \in 0..MaxSets /\ count.faults \in 0..MaxFaults /\ count.published \subseteq Ids

Content(i, s) == IF s = 0 THEN 0 ELSE blocks[i, s]

----------------------------------------------------------------------------
(* The world: sources change, the cable is pulled, blocks rot.             *)

Fault(kind) == /\ kind \in Faults /\ count.faults < MaxFaults
               /\ count' = [count EXCEPT !.faults = @ + 1]

SourceChanges(i) ==
    /\ source[i] < MaxVersions
    /\ source' = [source EXCEPT ![i] = @ + 1]
    /\ UNCHANGED <<blocks, sets, state, lock, job, plugged, count>>

Unplug ==
    /\ plugged /\ Fault("unplug")
    /\ plugged' = FALSE
    /\ UNCHANGED <<source, blocks, sets, state, lock, job>>

Plug ==
    /\ ~plugged
    /\ plugged' = TRUE
    /\ UNCHANGED <<source, blocks, sets, state, lock, job, count>>

\* A block on the volume rots between two runs.
Rot(i, s) ==
    /\ blocks[i, s] > 0 /\ \A p \in Procs : job[p].pc = "idle"
    /\ Fault("rot")
    /\ blocks' = [blocks EXCEPT ![i, s] = Rotten]
    /\ UNCHANGED <<source, sets, state, lock, job, plugged>>

\* The process dies: the kernel gives its lock back, no set has become visible.
Crash(p) ==
    /\ job[p].pc # "idle" /\ Fault("crash")
    /\ job' = [job EXCEPT ![p] = Idle]
    /\ lock' = IF lock = p THEN 0 ELSE lock
    /\ UNCHANGED <<source, blocks, sets, state, plugged>>

----------------------------------------------------------------------------
(* run_once: the book is read first, before the lock.                      *)

Load(p, label) ==
    /\ job[p].pc = "idle"
    /\ count.begun + Cardinality({q \in Procs : job[q].pc = "loaded"}) < MaxSets    \* the bound
    /\ job' = [job EXCEPT ![p] = [Idle EXCEPT !.pc = "loaded", !.book = state, !.label = label]]
    /\ UNCHANGED <<source, blocks, sets, state, lock, plugged, count>>

End(p) == job' = [job EXCEPT ![p] = Idle]

\* No volume: no failure, only the book is written (last_attempt_at, the rest as read).
SkipAbsent(p) ==
    /\ job[p].pc = "loaded" /\ ~plugged
    /\ state' = job[p].book
    /\ End(p)
    /\ UNCHANGED <<source, blocks, sets, lock, plugged, count>>

\* Mutant: the lock is defined and never taken.
Free_Always(p) == TRUE

\* _open_lock: does not wait.
Free(p) == lock = 0

SkipLocked(p) ==
    /\ job[p].pc = "loaded" /\ plugged /\ ~Free(p)
    /\ End(p)
    /\ UNCHANGED <<source, blocks, sets, state, lock, plugged, count>>

\* The lock, the id, and whatever lies under .incoming- is cleared away; the newest
\* finished set is the one to share with.
Begin(p) ==
    /\ job[p].pc = "loaded" /\ plugged /\ Free(p)
    /\ lock' = p
    /\ count' = [count EXCEPT !.begun = @ + 1]
    /\ job' = [q \in Procs |->
          IF q = p THEN [job[p] EXCEPT !.pc = "item", !.id = count.begun + 1, !.at = 1,
                                       !.prev = Max(DOMAIN sets \cup {0})]
          ELSE IF job[q].pc \in {"item", "copy", "ha", "publish"} THEN [job[q] EXCEPT !.block = Nothing]
          ELSE job[q]]
    /\ UNCHANGED <<source, blocks, sets, state, plugged>>

Item(p) == job[p].at
More(p) == [job[p] EXCEPT !.pc = IF Item(p) = Len(Items) THEN "ha" ELSE "item", !.at = @ + 1]
At(p, pc, kinds) == job[p].pc = pc /\ (pc \in {"item", "copy"} => Kind[Items[Item(p)]] \in kinds)

\* The digest of the manifest before, for the item at hand, and its block.
Prev(p) == IF job[p].prev \in DOMAIN sets THEN sets[job[p].prev]
           ELSE [dig |-> Nothing, block |-> Nothing]

Copied(p, v) ==
    /\ blocks' = [blocks EXCEPT ![Item(p), job[p].id] = v]
    /\ job' = [job EXCEPT ![p] = [More(p) EXCEPT !.dig[Item(p)] = IF @ = 0 THEN v ELSE @,
                                                 !.block[Item(p)] = job[p].id]]
Linked(p, d) ==
    /\ job' = [job EXCEPT ![p] = [More(p) EXCEPT !.dig[Item(p)] = d,
                                                 !.block[Item(p)] = Prev(p).block[Item(p)]]]
    /\ UNCHANGED blocks

\* snapshot: always a copy, the digest is the copy's.
ItemDatabase(p) ==
    /\ At(p, "item", {"sqlite"}) /\ plugged
    /\ Copied(p, source[Item(p)])
    /\ UNCHANGED <<source, sets, state, lock, plugged, count>>

\* sha256_file of the source, before the copy.
ItemDigest(p) ==
    /\ At(p, "item", {"file"}) /\ plugged
    /\ job' = [job EXCEPT ![p].pc = "copy", ![p].dig[Item(p)] = source[Item(p)]]
    /\ UNCHANGED <<source, blocks, sets, state, lock, plugged, count>>

\* _Linker.place: a block of the set before with that digest in its manifest is linked
\* as it is; otherwise the source is copied as it is now.
ItemPlace(p) ==
    LET d == job[p].dig[Item(p)] IN
    /\ At(p, "copy", {"file"}) /\ plugged
    /\ IF Prev(p).dig[Item(p)] = d THEN Linked(p, d) ELSE Copied(p, source[Item(p)])
    /\ UNCHANGED <<source, sets, state, lock, plugged, count>>

\* _reuse_bundle: the shared block is computed again; else a new bundle is made.
ItemBundle(p) ==
    LET d == source[Item(p)] IN
    /\ At(p, "item", {"bundle"}) /\ plugged
    /\ IF Prev(p).dig[Item(p)] = d /\ Content(Item(p), Prev(p).block[Item(p)]) = d
       THEN Linked(p, d) ELSE Copied(p, d)
    /\ UNCHANGED <<source, sets, state, lock, plugged, count>>

\* One item cannot be read: the set goes on without it and is not ok.
ItemFails(p) ==
    /\ job[p].pc \in {"item", "copy"} /\ plugged /\ Fault("unreadable")
    /\ job' = [job EXCEPT ![p] = [More(p) EXCEPT !.dig[Item(p)] = 0, !.errors = TRUE]]
    /\ UNCHANGED <<source, blocks, sets, state, lock, plugged>>

\* The extra step: Home Assistant may fail.
HomeAssistant(p) ==
    /\ job[p].pc = "ha" /\ plugged
    /\ \/ job' = [job EXCEPT ![p].pc = "publish"] /\ UNCHANGED count
       \/ Fault("ha") /\ job' = [job EXCEPT ![p].pc = "publish", ![p].errors = TRUE, ![p].ha = ~job[p].errors]
    /\ UNCHANGED <<source, blocks, sets, state, lock, plugged>>

\* The manifest, and the rename that makes the set visible; then the lock is given back.
Publish(p) ==
    /\ job[p].pc = "publish" /\ plugged
    /\ sets' = [s \in DOMAIN sets \cup {job[p].id} |->
          IF s = job[p].id THEN [dig |-> job[p].dig, block |-> job[p].block, ok |-> ~job[p].errors,
                                 label |-> job[p].label]
          ELSE sets[s]]
    /\ lock' = IF lock = p THEN 0 ELSE lock
    /\ job' = [job EXCEPT ![p].pc = "prune"]
    /\ count' = [count EXCEPT !.published = @ \cup {job[p].id}]
    /\ UNCHANGED <<source, blocks, state, plugged>>

\* Mutant: the lock is closed on the good way out only.
FailAbsent_KeepsLock(p) ==
    /\ job[p].pc \in {"item", "copy", "ha", "publish"} /\ ~plugged
    /\ state' = [job[p].book EXCEPT !.fails = @ + 1]
    /\ End(p)
    /\ UNCHANGED <<source, blocks, sets, lock, plugged, count>>

\* The volume is gone in the middle of a run: an OSError, booked as a failure.
FailAbsent(p) ==
    /\ job[p].pc \in {"item", "copy", "ha", "publish"} /\ ~plugged
    /\ lock' = IF lock = p THEN 0 ELSE lock
    /\ state' = [job[p].book EXCEPT !.fails = @ + 1]
    /\ End(p)
    /\ UNCHANGED <<source, blocks, sets, plugged, count>>

----------------------------------------------------------------------------
(* Retention, verification, book: after the lock.                          *)

\* The week or the month of a set, by the days one has.
Period(s, days) == s \div days
DaysPerMonth == DaysPerWeek * WeeksPerMonth

\* Mutant: one anchor too few.
Anchors_OffByOne(ids, days, n) ==
    {s \in ids : /\ \A t \in ids : Period(t, days) = Period(s, days) => t <= s
                 /\ Cardinality({Period(t, days) : t \in {u \in ids : u >= s}}) < n}

\* The newest set of each of the n newest periods that have one.
Anchors(ids, days, n) ==
    {s \in ids : /\ \A t \in ids : Period(t, days) = Period(s, days) => t <= s
                 /\ Cardinality({Period(t, days) : t \in {u \in ids : u >= s}}) <= n}

Newest(ids, n) == {s \in ids : Cardinality({t \in ids : t > s}) < n}

\* plan_retention
Kept(ids) == Newest(ids, KEEP_DAILY) \cup Anchors(ids, DaysPerWeek, KEEP_WEEKLY)
             \cup Anchors(ids, DaysPerMonth, KEEP_MONTHLY)

\* prune: a labelled set stays; nobody asks whether a set is good.
Prune(p) ==
    LET stay == {s \in DOMAIN sets : s \in Kept(DOMAIN sets) \/ sets[s].label} IN
    /\ job[p].pc = "prune"
    /\ IF plugged
       THEN /\ sets' = [s \in stay |-> sets[s]]
            /\ blocks' = [k \in DOMAIN blocks |->
                   IF (\E s \in stay : sets[s].block[k[1]] = k[2])
                      \/ (\E q \in Procs : job[q].block[k[1]] = k[2]) THEN blocks[k] ELSE 0]
       ELSE UNCHANGED <<sets, blocks>>
    /\ job' = [job EXCEPT ![p].pc = "verify"]
    /\ UNCHANGED <<source, state, lock, plugged, count>>

\* Mutant: the manifest says that all is well.
Verified_ByManifest(s) == plugged /\ s \in DOMAIN sets /\ sets[s].ok

\* verify_set: every entry has its block, and its digest is computed again.
Verified(s) == /\ plugged /\ s \in DOMAIN sets
               /\ \A i \in Names : sets[s].dig[i] # 0 => Content(i, sets[s].block[i]) = sets[s].dig[i]

Verify(p) ==
    /\ job[p].pc = "verify"
    /\ job' = [job EXCEPT ![p].pc = "book", ![p].errors = @ \/ ~Verified(job[p].id)]
    /\ UNCHANGED <<source, blocks, sets, state, lock, plugged, count>>

\* save_state: the book as this process knows it.
Book(p) ==
    /\ job[p].pc = "book"
    /\ state' = IF job[p].errors THEN [job[p].book EXCEPT !.fails = @ + 1]
                ELSE [last |-> job[p].id, fails |-> 0]
    /\ End(p)
    /\ UNCHANGED <<source, blocks, sets, lock, plugged, count>>

Init ==
    /\ source = [i \in Names |-> 1]
    /\ blocks = [k \in Names \X Ids |-> 0]
    /\ sets = <<>>
    /\ state = [last |-> 0, fails |-> 0]
    /\ lock = 0
    /\ job = [p \in Procs |-> Idle]
    /\ plugged = TRUE
    /\ count = [begun |-> 0, faults |-> 0, published |-> {}]

Run(p) == \/ SkipAbsent(p) \/ SkipLocked(p) \/ Begin(p) \/ ItemDatabase(p) \/ ItemDigest(p)
          \/ ItemPlace(p) \/ ItemBundle(p) \/ HomeAssistant(p) \/ Publish(p) \/ FailAbsent(p)
          \/ Prune(p) \/ Verify(p) \/ Book(p)
World == \/ \E i \in Names : SourceChanges(i) \/ \E s \in Ids : Rot(i, s)
         \/ Unplug \/ Plug
         \/ \E p \in Procs : Crash(p) \/ ItemFails(p) \/ \E label \in BOOLEAN : Load(p, label)

Next == World \/ \E p \in Procs : Run(p)

\* A process that runs goes on; a cable that was pulled may stay so.
Spec == Init /\ [][Next]_vars /\ \A p \in Procs : WF_vars(Run(p))

----------------------------------------------------------------------------
(* Properties.                                                             *)

\* A set that is visible is finished: every entry of its manifest has a block, however
\* many processes run, die or share blocks with sets that are pruned.
SetsAreWhole == \A s \in DOMAIN sets : \A i \in Names :
    sets[s].dig[i] # 0 => Content(i, sets[s].block[i]) # 0

\* What the book calls the last success holds what its manifest says (or has rotted
\* since), although sources change while they are copied.
SuccessIsRestorable == state.last \in DOMAIN sets =>
    \A i \in Names : /\ sets[state.last].dig[i] # 0
                     /\ Content(i, sets[state.last].block[i]) \in {sets[state.last].dig[i], Rotten}

\* However often it is pruned, the history reaches back: of each of the newest months in
\* which a set was made one is left.
HistoryReachesBack ==
    LET months(ids) == {Period(s, DaysPerMonth) : s \in ids} IN
    \A m \in months(count.published) :
        Cardinality({k \in months(count.published) : k >= m}) <= KEEP_MONTHLY
            => m \in months(DOMAIN sets)

\* The lock does not outlive its run, also when the cable is pulled or the process dies.
LockIsReleased == \A p \in Procs : (lock = p) ~> (lock # p)

\* What the documents say and the code does not do.

\* The book does not forget a success.
SuccessIsKept == [][state'.last >= state.last]_state

\* What has rotted is not shared with a new set.
RotIsNotShared == [][\A s \in DOMAIN sets' \ DOMAIN sets : \A i \in Names :
    blocks'[i, s] = 0 /\ sets'[s].block[i] # 0 => Content(i, sets'[s].block[i]) # Rotten]_sets

\* The last success is still there.
LastSuccessIsThere == state.last # 0 => state.last \in DOMAIN sets

\* A failure of Home Assistant alone does not make the run a failure.
HomeAssistantIsNoCore == \A p \in Procs : job[p].pc = "book" /\ job[p].ha /\ Verified(job[p].id)
    => ~job[p].errors
=============================================================================
