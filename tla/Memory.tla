------------------------------- MODULE Memory -------------------------------
(***************************************************************************)
(* The long-term memory (src/solvio/memory/): the records and the ledger   *)
(* of what was purged, the index of their vectors, the service on top of   *)
(* both, the copy that can be put back.  The store works on one thread, so *)
(* a step of it is atomic; between two steps every other call may run.     *)
(***************************************************************************)
EXTENDS Integers, FiniteSets

CONSTANTS
    Jobs,           \* calls; the record a call writes bears its name
    Old,            \* the records of an earlier run
    Texts,          \* what can be remembered
    Due,            \* retention of the old records: "keep", "forget", "purge"
    Profiles,       \* the embedding models a start may find
    Ops,            \* the calls made in an instance
    Faults,         \* what may go wrong in an instance
    MaxFaults,      \* bound: how often
    NONE

VARIABLES
    rows,           \* memory.sqlite3
    ledger,         \* privacy_ledger.sqlite3: the ids that were purged
    ledgerFile,     \* the file of the ledger is there
    index,          \* semantic_index.sqlite3: pairs of record and profile
    active,         \* the profile the index was made for
    copy,           \* a backup, or NONE
    up,             \* the core runs
    deny,           \* _purged_hashes: the ledger as the store knows it
    prof,           \* the profile of the running provider
    flags,          \* what the service says of the index
    job,
    faults,
    purged,         \* history: what was ever purged
    lost,           \* history: a ledger was lost
    unsaid          \* history: records no one will look for until the next start

vars == <<rows, ledger, ledgerFile, index, active, copy, up, deny, prof, flags, job, faults, purged, lost,
          unsaid>>
disk == <<rows, ledger, ledgerFile, index, active, copy>>
memory == <<up, deny, prof>>
history == <<purged, lost, unsaid>>

Ids == Old \cup Jobs
Writes == {"remember", "correct"}

Idle == [pc |-> "idle", op |-> NONE, text |-> NONE, id |-> NONE, view |-> {}, todo |-> {}]
NoFlags == [check |-> FALSE, pending |-> FALSE, incomplete |-> FALSE]
Row(t, d) == [text |-> t, forgotten |-> FALSE, by |-> NONE, due |-> d]
Rows == [text : Texts, forgotten : BOOLEAN, by : Ids \cup {NONE}, due : {"keep", "forget", "purge"}]

\* A call is none of the old records, and NONE is neither a record nor one that can be stored.
ConstantsOK ==
    /\ Old \cap Jobs = {} /\ NONE \notin Ids /\ NONE \notin Rows /\ Due \subseteq {"keep", "forget", "purge"}
    /\ NONE \notin Ops

Ensuring == {"ensure", "look", "looked"}
Rebuilding == {"reconcile", "stale", "drop", "read", "compare", "embed", "put", "activate", "again", "after"}
Writing == {"get", "unindex", "hash", "upsert", "flag"}

TypeOK ==
    /\ \A i \in Ids : rows[i] # NONE => rows[i] \in Rows
    /\ ledger \subseteq Ids /\ deny \subseteq Ids /\ index \subseteq Ids \X Profiles
    /\ DOMAIN flags = DOMAIN NoFlags /\ \A f \in DOMAIN flags : flags[f] \in BOOLEAN
    /\ \A j \in Jobs : job[j].pc \in {"idle", "recall", "target", "insert", "store", "deleting", "vectors", "done"}
                                     \cup Ensuring \cup Rebuilding \cup Writing

----------------------------------------------------------------------------
(* Reading.                                                                *)

IsActive(r) == r # NONE /\ ~r.forgotten /\ r.by = NONE
ActiveIds == {i \in Ids \ deny : IsActive(rows[i])}
Indexed == {i \in Ids : <<i, prof>> \in index}
Readable == {i \in Ids \ deny : rows[i] # NONE}

\* The store's thread works on nothing else while it purges.
StoreFree == \A j \in Jobs : job[j].pc # "deleting"

At(j, pc) == up /\ job[j].pc = pc
Goes(j, pc) == job' = [job EXCEPT ![j].pc = pc]
Ends(j) == job' = [job EXCEPT ![j] = [Idle EXCEPT !.pc = "done"]]
Sees(j, view, pc) == job' = [job EXCEPT ![j].pc = pc, ![j].view = view]

Rest == UNCHANGED <<ledger, ledgerFile, active, copy, memory, faults, history>>

----------------------------------------------------------------------------
(* A start, and the end of a run.                                          *)

\* reconcile_purged: what was purged is deleted although a crash kept it from being.
Reconciled(r, gone) == [i \in Ids |-> IF i \in gone THEN NONE ELSE r[i]]

\* Mutant: the store opens without reading the ledger.
Boot_Blind ==
    /\ ~up /\ up' = TRUE /\ ledgerFile' = TRUE /\ ledger' = (IF ledgerFile THEN ledger ELSE {})
    /\ deny' = {} /\ UNCHANGED rows
    /\ \E p \in Profiles :
          prof' = p /\ active' = p /\ flags' = [check |-> TRUE, pending |-> active # p, incomplete |-> FALSE]
    /\ unsaid' = {} /\ UNCHANGED <<index, copy, job, faults, purged, lost>>

\* Mutant: a start trusts the profile the index names.
Boot_Trusting ==
    /\ ~up /\ up' = TRUE /\ ledgerFile' = TRUE /\ ledger' = (IF ledgerFile THEN ledger ELSE {})
    /\ deny' = ledger' /\ rows' = Reconciled(rows, deny')
    /\ \E p \in Profiles :
          prof' = p /\ active' = p /\ flags' = [check |-> FALSE, pending |-> active # p, incomplete |-> FALSE]
    /\ unsaid' = {} /\ UNCHANGED <<index, copy, job, faults, purged, lost>>

\* A ledger that is missing is made anew, and empty.
Boot ==
    /\ ~up /\ up' = TRUE /\ ledgerFile' = TRUE /\ ledger' = (IF ledgerFile THEN ledger ELSE {})
    /\ deny' = ledger' /\ rows' = Reconciled(rows, deny')
    /\ \E p \in Profiles :
          prof' = p /\ active' = p /\ flags' = [check |-> TRUE, pending |-> active # p, incomplete |-> FALSE]
    /\ unsaid' = {} /\ UNCHANGED <<index, copy, job, faults, purged, lost>>

Fault(f) == f \in Faults /\ faults < MaxFaults /\ faults' = faults + 1

Crash ==
    /\ up /\ Fault("crash") /\ up' = FALSE /\ deny' = {} /\ flags' = NoFlags
    /\ job' = [j \in Jobs |-> IF job[j].pc = "idle" THEN Idle ELSE [Idle EXCEPT !.pc = "done"]]
    /\ UNCHANGED <<disk, prof, history>>

LedgerLost ==
    /\ ledgerFile /\ Fault("ledger") /\ ledgerFile' = FALSE /\ lost' = TRUE
    /\ UNCHANGED <<rows, ledger, index, active, copy, memory, flags, job, purged, unsaid>>

----------------------------------------------------------------------------
(* ensure_index: before every search and every write.                      *)

Ensure(j) ==
    /\ At(j, "ensure")
    /\ flags' = [flags EXCEPT !.check = FALSE]
    /\ Goes(j, IF flags.check THEN "look" ELSE IF flags.pending THEN "reconcile" ELSE "recall")
    /\ Rest /\ UNCHANGED <<rows, index>>

Look(j) == /\ At(j, "look") /\ StoreFree /\ Sees(j, ActiveIds, "looked")
           /\ Rest /\ UNCHANGED <<rows, index, flags>>

Looked(j) ==
    /\ At(j, "looked")
    /\ LET missing == job[j].view \ Indexed # {} IN
       /\ flags' = [flags EXCEPT !.pending = @ \/ missing, !.incomplete = @ \/ missing]
       /\ Goes(j, IF flags'.pending THEN "reconcile" ELSE "recall")
    /\ Rest /\ UNCHANGED <<rows, index>>

Reconcile(j) == /\ At(j, "reconcile") /\ StoreFree /\ Sees(j, ActiveIds, "stale")
                /\ Rest /\ UNCHANGED <<rows, index, flags>>

Stale(j) ==
    /\ At(j, "stale") /\ job' = [job EXCEPT ![j].pc = "drop", ![j].todo = Indexed \ job[j].view]
    /\ Rest /\ UNCHANGED <<rows, index, flags>>

\* The reconcile of a restore ends here: a record that was written since it looked has lost its
\* vector, and none of those that came back gets one.
Drop(j) ==
    /\ At(j, "drop") /\ index' = index \ (job[j].todo \X {prof})
    /\ IF job[j].op = "restore" THEN Ends(j) /\ unsaid' = unsaid \cup (job[j].todo \cap ActiveIds)
       ELSE Goes(j, "read") /\ UNCHANGED unsaid
    /\ UNCHANGED <<rows, ledger, ledgerFile, active, copy, memory, flags, faults, purged, lost>>

Read(j) == /\ At(j, "read") /\ StoreFree /\ Sees(j, ActiveIds, "compare")
           /\ Rest /\ UNCHANGED <<rows, index, flags>>

Compare(j) ==
    /\ At(j, "compare")
    /\ LET todo == job[j].view \ Indexed IN
       job' = [job EXCEPT ![j].todo = todo, ![j].pc = IF todo = {} THEN "activate" ELSE "embed"]
    /\ Rest /\ UNCHANGED <<rows, index, flags>>

Embed(j) == At(j, "embed") /\ Goes(j, "put") /\ Rest /\ UNCHANGED <<rows, index, flags>>

\* What another rebuild, which has looked for the last time, will not find missing.
Overlooked == {i \in ActiveIds : \E k \in Jobs : job[k].pc = "after" /\ i \notin job[k].view}

\* The model does not answer: the caller is told, and the next call tries again.
EmbedFails(j) ==
    /\ At(j, "embed") /\ Fault("embed") /\ flags' = [flags EXCEPT !.incomplete = TRUE] /\ Ends(j)
    /\ unsaid' = unsaid \cup Overlooked /\ UNCHANGED <<disk, memory, purged, lost>>

Put(j) ==
    /\ At(j, "put")
    /\ \E i \in job[j].todo :
          /\ index' = index \cup {<<i, prof>>}
          /\ job' = [job EXCEPT ![j].todo = @ \ {i}, ![j].pc = IF job[j].todo = {i} THEN "activate" ELSE "put"]
    /\ Rest /\ UNCHANGED <<rows, flags>>

Activate(j) ==
    /\ At(j, "activate") /\ active' = prof /\ flags' = [flags EXCEPT !.pending = FALSE] /\ Goes(j, "again")
    /\ UNCHANGED <<rows, ledger, ledgerFile, index, copy, memory, faults, history>>

Again(j) == /\ At(j, "again") /\ StoreFree /\ Sees(j, ActiveIds, "after")
            /\ Rest /\ UNCHANGED <<rows, index, flags>>

\* Mutant: the second look finds the index incomplete and asks for nothing.
After_Quiet(j) ==
    /\ At(j, "after") /\ flags' = [flags EXCEPT !.incomplete = FALSE]
    /\ Goes(j, "recall") /\ Rest /\ UNCHANGED <<rows, index>>

After(j) ==
    /\ At(j, "after")
    /\ LET missing == job[j].view \ Indexed # {} IN
       flags' = [flags EXCEPT !.incomplete = missing, !.pending = @ \/ missing]
    /\ Goes(j, "recall") /\ Rest /\ UNCHANGED <<rows, index>>

----------------------------------------------------------------------------
(* remember, with or without a correction, and search.                     *)

Call(j) ==
    /\ At(j, "idle")
    /\ \E op \in Ops, t \in Texts, i \in Ids \cup {NONE} :
          /\ op \in {"forget", "purge"} <=> i # NONE
          /\ i # NONE => rows[i] # NONE
          /\ op \notin Writes => t = CHOOSE x \in Texts : TRUE
          /\ job' = [job EXCEPT ![j] = [Idle EXCEPT !.pc = IF op \in Writes \cup {"search"} THEN "ensure" ELSE "store",
                                                    !.op = op, !.text = t, !.id = i]]
    /\ Rest /\ UNCHANGED <<rows, index, flags>>

Recall(j) ==
    /\ At(j, "recall") /\ StoreFree
    /\ IF job[j].op = "search" \/ \E i \in ActiveIds : rows[i].text = job[j].text THEN Ends(j)
       ELSE Sees(j, ActiveIds, IF job[j].op = "correct" THEN "target" ELSE "insert")
    /\ Rest /\ UNCHANGED <<rows, index, flags>>

\* How like two texts are is left open: one candidate is meant, or none, or it is ambiguous.
Target(j) ==
    /\ At(j, "target")
    /\ \/ \E i \in job[j].view \cup {NONE} : job' = [job EXCEPT ![j].id = i, ![j].pc = "insert"]
       \/ Cardinality(job[j].view) > 1 /\ Ends(j)
    /\ Rest /\ UNCHANGED <<rows, index, flags>>

Refused(j) == job[j].id # NONE /\ (job[j].id \in deny \/ rows[job[j].id] = NONE)

\* Mutant: the old record names its successor before there is one.
Insert_MarkedFirst(j) ==
    LET old == job[j].id
        new == [rows EXCEPT ![j] = Row(job[j].text, "keep")] IN
    /\ At(j, "insert") /\ StoreFree
    /\ IF Refused(j) THEN Ends(j) /\ UNCHANGED rows
       ELSE IF old = NONE THEN rows' = new /\ Goes(j, "get")
       ELSE IF rows[old].by # j THEN rows' = [rows EXCEPT ![old].by = j] /\ UNCHANGED job
       ELSE rows' = new /\ Goes(j, "unindex")
    /\ Rest /\ UNCHANGED <<index, flags>>

Insert(j) ==
    LET old == job[j].id
        new == [rows EXCEPT ![j] = Row(job[j].text, "keep")] IN
    /\ At(j, "insert") /\ StoreFree
    /\ IF Refused(j) THEN Ends(j) /\ UNCHANGED rows
       ELSE IF old = NONE THEN rows' = new /\ Goes(j, "get")
       ELSE rows' = [new EXCEPT ![old].by = j] /\ Goes(j, "unindex")
    /\ Rest /\ UNCHANGED <<index, flags>>

Get(j) == /\ At(j, "get") /\ StoreFree /\ Goes(j, IF j \in Readable THEN "hash" ELSE "flag")
          /\ Rest /\ UNCHANGED <<rows, index, flags>>

Unindex(j) == /\ At(j, "unindex") /\ index' = index \ {<<job[j].id, prof>>} /\ Goes(j, "hash")
              /\ Rest /\ UNCHANGED <<rows, flags>>

Hash(j) == /\ At(j, "hash") /\ Goes(j, IF j \in Indexed THEN "flag" ELSE "upsert")
           /\ Rest /\ UNCHANGED <<rows, index, flags>>

Upsert(j) == /\ At(j, "upsert") /\ index' = index \cup {<<j, prof>>} /\ Goes(j, "flag")
             /\ Rest /\ UNCHANGED <<rows, flags>>

UpsertFails(j) == /\ At(j, "upsert") /\ Fault("model") /\ Goes(j, "flag")
                  /\ UNCHANGED <<disk, memory, flags, history>>

\* Mutant: what was stored without a vector is passed over.
Flag_Silent(j) ==
    /\ At(j, "flag") /\ UNCHANGED flags /\ Ends(j) /\ Rest /\ UNCHANGED <<rows, index>>

Flag(j) ==
    /\ At(j, "flag")
    /\ flags' = [flags EXCEPT !.incomplete = @ \/ j \notin Indexed, !.pending = @ \/ j \notin Indexed]
    /\ Ends(j) /\ Rest /\ UNCHANGED <<rows, index>>

----------------------------------------------------------------------------
(* forget, purge, retention.                                               *)

Store(j, op) == At(j, "store") /\ job[j].op = op /\ StoreFree

Forget(j) ==
    LET i == job[j].id IN
    /\ Store(j, "forget")
    /\ rows' = IF i \notin Readable THEN rows ELSE [rows EXCEPT ![i].forgotten = TRUE]
    /\ Goes(j, "vectors") /\ Rest /\ UNCHANGED <<index, flags>>

Vectors(j) == /\ At(j, "vectors") /\ index' = {p \in index : p[1] # job[j].id} /\ Ends(j)
              /\ Rest /\ UNCHANGED <<rows, flags>>

\* The tombstone first: a crash from here on cannot bring the record back.
Tombstone(i) == ledger' = ledger \cup {i} /\ deny' = deny \cup {i} /\ purged' = purged \cup {i}

Purge(j) ==
    LET i == job[j].id IN
    /\ Store(j, "purge")
    /\ IF rows[i] = NONE THEN Goes(j, "vectors") /\ UNCHANGED <<ledger, deny, purged>>
       ELSE Tombstone(i) /\ Goes(j, "deleting")
    /\ UNCHANGED <<rows, ledgerFile, index, active, copy, up, prof, flags, faults, lost, unsaid>>

Delete(j) ==
    /\ At(j, "deleting") /\ rows' = [rows EXCEPT ![job[j].id] = NONE]
    /\ IF job[j].op = "retain" THEN Ends(j) ELSE Goes(j, "vectors")
    /\ Rest /\ UNCHANGED <<index, flags>>

DeleteFails(j) == /\ At(j, "deleting") /\ Fault("delete") /\ Ends(j)
                  /\ UNCHANGED <<disk, memory, flags, history>>

Expired(d) == {i \in Ids : IsActive(rows[i]) /\ rows[i].due = d}

Retain(j) ==
    /\ Store(j, "retain")
    /\ \/ \E i \in Expired("forget") : /\ rows' = [rows EXCEPT ![i].forgotten = TRUE] /\ Ends(j)
                                       /\ UNCHANGED <<ledger, deny, purged>>
       \/ \E i \in Expired("purge") : /\ Tombstone(i) /\ job' = [job EXCEPT ![j].id = i, ![j].pc = "deleting"]
                                      /\ UNCHANGED rows
       \/ /\ Expired("forget") \cup Expired("purge") = {} /\ Ends(j) /\ UNCHANGED <<rows, ledger, deny, purged>>
    /\ UNCHANGED <<ledgerFile, index, active, copy, up, prof, flags, faults, lost, unsaid>>

----------------------------------------------------------------------------
(* The copy.                                                               *)

Backup(j) ==
    /\ Store(j, "backup") /\ copy' = rows /\ Ends(j)
    /\ UNCHANGED <<rows, ledger, ledgerFile, index, active, memory, flags, faults, history>>

\* A copy that verifies, and a ledger that is there and whole.
Verified == copy # NONE
Validated == ledgerFile
Restored == Reconciled(copy, ledger)

\* Nobody looks for the vectors of records that were not there before.
CameBack == unsaid' = unsaid \cup (ActiveIds' \ ActiveIds)

\* Mutant: the copy is put back as it is, the store reconciles at its next start.
Restore_AsItIs(j) ==
    /\ Store(j, "restore")
    /\ IF ~(Verified /\ Validated) THEN Ends(j) /\ UNCHANGED <<rows, deny>>
       ELSE rows' = copy /\ deny' = {} /\ Goes(j, "reconcile")
    /\ CameBack /\ UNCHANGED <<ledger, ledgerFile, index, active, copy, up, prof, flags, faults, purged, lost>>

\* What was purged since the copy was made stays out of it; without the ledger nothing is put back.
Restore(j) ==
    /\ Store(j, "restore")
    /\ IF ~(Verified /\ Validated) THEN Ends(j) /\ UNCHANGED <<rows, deny>>
       ELSE rows' = Restored /\ deny' = ledger /\ Goes(j, "reconcile")
    /\ CameBack /\ UNCHANGED <<ledger, ledgerFile, index, active, copy, up, prof, flags, faults, purged, lost>>

----------------------------------------------------------------------------
Init ==
    /\ \E d \in [Old -> Due], t \in Texts : rows = [i \in Ids |-> IF i \in Old THEN Row(t, d[i]) ELSE NONE]
    /\ active \in Profiles /\ index = Old \X {active} /\ prof = active
    /\ ledger = {} /\ ledgerFile = TRUE /\ copy = NONE /\ up = FALSE /\ deny = {} /\ flags = NoFlags
    /\ job = [j \in Jobs |-> Idle] /\ faults = 0 /\ purged = {} /\ lost = FALSE
    /\ unsaid = {}

Finished == up /\ (\A j \in Jobs : job[j].pc = "done") /\ UNCHANGED vars

Ensures(j) == Ensure(j) \/ Look(j) \/ Looked(j)
Rebuilds(j) == \/ Reconcile(j) \/ Stale(j) \/ Drop(j) \/ Read(j) \/ Compare(j) \/ Embed(j) \/ EmbedFails(j) \/ Put(j)
               \/ Activate(j) \/ Again(j) \/ After(j)
Remembers(j) == \/ Recall(j) \/ Target(j) \/ Insert(j) \/ Get(j) \/ Unindex(j) \/ Hash(j) \/ Upsert(j)
                \/ UpsertFails(j) \/ Flag(j)
Removes(j) == Forget(j) \/ Vectors(j) \/ Purge(j) \/ Delete(j) \/ DeleteFails(j) \/ Retain(j)

Next == \/ \E j \in Jobs : Call(j) \/ Ensures(j) \/ Rebuilds(j) \/ Remembers(j) \/ Removes(j) \/ Backup(j) \/ Restore(j)
        \/ Boot \/ Crash \/ LedgerLost \/ Finished

Spec == Init /\ [][Next]_vars

----------------------------------------------------------------------------
(* Properties.                                                             *)

\* What was purged is never read again: not after a crash between its tombstone and its
\* deletion, not after a copy that still holds it was put back (store.py, _purge_sync,
\* _restore_sync).
PurgedStaysGone == up /\ ~lost => Readable \cap purged = {}

\* When nobody works on the index, a record a search by meaning would miss is announced: the
\* next call rebuilds, or health says so (service.py, check_index_consistency, ensure_index).
\* Nobody looks, until the next start, for a record that came back with a copy or that the reconcile
\* of a restore dropped (semantic.py:284), nor for one whose rebuild is left unanswered by the model
\* while another, which has looked for the last time before it was written, takes the flag back.
IncompleteIsSaid ==
    up /\ (\A j \in Jobs : job[j].pc \notin {"look", "looked"} \cup Rebuilding) =>
        \A i \in (ActiveIds \ Indexed) \ unsaid :
            flags # NoFlags \/ (i \in Jobs /\ job[i].pc \in Writing)

\* A record that was corrected names a record that is there, or one that was purged.
SuccessorKnown ==
    ~lost => \A i \in Ids : rows[i] # NONE /\ rows[i].by # NONE => rows[rows[i].by] # NONE \/ rows[i].by \in ledger

\* Where the code does otherwise: a vector that was being made when its record was purged
\* stays; two corrections of one record both stand; two calls remember one text twice.
NoVectorOfPurged == (\A j \in Jobs : job[j].pc \in {"idle", "done"}) /\ ~flags.pending => \A p \in index : p[1] \notin purged
OneSuccessor == \A i, k \in Jobs : IsActive(rows[i]) /\ IsActive(rows[k]) /\ job[i].pc \in Writing /\ job[k].pc \in Writing
                                  /\ job[i].id # NONE => i = k \/ job[i].id # job[k].id
NoTwins == \A i, k \in Ids : i # k /\ IsActive(rows[i]) /\ IsActive(rows[k]) => rows[i].text # rows[k].text
=============================================================================
