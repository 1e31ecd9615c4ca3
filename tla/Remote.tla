------------------------------- MODULE Remote -------------------------------
(***************************************************************************)
(* Work given to nodes outside the house: the ledger of background jobs    *)
(* (background/manager.py, store.py, reconciliation.py), the choice of a   *)
(* node (nodes/router.py, health.py) and the calls to it (client.py), and  *)
(* a run of public research on top of it (research/manager.py, store.py).  *)
(* The node itself is not in this repository: it remembers jobs by their   *)
(* idempotency key, runs them, and may forget what has ended.  Whatever is *)
(* sent may be lost on the way there or on the way back.                   *)
(***************************************************************************)
EXTENDS Integers, Sequences, FiniteSets, FiniteSetsExt, TLC

CONSTANTS
    Nodes,          \* node -> [zone, rank, offers]: where it stands, its place in the order, what for
    Class,          \* what is asked -> how far its data may travel, 0..3
    Users, Wants, \* those who use the ledger directly, and the operations they use
    Runners,        \* tasks that may carry out the research run
    Policies,       \* the egress policies and privacy classes the run may be made with
    Hits,           \* what the search may find: sequences of addresses, best first
    MaxFetches, MaxJobs, MaxCalls, MaxRuns, MaxLosses, MaxCrashes,
    Forgets,        \* the node drops what has ended
    NONE

VARIABLES
    row,                    \* background_jobs.sqlite3, in the order of creation
    seen,                   \* NodeHealthMonitor: the cached state of each node
    remote,                 \* the jobs the nodes hold
    call,                   \* where each user of the ledger is
    given,                  \* results handed out
    res, mem,               \* research_runs.sqlite3; what each runner holds
    calls, losses, crashes

vars == <<row, seen, remote, call, given, res, mem, calls, losses, crashes>>
ledger == <<row, seen>>
bounds == <<calls, losses, crashes>>
study == <<res, mem>>

LOCAL_TERMINAL == {"SUCCEEDED", "FAILED", "CANCELLED", "RESULT_EXPIRED"}
Remotes == {"QUEUED", "RUNNING", "CANCEL_REQUESTED"} \cup LOCAL_TERMINAL
LocalJobStatus == Remotes \cup {"LOCAL_PENDING_SUBMIT", "REMOTE_UNKNOWN"}
ResearchState == {"CREATED", "DISCOVERING", "FETCHING", "RANKING", "READY", "PARTIAL", "FAILED"}
Clients == Users \cup Runners
Rows == DOMAIN row

Idle == [pc |-> "away", op |-> NONE, job |-> NONE, ans |-> NONE, todo |-> <<>>, out |-> NONE]
Rest == [pc |-> "away", what |-> NONE, left |-> <<>>]

TypeOK ==
    /\ \A j \in Rows : row[j].status \in LocalJobStatus /\ row[j].node \in DOMAIN Nodes
                       /\ (row[j].remote # NONE => row[j].remote \in DOMAIN remote)
    /\ \A i \in DOMAIN remote : remote[i].status \in Remotes \cup {"GONE"}
    /\ \A c \in Clients : call[c].pc \in {"away", "look", "post", "mark", "ask", "status", "meta", "fetch",
                                          "stop", "told", "clear", "loop", "back"}
    /\ \A n \in DOMAIN Nodes : seen[n] \in {"unknown", "healthy", "offline"}
    /\ res # NONE => res.status \in ResearchState
    /\ \A r \in Runners : mem[r].pc \in {"away", "search", "source", "rank", "announce"}

----------------------------------------------------------------------------
(* The choice of a node.                                                   *)

\* A node may be as far as the data may travel; the mistake looks for one far enough.
zone_permits_Far(class, zone) == class <= zone
zone_permits(class, zone) == zone <= class

Capable(what) == {n \in DOMAIN Nodes : what \in Nodes[n].offers}
decide(what) == {n \in Capable(what) : zone_permits(Class[what], Nodes[n].zone) /\ seen[n] # "offline"}
select(what) == CHOOSE n \in decide(what) : \A m \in decide(what) : Nodes[n].rank <= Nodes[m].rank

\* NodeHealthMonitor.refresh, asked by whoever wants to know.
refresh_health(n) ==
    /\ "health" \in Wants
    /\ \E s \in {"healthy", "offline"} : seen[n] # s /\ seen' = [seen EXCEPT ![n] = s]
    /\ UNCHANGED <<row, remote, call, given, study, bounds>>

----------------------------------------------------------------------------
(* Users of the ledger.  A runner goes on with what its call came to; in a *)
(* reconciliation only a node that cannot be reached is passed over.       *)

Goes(c, pc) == call' = [call EXCEPT ![c].pc = pc]
Ends(c, out) ==
    IF call[c].op = "reconcile" /\ out # "raised" THEN Goes(c, "loop")
    ELSE IF c \in Runners THEN call' = [call EXCEPT ![c] = [Idle EXCEPT !.pc = "back", !.out = out,
                                                                       !.op = call[c].op, !.job = call[c].job]]
    ELSE call' = [call EXCEPT ![c] = Idle]

\* The row is there before anything is sent.
create_pending(what) ==
    Append(row, [what |-> what, node |-> select(what), status |-> "LOCAL_PENDING_SUBMIT",
                 remote |-> NONE, avail |-> FALSE])

submit(c, what) ==
    /\ Len(row) < MaxJobs
    /\ row' = create_pending(what)
    /\ call' = [call EXCEPT ![c] = [Idle EXCEPT !.pc = "post", !.op = "submit", !.job = Len(row) + 1]]

Submit(c) ==
    /\ call[c].pc = "away" /\ "submit" \in Wants /\ calls < MaxCalls
    /\ \E what \in DOMAIN Class : decide(what) # {} /\ submit(c, what)
    /\ calls' = calls + 1
    /\ UNCHANGED <<seen, remote, given, study, losses, crashes>>

\* refresh, cancel and result begin by reading the row.
Begin(c) ==
    /\ call[c].pc = "away" /\ calls < MaxCalls
    /\ \E op \in Wants \cap {"refresh", "cancel", "result"}, j \in Rows :
         call' = [call EXCEPT ![c] = [Idle EXCEPT !.pc = "look", !.op = op, !.job = j]]
    /\ calls' = calls + 1
    /\ UNCHANGED <<ledger, remote, given, study, losses, crashes>>

Polled(c) == row[call[c].job].remote # NONE /\ row[call[c].job].status \notin LOCAL_TERMINAL

Look(c) ==
    /\ call[c].pc = "look"
    /\ CASE call[c].op = "cancel" -> Goes(c, IF row[call[c].job].remote = NONE THEN "clear" ELSE "stop")
         [] call[c].op = "result" -> IF row[call[c].job].remote = NONE THEN Ends(c, "not ready")
                                     ELSE Goes(c, "fetch")
         [] OTHER -> IF Polled(c) THEN Goes(c, "ask") ELSE Ends(c, "spec")
    /\ UNCHANGED <<ledger, remote, given, study, bounds>>

\* A call to the node got lost; no answer, no matter whether it came through.
Lost(c) ==
    /\ losses < MaxLosses /\ losses' = losses + 1
    /\ Ends(c, "lost")
    /\ UNCHANGED <<ledger, given, study, calls, crashes>>

\* The node says no, in a way the caller does not expect.
Refused(c) ==
    /\ call[c].pc \in {"post", "ask", "stop", "fetch"} /\ "refuse" \in Wants
    /\ Ends(c, "raised")
    /\ UNCHANGED <<ledger, remote, given, study, bounds>>

----------------------------------------------------------------------------
(* The node.                                                               *)

Held(n, key) == {i \in DOMAIN remote : remote[i].node = n /\ remote[i].key = key
                                       /\ remote[i].status # "GONE"}

\* The key of a job is its own, first and last; the mistake makes one for every attempt.
idempotency_key_Each(c) == <<c, call[c].job, Len(remote)>>
idempotency_key(c) == call[c].job

Accepted(c) ==
    LET n == row[call[c].job].node
        k == idempotency_key(c)
    IN  IF Held(n, k) # {} THEN <<remote, CHOOSE i \in Held(n, k) : TRUE>>
        ELSE <<Append(remote, [node |-> n, key |-> k, job |-> call[c].job, status |-> "QUEUED",
                               end |-> NONE]),
               Len(remote) + 1>>

submit_job(c) ==
    /\ call[c].pc = "post"
    /\ \/ /\ remote' = Accepted(c)[1]
          /\ call' = [call EXCEPT ![c].pc = "mark", ![c].ans = Accepted(c)[2]]
          /\ UNCHANGED <<ledger, given, study, bounds>>
       \/ /\ remote' \in {remote, Accepted(c)[1]}
          /\ Lost(c)

NodeWorks(i) ==
    /\ \E s \in CASE remote[i].status = "QUEUED" -> {"RUNNING"}
                  [] remote[i].status = "RUNNING" -> {"SUCCEEDED", "FAILED"}
                  [] remote[i].status = "CANCEL_REQUESTED" -> {"SUCCEEDED", "CANCELLED"}
                  [] remote[i].status = "SUCCEEDED" -> IF Forgets THEN {"RESULT_EXPIRED"} ELSE {}
                  [] remote[i].status \in LOCAL_TERMINAL \ {"SUCCEEDED"} -> IF Forgets THEN {"GONE"} ELSE {}
                  [] OTHER -> {} :
         remote' = [remote EXCEPT ![i].status = s,
                                  ![i].end = IF @ = NONE /\ s \in LOCAL_TERMINAL THEN s ELSE @]
    /\ UNCHANGED <<ledger, call, given, study, bounds>>

Of(c) == remote[row[call[c].job].remote]

get_job(c) ==
    /\ call[c].pc = "ask"
    /\ \/ /\ call' = [call EXCEPT ![c].pc = "status", ![c].ans = Of(c).status]
          /\ UNCHANGED <<ledger, remote, given, study, bounds>>
       \/ UNCHANGED remote /\ Lost(c)

Stopped(status) == CASE status = "QUEUED" -> "CANCELLED"
                     [] status = "RUNNING" -> "CANCEL_REQUESTED"
                     [] OTHER -> status

cancel_job(c) ==
    LET i == row[call[c].job].remote
        stopped == [remote EXCEPT ![i].status = Stopped(@),
                                  ![i].end = IF remote[i].status = "QUEUED" THEN "CANCELLED" ELSE @]
    IN  /\ call[c].pc = "stop"
        /\ \/ /\ remote[i].status # "GONE"
              /\ remote' = stopped
              /\ call' = [call EXCEPT ![c].pc = "told", ![c].ans = stopped[i].status]
              /\ UNCHANGED <<ledger, given, study, bounds>>
           \/ /\ remote[i].status = "GONE" /\ Ends(c, "raised")
              /\ UNCHANGED <<ledger, remote, given, study, bounds>>
           \/ remote' \in {remote, stopped} /\ Lost(c)

----------------------------------------------------------------------------
(* What the ledger takes from the answers.                                 *)

mark_submitted(c) ==
    /\ call[c].pc = "mark"
    /\ row' = [row EXCEPT ![call[c].job].remote = call[c].ans, ![call[c].job].status = "QUEUED"]
    /\ Ends(c, "id")
    /\ UNCHANGED <<seen, remote, given, study, bounds>>

\* What the node no longer knows is unknown; the mistake takes it for a failure.
NODE_TO_LOCAL_Failed(status) == IF status = "GONE" THEN "FAILED" ELSE status
NODE_TO_LOCAL(status) == IF status = "GONE" THEN "REMOTE_UNKNOWN" ELSE status

update_status(c) ==
    /\ call[c].pc \in {"status", "told"}
    /\ row' = [row EXCEPT ![call[c].job].status = NODE_TO_LOCAL(call[c].ans)]
    /\ IF call[c].pc = "status" /\ call[c].ans # "GONE" THEN Goes(c, "meta") ELSE Ends(c, "spec")
    /\ UNCHANGED <<seen, remote, given, study, bounds>>

\* A second statement: whether there is a result.
set_result_meta(c) ==
    /\ call[c].pc = "meta"
    /\ row' = [row EXCEPT ![call[c].job].avail = (call[c].ans = "SUCCEEDED")]
    /\ Ends(c, "spec")
    /\ UNCHANGED <<seen, remote, given, study, bounds>>

\* Nothing was submitted yet as it was read: there is nobody to tell.
Clear(c) ==
    /\ call[c].pc = "clear"
    /\ row' = [row EXCEPT ![call[c].job].status = "CANCELLED"]
    /\ Ends(c, "spec")
    /\ UNCHANGED <<seen, remote, given, study, bounds>>

\* A result that is not what its digest says is not handed out; one without a digest is, and is
\* marked as not verified.
Intact_Any(claim, torn) == TRUE
Intact(claim, torn) == claim => ~torn

result(c) ==
    /\ call[c].pc = "fetch"
    /\ \/ /\ Of(c).status # "SUCCEEDED"
          /\ Ends(c, IF Of(c).status = "GONE" THEN "raised" ELSE "not ready")
          /\ UNCHANGED <<ledger, remote, given, study, bounds>>
       \/ /\ Of(c).status = "SUCCEEDED"
          /\ \E claim, torn \in BOOLEAN :
               IF Intact(claim, torn)
               THEN Ends(c, "result") /\ given' = given \cup {[job |-> call[c].job, digest_ok |-> claim,
                                                               torn |-> torn]}
               ELSE Ends(c, "raised") /\ UNCHANGED given
          /\ UNCHANGED <<ledger, remote, study, bounds>>
       \/ UNCHANGED remote /\ Lost(c)

----------------------------------------------------------------------------
(* Reconciliation, after a restart or when somebody asks for it.           *)

list_non_terminal == SelectSeq([j \in Rows |-> j], LAMBDA j : row[j].status \notin LOCAL_TERMINAL)

\* What is to be done for each is decided by its status as the list was read.
next_reconcile_step(j) == IF row[j].status = "LOCAL_PENDING_SUBMIT" THEN "post" ELSE "look"

reconcile(c) ==
    /\ call[c].pc = "away" /\ "reconcile" \in Wants /\ calls < MaxCalls
    /\ call' = [call EXCEPT ![c] = [Idle EXCEPT !.pc = "loop", !.op = "reconcile",
                   !.todo = [k \in DOMAIN list_non_terminal |->
                               [job |-> list_non_terminal[k],
                                pc |-> next_reconcile_step(list_non_terminal[k])]]]]
    /\ calls' = calls + 1
    /\ UNCHANGED <<ledger, remote, given, study, losses, crashes>>

Loop(c) ==
    /\ call[c].pc = "loop"
    /\ call' = [call EXCEPT ![c] = IF @.todo = <<>> THEN Idle
                                   ELSE [@ EXCEPT !.todo = Tail(@), !.ans = NONE, !.job = Head(call[c].todo).job,
                                                  !.pc = Head(call[c].todo).pc]]
    /\ UNCHANGED <<ledger, remote, given, study, bounds>>

----------------------------------------------------------------------------
(* The research run.                                                       *)

egress_allowed_Any(p) == p.policy # "no external egress"
egress_allowed(p) == p.policy # "no external egress" /\ p.privacy = "remote"

create_run ==
    /\ res = NONE /\ Runners # {}
    /\ \E p \in Policies :
         res' = [policy |-> p, status |-> "CREATED", src |-> <<>>, report |-> NONE, runs |-> 0]
    /\ UNCHANGED <<ledger, remote, call, given, mem, bounds>>

Dies(r) == mem' = [mem EXCEPT ![r] = Rest] /\ call' = [call EXCEPT ![r] = Idle]

\* A run may be started in whatever status it is.
run(r) ==
    /\ res # NONE /\ mem[r].pc = "away" /\ res.runs < MaxRuns
    /\ \/ /\ ~egress_allowed(res.policy)
          /\ res' = [res EXCEPT !.status = "FAILED", !.runs = @ + 1]
          /\ UNCHANGED <<row, call, mem>>
       \/ /\ egress_allowed(res.policy)
          /\ res' = [res EXCEPT !.status = "DISCOVERING", !.runs = @ + 1]
          /\ IF decide("search") = {} THEN UNCHANGED <<row, call, mem>>
             ELSE submit(r, "search") /\ mem' = [mem EXCEPT ![r] = [Rest EXCEPT !.pc = "search", !.what = "search"]]
    /\ UNCHANGED <<seen, remote, given, bounds>>

Back(r) == mem[r].pc \in {"search", "source"} /\ call[r].pc = "back"
At(r) == row[call[r].job].status

\* _await_job: it asks until the job has ended or the time is over.
Poll(r) ==
    /\ Back(r)
    /\ \/ call[r].op = "submit" /\ call[r].out \in {"id", "lost"}
       \/ call[r].op = "refresh" /\ call[r].out = "spec" /\ At(r) \notin LOCAL_TERMINAL
    /\ call' = [call EXCEPT ![r] = [Idle EXCEPT !.pc = "look", !.op = "refresh", !.job = call[r].job]]
    /\ UNCHANGED <<ledger, remote, given, study, bounds>>

\* Only a job that succeeded has a result worth asking for.
Worth(status) == status = "SUCCEEDED"

Fetch(r) ==
    /\ Back(r) /\ call[r].op = "refresh" /\ call[r].out = "spec" /\ Worth(At(r))
    /\ call' = [call EXCEPT ![r] = [Idle EXCEPT !.pc = "look", !.op = "result", !.job = call[r].job]]
    /\ UNCHANGED <<ledger, remote, given, study, bounds>>

Outcome(r) ==
    CASE call[r].op = "result" /\ call[r].out = "result" -> {"ok"}
      [] call[r].op = "result" /\ call[r].out = "not ready" -> {"failed"}
      [] call[r].op = "submit" /\ call[r].out \in {"id", "lost"} -> {}
      [] call[r].out \in {"raised", "lost"} -> {"raised"}
      [] Worth(At(r)) -> {}
      [] OTHER -> {"failed"}         \* it ended otherwise, or the time is over

\* select_candidates: each address once, so many of them.
select_candidates(found) ==
    LET once == SelectSeq([k \in DOMAIN found |-> k],
                          LAMBDA k : \A i \in 1..(k - 1) : found[i] # found[k])
    IN  [k \in 1..Min({Len(once), MaxFetches}) |-> found[once[k]]]

\* The next address is asked for; with no node for it the source is an error at once.
Turn(r, src, left) ==
    IF left = <<>>
    THEN /\ res' = [res EXCEPT !.src = src, !.status = "RANKING"]
         /\ mem' = [mem EXCEPT ![r] = [Rest EXCEPT !.pc = "rank"]]
         /\ call' = [call EXCEPT ![r] = Idle]
         /\ UNCHANGED row
    ELSE /\ res' = [res EXCEPT !.src = src, !.status = "FETCHING"]
         /\ mem' = [mem EXCEPT ![r] = [pc |-> "source", what |-> Head(left), left |-> Tail(left)]]
         /\ IF decide(Head(left)) = {}
            THEN call' = [call EXCEPT ![r] = [Idle EXCEPT !.pc = "back", !.out = "raised"]] /\ UNCHANGED row
            ELSE submit(r, Head(left))

_discover(r) ==
    /\ Back(r) /\ mem[r].pc = "search"
    /\ \E o \in Outcome(r) :
         \/ /\ o = "raised"                      \* the exception ends the run where it stands
            /\ Dies(r) /\ UNCHANGED <<row, res>>
         \/ /\ o = "failed"
            /\ res' = [res EXCEPT !.status = "FAILED"]
            /\ Dies(r) /\ UNCHANGED row
         \/ /\ o = "ok"
            /\ \E found \in Hits :
                 Turn(r, [u \in {found[k] : k \in DOMAIN found} |-> "PENDING"] @@ res.src,
                      select_candidates(found))
    /\ UNCHANGED <<seen, remote, given, bounds>>

\* The mistake takes every answer for a page.
Verdict_Answered(o) == IF o # "raised" THEN "OK" ELSE "ERROR"
Verdict(o) == IF o = "ok" THEN "OK" ELSE "ERROR"

_fetch_selected(r) ==
    /\ Back(r) /\ mem[r].pc = "source"
    /\ \E o \in Outcome(r) :
         Turn(r, mem[r].what :> Verdict(o) @@ res.src, mem[r].left)
    /\ UNCHANGED <<seen, remote, given, bounds>>

\* What was found and not fetched counts neither way.
build_report ==
    LET with(s) == {u \in DOMAIN res.src : res.src[u] = s}
    IN  [cited |-> with("OK"),
         status |-> IF with("OK") = {} THEN "FAILED" ELSE IF with("ERROR") = {} THEN "READY" ELSE "PARTIAL"]

\* The report is stored before the run is said to be ready.
Rank(r) ==
    /\ mem[r].pc = "rank"
    /\ res' = [res EXCEPT !.report = build_report]
    /\ mem' = [mem EXCEPT ![r] = [pc |-> "announce", what |-> build_report.status, left |-> <<>>]]
    /\ UNCHANGED <<ledger, remote, call, given, bounds>>

Announce(r) ==
    /\ mem[r].pc = "announce"
    /\ res' = [res EXCEPT !.status = mem[r].what]
    /\ mem' = [mem EXCEPT ![r] = Rest]
    /\ UNCHANGED <<ledger, remote, call, given, bounds>>

----------------------------------------------------------------------------

Crash ==
    /\ crashes < MaxCrashes /\ crashes' = crashes + 1
    /\ seen' = [n \in DOMAIN Nodes |-> "unknown"]
    /\ call' = [c \in Clients |-> Idle]
    /\ mem' = [r \in Runners |-> Rest]
    /\ UNCHANGED <<row, remote, given, res, calls, losses>>

Init ==
    /\ row = <<>> /\ remote = <<>> /\ given = {} /\ res = NONE
    /\ seen = [n \in DOMAIN Nodes |-> "unknown"]
    /\ call = [c \in Clients |-> Idle] /\ mem = [r \in Runners |-> Rest]
    /\ calls = 0 /\ losses = 0 /\ crashes = 0

Next ==
    \/ \E n \in DOMAIN Nodes : refresh_health(n)
    \/ \E c \in Users : Submit(c) \/ Begin(c) \/ reconcile(c)
    \/ \E c \in Clients :
         \/ Look(c) \/ submit_job(c) \/ get_job(c) \/ cancel_job(c) \/ result(c) \/ Refused(c)
         \/ mark_submitted(c) \/ update_status(c) \/ set_result_meta(c) \/ Clear(c) \/ Loop(c)
    \/ create_run
    \/ \E r \in Runners : run(r) \/ Poll(r) \/ Fetch(r) \/ _discover(r) \/ _fetch_selected(r)
                          \/ Rank(r) \/ Announce(r)
    \/ \E i \in DOMAIN remote : NodeWorks(i)
    \/ Crash

Spec == Init /\ [][Next]_vars

----------------------------------------------------------------------------

\* However often a job is sent, by a submission whose answer was lost, by several reconciliations
\* at once and over restarts, its node runs it once as long as it remembers the key, and again only
\* when it has forgotten it (BackgroundManager.reconcile resends with the stored idempotency key).
OneRemotePerJob ==
    \A i, k \in DOMAIN remote :
        remote[i].job = remote[k].job /\ i < k => remote[i].status = "GONE"

\* No node ever holds a job whose data may not travel as far, and none the ledger does not know.
WithinZone ==
    \A i \in DOMAIN remote :
        /\ remote[i].job \in Rows /\ row[remote[i].job].node = remote[i].node
        /\ Nodes[remote[i].node].zone <= Class[row[remote[i].job].what]

\* A job is booked as failed or succeeded only when it ended so on its node; one the node has lost
\* is never booked as ended.  (Not so for a cancellation, see CancelledIsStopped.)
EndIsTrue ==
    \A j \in Rows :
        LET r == row[j].remote
        IN  /\ row[j].status \in {"SUCCEEDED", "FAILED"} => remote[r].end = row[j].status
            /\ row[j].status = "RESULT_EXPIRED" => remote[r].end = "SUCCEEDED"
            /\ row[j].status = "REMOTE_UNKNOWN" => remote[r].status = "GONE"

\* A result that is said to be verified is what the node computed.
VerifiedIsIntact == \A g \in given : g.digest_ok => ~g.torn

\* Nothing of a run goes out that may not: no search is submitted for a run whose policy or privacy
\* class forbids it, and the fetches follow a search.
QueryStaysIn ==
    res # NONE /\ (\E j \in Rows : row[j].what = "search") =>
        res.policy.policy # "no external egress" /\ res.policy.privacy = "remote"

\* A source counts as evidence only when a job that fetched it had succeeded on its node.
EvidenceWasFetched ==
    res # NONE => \A u \in DOMAIN res.src : res.src[u] = "OK" =>
        \E i \in DOMAIN remote : row[remote[i].job].what = u
                                 /\ remote[i].status \in {"SUCCEEDED", "RESULT_EXPIRED", "GONE"}

\* A run said to be ready has its report, with that verdict (one runner at a time).
ReadyHasItsReport ==
    res # NONE /\ res.status \in {"READY", "PARTIAL"} =>
        /\ res.report # NONE /\ res.report.status = res.status
        /\ res.report.cited # {}

----------------------------------------------------------------------------
(* What does not hold.                                                     *)

\* A cancelled job does not run: a cancellation that finds no remote id is booked at once, while
\* the submission is on its way, or after it was lost on the way back; and the answer of a
\* submission overwrites the cancellation with QUEUED.
CancelledIsStopped ==
    \A j \in Rows : row[j].status = "CANCELLED" =>
        \A i \in DOMAIN remote : remote[i].job = j => remote[i].status \in LOCAL_TERMINAL \cup {"GONE"}

\* What has ended has ended: an answer that was given before the end is written after it.
EndIsFinal ==
    [][\A j \in Rows : row[j].status \in LOCAL_TERMINAL => row'[j].status \in LOCAL_TERMINAL]_vars

\* A run nobody works on has ended or was never begun: an exception of the search leaves it
\* DISCOVERING, a crash wherever it was, and reconcile only counts it.
RunIsWorkedOn ==
    res # NONE /\ res.status \notin {"CREATED", "READY", "PARTIAL", "FAILED"} =>
        \E r \in Runners : mem[r].pc # "away"
=============================================================================
