--------------------------- MODULE ProviderBroker ---------------------------
(***************************************************************************)
(* The provider broker (provider_broker/): the registry of principals with *)
(* their tokens, leases and daily caps, the gates of the data plane, and   *)
(* the book that survives a restart of the core.                           *)
(*                                                                         *)
(* A job holds a lease and has a client that sends one request.  A job of  *)
(* the core mints a token for each call; a job of a cage uses the token    *)
(* that lies in the cage's file, which the broker rewrites when it rotates.*)
(* Everything the broker does between two awaits is one step.  A token is  *)
(* its number; bytes are counted in chunks; content is what the gate says. *)
(***************************************************************************)
EXTENDS Integers, FiniteSets, FiniteSetsExt

CONSTANTS
    Jobs, Principals, Owner,        \* Owner[job] is the principal it asks as
    Cages,                          \* principals whose token lies in a file
    Anthropic,                      \* principals of the Anthropic surface
    MaxLeases, MaxInflight, RequestsPerDay, TokensPerDay,   \* the caps
    MAX_BODY_BYTES, MAX_TOTAL_BUFFERED_BYTES,
    Sizes, Estimates, Usages,       \* of requests, in chunks and tokens
    MaxStarts,                      \* bound: restarts of the core
    Events                          \* which of lapse, midnight, restart, writeFails, credential may happen

ConstantsOK ==
    /\ Owner \in [Jobs -> Principals] /\ Cages \subseteq Principals /\ Anthropic \subseteq Principals
    /\ {MaxLeases, MaxInflight, RequestsPerDay, TokensPerDay, MAX_BODY_BYTES, MAX_TOTAL_BUFFERED_BYTES} \subseteq Nat
    /\ Sizes \subseteq Nat \ {0} /\ Estimates \subseteq Nat /\ Usages \subseteq Nat

VARIABLES
    reg,       \* the registry: principal |-> token, leases, requests in flight, day and what it has used
    minted,    \* tokens minted so far
    file,      \* the token in the file of a cage
    jobs,      \* job |-> where it is, and whether it got a lease
    req,       \* job |-> its request, at the broker
    book,      \* job |-> the row of a forward
    buffered,  \* _buffered
    day, starts

vars == <<reg, minted, file, jobs, req, book, buffered, day, starts>>

Fresh == [token |-> 0, leases |-> {}, lapsed |-> {}, inflight |-> 0, day |-> 0, requests |-> 0, tokens |-> 0]
NoRequest == [pc |-> "none", token |-> 0, at |-> 0, size |-> 0, got |-> 0, est |-> 0,
              aborted |-> FALSE, raised |-> "", answer |-> ""]
NoRow == [at |-> 0, tokens |-> 0, source |-> ""]

TypeOK ==
    /\ reg \in [Principals -> [token : 0..minted, leases : SUBSET Jobs, lapsed : SUBSET Jobs, inflight : Nat,
                               day : 0..2, requests : Nat, tokens : Nat]]
    /\ file \in [Cages -> 0..minted]
    /\ \A j \in Jobs : jobs[j] \in {"new", "leased", "running", "done"}
    /\ \A j \in Jobs : req[j].pc \in {"none", "sent", "reading", "waiting", "stream", "answered"}
    /\ \A p \in Principals : reg[p].leases \cup reg[p].lapsed \subseteq {j \in Jobs : Owner[j] = p}
    /\ buffered \in Nat /\ day \in 1..2

----------------------------------------------------------------------------
(* The registry.                                                           *)

Rows(p, d) == {j \in Jobs : Owner[j] = p /\ book[j].at = d}
Used(p, d) == MapThenSumSet(LAMBDA j : book[j].tokens, Rows(p, d))

\* register: a fresh token; the old one is nobody's.
Minted(r) == [r EXCEPT !.token = minted + 1]

\* seed_day: what the book says of today.
Seeded(r, p) == [r EXCEPT !.day = day, !.requests = Cardinality(Rows(p, day)), !.tokens = Used(p, day)]

\* _roll_day, at the moment the request gives.
Rolled(r, moment) == IF r.day = moment THEN r ELSE [r EXCEPT !.day = moment, !.requests = 0, !.tokens = 0]

\* open_lease, if the cap allows; those that have lapsed are forgotten.
Opened(r, j) == [r EXCEPT !.lapsed = {}, !.leases = IF Cardinality(@) < MaxLeases THEN @ \cup {j} ELSE @]

\* Mutant: every closing rotates.
WasLast_Any(r, j) == j \in r.leases \cup r.lapsed

\* close_lease: whether this was the last one that lives.
WasLast(r, j) == j \in r.leases \cup r.lapsed /\ r.leases \ {j} = {}

Closed(r, j) == IF j \in r.leases \cup r.lapsed THEN [r EXCEPT !.leases = @ \ {j}, !.lapsed = {}] ELSE r

\* _abort_principal, for one request.
Abort(q) == IF q.pc \in {"waiting", "stream"} THEN [q EXCEPT !.aborted = TRUE] ELSE q

----------------------------------------------------------------------------
(* Jobs.                                                                   *)

\* A caller in the core: a token, a lease, and the request is on its way; without a
\* lease it gives up.
CallBegins(j) ==
    LET p == Owner[j]
        r == Opened(Seeded(Minted(reg[p]), p), j) IN
    /\ jobs[j] = "new" /\ p \notin Cages
    /\ reg' = [reg EXCEPT ![p] = r] /\ minted' = minted + 1
    /\ IF j \in r.leases
       THEN /\ jobs' = [jobs EXCEPT ![j] = "running"]
            /\ req' = [req EXCEPT ![j] = [NoRequest EXCEPT !.pc = "sent", !.token = minted + 1]]
       ELSE jobs' = [jobs EXCEPT ![j] = "done"] /\ UNCHANGED req
    /\ UNCHANGED <<file, book, buffered, day, starts>>

\* A task of a cage: the lease (or none), later the run that reads the file.
TaskBegins(j) ==
    LET p == Owner[j] IN
    /\ jobs[j] = "new" /\ p \in Cages
    /\ reg' = [reg EXCEPT ![p] = Opened(@, j)]
    /\ jobs' = [jobs EXCEPT ![j] = "leased"]
    /\ UNCHANGED <<minted, file, req, book, buffered, day, starts>>

TaskSubmits(j) ==
    /\ jobs[j] = "leased"
    /\ jobs' = [jobs EXCEPT ![j] = "running"]
    /\ req' = [req EXCEPT ![j] = [NoRequest EXCEPT !.pc = "sent", !.token = file[Owner[j]]]]
    /\ UNCHANGED <<reg, minted, file, book, buffered, day, starts>>

\* The job ends, answered, timed out or cancelled: its lease closes, and the last one
\* rotates: a fresh token, then the forwards abort, then the file follows if it can.
JobEnds(j) ==
    LET p == Owner[j]
        rotates == WasLast(reg[p], j)
        left == Closed(reg[p], j) IN
    /\ jobs[j] \in {"leased", "running"}
    /\ jobs' = [jobs EXCEPT ![j] = "done"]
    /\ reg' = [reg EXCEPT ![p] = IF rotates THEN Minted(left) ELSE left]
    /\ minted' = IF rotates THEN minted + 1 ELSE minted
    /\ req' = [i \in Jobs |-> IF rotates /\ Owner[i] = p THEN Abort(req[i]) ELSE req[i]]
    /\ IF rotates /\ p \in Cages
       THEN \/ file' = [file EXCEPT ![p] = minted + 1]
            \/ "writeFails" \in Events /\ UNCHANGED file
       ELSE UNCHANGED file
    /\ UNCHANGED <<book, buffered, day, starts>>

----------------------------------------------------------------------------
(* The data plane.                                                         *)

Answers(j, how) == req' = [req EXCEPT ![j] = [@ EXCEPT !.pc = "answered", !.answer = how, !.got = 0]]

\* resolve: the token sent is one the registry knows.
resolve(j) == req[j].token = reg[Owner[j]].token

\* Gates 1 to 4, at one moment.
Arrive(j) ==
    LET p == Owner[j]
        r == Rolled([reg[p] EXCEPT !.lapsed = {}], day) IN
    /\ req[j].pc = "sent"
    /\ IF ~resolve(j)
       THEN Answers(j, "bad_token") /\ UNCHANGED reg
       ELSE IF reg[p].leases = {}
       THEN Answers(j, "lease_absent") /\ reg' = [reg EXCEPT ![p].lapsed = {}]
       ELSE /\ reg' = [reg EXCEPT ![p] = r]
            /\ IF r.inflight >= MaxInflight \/ r.requests >= RequestsPerDay \/ r.tokens >= TokensPerDay
               THEN Answers(j, "capped")
               ELSE \E size \in Sizes :
                       req' = [req EXCEPT ![j] = [@ EXCEPT !.pc = "reading", !.at = day, !.size = size]]
    /\ UNCHANGED <<minted, file, jobs, book, buffered, day, starts>>

\* Mutant: the sum is not kept from falling below nothing.
Released_Plain(n) == buffered - n

\* _release_buffer: never below nothing.
Released(n) == IF buffered > n THEN buffered - n ELSE 0

\* _read_body: one chunk more, if it fits alone and with what is buffered.
ReadChunk(j) ==
    LET got == req[j].got + 1 IN
    /\ req[j].pc = "reading" /\ req[j].got < req[j].size
    /\ IF got > MAX_BODY_BYTES \/ buffered + got > MAX_TOTAL_BUFFERED_BYTES
       THEN Answers(j, "body_too_large") /\ buffered' = Released(got - 1)
       ELSE req' = [req EXCEPT ![j].got = got] /\ UNCHANGED buffered
    /\ UNCHANGED <<reg, minted, file, jobs, book, day, starts>>

\* The gate of the Anthropic surface: there is no credential at all.
NoCredential(j) ==
    /\ req[j].pc = "reading" /\ req[j].got = 0 /\ Owner[j] \in Anthropic /\ "credential" \in Events
    /\ Answers(j, "no_credential")
    /\ UNCHANGED <<reg, minted, file, jobs, book, buffered, day, starts>>

\* Mutant: a body the gate refuses stays counted.
Refuse_KeepsBuffer(j) ==
    /\ req[j].pc = "reading" /\ req[j].got = req[j].size
    /\ buffered' = buffered + req[j].size
    /\ Answers(j, "content")
    /\ UNCHANGED <<reg, minted, file, jobs, book, day, starts>>

\* Gates 5, 5b and the document gate refuse what the whole body says.
Refuse(j) ==
    /\ req[j].pc = "reading" /\ req[j].got = req[j].size
    /\ buffered' = (buffered + req[j].size) - req[j].size
    /\ Answers(j, "content")
    /\ UNCHANGED <<reg, minted, file, jobs, book, day, starts>>

\* record: the row of a request that goes out, with the estimate.
Entered(j, est) == [at |-> req[j].at, tokens |-> est, source |-> "estimated"]

\* Gate 6: the estimate against the token cap, charged and booked; the request is out.
\* The moment is still that of its arrival.
GoOut(j) ==
    LET p == Owner[j]
        r == Rolled(reg[p], req[j].at) IN
    /\ req[j].pc = "reading" /\ req[j].got = req[j].size
    /\ \E est \in Estimates :
          IF r.tokens + est > TokensPerDay
          THEN /\ Answers(j, "capped") /\ reg' = [reg EXCEPT ![p] = r]
               /\ UNCHANGED <<buffered, book>>
          ELSE /\ reg' = [reg EXCEPT ![p] = [r EXCEPT !.tokens = @ + est, !.requests = @ + 1, !.inflight = @ + 1]]
               /\ book' = [book EXCEPT ![j] = Entered(j, est)]
               /\ buffered' = buffered + req[j].size
               /\ req' = [req EXCEPT ![j] = [@ EXCEPT !.pc = "waiting", !.est = est]]
    /\ UNCHANGED <<minted, file, jobs, day, starts>>

\* Mutant: what was cut before the provider answered goes on.
Respond_Uncut(j) ==
    /\ req[j].pc = "waiting"
    /\ req' = [req EXCEPT ![j] = [@ EXCEPT !.pc = "stream", !.aborted = FALSE]]
    /\ UNCHANGED <<reg, minted, file, jobs, book, buffered, day, starts>>

\* The provider answers; whether the forward was cut before is asked with the next chunk.
Respond(j) ==
    /\ req[j].pc = "waiting"
    /\ req' = [req EXCEPT ![j].pc = "stream"]
    /\ UNCHANGED <<reg, minted, file, jobs, book, buffered, day, starts>>

\* What is booked in the end: what was reported or measured, or the estimate stays.
settled_charge(j) ==
    {[tokens |-> req[j].est, source |-> "estimated"]} \cup
    {[tokens |-> n, source |-> "counted"] : n \in IF req[j].pc = "stream" THEN Usages ELSE {}}

\* Mutant: usage is added to the estimate in the book.
Settled_Adds(j, charge) == [book[j] EXCEPT !.tokens = @ + charge.tokens, !.source = charge.source]

\* settle: the row says what was used.
Settled(j, charge) == [book[j] EXCEPT !.tokens = charge.tokens, !.source = charge.source]

\* replace_estimate, at the moment of the arrival.
Replaced(r, j, used) ==
    LET rolled == Rolled(r, req[j].at)
        left == rolled.tokens - req[j].est + used
    IN  [rolled EXCEPT !.tokens = IF left > 0 THEN left ELSE 0]

Leaves(r) == [r EXCEPT !.inflight = IF @ > 0 THEN @ - 1 ELSE 0]

\* The forward is over; usage was seen, or bytes were counted because the client or the
\* rotation cut the stream, or the estimate stays.
Finish(j) ==
    LET p == Owner[j] IN
    /\ req[j].pc \in {"stream", "waiting"}   \* waiting: the provider cannot be reached
    /\ \E charge \in settled_charge(j) :
          /\ book' = [book EXCEPT ![j] = Settled(j, charge)]
          /\ reg' = [reg EXCEPT ![p] = Leaves(IF charge.source = "estimated" THEN @
                                             ELSE Replaced(@, j, charge.tokens))]
    /\ buffered' = Released(req[j].size)
    /\ Answers(j, IF req[j].pc = "stream" THEN "ok" ELSE "upstream_unavailable")
    /\ UNCHANGED <<minted, file, jobs, day, starts>>

\* The stream of a request that is cut ends with the next chunk.
Cut(j) == req[j].aborted /\ Finish(j)

\* The vault does not lend the Anthropic credential: outbound_headers raises, inside
\* the try of _forward.
HeadersFail(j) ==
    /\ req[j].pc = "waiting" /\ Owner[j] \in Anthropic /\ "credential" \in Events
    /\ reg' = [reg EXCEPT ![Owner[j]] = Leaves(@)]
    /\ buffered' = Released(req[j].size)
    /\ req' = [req EXCEPT ![j] = [@ EXCEPT !.pc = "answered", !.answer = "upstream_unavailable",
                                            !.raised = "credential_denied"]]
    /\ UNCHANGED <<minted, file, jobs, book, day, starts>>

----------------------------------------------------------------------------
(* Time and the process.                                                   *)

\* A deadline passes.
Lapse(j) ==
    LET p == Owner[j] IN
    /\ "lapse" \in Events /\ j \in reg[p].leases
    /\ reg' = [reg EXCEPT ![p].leases = @ \ {j}, ![p].lapsed = @ \cup {j}]
    /\ UNCHANGED <<minted, file, jobs, req, book, buffered, day, starts>>

Midnight ==
    /\ "midnight" \in Events /\ day = 1
    /\ day' = 2
    /\ UNCHANGED <<reg, minted, file, jobs, req, book, buffered, starts>>

\* Mutant: the counters begin at nothing.
Provisioned_Empty(p, n) == [Fresh EXCEPT !.token = n, !.day = day]

\* register_principal at provisioning: what the book says of today is taken over.
Provisioned(p, n) == Seeded([Fresh EXCEPT !.token = n], p)

\* The core dies and starts again: the jobs, the registry and the buffers are gone, the
\* book stays, and the cages get fresh tokens.
Restart ==
    /\ "restart" \in Events /\ starts < MaxStarts
    /\ starts' = starts + 1
    /\ jobs' = [j \in Jobs |-> IF jobs[j] = "new" THEN "new" ELSE "done"]
    /\ req' = [j \in Jobs |-> NoRequest]
    /\ minted' = minted + 1
    /\ reg' = [p \in Principals |-> IF p \in Cages THEN Provisioned(p, minted + 1) ELSE Fresh]
    /\ file' = [p \in Cages |-> minted + 1]
    /\ buffered' = 0
    /\ UNCHANGED <<book, day>>

Init ==
    /\ minted = 1 /\ day = 1 /\ starts = 0 /\ buffered = 0
    /\ reg = [p \in Principals |-> IF p \in Cages THEN [Fresh EXCEPT !.token = 1, !.day = 1] ELSE Fresh]
    /\ file = [p \in Cages |-> 1]
    /\ jobs = [j \in Jobs |-> "new"]
    /\ req = [j \in Jobs |-> NoRequest]
    /\ book = [j \in Jobs |-> NoRow]

Handle(j) == \/ Arrive(j) \/ ReadChunk(j) \/ NoCredential(j) \/ Refuse(j) \/ GoOut(j) \/ Respond(j) \/ Finish(j)
             \/ HeadersFail(j)
Job(j) == CallBegins(j) \/ TaskBegins(j) \/ TaskSubmits(j) \/ JobEnds(j)

Next == (\E j \in Jobs : Handle(j) \/ Job(j) \/ Lapse(j)) \/ Midnight \/ Restart

\* A forward that was cut comes to its end, by the next chunk, the closed response or the time-out
\* of the whole; nothing is assumed of who asks nor of who answers.
Spec == Init /\ [][Next]_vars
        /\ \A j \in Jobs : WF_vars(Cut(j))

----------------------------------------------------------------------------
(* Properties.                                                             *)

\* What the caps of p are measured against is what the book says of today.
Counted(p) == reg[p].token # 0 =>
    IF reg[p].day = day THEN reg[p].tokens = Used(p, day) /\ reg[p].requests = Cardinality(Rows(p, day))
    ELSE Rows(p, day) = {}

\* The counters and the book part only by a step of a request that arrived before midnight and
\* rolls the counters back to its own day (replace_estimate, _roll_day): not by an estimate that
\* is replaced, a stream that is cut, a restart, or the first request of a day.
BookIsTheCap ==
    \A p \in Principals : Counted(p) /\ ~Counted(p)' =>
        \E j \in Jobs : Owner[j] = p /\ req[j].at \notin {0, day} /\ req'[j] # req[j]

\* A running task of a cage holds the token of its principal as long as its lease lives,
\* whoever else begins and ends meanwhile.
CageTokenIsGood == \A j \in Jobs :
    jobs[j] = "running" /\ Owner[j] \in Cages /\ j \in reg[Owner[j]].leases
        => req[j].token = reg[Owner[j]].token

\* When no request holds a body nothing is counted as buffered.
BuffersComeBack == (\A j \in Jobs : req[j].pc \notin {"waiting", "stream"}) => buffered = 0

\* A forward of a principal whose last lease is gone ends, whatever the provider does.
CutStreamsEnd == \A j \in Jobs : (req[j].aborted ~> req[j].pc \in {"answered", "none"})

\* What the documents say and the code does not do.

\* A caller whose lease lives is known to the broker.
HolderIsKnown == \A j \in Jobs : req[j].answer = "bad_token" => j \notin reg[Owner[j]].leases

\* A token is of no use beyond the job it was for.
TokenEndsWithTheJob == \A j \in Jobs :
    jobs[j] = "done" /\ req[j].token # 0 /\ req[j].token = reg[Owner[j]].token => reg[Owner[j]].leases # {}

\* The cap of a day counts everything of that day.
CapSeesTheDay == \A p \in Principals : reg[p].token # 0 /\ reg[p].day = day => reg[p].tokens >= Used(p, day)

\* No more requests are out than the cap allows.
InflightIsCapped == \A p \in Principals : Cardinality({j \in Jobs : Owner[j] = p /\ req[j].pc \in {"waiting", "stream"}}) <= MaxInflight

\* Each request that goes out lies in an open lease.
OutsInALease == [][\A j \in Jobs : req[j].pc # "waiting" /\ req'[j].pc = "waiting" => reg[Owner[j]].leases # {}]_vars

\* The bodies held at a time are what the limit is measured against.
BuffersAreCounted ==
    buffered >= MapThenSumSet(LAMBDA j : req[j].size, {j \in Jobs : req[j].pc \in {"waiting", "stream"}})

\* Why the vault refused the credential is what the caller is told.
ReasonIsTold == \A j \in Jobs : req[j].raised # "" => req[j].answer = req[j].raised
=============================================================================
