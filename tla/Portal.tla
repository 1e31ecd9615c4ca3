------------------------------- MODULE Portal -------------------------------
(***************************************************************************)
(* A signed-in portal: the capabilities of the Core (capabilities/         *)
(* portal.py) on their way through the router's approval, the wire to the  *)
(* worker under its own Unix identity (portal/client.py, protocol.py), the *)
(* worker with one task for every connection (service.py), its one-time    *)
(* permits (permit.py), the page's network guard (browser/page.py) and the *)
(* browser processes (browser/cdp.py).  The page itself is foreign: its    *)
(* scripts change it and send requests when they like.  Whatever awaits in *)
(* the code is a step of its own here.                                     *)
(***************************************************************************)
EXTENDS Integers, Sequences, FiniteSets

CONSTANTS
    Callers, Does,          \* tasks of the Core, and the capabilities they use
    Pages,                  \* page -> [origin, form, success]: its fingerprint, whether it shows the login held
    Turns,                  \* how a page changes by itself: pairs of pages
    Allowed, LoginOrigin, WriteOrigin,  \* the binding
    Fields,                 \* the fields of the form, each with its secret
    Breaks,                 \* what goes wrong: subset of {"late", "cdp", "age", "restart", "deliver", "vault"}
    MaxCalls, MaxSessions, MaxTurns, MaxWrites, MaxBreaks,
    NONE

\* The page before the first one asks for nothing, and the login page belongs to the binding.
ConstantsOK ==
    /\ Fields \in Seq({Fields[i] : i \in DOMAIN Fields}) /\ Fields # <<>>
    /\ Pages["blank"].form = NONE /\ Pages["login"].origin \in Allowed
    /\ {"blank", "login"} \subseteq DOMAIN Pages /\ NONE \notin DOMAIN Pages
    /\ \A p \in DOMAIN Pages : Pages[p].success \in BOOLEAN
    /\ NONE \notin {"ok", "signed_in", "not_signed_in", "approval_drift", "failed"}
    /\ {MaxCalls, MaxSessions, MaxTurns, MaxWrites, MaxBreaks} \subseteq Nat

VARIABLES
    caller,                 \* where each task of the Core is
    pending,                \* PortalCapabilities._pending
    asked, outstanding,     \* the approvals, and the one the router holds for portal_login
    vault,                  \* what the vault says of the credential
    ops,                    \* the operations the worker was sent
    session,                \* its sessions, in the order of opening
    builds,                 \* [core, worker]: the code of the tree and the code the worker runs
    left,                   \* the writing requests that left a page
    calls, turns, broken

core == <<caller, pending, asked, outstanding, vault>>
worker == <<ops, session, builds>>
bounds == <<calls, turns, broken>>
vars == <<core, worker, left, bounds>>

\* Where a request of a page may go.
Origins == {Pages[p].origin : p \in DOMAIN Pages} \cup Allowed \cup {WriteOrigin}
OpKinds == {"ping", "open_session", "navigate", "read", "probe_action", "execute", "restart", "close_session"}
Sessions == DOMAIN session
Opened == {s \in Sessions : session[s].life = "open"}

\* Resting, and what it was last told.
Away(told, op) == [pc |-> "away", sess |-> 0, op |-> op, man |-> NONE, ap |-> 0,
                   told |-> told]

TypeOK ==
    /\ \A c \in Callers : caller[c].pc \in {"away", "ping", "opening", "going", "reading", "closing", "probing",
                                            "asking", "claimed", "logging"}
                          /\ caller[c].op \in 0..Len(ops)
    /\ \A a \in DOMAIN asked : asked[a].state \in {"pending", "approved", "denied", "expired", "claimed"}
    /\ outstanding \in 0..Len(asked) /\ vault \in {"stored", "locked"}
    /\ \A o \in DOMAIN ops : ops[o].kind \in OpKinds /\ ops[o].sess \in 0..MaxSessions
    /\ \A s \in Sessions : session[s].life \in {"starting", "open", "gone", "lost"} /\ session[s].page \in DOMAIN Pages
    /\ DOMAIN pending \subseteq 1..MaxSessions

----------------------------------------------------------------------------
(* The wire.  Every call is a connection and a task of its own.            *)

Op(kind, s, man, ap) ==
    [kind |-> kind, sess |-> s, man |-> man, ap |-> ap, pc |-> "reap", todo |-> {}, had |-> {}, wipe |-> 0, then |-> NONE, build |-> 0,
     seen |-> NONE, shows |-> {}, on |-> {}, fields |-> <<>>, stale |-> FALSE, out |-> NONE]

\* What has been answered and heard is of no more interest, unless it was an execute or a close.
Drop(c) ==
    LET o == caller[c].op IN
    IF ops[o].kind \in {"execute", "close_session"} THEN ops
    ELSE [ops EXCEPT ![o] = [Op("ping", 0, NONE, 0) EXCEPT !.pc = "over"]]
\* c sends and waits for the answer.
call(c, kind, s, pc, more) ==
    /\ ops' = Append(IF caller[c].pc = "away" THEN ops ELSE Drop(c), Op(kind, s, more.man, more.ap))
    /\ caller' = [caller EXCEPT ![c].op = Len(ops) + 1, ![c].pc = pc, ![c].sess = s,
                                ![c].man = more.man, ![c].ap = more.ap]

Describe(s, page) == [t \in DOMAIN pending \cup {s} |-> IF t = s THEN page ELSE pending[t]]
Without(s) == [t \in DOMAIN pending \ {s} |-> pending[t]]
Plain == [man |-> NONE, ap |-> 0]
Answered(c) == caller[c].op > 0 /\ ops[caller[c].op].pc = "over"
Reply(c) == ops[caller[c].op]
Ends(c, told) == caller' = [caller EXCEPT ![c] = Away(told, IF @.pc = "logging" THEN @.op ELSE 0)]

----------------------------------------------------------------------------
(* The capabilities: one await after the other.                            *)

Begins(c, cap) == caller[c].pc = "away" /\ cap \in Does /\ calls < MaxCalls /\ calls' = calls + 1

\* Before every session the worker says what it runs; the mistake trusts one it has seen before.
Verified_Once(c) == Reply(c).out = "ok" /\ (Reply(c).build = builds.core \/ Opened # {})
Verified(c) == Reply(c).out = "ok" /\ Reply(c).build = builds.core

Open(c) ==
    /\ Begins(c, "open") /\ vault = "stored"
    /\ call(c, "ping", 0, "ping", Plain)
    /\ UNCHANGED <<pending, asked, outstanding, vault, session, builds, left, turns, broken>>

\* The opening carries the build it was verified against.
open_session(c) ==
    /\ caller[c].pc = "ping" /\ Answered(c)
    /\ IF Verified(c)
       THEN /\ ops' = Append(Drop(c), [Op("open_session", 0, NONE, 0) EXCEPT !.build = builds.core])
            /\ caller' = [caller EXCEPT ![c].op = Len(ops) + 1, ![c].pc = "opening"]
       ELSE Ends(c, "failed") /\ ops' = Drop(c)
    /\ UNCHANGED <<pending, asked, outstanding, vault, session, builds, left, bounds>>

navigate(c) ==
    /\ caller[c].pc = "opening" /\ Answered(c)
    /\ IF Reply(c).out = "ok" THEN call(c, "navigate", Reply(c).sess, "going", Plain)
       ELSE Ends(c, "failed") /\ ops' = Drop(c)
    /\ UNCHANGED <<pending, asked, outstanding, vault, session, builds, left, bounds>>

\* read and status: status is given for a session that counts as signed in.
Read(c) ==
    /\ \E s \in Sessions : Begins(c, "read") /\ call(c, "read", s, "reading", Plain)
    /\ UNCHANGED <<pending, asked, outstanding, vault, session, builds, left, turns, broken>>

\* abandon: pending -> expired, whatever else it is by now stays.
Abandon(a) == IF a > 0 /\ asked[a].state = "pending" THEN [asked EXCEPT ![a].state = "expired"] ELSE asked

\* Who closes a session does not want to sign in any more.
abandon_outstanding_Not(s) == UNCHANGED <<asked, outstanding>>
abandon_outstanding(s) == asked' = Abandon(outstanding) /\ outstanding' = 0

Close(c) ==
    /\ \E s \in Sessions :
         /\ Begins(c, "close") /\ abandon_outstanding(s)
         /\ pending' = Without(s)
         /\ call(c, "close_session", s, "closing", Plain)
    /\ UNCHANGED <<vault, session, builds, left, turns, broken>>

Told(c) ==
    /\ caller[c].pc \in {"going", "reading", "closing"} /\ Answered(c)
    /\ Ends(c, IF Reply(c).out \in {"ok", "signed_in"} THEN caller[c].pc ELSE "failed") /\ ops' = Drop(c)
    /\ UNCHANGED <<pending, asked, outstanding, vault, session, builds, left, bounds>>

----------------------------------------------------------------------------
(* Signing in: described, approved, and carried out from what is pending.  *)

\* approval_arguments: what the owner is shown, the page's fingerprint with it.
approval_arguments_Portal(m) == Pages[m].origin
approval_arguments(m) == m

Login(c) ==
    /\ \E s \in Sessions : Begins(c, "login") /\ call(c, "probe_action", s, "probing", Plain)
    /\ UNCHANGED <<pending, asked, outstanding, vault, session, builds, left, turns, broken>>

\* prepare_login: the manifest is what the probe saw, and the session's pending one from here on.
prepare_login(c) ==
    /\ caller[c].pc = "probing" /\ Answered(c)
    /\ IF Reply(c).out = "ok" /\ Pages[Reply(c).seen].origin = LoginOrigin
       THEN /\ pending' = Describe(caller[c].sess, Reply(c).seen)
            /\ caller' = [caller EXCEPT ![c].pc = "asking", ![c].man = Reply(c).seen]
       ELSE Ends(c, "not_described") /\ UNCHANGED pending
    /\ ops' = Drop(c)
    /\ UNCHANGED <<asked, outstanding, vault, session, builds, left, bounds>>

\* What resume says of the approval the router holds, for what is described now.
Resumes(c) ==
    IF outstanding = 0 THEN "none"
    ELSE IF asked[outstanding].state = "denied" THEN "denied"
    ELSE IF asked[outstanding].state = "approved"
            /\ approval_arguments(asked[outstanding].man) = approval_arguments(caller[c].man) THEN "ok"
    ELSE "not_usable"

\* The approved one is claimed, once; an answer of no ends the matter; anything else is asked anew.
Resume(c) ==
    /\ caller[c].pc = "asking"
    /\ CASE Resumes(c) = "ok" ->
              /\ asked' = [asked EXCEPT ![outstanding].state = "claimed"] /\ outstanding' = 0
              /\ caller' = [caller EXCEPT ![c].pc = "claimed", ![c].ap = outstanding]
         [] Resumes(c) = "denied" -> outstanding' = 0 /\ Ends(c, "denied") /\ UNCHANGED asked
         [] OTHER -> /\ asked' = Append(Abandon(outstanding), [man |-> caller[c].man, sess |-> caller[c].sess,
                                                               state |-> "pending"])
                     /\ outstanding' = Len(asked) + 1 /\ Ends(c, "asked")
    /\ UNCHANGED <<pending, vault, worker, left, bounds>>

\* The owner at the phone.
Decide ==
    /\ \E a \in DOMAIN asked, d \in {"approved", "denied"} :
         asked[a].state = "pending" /\ asked' = [asked EXCEPT ![a].state = d]
    /\ UNCHANGED <<caller, pending, outstanding, vault, worker, left, bounds>>

\* login: the manifest is the pending one of the session, the secrets leave the vault now.  Once the
\* approval is claimed every refusal of the handler counts as an outcome nobody knows.
login(c) ==
    /\ caller[c].pc = "claimed"
    /\ IF caller[c].sess \in DOMAIN pending /\ vault = "stored"
       THEN call(c, "execute", caller[c].sess, "logging",
                 [man |-> pending[caller[c].sess], ap |-> caller[c].ap])
       ELSE Ends(c, "unknown") /\ UNCHANGED ops
    /\ UNCHANGED <<pending, asked, outstanding, vault, session, builds, left, bounds>>

Logged(c) ==
    /\ caller[c].pc = "logging" /\ Answered(c)
    /\ pending' = Without(caller[c].sess)
    /\ Ends(c, IF Reply(c).out = "signed_in" THEN "done" ELSE "unknown")
    /\ UNCHANGED <<asked, outstanding, vault, worker, left, bounds>>

\* No answer in time: the caller goes, the operation does not.
TimeOut(c) ==
    /\ caller[c].pc \notin {"away", "asking", "claimed"} /\ ~ Answered(c)
    /\ "late" \in Breaks /\ broken < MaxBreaks /\ broken' = broken + 1
    /\ pending' = IF caller[c].pc = "logging" THEN Without(caller[c].sess) ELSE pending
    /\ Ends(c, "unknown")
    /\ UNCHANGED <<asked, outstanding, vault, worker, left, calls, turns>>

\* The keychain gets locked, or opened again.
Keychain ==
    /\ "vault" \in Breaks /\ broken < MaxBreaks /\ broken' = broken + 1
    /\ vault' = IF vault = "stored" THEN "locked" ELSE "stored"
    /\ UNCHANGED <<caller, pending, asked, outstanding, worker, left, calls, turns>>

----------------------------------------------------------------------------
(* The worker.  Before each operation, whoever asks, what has expired goes *)
(* (_reap); then the handler begins.                                       *)

Page(s) == Pages[session[s].page]
Goes(o, pc) == ops' = [ops EXCEPT ![o].pc = pc]
\* What is over keeps what the properties ask of it.
Over(o, out, seen) == ops' = [ops EXCEPT ![o].pc = "over", ![o].out = out, ![o].seen = seen]
Fails(o, out) == Over(o, out, NONE)
Busy == UNCHANGED <<core, builds, left, bounds>>

\* expired: too long untouched, or too old.
expired(s) == session[s].age # "fresh"
Touched(s) == [session[s] EXCEPT !.age = IF @ = "idle" THEN "fresh" ELSE @]

\* destroy begins: nothing is known or permitted any more, the wire to the page is cut.
Cut(s) == [session[s] EXCEPT !.life = "gone", !.permits = {}, !.known = {}, !.wired = FALSE]

\* Takes s off the list and destroys it: the browser is up until Wiped, and the operation goes on then.
Destroys(o, s, then) ==
    /\ session' = [session EXCEPT ![s] = Cut(s)]
    /\ ops' = [ops EXCEPT ![o].pc = "wipe", ![o].wipe = s, ![o].then = then]

Old == {s \in Opened : expired(s)}
First(s, list) == \A t \in list : s <= t

Reap(o) ==
    /\ ops[o].pc = "reap"
    /\ \E s \in Old : First(s, Old) /\ Destroys(o, s, "reap")
    /\ Busy

Wiped(o) ==
    /\ ops[o].pc = "wipe"
    /\ session' = [session EXCEPT ![ops[o].wipe].up = FALSE]
    /\ ops' = [ops EXCEPT ![o].pc = ops[o].then, ![o].wipe = 0]
    /\ Busy

Handles(o, kind) == ops[o].pc = "reap" /\ ops[o].kind = kind /\ Old = {}
\* _session: an operation on a session that is not on the list fails.
Found(o) == ops[o].sess \in Opened

_op_ping(o) ==
    /\ Handles(o, "ping")
    /\ ops' = [ops EXCEPT ![o].pc = "over", ![o].out = "ok", ![o].build = builds.worker]
    /\ UNCHANGED session /\ Busy

\* A browser of its own, on a list only when it is ready.
_op_open_session(o) ==
    /\ Handles(o, "open_session") /\ Len(session) < MaxSessions
    /\ session' = Append(session, [life |-> "starting", page |-> "blank", age |-> "fresh", auth |-> FALSE,
                                   permits |-> {}, known |-> {}, typed |-> {}, wired |-> TRUE, up |-> TRUE,
                                   build |-> builds.worker, since |-> ops[o].build])
    /\ ops' = [ops EXCEPT ![o].pc = "start", ![o].sess = Len(session) + 1]
    /\ Busy

Started(o) ==
    /\ ops[o].pc = "start"
    /\ session' = [session EXCEPT ![ops[o].sess].life = "open"]
    /\ Fails(o, "ok") /\ Busy

_op_navigate(o) ==
    /\ Handles(o, "navigate")
    /\ IF Found(o) THEN Goes(o, "load") ELSE Fails(o, "failed")
    /\ UNCHANGED session /\ Busy

\* The page is the login page now; the reading follows.
Loaded(o) ==
    /\ ops[o].pc = "load" /\ session[ops[o].sess].wired
    /\ session' = [session EXCEPT ![ops[o].sess] = [Touched(ops[o].sess) EXCEPT !.page = "login"]]
    /\ Goes(o, "eval") /\ Busy

_op_read(o) ==
    /\ Handles(o, "read")
    /\ IF Found(o) THEN Goes(o, "eval") /\ session' = [session EXCEPT ![ops[o].sess] = Touched(ops[o].sess)]
       ELSE Fails(o, "failed") /\ UNCHANGED session
    /\ Busy

\* _read: the page answers, and may show whatever was typed into it; then it is scrubbed.
Evaluated(o) ==
    /\ ops[o].pc = "eval" /\ session[ops[o].sess].wired
    /\ ops' = [ops EXCEPT ![o].pc = "scrub", ![o].seen = session[ops[o].sess].page,
                          ![o].shows = session[ops[o].sess].typed]
    /\ UNCHANGED session /\ Busy

scrub(o) == ops[o].shows \ session[ops[o].sess].known

\* What the answer says of the session, and what of the login the session keeps.
success(o) == Pages[ops[o].seen].success
told_Before(o) == session[ops[o].sess].auth
told(o) == IF ops[o].kind = "execute" THEN success(o) ELSE session[ops[o].sess].auth

Scrubbed(o) ==
    /\ ops[o].pc = "scrub"
    /\ ops' = [ops EXCEPT ![o].pc = "over", ![o].shows = scrub(o),
                          ![o].out = IF told(o) THEN "signed_in" ELSE IF ops[o].kind = "execute" THEN "not_signed_in"
                                     ELSE "ok"]
    /\ session' = [session EXCEPT ![ops[o].sess] =
                     IF ops[o].kind = "execute" THEN [Touched(ops[o].sess) EXCEPT !.auth = success(o)] ELSE @]
    /\ Busy

_op_probe_action(o) ==
    /\ Handles(o, "probe_action")
    /\ IF Found(o) THEN Goes(o, "probe") ELSE Fails(o, "failed")
    /\ UNCHANGED session /\ Busy

Probed(o) ==
    /\ ops[o].pc = "probe" /\ session[ops[o].sess].wired
    /\ IF Page(ops[o].sess).form = NONE THEN Fails(o, "form_not_found") /\ UNCHANGED session
       ELSE /\ Over(o, "ok", session[ops[o].sess].page)
            /\ session' = [session EXCEPT ![ops[o].sess] = Touched(ops[o].sess)]
    /\ Busy

----------------------------------------------------------------------------
(* execute: look again, fill, permit one write, click, wait, read.         *)

\* may_inject goes by the address in the manifest.
_op_execute(o) ==
    /\ Handles(o, "execute")
    /\ IF ~ Found(o) THEN Fails(o, "failed")
       ELSE IF Pages[ops[o].man].origin # LoginOrigin THEN Fails(o, "origin_not_bound") ELSE Goes(o, "check")
    /\ UNCHANGED session /\ Busy

\* drifted: the origin and the fingerprint, not the address.
drifted_Origin(o) == Page(ops[o].sess).origin # Pages[ops[o].man].origin
drifted(o) ==
    \/ Page(ops[o].sess).origin # Pages[ops[o].man].origin
    \/ Page(ops[o].sess).form # Pages[ops[o].man].form

\* A value is remembered before it is typed; the mistake remembers the first one only.
remember_First(fields) == IF fields = Fields THEN {Head(fields)} ELSE {}
remember(fields) == {Head(fields)}

\* The next field is sent to the page.
Sends(o, fields) ==
    /\ ops' = [ops EXCEPT ![o].pc = "fill", ![o].fields = fields]
    /\ session' = [session EXCEPT ![ops[o].sess].known = @ \cup remember(fields)]

Checked(o) ==
    /\ ops[o].pc = "check" /\ session[ops[o].sess].wired
    /\ IF Page(ops[o].sess).form = NONE \/ drifted(o) THEN Fails(o, "approval_drift") /\ UNCHANGED session
       ELSE Sends(o, Fields)
    /\ Busy

\* The book of permits: one for each action, and an action is its manifest.
Others(s, o) == {q \in session[s].permits : ops[q].man # ops[o].man}
issue(o) == Others(ops[o].sess, o) \cup {o}
revoke_Kept(o) == session[ops[o].sess].permits
revoke(o) == Others(ops[o].sess, o)

\* The page has the value; then the next field, or the permit and the click.
Filled(o) ==
    /\ ops[o].pc = "fill" /\ session[ops[o].sess].wired
    /\ LET s == ops[o].sess  here == session[s].page  value == Head(ops[o].fields)  more == Tail(ops[o].fields) IN
       IF Pages[here].form = NONE THEN Fails(o, "field_not_found") /\ UNCHANGED session
       ELSE /\ session' = [session EXCEPT ![s].typed = @ \cup {value},
                                          ![s].known = IF more = <<>> THEN @ ELSE @ \cup remember(more),
                                          ![s].permits = IF more = <<>> THEN issue(o) ELSE @]
            /\ ops' = [ops EXCEPT ![o].fields = more, ![o].on = @ \cup {here},
                                  ![o].pc = IF more = <<>> THEN "click" ELSE "fill"]
    /\ Busy

Clicked(o) ==
    /\ ops[o].pc = "click" /\ session[ops[o].sess].wired
    /\ IF Page(ops[o].sess).form = NONE
       THEN Fails(o, "submit_not_found") /\ session' = [session EXCEPT ![ops[o].sess].permits = revoke(o)]
       ELSE Goes(o, "settle") /\ UNCHANGED session
    /\ Busy

\* Whether it was used or not, the permit goes, and the page is read.  Nothing awaits the page here.
Settled(o) ==
    /\ ops[o].pc = "settle"
    /\ session' = [session EXCEPT ![ops[o].sess].permits = revoke(o)]
    /\ Goes(o, "eval") /\ Busy

\* The browser does not answer, or is gone: the operation ends where it stands.
Breaks_off(o) ==
    /\ ops[o].pc \in {"load", "eval", "probe", "check", "fill", "click"}
    /\ \/ ~ session[ops[o].sess].wired /\ UNCHANGED broken
       \/ session[ops[o].sess].wired /\ "cdp" \in Breaks /\ broken < MaxBreaks /\ broken' = broken + 1
    /\ Fails(o, "failed")
    /\ UNCHANGED <<core, session, builds, left, calls, turns>>

\* A browser that does not come up: stopped if it never answered, left alone if it did.
Fails_to_start(o) ==
    /\ ops[o].pc = "start" /\ "cdp" \in Breaks /\ broken < MaxBreaks /\ broken' = broken + 1
    /\ \E life \in {"gone", "lost"} :
         session' = [session EXCEPT ![ops[o].sess].life = life, ![ops[o].sess].up = life = "lost",
                                    ![ops[o].sess].wired = FALSE]
    /\ Fails(o, "failed")
    /\ UNCHANGED <<core, builds, left, calls, turns>>

_op_close_session(o) ==
    /\ Handles(o, "close_session")
    /\ IF Found(o) THEN Destroys(o, ops[o].sess, "closed") ELSE Fails(o, "unknown_session") /\ UNCHANGED session
    /\ Busy

Closed(o) ==
    /\ ops[o].pc = "closed"
    /\ Fails(o, "ok") /\ UNCHANGED session /\ Busy

\* The list as it is now is taken down one after the other; what is being opened is not on it, and
\* what another operation took off it meanwhile ends the restart.
listed_None(o) == {}
listed(o) == Opened

_op_restart(o) ==
    /\ Handles(o, "restart")
    /\ ops' = [ops EXCEPT ![o].pc = "sweep", ![o].todo = listed(o), ![o].had = Opened]
    /\ UNCHANGED session /\ Busy

Sweep(o) ==
    /\ ops[o].pc = "sweep"
    /\ \/ ops[o].todo = {} /\ Goes(o, "exit") /\ UNCHANGED session
       \/ \E s \in ops[o].todo \ Opened :
            First(s, ops[o].todo) /\ Fails(o, "failed") /\ UNCHANGED session
       \/ \E s \in ops[o].todo \cap Opened :
            /\ First(s, ops[o].todo)
            /\ session' = [session EXCEPT ![s] = Cut(s)]
            /\ ops' = [ops EXCEPT ![o].pc = "wipe", ![o].wipe = s, ![o].then = "sweep", ![o].todo = @ \ {s}]
    /\ Busy

\* The process ends and comes up again with what is delivered by then: every wire breaks.
Exit(o) ==
    /\ ops[o].pc = "exit"
    /\ ops' = [q \in DOMAIN ops |->
                 IF ops[q].pc = "over" THEN ops[q]
                 ELSE [ops[q] EXCEPT !.pc = "over", !.out = IF q = o THEN "ok" ELSE "failed", !.todo = {}]]
    /\ session' = [s \in Sessions |-> [session[s] EXCEPT !.wired = FALSE, !.permits = {}, !.known = {},
                      !.life = IF session[s].up /\ s \notin ops[o].had THEN "lost" ELSE "gone"]]
    /\ builds' = [builds EXCEPT !.worker = builds.core]
    /\ UNCHANGED <<core, left, bounds>>

\* Doctor and delivery ask for it.
Restart ==
    /\ "restart" \in Breaks /\ broken < MaxBreaks /\ broken' = broken + 1
    /\ ops' = Append(ops, Op("restart", 0, NONE, 0))
    /\ UNCHANGED <<core, session, builds, left, calls, turns>>

Deliver ==
    /\ "deliver" \in Breaks /\ broken < MaxBreaks /\ broken' = broken + 1
    /\ builds' = [builds EXCEPT !.core = @ + 1]
    /\ UNCHANGED <<core, ops, session, left, calls, turns>>

\* A session is left alone for too long, or gets too old.
Age ==
    /\ "age" \in Breaks /\ broken < MaxBreaks /\ broken' = broken + 1
    /\ \E s \in Opened, age \in {"idle", "worn"} :
         session[s].age = "fresh" /\ session' = [session EXCEPT ![s].age = age]
    /\ UNCHANGED <<core, ops, builds, left, calls, turns>>

----------------------------------------------------------------------------
(* The page.  Every request passes the guard: a writing one needs a permit *)
(* that fits and takes it; a page is loaded from the binding only.         *)

matches_Anywhere(p, origin) == ~ ops[p].stale
matches(p, origin) == ~ ops[p].stale /\ origin = WriteOrigin
consume_Kept(s, p) == session[s].permits
consume(s, p) == session[s].permits \ {p}

Writes(s, origin) ==
    /\ session[s].wired /\ Len(left) < MaxWrites
    /\ \E p \in session[s].permits :
         /\ matches(p, origin)
         /\ session' = [session EXCEPT ![s].permits = consume(s, p)]
         /\ left' = Append(left, [sess |-> s, origin |-> origin, op |-> p])
    /\ UNCHANGED <<core, ops, builds, bounds>>

allows_Any(page) == TRUE
allows(page) == Pages[page].origin \in Allowed

\* The page turns into another; signed in it is only after a write has left.
Turn(s) ==
    /\ session[s].up /\ session[s].wired /\ turns < MaxTurns /\ turns' = turns + 1
    /\ \E to \in DOMAIN Pages :
         /\ <<session[s].page, to>> \in Turns /\ allows(to)
         /\ Pages[to].success => \E i \in DOMAIN left : left[i].sess = s
         /\ session' = [session EXCEPT ![s].page = to]
    /\ UNCHANGED <<core, ops, builds, left, calls, broken>>

\* The 45 seconds of a permit nobody revoked.
Expire(o) ==
    /\ ops[o].pc = "over" /\ ~ ops[o].stale /\ \E s \in Sessions : o \in session[s].permits
    /\ ops' = [ops EXCEPT ![o].stale = TRUE]
    /\ UNCHANGED session /\ Busy

----------------------------------------------------------------------------
Init ==
    /\ caller = [c \in Callers |-> Away(NONE, 0)]
    /\ pending = <<>> /\ asked = <<>> /\ outstanding = 0 /\ vault = "stored"
    /\ ops = <<>> /\ session = <<>> /\ builds = [core |-> 1, worker |-> 1] /\ left = <<>>
    /\ calls = 0 /\ turns = 0 /\ broken = 0

Asks(c) ==
    Open(c) \/ open_session(c) \/ navigate(c) \/ Read(c) \/ Close(c) \/ Told(c) \/ Login(c) \/ prepare_login(c)
    \/ Resume(c) \/ login(c) \/ Logged(c) \/ TimeOut(c)

Works(o) ==
    Reap(o) \/ Wiped(o) \/ _op_ping(o) \/ _op_open_session(o) \/ Started(o) \/ _op_navigate(o)
    \/ Loaded(o) \/ _op_read(o) \/ Evaluated(o) \/ Scrubbed(o) \/ _op_probe_action(o) \/ Probed(o)
    \/ _op_execute(o) \/ Checked(o) \/ Filled(o) \/ Clicked(o) \/ Settled(o) \/ Breaks_off(o)
    \/ Fails_to_start(o) \/ _op_close_session(o) \/ Closed(o) \/ _op_restart(o) \/ Sweep(o) \/ Exit(o) \/ Expire(o)

Next ==
    \/ \E c \in Callers : Asks(c)
    \/ \E o \in DOMAIN ops : Works(o)
    \/ \E s \in Sessions : Turn(s) \/ \E origin \in Origins : Writes(s, origin)
    \/ Decide \/ Keychain \/ Restart \/ Deliver \/ Age

Spec == Init /\ [][Next]_vars

----------------------------------------------------------------------------
(* What must hold.                                                         *)

Executes == {o \in DOMAIN ops : ops[o].kind = "execute"}

\* Each approval is carried out once, and only what was approved.
ApprovedOnce ==
    /\ \A o \in Executes : ops[o].ap \in DOMAIN asked /\ asked[ops[o].ap].state = "claimed"
    /\ \A o, q \in Executes : o # q => ops[o].ap # ops[q].ap

\* Whether what c is about to have carried out, or has, is what it described and the owner approved.
AsApproved(c) ==
    CASE caller[c].pc = "asking" -> caller[c].sess \in DOMAIN pending => pending[caller[c].sess] = caller[c].man
      [] caller[c].pc = "claimed" -> caller[c].sess \in DOMAIN pending =>
                                         pending[caller[c].sess] = asked[caller[c].ap].man
      [] caller[c].pc = "logging" -> ops[caller[c].op].man = asked[caller[c].ap].man
      [] OTHER -> TRUE

\* What is carried out is what the owner was shown and approved, from the description to the wire:
\* only another task that describes the same session in between puts its page under the approval
\* (login takes the pending manifest of the session, portal.py:268).
ExecutedIsApproved ==
    \A c \in Callers :
        AsApproved(c) /\ ~AsApproved(c)' =>
            \E d \in Callers \ {c} : /\ caller[d].pc = "probing" /\ caller'[d].pc = "asking"
                                     /\ caller[d].sess = caller[c].sess

\* A secret is typed into pages of the binding only, whatever the page turns into under our hands.
SecretsStayInBinding == \A o \in Executes : \A p \in ops[o].on : Pages[p].origin \in Allowed

\* At most one writing request leaves for an approved login, to the place the binding names, and
\* only of one whose page had not drifted.
OneWritePerApproval ==
    /\ \A i \in DOMAIN left : left[i].origin = WriteOrigin /\ ops[left[i].op].out # "approval_drift"
    /\ \A i, j \in DOMAIN left : i # j => ops[left[i].op].ap # ops[left[j].op].ap

\* A permit nobody used is open only while its execute is at the click or has broken off there.
PermitsAreShort ==
    \A s \in Sessions : \A p \in session[s].permits :
        ops[p].pc \in {"click", "settle"} \/ (ops[p].pc = "over" /\ ops[p].out = "failed")

\* What is read on a session that lives shows no secret that was typed into it.
ReadsAreScrubbed ==
    \A o \in DOMAIN ops : ops[o].pc = "over" /\ ops[o].sess \in Opened => ops[o].shows = {}

\* A login counts as done when the page showed so after it, not because of an earlier one.
LoginIsMeasured ==
    \A o \in Executes : /\ ops[o].out = "signed_in" => success(o)
                        /\ ops[o].out = "not_signed_in" => ~ success(o)

\* No session is opened by code older than what the opening was verified against.
NoSessionOnOldCode == \A s \in Sessions : session[s].build >= session[s].since

\* Who closes a session leaves no approval behind that could still be given, whichever task asked for
\* it and whatever was asked before.  (A description that is under way may ask afterwards.)
NoTrap ==
    (\E c \in Callers : caller[c].pc = "away" /\ caller'[c].pc = "closing") =>
        \A a \in DOMAIN asked' : asked'[a].state # "pending"

\* The form that is filled is the approved one when the first secret is sent, and stays it unless the
\* page turns under our hands before the last one is typed (portal/service.py, _op_execute).
AsCompared(o) ==
    ops[o].pc = "fill" => Page(ops[o].sess).form = Pages[ops[o].man].form /\ ~drifted(o)
FilledAsCompared ==
    \A o \in DOMAIN ops :
        AsCompared(o) /\ ~AsCompared(o)' => session'[ops[o].sess].page # session[ops[o].sess].page

\* Every browser that is up belongs to a session on the list, or being opened, or being taken down
\* (or is lost: see below).
NoOrphan ==
    \A s \in Sessions : session[s].up => \/ session[s].life \in {"starting", "open", "lost"}
                                         \/ \E o \in DOMAIN ops : ops[o].wipe = s

----------------------------------------------------------------------------
(* What the code or its comments promise and does not hold; see README.    *)

\* "The page has changed since you agreed - I did nothing" (capabilities/portal.py): the secrets go
\* to the page that was approved.
SecretsOnTheApproved == \A o \in Executes : \A p \in ops[o].on : Pages[p].form = Pages[ops[o].man].form

\* "A permit left lying would be an open window" (service.py): it goes in any case.
NoPermitLeftOpen == \A s \in Sessions : \A p \in session[s].permits : ops[p].pc # "over"

\* "An expired login gives the same page as one that never was" (status): status is of a signed-in page.
StatusIsCurrent == \A o \in DOMAIN ops : ops[o].kind = "read" /\ ops[o].out = "signed_in" => success(o)

\* What was refused before anything was typed is not told as an outcome nobody knows.
NothingDoneIsToldSo ==
    \A c \in Callers : caller[c].told = "unknown" /\ caller[c].op > 0 /\ Reply(c).kind = "execute"
                       => Reply(c).out # "approval_drift"

\* A restart "must not leave a signed-in profile behind", nor may an opening that fails.
NoBrowserIsLost == \A s \in Sessions : session[s].life # "lost"

\* Nothing read ever shows a typed secret, also while the session is being destroyed.
NothingIsReadOut == \A o \in DOMAIN ops : ops[o].pc = "over" => ops[o].shows = {}
=============================================================================
