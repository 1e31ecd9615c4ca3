----------------------------- MODULE Telephony -----------------------------
(***************************************************************************)
(* Telephone calls to people: the confirmed contacts                       *)
(* (communication/bindings.py, capabilities/communication.py), a call from *)
(* its description to its outcome (capabilities/telephony.py), the ledger  *)
(* of calls (telephony/ledger.py), and the provider as telephony/provider  *)
(* and upstream read it.  The approval is the one of CapabilityCall; here  *)
(* a request shows something, a human says yes, one run consumes it.       *)
(***************************************************************************)
EXTENDS Integers, Sequences, FiniteSets, TLC

CONSTANTS
    Wishes,         \* what may be asked: calls [kind, alias, msg], bindings [kind, alias, name, num]
    Book,           \* the contacts there are at first
    Dialogues,      \* who may ask at once
    MaxRequests, MaxRings, MaxCrashes,
    NONE

VARIABLES
    book,           \* contacts.sqlite3: alias -> [name, num, version], num NONE without a telephone
    written,        \* which request wrote which version over what it saw
    req,            \* requests: [wish, shown, state]
    described,      \* _described: alias -> what was described last
    op,             \* the dialogues
    rows,           \* telephony.sqlite3, by request
    conv,           \* the provider's conversations
    core,           \* NONE, or the calls startup recovery still has to look at
    crashes

vars == <<book, written, req, described, op, rows, conv, core, crashes>>

Aliases == {w.alias : w \in Wishes}
TERMINAL == {"NO_ANSWER", "BUSY", "COMPLETED", "FAILED"}
States == TERMINAL \cup {"PREPARED", "DIALING", "UNKNOWN"}
Delivery == {"NOT_DELIVERED", "DELIVERED_BY_AGENT", "UNKNOWN"}
Resting == [pc |-> "idle", req |-> 0, last |-> NONE, again |-> FALSE]

TypeOK ==
    /\ \A r \in DOMAIN req : req[r].wish \in Wishes /\ req[r].state \in {"PENDING", "APPROVED", "SPENT"}
    /\ \A r \in DOMAIN rows : /\ r \in DOMAIN req /\ rows[r].state \in States
                              /\ rows[r].delivery \in Delivery /\ rows[r].thread \in 0..Len(conv)
    /\ \A d \in Dialogues : op[d].pc \in {"idle", "run", "dial", "poll"} /\ op[d].req \in 0..Len(req)
    /\ crashes \in 0..MaxCrashes

----------------------------------------------------------------------------
(* What a request shows, and what its run compares.                        *)

Bound(a) == a \in DOMAIN book
WithPhone(a) == Bound(a) /\ book[a].num # NONE
same_binding(a, w) == Bound(a) /\ book[a].name = w.name /\ book[a].num = w.num

\* describe_call with _fingerprint; describe_confirm_binding with _shown.
Shown(w) ==
    IF w.kind = "call" THEN [name |-> book[w.alias].name, num |-> book[w.alias].num, msg |-> w.msg]
    ELSE [name |-> w.name, num |-> w.num,
          before |-> IF Bound(w.alias) THEN book[w.alias] ELSE NONE]

\* The description is also the check that the wish can be had at all.
Describable(w) == IF w.kind = "call" THEN WithPhone(w.alias) ELSE ~same_binding(w.alias, w)

Describes(w) == described' = IF w.kind = "call" THEN (w.alias :> Shown(w)) @@ described ELSE described

\* A run that is under way and whose alias is described again is marked: that
\* is seen by nobody in the code.
Marked(w) ==
    LET same(d) == w.kind = "call" /\ op[d].pc = "run" /\ req[op[d].req].wish.alias = w.alias
    IN  [d \in Dialogues |-> [op[d] EXCEPT !.again = (@ \/ same(d))]]

----------------------------------------------------------------------------
(* The wish comes in.                                                      *)

Ends(d) == op' = [op EXCEPT ![d] = Resting]

\* A new request.
Ask(d, w) ==
    /\ core = NONE /\ op[d].pc = "idle" /\ Len(req) < MaxRequests
    /\ Describable(w) /\ Describes(w)
    /\ req' = Append(req, [wish |-> w, shown |-> Shown(w), state |-> "PENDING"])
    /\ op' = Marked(w)
    /\ UNCHANGED <<book, written, rows, conv, core, crashes>>

\* The human, on the phone.
Approve(r) ==
    /\ req[r].state = "PENDING" /\ req' = [req EXCEPT ![r].state = "APPROVED"]
    /\ UNCHANGED <<book, written, described, op, rows, conv, core, crashes>>

\* The same wish again: it is described anew and compared with what was approved.
Resume(d, r) ==
    /\ core = NONE /\ op[d].pc = "idle" /\ req[r].state = "APPROVED"
    /\ Describable(req[r].wish) /\ Describes(req[r].wish)
    /\ Shown(req[r].wish) = req[r].shown
    /\ op' = [Marked(req[r].wish) EXCEPT ![d] = [@ EXCEPT !.pc = "run", !.req = r]]
    /\ UNCHANGED <<book, written, req, rows, conv, core, crashes>>

\* The claim: one run of the handler per request, hence per execution.
Claims(r) == req[r].state = "APPROVED" /\ req' = [req EXCEPT ![r].state = "SPENT"]

TooLate(d) ==
    /\ op[d].pc = "run" /\ req[op[d].req].state # "APPROVED" /\ Ends(d)
    /\ UNCHANGED <<book, written, req, described, rows, conv, core, crashes>>

----------------------------------------------------------------------------
(* A binding is written.                                                   *)

\* Mutant: the state it was shown over is not looked at again.
MayBind_Anyway(r) == TRUE

\* confirm_binding: what it would show now is what was approved, and confirm
\* finds under its lock the state that was read.
MayBind(r) == Shown(req[r].wish) = req[r].shown

confirm_binding(d) ==
    LET r == op[d].req
        w == req[r].wish
    IN  /\ op[d].pc = "run" /\ w.kind = "bind" /\ Claims(r) /\ Ends(d)
        /\ IF MayBind(r)
           THEN LET old == IF Bound(w.alias) THEN book[w.alias].version ELSE 0 IN
                /\ book' = (w.alias :> [name |-> w.name, num |-> w.num, version |-> old + 1]) @@ book
                /\ written' = Append(written, [req |-> r, alias |-> w.alias,
                                               over |-> IF Bound(w.alias) THEN book[w.alias] ELSE NONE])
           ELSE UNCHANGED <<book, written>>
        /\ UNCHANGED <<described, rows, conv, core, crashes>>

----------------------------------------------------------------------------
(* A call is dialled.                                                      *)

\* Mutant: the handler calls whoever the alias now means.
MayDial_Now(w) == WithPhone(w.alias) /\ w.alias \in DOMAIN described

MayDial(w) == /\ WithPhone(w.alias) /\ w.alias \in DOMAIN described
              /\ described[w.alias] = Shown(w)

\* The intent is in the ledger before anything leaves.
prepare(r) == rows' = (r :> [state |-> "PREPARED", delivery |-> "NOT_DELIVERED", thread |-> 0,
                              num |-> book[req[r].wish.alias].num]) @@ rows

call(d) ==
    LET r == op[d].req IN
    /\ op[d].pc = "run" /\ req[r].wish.kind = "call" /\ Claims(r)
    /\ IF MayDial(req[r].wish)
       THEN prepare(r) /\ op' = [op EXCEPT ![d].pc = "dial"]
       ELSE Ends(d) /\ UNCHANGED rows
    /\ UNCHANGED <<book, written, described, conv, core, crashes>>

\* start_call of the provider: begun and named, refused (every status from 400 on), or
\* neither known: a redirect, a silence, a credential that is not given.
Answers == {"started", "refused", "ambiguous"}

\* The wire: whatever is answered, it may ring.
Wire == {w \in [answer : Answers, rings : BOOLEAN] : w.answer = "started" => w.rings}

\* record_outcome.
Records(r, state, delivery) == rows' = [rows EXCEPT ![r].state = state, ![r].delivery = delivery]

\* Mutant: a conversation may be attached twice.
Attachable_Any(v) == TRUE

\* attach_conversation, under a unique index.
Attachable(v) == \A s \in DOMAIN rows : rows[s].thread # v

start_call(d) ==
    LET r == op[d].req
        new == [req |-> r, num |-> rows[r].num, msg |-> req[r].wish.msg,
                again |-> op[d].again,
                status |-> "pending", accepted |-> FALSE, said |-> FALSE, err |-> ""]
    IN  /\ op[d].pc = "dial"
        /\ \E a \in Wire :
             /\ a.rings => Len(conv) < MaxRings
             /\ conv' = IF a.rings THEN Append(conv, new) ELSE conv
             /\ CASE a.answer = "ambiguous" -> Records(r, "UNKNOWN", "UNKNOWN") /\ Ends(d)
                  [] a.answer = "refused" -> Records(r, "FAILED", "NOT_DELIVERED") /\ Ends(d)
                  [] a.answer = "started" ->
                       \E v \in {Len(conv')} \cup ({rows[s].thread : s \in DOMAIN rows} \ {0}) :
                         IF Attachable(v)
                         THEN /\ rows' = [rows EXCEPT ![r].thread = v]
                              /\ op' = [op EXCEPT ![d].pc = "poll"]
                         ELSE Records(r, "UNKNOWN", "UNKNOWN") /\ Ends(d)
        /\ UNCHANGED <<book, written, req, described, core, crashes>>

----------------------------------------------------------------------------
(* The other end.                                                          *)

\* Somebody answers, the message is said, the line is busy, the call ends.
Happens(v) ==
    /\ conv[v].status = "pending"
    /\ \E c \in {[conv[v] EXCEPT !.accepted = TRUE], [conv[v] EXCEPT !.said = TRUE],
                 [conv[v] EXCEPT !.err = "BUSY"], [conv[v] EXCEPT !.err = "NO_ANSWER"],
                 [conv[v] EXCEPT !.status = "done"], [conv[v] EXCEPT !.status = "failed"]} :
         /\ c # conv[v] /\ (c.said => c.accepted) /\ (c.err # "" => ~c.accepted)
         /\ (conv[v].err # "" => c.err = conv[v].err)
         /\ conv' = [conv EXCEPT ![v] = c]
    /\ UNCHANGED <<book, written, req, described, op, rows, core, crashes>>

----------------------------------------------------------------------------
(* Its outcome.                                                            *)

\* Mutant: a call that failed is a failure, picked up or not.
call_state_from_provider_Failed(c) ==
    CASE c.err # "" -> c.err
      [] c.err = "" /\ c.status = "pending" -> "DIALING"
      [] c.err = "" /\ c.status = "failed" -> "FAILED"
      [] OTHER -> IF c.accepted THEN "COMPLETED" ELSE "NO_ANSWER"

\* A known reason first, then whether somebody picked up, then the status.
call_state_from_provider(c) ==
    CASE c.err # "" -> c.err
      [] c.err = "" /\ c.status = "pending" -> "DIALING"
      [] OTHER -> IF c.accepted THEN "COMPLETED"
                  ELSE IF c.status = "failed" THEN "FAILED" ELSE "NO_ANSWER"

Finished(c) == c.status \in {"done", "failed"}

\* message_evidence: shown, refuted by an agent that said nothing, or neither.
Evidence(c) == IF c.said THEN {"said", "unclear"} ELSE {"silent", "unclear"}

delivery_state_from_evidence(state, e) ==
    IF state \notin TERMINAL THEN "UNKNOWN"
    ELSE IF state \in {"NO_ANSWER", "BUSY", "FAILED"} \/ e = "silent" THEN "NOT_DELIVERED"
    ELSE IF e = "unclear" THEN "UNKNOWN" ELSE "DELIVERED_BY_AGENT"

\* _close.
Close(r, c) == \E e \in Evidence(c) :
    Records(r, call_state_from_provider(c), delivery_state_from_evidence(call_state_from_provider(c), e))

\* _await_outcome: one look at the provider, which may not answer.
Poll(d) ==
    LET r == op[d].req
        c == conv[rows[r].thread]
    IN  /\ op[d].pc = "poll"
        /\ \/ Finished(c) /\ Close(r, c) /\ Ends(d)
           \/ /\ \E l \in {NONE, call_state_from_provider(c)} :
                   (l # NONE => ~Finished(c)) /\ op' = [op EXCEPT ![d].last = l]
              /\ UNCHANGED rows
        /\ UNCHANGED <<book, written, req, described, conv, core, crashes>>

\* Mutant: a call nobody heard the end of has failed.
GiveUp_Failed(d) ==
    /\ op[d].pc = "poll" /\ Records(op[d].req, "FAILED", "UNKNOWN") /\ Ends(d)
    /\ UNCHANGED <<book, written, req, described, conv, core, crashes>>

\* The budget is used up: the last word if it was a final one, else unknown.
GiveUp(d) ==
    /\ op[d].pc = "poll"
    /\ Records(op[d].req, IF op[d].last \in TERMINAL THEN op[d].last ELSE "UNKNOWN", "UNKNOWN")
    /\ Ends(d)
    /\ UNCHANGED <<book, written, req, described, conv, core, crashes>>

----------------------------------------------------------------------------
(* The core dies, and looks at what was open when it comes back.           *)

unfinished == {r \in DOMAIN rows : rows[r].thread # 0 /\ rows[r].state \notin TERMINAL}

Crash ==
    /\ crashes < MaxCrashes /\ crashes' = crashes + 1
    /\ described' = <<>> /\ op' = [d \in Dialogues |-> Resting] /\ core' = unfinished
    /\ UNCHANGED <<book, written, req, rows, conv>>

\* recover_open_calls, one by one; nothing listens before it is through.
Recover(r) ==
    /\ core # NONE /\ r \in core /\ core' = core \ {r}
    /\ \/ UNCHANGED rows
       \/ Finished(conv[rows[r].thread]) /\ Close(r, conv[rows[r].thread])
    /\ UNCHANGED <<book, written, req, described, op, conv, crashes>>

\* Through, or out of time.
Up ==
    /\ core # NONE /\ core' = NONE
    /\ UNCHANGED <<book, written, req, described, op, rows, conv, crashes>>

Init ==
    /\ book = Book /\ written = <<>> /\ req = <<>> /\ described = <<>> /\ rows = <<>> /\ conv = <<>>
    /\ op = [d \in Dialogues |-> Resting] /\ core = NONE /\ crashes = 0

Next ==
    \/ \E d \in Dialogues :
         \/ \E w \in Wishes : Ask(d, w)
         \/ \E r \in DOMAIN req : Resume(d, r)
         \/ TooLate(d) \/ confirm_binding(d) \/ call(d) \/ start_call(d) \/ Poll(d) \/ GiveUp(d)
    \/ \E r \in DOMAIN req : Approve(r)
    \/ \E v \in DOMAIN conv : Happens(v)
    \/ \E r \in DOMAIN rows : Recover(r)
    \/ Crash \/ Up

Spec == Init /\ [][Next]_vars

----------------------------------------------------------------------------
(* What must hold.                                                         *)

\* Whoever is rung is rung once per approval and hears the message that was
\* shown; the number is the one that was shown, whatever is bound between the
\* look and the wire, as long as the alias is not described again in between
\* (MayDial, Resume: "binding_changed_after_approval").
RingsAsShown ==
    \A v \in DOMAIN conv :
        LET r == req[conv[v].req] IN
        /\ r.state = "SPENT" /\ r.shown.msg = conv[v].msg
        /\ ~conv[v].again => r.shown.num = conv[v].num
        /\ \A u \in DOMAIN conv : conv[u].req = conv[v].req => u = v

\* Nothing rings that is not in the ledger, and no two calls read their
\* outcome from one conversation (prepare, attach_conversation).
RingIsOnRecord ==
    /\ \A v \in DOMAIN conv : conv[v].req \in DOMAIN rows
    /\ \A r, s \in DOMAIN rows : rows[r].thread # 0 /\ rows[r].thread = rows[s].thread => r = s

\* Whom an alias means was written over exactly the state the owner was shown
\* with the request, also when two changes of one alias are approved at once.
BoundAsShown ==
    \A i \in DOMAIN written : written[i].over = req[written[i].req].shown.before

\* An end in the ledger is the end the provider knows; a message is called
\* delivered only when it was said to somebody, and called not delivered only
\* when it was not (_close, call_state_from_provider, GiveUp).
OutcomeIsTrue ==
    \A r \in DOMAIN rows :
        LET c == conv[rows[r].thread] IN
        rows[r].thread # 0 /\ rows[r].state \in TERMINAL =>
            /\ rows[r].state = call_state_from_provider(c)
            /\ rows[r].delivery = "DELIVERED_BY_AGENT" => c.said
            /\ rows[r].delivery = "NOT_DELIVERED" => ~c.said

\* Does not hold: _described is kept by alias and not by request, so another
\* wish for the same call, described after the number has changed, lets a run
\* through that was approved with the old number.
RingsTheApproved == \A v \in DOMAIN conv : req[conv[v].req].shown.num = conv[v].num

\* Does not hold: every status from 400 on is booked as a refusal, a 502 that
\* arrives after the provider has dialled as well (provider.py:38 speaks of 4xx).
FailedNeverRang ==
    \A v \in DOMAIN conv : LET r == conv[v].req IN r \in DOMAIN rows /\ rows[r].thread = 0 => rows[r].state # "FAILED"

\* Does not hold: a row begins as NOT_DELIVERED, and a core that dies while it
\* dials leaves it there for good, whatever was said.
NotDeliveredIsSo ==
    \A v \in DOMAIN conv : LET r == conv[v].req IN
        r \in DOMAIN rows /\ rows[r].delivery = "NOT_DELIVERED" /\ core = NONE
        /\ (\A d \in Dialogues : op[d].req # r) => ~conv[v].said

=============================================================================
