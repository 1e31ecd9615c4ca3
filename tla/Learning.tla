------------------------------ MODULE Learning ------------------------------
(***************************************************************************)
(* What is learned from conversations (src/solvio/memory/adaptive/): the   *)
(* turns that are offered, the worker that takes them one by one, what it  *)
(* has heard and not yet decided, and the owner who confirms, declines,    *)
(* corrects, forgets or purges in the app (capabilities/memory.py).        *)
(* Everything runs on one event loop: each step ends at an await.          *)
(***************************************************************************)
EXTENDS Integers, Sequences, FiniteSets

CONSTANTS
    Turns,          \* what the owner may say
    Known,          \* the records there are at first
    Told,           \* what is suppressed at first
    Taps,           \* what the app may ask
    Owners,         \* the requests of the app
    QUEUE_MAX, MAX_OPEN,
    MaxTurns, MaxCrashes,
    NONE

VARIABLES
    recs,           \* the records, in the order they were stored
    cands,          \* candidates.sqlite3
    supp,           \* suppressions
    queue,          \* the turns that wait
    w,              \* the worker
    app,            \* the requests of the app
    said,           \* turns so far
    crashes

vars == <<recs, cands, supp, queue, w, app, said, crashes>>

Open == {"gathering", "ask_pending", "contested"}
Terminal == {"adopted", "declined", "expired"}
Allowed == [gathering |-> {"gathering", "adopted", "ask_pending", "contested", "expired"},
            ask_pending |-> {"adopted", "declined", "expired"},
            contested |-> {"adopted", "declined", "expired"},
            adopted |-> {}, declined |-> {}, expired |-> {}]

AUTO_STATED == {"fact", "habit"}
AUTO_INFERRED == {"habit"}
ASK_ONLY == {"rule"}
INFERRED_MIN_CONVERSATIONS == 2

Resting == [pc |-> "idle", turn |-> NONE, i |-> 1, sup |-> FALSE, conflict |-> NONE, act |-> "", target |-> 0,
            cand |-> 0, rec |-> 0]
Waiting == [pc |-> "idle", op |-> "", id |-> 0, snap |-> NONE, rec |-> 0]

TypeOK ==
    /\ \A r \in DOMAIN recs : /\ recs[r].source \in {"explicit", "confirmed", "recorded", "learned"}
                              /\ recs[r].on \in {"active", "forgotten", "superseded", "purged"}
                              /\ recs[r].over \in 0..Len(recs) /\ recs[r].cand \in 0..Len(cands)
    /\ \A c \in DOMAIN cands : /\ cands[c].state \in Open \cup Terminal
                               /\ cands[c].target \in 0..Len(recs) /\ cands[c].memory \in 0..Len(recs)
    /\ Len(queue) <= QUEUE_MAX /\ said \in 0..MaxTurns
    /\ \A c, d \in DOMAIN cands : {cands[c].state, cands[d].state} \subseteq Open /\ cands[c].key = cands[d].key => c = d

----------------------------------------------------------------------------
(* What a turn and a proposal are judged by.                               *)

\* The channel says enough about the speaker, and the owner did not ask to remember it.
is_eligible(t) == t.owner
SecretShaped(p) == "secret" \in p.marks
ModelFlagged(p) == "flagged" \in p.marks
owner_self_assertion(p) == "hypothetical" \notin p.marks
is_useful(p) == "empty" \notin p.marks
is_permissive_rule(p) == "permissive" \in p.marks
Sensitive(p) == "sensitive" \in p.marks
has_supersession_marker(p) == "instead" \in p.marks

Blocked(p) == SecretShaped(p) \/ ModelFlagged(p) \/ ~owner_self_assertion(p) \/ ~is_useful(p)

\* Mutant: only what the owner asked to remember counts as theirs.
is_machine_learned_NotExplicit(r) == r.source # "explicit"

is_machine_learned(r) == r.source = "learned"

Decision(act, target) == [act |-> act, target |-> target]

Contradicting(p, conflict) ==
    IF conflict.ambiguous THEN Decision("ask", 0)
    ELSE IF conflict.user_direct THEN Decision("contest", conflict.id)
    ELSE Decision(IF p.kind = "stated" THEN "adopt" ELSE "contest", conflict.id)

decide(p, heard, suppressed, conflict) ==
    IF Blocked(p) \/ suppressed \/ (p.type \in ASK_ONLY /\ is_permissive_rule(p)) THEN Decision("discard", 0)
    ELSE IF p.type \in ASK_ONLY THEN Decision("ask", 0)
    ELSE IF conflict # NONE THEN Contradicting(p, conflict)
    ELSE IF Sensitive(p) THEN Decision("ask", 0)
    ELSE IF p.kind = "stated" THEN Decision(IF p.type \in AUTO_STATED THEN "adopt" ELSE "ask", 0)
    ELSE Decision(IF p.type \in AUTO_INFERRED /\ heard >= INFERRED_MIN_CONVERSATIONS THEN "adopt" ELSE "gather", 0)

\* Mutant: every mention counts.
independent_conversations_Mentions(c) == Cardinality(c.evidence)

independent_conversations(c) ==
    LET Lesser(a, b) == IF a < b THEN a ELSE b IN
    Lesser(Cardinality({e.conv : e \in c.evidence}), Cardinality({e.day : e \in c.evidence}))

----------------------------------------------------------------------------
(* The records and the candidates.                                         *)

Active(k) == {r \in DOMAIN recs : recs[r].key = k /\ recs[r].on = "active"}
There(r) == r \in DOMAIN recs /\ recs[r].on # "purged"
OpenByKey(k) == {c \in DOMAIN cands : cands[c].key = k /\ cands[c].state \in Open}
OpenCount == Cardinality({c \in DOMAIN cands : cands[c].state \in Open})

\* Stored, and what it supersedes marked, in one transaction.
Stored(key, source, kind, cand, over) ==
    Append(IF over = 0 THEN recs ELSE [recs EXCEPT ![over].on = IF @ = "active" THEN "superseded" ELSE @],
           [key |-> key, source |-> source, kind |-> kind, cand |-> cand, over |-> over, on |-> "active"])

MayGo(c, s) == s \in Allowed[cands[c].state]
Moved(c, s, rec) == [cands EXCEPT ![c].state = s, ![c].memory = IF s = "adopted" THEN rec ELSE @]

Prop == w.turn.props[w.i]
AtW(pc) == w.pc = pc
NextProp == IF w.i < Len(w.turn.props) THEN [Resting EXCEPT !.pc = "sup", !.turn = w.turn, !.i = w.i + 1] ELSE Resting

----------------------------------------------------------------------------
(* A turn.                                                                 *)

\* observe_turn never blocks the voice: a full queue drops the turn.
Offer(t) ==
    /\ said < MaxTurns /\ said' = said + 1
    /\ queue' = IF is_eligible(t) /\ Len(queue) < QUEUE_MAX
                THEN Append(queue, [msg |-> said', conv |-> t.conv, day |-> t.day, props |-> t.props]) ELSE queue
    /\ UNCHANGED <<recs, cands, supp, w, app, crashes>>

\* The extractor proposes, or fails and the turn is over.
Take ==
    /\ AtW("idle") /\ queue # <<>> /\ queue' = Tail(queue)
    /\ w' \in {[Resting EXCEPT !.pc = "sup", !.turn = Head(queue)], Resting}
    /\ UNCHANGED <<recs, cands, supp, app, said, crashes>>

Suppressed ==
    /\ AtW("sup") /\ w' = [w EXCEPT !.pc = "conflict", !.sup = Prop.key \in supp]
    /\ UNCHANGED <<recs, cands, supp, queue, app, said, crashes>>

\* Which record is meant, by likeness of texts: any, none, or it is ambiguous.
Conflicts ==
    IF ~has_supersession_marker(Prop) THEN {NONE}
    ELSE {NONE, [ambiguous |-> TRUE, id |-> 0, user_direct |-> FALSE]}
         \cup {[ambiguous |-> FALSE, id |-> r, user_direct |-> ~is_machine_learned(recs[r])] :
               r \in {x \in DOMAIN recs : recs[x].on = "active"}}

FindConflict ==
    /\ AtW("conflict")
    /\ \E conflict \in Conflicts :
          LET d == decide(Prop, 0, w.sup, conflict) IN
          w' = IF d.act = "discard" THEN NextProp
               ELSE [w EXCEPT !.conflict = conflict, !.act = d.act, !.target = d.target,
                              !.pc = IF d.act = "contest" THEN "observe" ELSE "twin"]
    /\ UNCHANGED <<recs, cands, supp, queue, app, said, crashes>>

\* What is known already is reinforced: it is not stored a second time.
Twin ==
    /\ AtW("twin")
    /\ IF Active(Prop.key) = {} THEN w' = [w EXCEPT !.pc = "observe"]
       ELSE \E r \in Active(Prop.key) : w' = [w EXCEPT !.pc = "promote", !.rec = r]
    /\ UNCHANGED <<recs, cands, supp, queue, app, said, crashes>>

Promote ==
    /\ AtW("promote")
    /\ w' = [w EXCEPT !.cand = IF OpenByKey(Prop.key) = {} THEN 0 ELSE CHOOSE c \in OpenByKey(Prop.key) : TRUE,
                      !.pc = "promoted"]
    /\ UNCHANGED <<recs, cands, supp, queue, app, said, crashes>>

Promoted ==
    /\ AtW("promoted")
    /\ cands' = IF w.cand # 0 /\ MayGo(w.cand, "adopted") THEN Moved(w.cand, "adopted", w.rec) ELSE cands
    /\ w' = IF is_machine_learned(recs[w.rec]) THEN [w EXCEPT !.pc = "reinforce"] ELSE NextProp
    /\ UNCHANGED <<recs, supp, queue, app, said, crashes>>

\* Another entry in the chain of where the record is from; a record that is gone by now refuses.
Reinforce == AtW("reinforce") /\ w' = NextProp /\ UNCHANGED <<recs, cands, supp, queue, app, said, crashes>>

Mention == [conv |-> w.turn.conv, day |-> w.turn.day, msg |-> w.turn.msg]

\* One open candidate for each statement; a turn is evidence for it once.
Upserted ==
    IF OpenByKey(Prop.key) # {}
    THEN [cands EXCEPT ![CHOOSE c \in OpenByKey(Prop.key) : TRUE].evidence =
              IF \E e \in @ : e.msg = w.turn.msg THEN @ ELSE @ \cup {Mention}]
    ELSE Append(cands, [key |-> Prop.key, kind |-> Prop.kind, state |-> "gathering", evidence |-> {Mention},
                        target |-> 0, memory |-> 0])

Heard(c) == CHOOSE i \in DOMAIN c : c[i].key = Prop.key /\ c[i].state \in Open

After(act) == CASE act = "adopt" -> "adopt" [] act = "ask" -> "ask" [] act = "contest" -> "contest"

Observe ==
    /\ AtW("observe")
    /\ IF OpenByKey(Prop.key) = {} /\ OpenCount >= MAX_OPEN THEN w' = NextProp /\ UNCHANGED cands
       ELSE LET c == Heard(cands')
                d == IF Prop.kind = "inferred"
                     THEN decide(Prop, independent_conversations(cands'[c]), w.sup, w.conflict)
                     ELSE Decision(w.act, w.target) IN
            /\ cands' = Upserted
            /\ w' = IF d.act = "gather" THEN NextProp
                    ELSE [w EXCEPT !.cand = c, !.act = d.act, !.target = d.target, !.pc = After(d.act)]
    /\ UNCHANGED <<recs, supp, queue, app, said, crashes>>

\* A step the candidate's state does not allow raises, and the rest of the turn is lost.
Asks(pc, state) ==
    /\ AtW(pc)
    /\ IF MayGo(w.cand, state)
       THEN cands' = [Moved(w.cand, state, 0) EXCEPT ![w.cand].target = IF w.target # 0 THEN w.target ELSE @] /\ w' = NextProp
       ELSE w' = Resting /\ UNCHANGED cands
    /\ UNCHANGED <<recs, supp, queue, app, said, crashes>>

Ask == Asks("ask", "ask_pending")
Contest == Asks("contest", "contested")

\* The record that is to give way is read again, and must still be one that was learned.
Adopt ==
    /\ AtW("adopt")
    /\ w' = IF w.target # 0 /\ ~(There(w.target) /\ is_machine_learned(recs[w.target])) THEN NextProp
            ELSE [w EXCEPT !.pc = "store"]
    /\ UNCHANGED <<recs, cands, supp, queue, app, said, crashes>>

StoreLearned ==
    /\ AtW("store")
    /\ IF w.target # 0 /\ ~There(w.target) THEN w' = NextProp /\ UNCHANGED recs
       ELSE /\ recs' = Stored(Prop.key, "learned", Prop.kind, w.cand, w.target)
            /\ w' = [w EXCEPT !.pc = "settle", !.rec = Len(recs')]
    /\ UNCHANGED <<cands, supp, queue, app, said, crashes>>

Settle ==
    /\ AtW("settle")
    /\ IF MayGo(w.cand, "adopted") THEN cands' = Moved(w.cand, "adopted", w.rec) /\ w' = NextProp
       ELSE w' = Resting /\ UNCHANGED cands
    /\ UNCHANGED <<recs, supp, queue, app, said, crashes>>

----------------------------------------------------------------------------
(* The app.                                                                *)

At(a, pc, ops) == app[a].pc = pc /\ app[a].op \in ops
Goes(a, pc) == app' = [app EXCEPT ![a].pc = pc]
OnCandidates == {"confirm", "decline"}
OnRecords == {"correct", "forget", "purge"}

Tap(a) ==
    /\ app[a].pc = "idle"
    /\ \E op \in Taps : \E i \in IF op \in OnCandidates THEN DOMAIN cands ELSE DOMAIN recs :
          app' = [app EXCEPT ![a] = [Waiting EXCEPT !.pc = "get", !.op = op, !.id = i]]
    /\ UNCHANGED <<recs, cands, supp, queue, w, said, crashes>>

GetCandidate(a) ==
    /\ At(a, "get", OnCandidates)
    /\ LET c == cands[app[a].id] IN
       app' = [app EXCEPT ![a].snap = c, ![a].pc = IF c.state \in Terminal THEN "done"
                                                   ELSE IF app[a].op = "confirm" THEN "store" ELSE "mark"]
    /\ UNCHANGED <<recs, cands, supp, queue, w, said, crashes>>

\* Mutant: the candidate is called adopted before its record is stored.
Confirm_MarkFirst(a) ==
    LET c == app[a].snap IN
    /\ At(a, "store", {"confirm"})
    /\ IF c.target # 0 /\ ~There(c.target) THEN Goes(a, "done") /\ UNCHANGED <<recs, cands>>
       ELSE IF cands[app[a].id].state # "adopted"
            THEN cands' = Moved(app[a].id, "adopted", 0) /\ UNCHANGED <<recs, app>>
       ELSE /\ recs' = Stored(c.key, "confirmed", "", app[a].id, c.target)
            /\ cands' = Moved(app[a].id, "adopted", Len(recs')) /\ Goes(a, "unsuppress")
    /\ UNCHANGED <<supp, queue, w, said, crashes>>

Confirm(a) ==
    LET c == app[a].snap IN
    /\ At(a, "store", {"confirm"})
    /\ IF c.target # 0 /\ ~There(c.target) THEN Goes(a, "done") /\ UNCHANGED recs
       ELSE /\ recs' = Stored(c.key, "confirmed", "", app[a].id, c.target)
            /\ app' = [app EXCEPT ![a].pc = "mark", ![a].rec = Len(recs')]
    /\ UNCHANGED <<cands, supp, queue, w, said, crashes>>

\* An adoption or a refusal; a candidate that has moved on meanwhile raises.
Mark(a) ==
    LET s == IF app[a].op = "confirm" THEN "adopted" ELSE "declined" IN
    /\ At(a, "mark", OnCandidates)
    /\ IF MayGo(app[a].id, s)
       THEN cands' = Moved(app[a].id, s, app[a].rec) /\ Goes(a, IF s = "adopted" THEN "unsuppress" ELSE "suppress")
       ELSE Goes(a, "done") /\ UNCHANGED cands
    /\ UNCHANGED <<recs, supp, queue, w, said, crashes>>

Unsuppress(a) ==
    /\ At(a, "unsuppress", {"confirm"}) /\ supp' = supp \ {app[a].snap.key} /\ Goes(a, "done")
    /\ UNCHANGED <<recs, cands, queue, w, said, crashes>>

\* note_forgotten: the next turn does not learn it again.
Noted(key) == supp \cup {key}

Suppress(a) ==
    /\ At(a, "suppress", OnRecords \cup {"decline"}) /\ supp' = Noted(app[a].snap.key) /\ Goes(a, "done")
    /\ UNCHANGED <<recs, cands, queue, w, said, crashes>>

GetRecord(a) ==
    /\ At(a, "get", OnRecords)
    /\ app' = [app EXCEPT ![a].snap = recs[app[a].id], ![a].pc = IF There(app[a].id) THEN "change" ELSE "done"]
    /\ UNCHANGED <<recs, cands, supp, queue, w, said, crashes>>

\* What a correction says now is a statement of its own.
Change(a) ==
    LET r == app[a].id IN
    /\ At(a, "change", OnRecords)
    /\ IF ~There(r) THEN Goes(a, IF app[a].op = "correct" THEN "done" ELSE "suppress") /\ UNCHANGED recs
       ELSE /\ Goes(a, "suppress")
            /\ recs' = CASE app[a].op = "correct" -> Stored(NONE, "recorded", "", 0, r)
                         [] app[a].op = "forget" -> [recs EXCEPT ![r].on = "forgotten"]
                         [] app[a].op = "purge" -> [recs EXCEPT ![r].on = "purged"]
    /\ UNCHANGED <<cands, supp, queue, w, said, crashes>>

----------------------------------------------------------------------------
\* What nobody decided in time.
Expire ==
    /\ \E c \in DOMAIN cands : MayGo(c, "expired") /\ cands' = Moved(c, "expired", 0)
    /\ "expire" \in Taps /\ UNCHANGED <<recs, supp, queue, w, app, said, crashes>>

\* The queue and every call in progress are lost.
Crash ==
    /\ crashes < MaxCrashes /\ crashes' = crashes + 1
    /\ queue' = <<>> /\ w' = Resting
    /\ app' = [a \in Owners |-> IF app[a].pc = "idle" THEN Waiting ELSE [Waiting EXCEPT !.pc = "done"]]
    /\ UNCHANGED <<recs, cands, supp, said>>

Init ==
    /\ recs = Known /\ cands = <<>> /\ supp = Told /\ queue = <<>> /\ w = Resting
    /\ app = [a \in Owners |-> Waiting] /\ said = 0 /\ crashes = 0

Process == \/ Take \/ Suppressed \/ FindConflict \/ Twin \/ Promote \/ Promoted \/ Reinforce \/ Observe \/ Ask \/ Contest
           \/ Adopt \/ StoreLearned \/ Settle
Calls(a) == Tap(a) \/ GetCandidate(a) \/ Confirm(a) \/ Mark(a) \/ Unsuppress(a) \/ Suppress(a) \/ GetRecord(a) \/ Change(a)

Finished == said = MaxTurns /\ queue = <<>> /\ w = Resting /\ UNCHANGED vars

Next == (\E t \in Turns : Offer(t)) \/ Process \/ (\E a \in Owners : Calls(a)) \/ Expire \/ Crash \/ Finished
Spec == Init /\ [][Next]_vars

----------------------------------------------------------------------------
(* Properties.                                                             *)

\* What the owner said, confirmed or corrected never gives way to what was learned, whatever
\* was decided before the record was read again (pipeline.py, _adopt; lifecycle.py).
NeverOverUserTruth ==
    \A r \in DOMAIN recs : recs[r].source = "learned" /\ recs[r].over # 0 => recs[recs[r].over].source = "learned"

\* Nothing is learned by inference that was not heard in two conversations on two days.
InferredNeedsTwo ==
    \A r \in DOMAIN recs : recs[r].kind = "inferred" /\ recs[r].cand # 0 =>
        \E d, e \in cands[recs[r].cand].evidence : d.conv # e.conv /\ d.day # e.day

\* An adopted candidate names a record of its statement, through every race of the worker,
\* the owner and a crash.
AdoptedIsStored ==
    \A c \in DOMAIN cands : cands[c].state = "adopted" =>
        cands[c].memory \in DOMAIN recs /\ recs[cands[c].memory].key = cands[c].key

\* Where the code does otherwise: what the owner forgets while a turn about it is worked on
\* comes back, what they decline while they confirm it is stored all the same, a crash between
\* forgetting and its note loses the note, and one candidate may be stored twice.
ForgottenStaysAway == ~(w.pc = "store" /\ Prop.key \in supp)
DeclinedIsNotStored == \A r \in DOMAIN recs : recs[r].cand # 0 => cands[recs[r].cand].state # "declined"
ForgottenIsNoted == (\A a \in Owners : app[a].pc \in {"idle", "done"}) =>
                        \A r \in DOMAIN recs : recs[r].on = "forgotten" => recs[r].key \in supp
StoredOnce == \A r, s \in DOMAIN recs : recs[r].cand # 0 /\ recs[r].cand = recs[s].cand => r = s
TurnIsHandled == [][w.pc \in {"ask", "contest"} => MayGo(w.cand, IF w.pc = "ask" THEN "ask_pending" ELSE "contested")]_w
=============================================================================
