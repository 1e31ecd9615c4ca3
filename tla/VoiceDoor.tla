----------------------------- MODULE VoiceDoor ------------------------------
(***************************************************************************)
(* Who may talk to the core, and as whom a call of a tool is made          *)
(* (src/solvio/voice_endpoint.py, voice_session_proof.py,                  *)
(* realtime/core_server.py, realtime/control.py, capabilities/             *)
(* invocation.py, tools/): the connections of satellites and phones, the   *)
(* proof of a session, the one context of an invocation all of them share, *)
(* and the local socket.                                                   *)
(***************************************************************************)
EXTENDS Integers, FiniteSets

CONSTANTS
    Satellites,     \* connections of satellites
    Phones,         \* connections of phones
    Devices,        \* paired phones
    MaxTurns,       \* bound: rounds of calls, and calls of the socket
    MaxCalls,       \* bound: calls of a round
    NONE

VARIABLES
    conn,           \* the connections, with what they are known by
    busy,           \* _busy
    nonces,         \* SessionNonces: the connections whose nonce is open
    spent,          \* history: the nonces that have proven a session
    revoked,        \* the phones whose authority is gone
    context,        \* CapabilityInvocationGate._context
    round,          \* what a connection, or the socket, is calling
    turns           \* rounds so far

vars == <<conn, busy, nonces, spent, revoked, context, round, turns>>

Conns == Satellites \cup Phones
Control == "control"
Callers == Conns \cup {Control}
Outside == [pc |-> "out", device |-> NONE, proven |-> FALSE, watch |-> FALSE]
Quiet == [pc |-> "idle", turn |-> 0, left |-> 0, as |-> NONE, told |-> NONE]
Context == [by : Callers, turn : 1..MaxTurns, origin : {"voice", "proven", "local"}]

TypeOK ==
    /\ \A c \in Conns : /\ conn[c].pc \in {"out", "prepare", "proof", "in", "leaving", "gone"}
                        /\ conn[c].device \in Devices \cup {NONE}
                        /\ conn[c].watch => c \in Phones
    /\ busy \in BOOLEAN /\ nonces \subseteq Phones /\ spent \subseteq Phones /\ revoked \subseteq Devices
    /\ context \in Context \cup {NONE}
    /\ \A c \in Callers : round[c].as \in Context \cup {NONE} /\ round[c].left \in 0..MaxCalls

Set(c, pc) == conn' = [conn EXCEPT ![c].pc = pc]

----------------------------------------------------------------------------
(* Coming and going.                                                       *)

\* _handle_pi: authenticated, then looked at and taken without an await.
SatelliteComes(c) ==
    /\ c \in Satellites /\ conn[c].pc = "out"
    /\ IF busy THEN Set(c, "gone") /\ busy' = busy ELSE Set(c, "in") /\ busy' = TRUE
    /\ UNCHANGED <<nonces, spent, revoked, context, round, turns>>

\* _handle: the authority of the device, then _busy, then an await.
PhoneComes(c) ==
    /\ c \in Phones /\ conn[c].pc = "out"
    /\ \E d \in Devices :
         conn' = [conn EXCEPT ![c].device = d, ![c].pc = IF d \in revoked \/ busy THEN "gone" ELSE "prepare"]
    /\ UNCHANGED <<busy, nonces, spent, revoked, context, round, turns>>

\* The connection stands; a nonce for it.
Prepared(c) ==
    /\ conn[c].pc = "prepare" /\ Set(c, "proof") /\ busy' = TRUE
    /\ nonces' = nonces \cup {c}
    /\ UNCHANGED <<spent, revoked, context, round, turns>>

\* Mutant: a nonce may be shown again.
Consumed_Never(n) == nonces' = nonces

\* consume: it is gone, whatever comes of it.
Consumed(n) == nonces' = nonces \ {n}

\* The answer carries a nonce, its own or one the device has been sent before, and is signed
\* over it; it is checked against the nonce of this connection.
Prove(c) ==
    /\ conn[c].pc = "proof"
    /\ \E n \in {m \in Phones : conn[m].device = conn[c].device} :
         LET good == n \in nonces /\ n = c IN
         /\ Consumed(n)
         /\ conn' = [conn EXCEPT ![c].pc = "in", ![c].proven = good, ![c].watch = TRUE]
         /\ spent' = IF good THEN spent \cup {n} ELSE spent
    /\ UNCHANGED <<busy, revoked, context, round, turns>>

\* No answer, an unreadable one, none in time: the session goes on without.
Unproven(c) ==
    /\ conn[c].pc = "proof" /\ conn' = [conn EXCEPT ![c].pc = "in", ![c].watch = TRUE]
    /\ UNCHANGED <<busy, nonces, spent, revoked, context, round, turns>>

\* A nonce nobody answered is forgotten.
Forget(c) ==
    /\ c \in nonces /\ conn[c].pc # "proof" /\ nonces' = nonces \ {c}
    /\ UNCHANGED <<conn, busy, spent, revoked, context, round, turns>>

\* The connection ends: close, which clears the context; then the door is open again.
Leave(c) ==
    /\ conn[c].pc = "in" /\ conn' = [conn EXCEPT ![c].pc = "leaving", ![c].watch = FALSE]
    /\ context' = NONE /\ round' = [round EXCEPT ![c] = Quiet]
    /\ UNCHANGED <<busy, nonces, spent, revoked, turns>>

\* Mutant: the door stays shut.
Left_Shut(c) ==
    /\ conn[c].pc = "leaving" /\ Set(c, "gone")
    /\ UNCHANGED <<busy, nonces, spent, revoked, context, round, turns>>

Left(c) ==
    /\ conn[c].pc = "leaving" /\ Set(c, "gone") /\ busy' = FALSE
    /\ UNCHANGED <<nonces, spent, revoked, context, round, turns>>

Revoke(d) ==
    /\ d \notin revoked /\ revoked' = revoked \cup {d}
    /\ UNCHANGED <<conn, busy, nonces, spent, context, round, turns>>

\* Mutant: a session is never asked again.
Revoked_Never(c) == FALSE

\* _revocation_watch: every twenty seconds, for as long as its look does not raise.
Revoked(c) == conn[c].device \in revoked
Watch(c) == conn[c].watch /\ Revoked(c) /\ Leave(c)
WatchFails(c) ==
    /\ conn[c].watch /\ conn' = [conn EXCEPT ![c].watch = FALSE]
    /\ UNCHANGED <<busy, nonces, spent, revoked, context, round, turns>>

----------------------------------------------------------------------------
(* Calls: a round of a conversation, the socket.                           *)

Doors == <<conn, busy, nonces, spent, revoked>>

\* Mutant: a phone is taken for proven.
Origin_Phone(c) == IF c \in Phones THEN "proven" ELSE "voice"

\* origin_for_session.
Origin(c) == IF conn[c].proven THEN "proven" ELSE "voice"

\* begin_turn of a round: principal and origin of this connection, for everybody to read.
BeginRound(c) ==
    /\ c \in Conns /\ conn[c].pc = "in" /\ round[c].pc = "idle" /\ turns < MaxTurns
    /\ turns' = turns + 1
    /\ context' = [by |-> c, turn |-> turns + 1, origin |-> Origin(c)]
    /\ round' = [round EXCEPT ![c] = [Quiet EXCEPT !.pc = "next", !.turn = turns + 1, !.left = MaxCalls]]
    /\ UNCHANGED Doors

\* run of a tool: the context that stands there now, read once, for principal, trust, origin
\* and provenance; without one nothing is done.
Call(c) ==
    /\ c \in Conns /\ round[c].pc = "next" /\ round[c].left > 0
    /\ round' = [round EXCEPT ![c].left = @ - 1, ![c].as = context,
                              ![c].pc = IF context = NONE THEN "next" ELSE "runs"]
    /\ UNCHANGED <<context, turns, Doors>>

\* It comes back; when it failed the resolver is asked, with the goal of the context that
\* stands there by then.
Back(c) ==
    /\ c \in Conns /\ round[c].pc = "runs"
    /\ \E failed \in BOOLEAN :
         round' = [round EXCEPT ![c].pc = "next", ![c].told = IF failed THEN context ELSE NONE]
    /\ UNCHANGED <<context, turns, Doors>>

EndRound(c) ==
    /\ c \in Conns /\ round[c].pc = "next"
    /\ round' = [round EXCEPT ![c] = Quiet]
    /\ UNCHANGED <<context, turns, Doors>>

\* Mutant: the socket takes the context it finds when it gets to it.
Taken_Standing(mine) == IF context = NONE THEN mine ELSE context

\* begin_turn and context without an await.
Taken(mine) == mine

\* _run: the local owner, a turn of its own.
Socket ==
    /\ round[Control].pc = "idle" /\ turns < MaxTurns /\ turns' = turns + 1
    /\ LET mine == [by |-> Control, turn |-> turns + 1, origin |-> "local"] IN
       /\ context' = mine
       /\ round' = [round EXCEPT ![Control] = [Quiet EXCEPT !.pc = "runs", !.turn = turns + 1, !.as = Taken(mine)]]
    /\ UNCHANGED Doors
SocketBack ==
    /\ round[Control].pc = "runs" /\ round' = [round EXCEPT ![Control] = Quiet]
    /\ UNCHANGED <<context, turns, Doors>>

----------------------------------------------------------------------------
Init ==
    /\ conn = [c \in Conns |-> Outside] /\ busy = FALSE /\ nonces = {} /\ spent = {} /\ revoked = {}
    /\ context = NONE /\ round = [c \in Callers |-> Quiet] /\ turns = 0

Moves(c) == SatelliteComes(c) \/ PhoneComes(c) \/ Prepared(c) \/ Prove(c) \/ Unproven(c) \/ Forget(c) \/ Leave(c) \/ Left(c)
            \/ Watch(c) \/ WatchFails(c) \/ BeginRound(c) \/ Call(c) \/ Back(c) \/ EndRound(c)

Next == (\E c \in Conns : Moves(c)) \/ (\E d \in Devices : Revoke(d)) \/ Socket \/ SocketBack

Spec == Init /\ [][Next]_vars

\* The handler of a connection goes on, the watch asks again.
Step == \E c \in Conns : Prepared(c) \/ Unproven(c) \/ Left(c) \/ Watch(c)

FairSpec == Spec /\ WF_vars(Step)

----------------------------------------------------------------------------
(* Properties.                                                             *)

\* The door is never shut with nobody inside.
BusyIsSomebody == busy => \E c \in Conns : conn[c].pc \in {"proof", "in", "leaving"}

\* A session is proven by the answer to its own nonce, once.
ProvenByItself == \A c \in Conns : conn[c].proven => c \in spent /\ c \notin nonces

\* What the socket calls it calls as the local owner, in a turn of its own.
SocketIsOwner == round[Control].pc = "runs" =>
    round[Control].as = [by |-> Control, turn |-> round[Control].turn, origin |-> "local"]

\* Nobody is called proven who has not proven himself.
OriginIsHonest == \A c \in Callers : round[c].as # NONE /\ round[c].as.origin = "proven" => round[c].as.by \in spent

\* A phone whose authority is gone is gone from the conversation, unless the look of its watch has
\* raised: then nobody asks again (voice_endpoint.py:234).
Unwatched(c) == conn[c].pc = "in" /\ ~conn[c].watch
RevokedLeaves ==
    \A c \in Phones : (conn[c].pc = "in" /\ conn[c].device \in revoked) ~> (conn[c].pc = "gone" \/ Unwatched(c))

\* What comments say and the code does not do.

\* One endpoint at a time.
OneInside == Cardinality({c \in Conns : conn[c].pc = "in"}) <= 1

\* A call is made as the one who made it.
CallIsItsTurns == \A c \in Callers : round[c].as # NONE => round[c].as.turn = round[c].turn

\* What is said about a failure is about this turn.
AdviceIsItsTurns == \A c \in Callers : round[c].told # NONE => round[c].told.turn = round[c].turn
=============================================================================
