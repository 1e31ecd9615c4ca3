----------------------------- MODULE VoiceTurns -----------------------------
(***************************************************************************)
(* What happens inside a conversation (src/solvio/realtime/core_server.py, *)
(* tools/memory_tools.py, capabilities/invocation.py): the events of the   *)
(* provider, in order on one connection; turns, responses and the gate of  *)
(* the audio; the worker of the tools; the permit to remember.  Turn and   *)
(* text are numbers: text n is what was said in turn n, 0 is none.         *)
(***************************************************************************)
EXTENDS Integers, Sequences

CONSTANTS
    MaxTurns,       \* bound: utterances
    MaxResponses,   \* bound: responses of the provider
    MaxRounds,      \* bound: responses that call a tool
    MaxCloses,      \* bound: conversations that end
    Interrupts      \* bound: the endpoint may say barge_in

VARIABLES
    wire,           \* events on their way to the reader
    out,            \* response.cancel and response.create on their way to the provider
    prov,           \* the provider: its turn, the response it makes, who speaks, its transcripts
    turn,           \* _turn: 0 for {}
    answering,      \* response_started stands in _turn
    turn_no, text,  \* turn_no, turn_user_text
    responding, audio, resp, dead, \* responding, _audio_open, _response_id, _dead_responses
    queue,          \* _tool_queue
    worker,         \* the round that is handled
    gate,           \* the permit to remember
    session,        \* history: conversations so far
    mine,           \* history: responses that began in this turn
    cut,            \* history: what the listener cut off, responses and turns
    played,         \* history: responses that were heard after they, or their turn, were cut off
    kept,           \* history: what was remembered: text and turn of the round
    judged          \* history: rounds with the text they were judged by

vars == <<wire, out, prov, turn, answering, turn_no, text, responding, audio, resp, dead, queue, worker,
          gate, session, mine, cut, played, kept, judged>>

Turns == 0..MaxTurns
Responses == 1..MaxResponses
Free == [pc |-> "idle", turn |-> 0, session |-> 0, epoch |-> 0]
NoGate == [intent |-> 0, turn |-> 0, consumed |-> FALSE, decided |-> FALSE, expected |-> -1, epoch |-> 0]

TypeOK ==
    /\ turn \in Turns /\ turn_no \in Turns /\ text \in Turns
    /\ {answering, responding, audio} \subseteq BOOLEAN /\ resp \in {0} \cup Responses /\ dead \subseteq Responses
    /\ worker.pc \in {"idle", "text", "permit", "answer"} /\ gate.expected \in -1..MaxTurns
    /\ \A i \in 1..Len(queue) : queue[i].turn \in Turns

----------------------------------------------------------------------------
(* The provider, as the reader relies on it.                               *)

Core == <<turn, answering, turn_no, text, responding, audio, resp, dead, queue, worker, gate, session, mine,
          cut, played, kept, judged>>
Ev(k, n, of, calls) == [k |-> k, n |-> n, turn |-> of, calls |-> calls]

\* Somebody speaks: what is being said ends, by interrupt_response.
Speak ==
    /\ ~prov.speaking /\ prov.turn < MaxTurns
    /\ prov' = [prov EXCEPT !.turn = @ + 1, !.speaking = TRUE, !.resp = 0]
    /\ wire' = wire \o <<Ev("started", prov.turn + 1, prov.turn + 1, FALSE)>>
                    \o IF prov.resp = 0 THEN <<>> ELSE <<Ev("done", prov.resp, prov.of, FALSE)>>
    /\ UNCHANGED <<out, Core>>

Answers(of) == prov' = [prov EXCEPT !.made = @ + 1, !.resp = prov.made + 1, !.of = of, !.speaking = FALSE, !.said = FALSE]

\* Silence: create_response.
Silence ==
    /\ prov.speaking /\ prov.made < MaxResponses /\ Answers(prov.turn)
    /\ wire' = Append(wire, Ev("created", prov.made + 1, prov.turn, FALSE))
    /\ UNCHANGED <<out, Core>>

\* The transcript comes when it comes.
Transcribe ==
    /\ prov.written < prov.turn - (IF prov.speaking THEN 1 ELSE 0)
    /\ prov' = [prov EXCEPT !.written = @ + 1]
    /\ wire' = Append(wire, Ev("text", prov.written + 1, 0, FALSE))
    /\ UNCHANGED <<out, Core>>

Delta ==
    /\ prov.resp # 0 /\ ~prov.said /\ prov' = [prov EXCEPT !.said = TRUE]
    /\ wire' = Append(wire, Ev("delta", prov.resp, prov.of, FALSE))
    /\ UNCHANGED <<out, Core>>

Done(calls) ==
    /\ prov.resp # 0 /\ (calls => prov.rounds < MaxRounds)
    /\ prov' = [prov EXCEPT !.resp = 0, !.rounds = @ + IF calls THEN 1 ELSE 0]
    /\ wire' = Append(wire, Ev("done", prov.resp, prov.of, calls))
    /\ UNCHANGED <<out, Core>>

\* What the core asked for: one response at a time.
Obey ==
    /\ out # <<>> /\ out' = Tail(out)
    /\ CASE out[1].k = "cancel" /\ prov.resp # 0 ->
                /\ prov' = [prov EXCEPT !.resp = 0]
                /\ wire' = Append(wire, Ev("done", prov.resp, prov.of, FALSE))
         [] out[1].k = "create" /\ prov.resp = 0 /\ ~prov.speaking /\ prov.made < MaxResponses ->
                /\ Answers(out[1].turn)
                /\ wire' = Append(wire, Ev("created", prov.made + 1, out[1].turn, FALSE))
         [] OTHER -> UNCHANGED <<prov, wire>>
    /\ UNCHANGED Core

Provider == Speak \/ Silence \/ Transcribe \/ Delta \/ Done(TRUE) \/ Done(FALSE) \/ Obey

----------------------------------------------------------------------------
(* The reader: _oa_reader.                                                 *)

e == wire[1]
Hears(k) == wire # <<>> /\ e.k = k /\ wire' = Tail(wire)

\* Mutant: the endpoint is told, the gate stays open.
Silences_FlushOnly == UNCHANGED <<audio, dead>>

\* _barge_in: the gate closes first, and the response is remembered as dead.
Silences == audio' = FALSE /\ dead' = dead \cup ({resp} \ {0})

BargeIn ==
    /\ Silences
    /\ out' = Append(out, [k |-> "cancel", turn |-> 0])

\* speech_started: a new turn with an event of its own; what is said now is cut off.
Started ==
    /\ Hears("started")
    /\ turn_no' = turn_no + 1 /\ turn' = turn_no + 1 /\ answering' = FALSE /\ text' = 0 /\ mine' = {}
    /\ IF responding THEN BargeIn ELSE UNCHANGED <<audio, dead, out>>
    /\ cut' = [turn |-> turn_no, resp |-> IF responding THEN cut.resp \cup {resp} ELSE cut.resp]
    /\ UNCHANGED <<prov, responding, resp, queue, worker, gate, session, played, kept, judged>>

\* The message of the endpoint, while it is being answered.
Interrupt ==
    /\ Interrupts /\ responding /\ resp \notin cut.resp
    /\ BargeIn
    /\ cut' = [turn |-> turn_no, resp |-> cut.resp \cup {resp}]
    /\ UNCHANGED <<wire, prov, turn, answering, turn_no, text, responding, resp, queue, worker, gate, session,
                   mine, played, kept, judged>>

\* offer_user_turn: under whatever turn is current, over what was offered before.
Offer(t) == gate' = [gate EXCEPT !.intent = t, !.turn = turn, !.consumed = FALSE, !.decided = TRUE]

Transcript ==
    /\ Hears("text")
    /\ text' = e.n /\ Offer(e.n)
    /\ UNCHANGED <<out, prov, turn, answering, turn_no, responding, audio, resp, dead, queue, worker, session, mine,
                   cut, played, kept, judged>>

Created ==
    /\ Hears("created")
    /\ responding' = TRUE /\ resp' = e.n /\ audio' = TRUE
    /\ answering' = (turn # 0) /\ mine' = mine \cup {e.n}
    /\ UNCHANGED <<out, prov, turn, turn_no, text, dead, queue, worker, gate, session, cut, played, kept, judged>>

\* _audio_wanted.
Wanted(r) == r \notin dead /\ audio

Audio ==
    /\ Hears("delta")
    /\ played' = IF Wanted(e.n) /\ (e.n \in cut.resp \/ e.turn <= cut.turn)
                 THEN played \cup {[resp |-> e.n, late |-> e.n \in cut.resp]} ELSE played
    /\ UNCHANGED <<out, prov, turn, answering, turn_no, text, responding, audio, resp, dead, queue, worker,
                   gate, session, mine, cut, kept, judged>>

\* Mutant: every end of a response is the end of the turn.
Owns_Always(r) == TRUE

\* owns_turn: not of a response that was cut off, nor of one before this turn was answered.
Owns(r) == r \notin dead /\ (turn = 0 \/ answering)

\* Mutant: the end of a dead response is passed over.
Idle_IfOwned(r) == IF Owns(r) THEN FALSE ELSE responding

\* response.done: whoever owns it, nothing is being answered now.
Idle(r) == FALSE

Finished ==
    /\ Hears("done")
    /\ responding' = Idle(e.n)
    /\ queue' = IF e.calls THEN Append(queue, [turn |-> turn, of |-> e.turn, session |-> session]) ELSE queue
    /\ IF ~e.calls /\ Owns(e.n) THEN turn' = 0 /\ answering' = FALSE ELSE UNCHANGED <<turn, answering>>
    /\ UNCHANGED <<out, prov, turn_no, text, audio, resp, dead, worker, gate, session, mine, cut, played, kept,
                   judged>>

Reader == Started \/ Transcript \/ Created \/ Audio \/ Finished

----------------------------------------------------------------------------
(* The worker of the tools: _handle_tool_calls with memory_remember.       *)

Wires == <<wire, prov, turn, answering, turn_no, text, audio, resp, dead, session, mine, cut, played>>

\* A round is taken; the gate is told its turn; then the text is waited for.
Take ==
    /\ worker.pc = "idle" /\ queue # <<>>
    /\ LET q == queue[1] IN
       /\ worker' = [Free EXCEPT !.pc = "text", !.turn = q.turn, !.session = q.session]
       /\ gate' = [gate EXCEPT !.expected = q.turn,
                               !.epoch = IF gate.expected \in {-1, q.turn} THEN @ ELSE @ + 1]
    /\ queue' = Tail(queue) /\ responding' = TRUE
    /\ UNCHANGED <<out, kept, judged, Wires>>

\* The text is there, there is no turn that could bring one, or its time is up, which is any
\* moment; begin_turn with the text that stands there then.
Judge ==
    /\ worker.pc = "text"
    /\ worker' = [worker EXCEPT !.pc = "permit", !.epoch = gate.epoch]
    /\ judged' = judged \cup {<<worker.turn, text>>}
    /\ UNCHANGED <<out, queue, gate, responding, kept, Wires>>

\* Mutant: a permit can be used again.
Match_Again == gate.intent # 0 /\ gate.turn = gate.expected

\* _match: an intent that has not been used, of the turn that was announced.
Match == gate.intent # 0 /\ ~gate.consumed /\ gate.turn = gate.expected

\* await_permit finds one.
Remember ==
    /\ worker.pc = "permit" /\ gate.epoch = worker.epoch /\ gate.expected = worker.turn /\ Match
    /\ gate' = [gate EXCEPT !.consumed = TRUE]
    /\ kept' = Append(kept, [text |-> gate.intent, turn |-> worker.turn, session |-> session])
    /\ worker' = [worker EXCEPT !.pc = "answer"]
    /\ UNCHANGED <<out, queue, responding, judged, Wires>>

\* Something else was said, the turn changed, or four seconds are up.
Refuse ==
    /\ worker.pc = "permit" /\ ~(gate.epoch = worker.epoch /\ gate.expected = worker.turn /\ Match)
    /\ worker' = [worker EXCEPT !.pc = "answer"]
    /\ UNCHANGED <<out, queue, gate, responding, kept, judged, Wires>>

\* The result goes back and an answer is asked for.
Return ==
    /\ worker.pc = "answer"
    /\ out' = Append(out, [k |-> "create", turn |-> worker.turn]) /\ responding' = TRUE
    /\ worker' = Free
    /\ UNCHANGED <<queue, gate, kept, judged, Wires>>

Worker == Take \/ Judge \/ Remember \/ Refuse \/ Return

----------------------------------------------------------------------------
(* The end of a conversation and the next one on the same connection.      *)

\* Mutant: what is queued is handled by the next worker.
Emptied_Not == queue

\* close: the rounds nobody has begun are dropped.
Emptied == <<>>

Close ==
    /\ session < MaxCloses /\ session' = session + 1
    /\ queue' = Emptied /\ worker' = Free
    /\ gate' = [NoGate EXCEPT !.epoch = gate.epoch + 1]
    /\ wire' = <<>> /\ out' = <<>> /\ responding' = FALSE /\ turn' = 0 /\ answering' = FALSE /\ audio' = FALSE
    /\ prov' = [prov EXCEPT !.resp = 0, !.speaking = FALSE, !.turn = turn_no, !.written = turn_no]
    /\ UNCHANGED <<turn_no, text, resp, dead, mine, cut, played, kept, judged>>

----------------------------------------------------------------------------
Init ==
    /\ wire = <<>> /\ out = <<>>
    /\ prov = [turn |-> 0, resp |-> 0, of |-> 0, made |-> 0, rounds |-> 0, written |-> 0, speaking |-> FALSE, said |-> FALSE]
    /\ turn = 0 /\ answering = FALSE /\ turn_no = 0 /\ text = 0
    /\ responding = FALSE /\ audio = FALSE /\ resp = 0 /\ dead = {} /\ queue = <<>> /\ worker = Free
    /\ gate = NoGate /\ session = 0 /\ mine = {} /\ cut = [turn |-> 0, resp |-> {}] /\ played = {} /\ kept = <<>>
    /\ judged = {}

Next == Provider \/ Reader \/ Interrupt \/ Worker \/ Close

Spec == Init /\ [][Next]_vars

\* The reader and the worker go on; nothing is assumed of the provider, nor of who speaks.
Step == Reader \/ Worker

FairSpec == Spec /\ WF_vars(Step)

----------------------------------------------------------------------------
(* Properties.                                                             *)

\* After a barge-in nothing more is heard of the response it cut off.
SilentAfterBargeIn == \A p \in played : ~p.late

\* A turn is ended by a response that began in it, or by the end of the conversation.
EndedByItsAnswer == turn # 0 /\ turn' = 0 /\ session' = session => e.n \in mine /\ e.n \notin cut.resp
TurnEndsByItsAnswer == [][EndedByItsAnswer]_vars

\* What was said once is remembered once.
RememberedOnce == \A i, j \in 1..Len(kept) : kept[i].text = kept[j].text => i = j

\* A worker handles rounds of its own conversation.
RoundsStayInside == worker.pc # "idle" => worker.session = session

\* The provider has the next word: it answers, has not taken what it was asked for, or hears speech.
Awaited == prov.resp # 0 \/ out # <<>> \/ prov.speaking

\* Nothing is taken to be answered for ever while nobody answers: the timer of the idle conversation
\* gets its chance, whatever was cut off or called meanwhile.
IdleComesBack == []<>(~responding \/ Awaited)

\* What comments say and the code does not do.

\* A round is judged by the text of its own turn or by none.
TextIsTheTurns == \A j \in judged : j[2] \in {0, j[1]}

\* A permit is for what was said in the turn of the call.
PermitIsTheTurns == \A i \in 1..Len(kept) : kept[i].text = kept[i].turn

\* After a barge-in nothing more is heard of the turns before it.
SilentMeansSilent == played = {}
=============================================================================
