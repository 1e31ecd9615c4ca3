--------------------------- MODULE CapabilityCall ---------------------------
(***************************************************************************)
(* CapabilityRouter.execute of capabilities/router.py with the approval    *)
(* gateway behind it: calls of one capability that are classified at the   *)
(* real device, decided by ActionPolicy, and then run directly, under the  *)
(* bound grant of an automation, or after a human said yes on the phone.   *)
(*                                                                         *)
(* What the code does between two awaits is one action, so calls, people,  *)
(* the world and a restart come between any two steps of a call.  The      *)
(* device protocol and the journal behind a claim are ApprovalDecision and *)
(* ExecutionJournal; here a human decides in one step and a claim is a     *)
(* compare-and-swap.  The world is the device the arguments resolve to.    *)
(***************************************************************************)
EXTENDS ActionPolicy, Sequences, FiniteSets

CONSTANTS
    Calls,          \* the calls that may be made
    Caps,           \* capabilities: [born, reads, registered, risk, classifier, describer]
    Inputs,         \* how a call may come in: [origin, authority, commanded,
                    \* untrusted, auto, named]
    Devices,        \* what the arguments may resolve to
    Locks,          \* the devices among them that are not ordinary (ha_security)
    MaxRequests,    \* bound: the number of approval requests
    MaxInFlight,    \* bound: the number of calls under way at once
    MaxDrift,       \* bound: how often the world changes
    MaxRestarts,    \* bound: the number of restarts
    None

Gone == "gone"      \* nothing that is exposed answers to the arguments
Worlds == Devices \cup {Gone}
Grant == [device : Devices, active : BOOLEAN]

ConstantsOK ==
    /\ Locks \subseteq Devices /\ Gone \notin Devices /\ None \notin Worlds \cup Grant
    /\ MaxRequests \in Nat /\ MaxInFlight \in Nat \ {0} /\ MaxDrift \in Nat /\ MaxRestarts \in Nat
    /\ \A k \in Caps : k \in [born : BOOLEAN, reads : BOOLEAN, registered : Classes, risk : Risks,
                              classifier : BOOLEAN, describer : BOOLEAN]
    /\ \A i \in Inputs : i \in [origin : Origins, authority : BOOLEAN, commanded : BOOLEAN,
                                untrusted : BOOLEAN, auto : BOOLEAN, named : BOOLEAN]

\* The registry of classes calls nothing reading, and nothing that reads very
\* critical; only switches of the house, registered as harmless, have a classifier.
RegistryOK ==
    \A k \in Caps :
        /\ k.registered # "read_only" /\ (k.reads => k.registered # "very_critical")
        /\ k.classifier => k.registered = "ha_normal" /\ ~k.reads /\ ~k.born

VARIABLES
    cap,          \* the capability called
    call,         \* each call: where it is and what it has read
    outstanding,  \* _outstanding: the request asked for last, 0 for none
    closing,      \* abandon_outstanding: the request it is about to withdraw
    req,          \* approval requests: state, what is shown, confirmed in memory
    auto,         \* the automation: running, and its bound grant or None
    world,        \* the device the arguments resolve to
    effects,      \* what happened: by which authority, on which device
    drifts, restarts

vars == <<cap, call, outstanding, closing, req, auto, world, effects, drifts, restarts>>
counters == <<drifts, restarts>>

Steps == {"classify", "task", "grant", "describe", "probe", "claim", "exec", "drop", "ask", "note", "run"}
Outcomes == {"success", "approval_required", "rejected", "invalid", "unavailable", "failed",
             "recovery_required", "timeout", "cancelled", "lost"}
NewCall == [pc |-> "idle", in |-> None, given |-> 0, class |-> "unclassified", device |-> None,
            pre |-> FALSE, shown |-> None, prev |-> 0, status |-> "none", out |-> "none"]

Requests == DOMAIN req
InFlight == {c \in Calls : call[c].pc \in Steps}
Set(c, s) == call' = [call EXCEPT ![c] = s]
At(c, pc) == [call[c] EXCEPT !.pc = pc]
EndedAs(s, o) == [s EXCEPT !.pc = "done", !.out = o]
Ends(c, o) == Set(c, EndedAs(call[c], o))
Happens(c, by) == effects' = Append(effects, [call |-> c, by |-> by, device |-> world, req |-> call[c].prev])

\* ------------------------------------------------------------ a call comes in

\* execute: an unknown trust gets a no before anything is classified.
Request(c, i, given) ==
    /\ call[c].pc = "idle" /\ (given # 0 => i.named)
    /\ Cardinality(InFlight) + (IF closing = 0 THEN 0 ELSE 1) < MaxInFlight
    /\ LET needs == ~cap.reads \/ cap.risk >= 2 IN
       IF needs /\ ~i.authority THEN Ends(c, "rejected")
       ELSE Set(c, [call[c] EXCEPT !.pc = "classify", !.in = i, !.given = given])
    /\ UNCHANGED <<cap, outstanding, closing, req, auto, world, effects, counters>>

\* Where the decision sends a call that stands at s: refused, asked for, or run at once.
Decided(s, class, pre) ==
    LET i == s.in
        d == decide(i.origin, class, i.commanded, i.untrusted, pre)
    IN  CASE d = "deny" -> EndedAs(s, "rejected")
          [] d = "require_face_id" -> [s EXCEPT !.pc = "describe", !.class = class, !.pre = FALSE]
          [] OTHER -> [s EXCEPT !.pc = "run", !.class = class, !.pre = pre]

\* _classify_and_decide up to the decision, or up to reading the automation.
Measured(s, class, device) ==
    LET i == s.in
        k == apply_floor(class, cap.risk)
    IN  IF i.auto /\ i.origin = "background_automation" /\ k = "ha_normal"
        THEN [s EXCEPT !.pc = "task", !.class = k, !.device = device]
        ELSE Decided([s EXCEPT !.device = device], k, FALSE)

\* _classify: the registry, or the capability's own look at the real device.
Classify(c) ==
    /\ call[c].pc = "classify"
    /\ \/ ~cap.classifier /\ Set(c, Measured(call[c], base_class(cap.born, cap.reads, cap.registered), None))
       \/ /\ cap.classifier
          /\ \/ world = Gone /\ Ends(c, "invalid")
             \/ world \in Locks /\ Ends(c, "rejected")
             \/ world \in Devices \ Locks /\ Set(c, Measured(call[c], "ha_normal", world))
             \/ Ends(c, "unavailable")
             \/ Set(c, Decided(call[c], "unclassified", FALSE))
    /\ UNCHANGED <<cap, outstanding, closing, req, auto, world, effects, counters>>

\* AutomationPreauthorizations.verify: the task first, then its grant.
VerifyTask(c) ==
    /\ call[c].pc = "task"
    /\ IF auto.running THEN Set(c, At(c, "grant")) ELSE Set(c, Decided(call[c], call[c].class, FALSE))
    /\ UNCHANGED <<cap, outstanding, closing, req, auto, world, effects, counters>>

\* Mutant: the grant of the automation is good for whatever it switches.
Carries_AnyDevice(grant, device) == grant # None /\ grant.active

Carries(grant, device) == grant # None /\ grant.active /\ grant.device = device

VerifyGrant(c) ==
    /\ call[c].pc = "grant"
    /\ Set(c, Decided(call[c], call[c].class, Carries(auto.grant, call[c].device)))
    /\ UNCHANGED <<cap, outstanding, closing, req, auto, world, effects, counters>>

\* ------------------------------------------------------- running it directly

\* What a handler that was cut off, fell silent or raised leaves the caller with, whether it
\* had acted by then or not.
Unclear == {"cancelled", "timeout", "recovery_required", "failed"}

\* _run with _ambiguous: the handler resolves the device again and refuses a lock; only its
\* own answer says that it acted.
Run(c) ==
    /\ call[c].pc = "run"
    /\ \/ \E o \in Unclear \cup {"unavailable"} : Ends(c, o) /\ UNCHANGED effects
       \/ cap.classifier /\ world = Gone /\ Ends(c, "invalid") /\ UNCHANGED effects
       \/ cap.classifier /\ world \in Locks /\ Ends(c, "rejected") /\ UNCHANGED effects
       \/ /\ cap.classifier => world \in Devices \ Locks
          /\ Happens(c, IF call[c].pre THEN "grant" ELSE "direct")
          /\ \E o \in Unclear \cup {"success"} : Ends(c, o)
    /\ UNCHANGED <<cap, outstanding, closing, req, auto, world, counters>>

\* ----------------------------------------------------- asking on the phone

\* Mutant: the last request is replaced without looking whether it was approved.
Describe_NeverLooks(c) ==
    /\ call[c].pc = "describe"
    /\ \/ cap.describer /\ world = Gone /\ Ends(c, "invalid") /\ UNCHANGED outstanding
       \/ Ends(c, "rejected") /\ UNCHANGED outstanding
       \/ /\ cap.describer => world # Gone
          /\ LET shown == <<call[c].in.origin, IF cap.describer THEN world ELSE None>>
                 given == call[c].given
             IN  IF given # 0
                 THEN /\ outstanding' = 0
                      /\ Set(c, [call[c] EXCEPT !.pc = "probe", !.prev = given, !.shown = shown])
                 ELSE /\ Set(c, [call[c] EXCEPT !.pc = IF outstanding = 0 THEN "ask" ELSE "drop",
                                 !.prev = outstanding, !.shown = shown])
                      /\ UNCHANGED outstanding
    /\ UNCHANGED <<cap, closing, req, auto, world, effects, counters>>

\* _describe, and with its answer the choice between resuming and asking.
Describe(c) ==
    /\ call[c].pc = "describe"
    /\ \/ cap.describer /\ world = Gone /\ Ends(c, "invalid") /\ UNCHANGED outstanding
       \/ Ends(c, "rejected") /\ UNCHANGED outstanding
       \/ /\ cap.describer => world # Gone
          /\ LET shown == <<call[c].in.origin, IF cap.describer THEN world ELSE None>>
                 given == call[c].given
             IN  IF given # 0
                 THEN /\ outstanding' = 0
                      /\ Set(c, [call[c] EXCEPT !.pc = "probe", !.prev = given, !.shown = shown])
                 ELSE /\ Set(c, [call[c] EXCEPT !.pc = IF outstanding = 0 THEN "ask" ELSE "probe",
                                 !.prev = outstanding, !.shown = shown])
                      /\ UNCHANGED outstanding
    /\ UNCHANGED <<cap, closing, req, auto, world, effects, counters>>

\* Mutant: a call waits for the answer by looking again.
NotUsable_LooksAgain(c, status) ==
    IF status = "not_approved" THEN Set(c, At(c, "probe")) /\ UNCHANGED outstanding
    ELSE Set(c, [call[c] EXCEPT !.pc = "drop", !.status = status]) /\ outstanding' = 0

\* A status that means "this approval does not carry the action": a call that
\* named the approval ends, one that only looked withdraws it and asks again.
NotUsable(c, status) ==
    IF call[c].given # 0
    THEN Ends(c, "rejected") /\ UNCHANGED outstanding
    ELSE Set(c, [call[c] EXCEPT !.pc = "drop", !.status = status]) /\ outstanding' = 0

\* Any other answer about the approval is the answer to the call.
Answered(c, o) == Ends(c, o) /\ outstanding' = 0

\* Mutant: what the request shows is not compared again.
Probe_NoDigest(c) ==
    /\ call[c].pc = "probe"
    /\ IF req[call[c].prev].state = "DENIED" THEN Answered(c, "rejected")
       ELSE Set(c, At(c, "claim")) /\ UNCHANGED outstanding
    /\ UNCHANGED <<cap, closing, req, auto, world, effects, counters>>

\* ApprovalGateway.resume: what the request says, before anything is claimed.
Probe(c) ==
    /\ call[c].pc = "probe"
    /\ LET r == req[call[c].prev] IN
       CASE r.state = "DENIED" -> Answered(c, "rejected")
         [] r.state # "DENIED" /\ r.shown # call[c].shown -> NotUsable(c, "approval_drift")
         [] OTHER -> Set(c, At(c, "claim")) /\ UNCHANGED outstanding
    /\ UNCHANGED <<cap, closing, req, auto, world, effects, counters>>

\* execute_approved up to the claim: the state again, the gate, the one claim.
Claim(c) ==
    /\ call[c].pc = "claim"
    /\ LET r == call[c].prev IN
       CASE req[r].state # "APPROVED" -> NotUsable(c, "not_approved") /\ UNCHANGED req
         [] req[r].state = "APPROVED" /\ ~req[r].confirmed -> Answered(c, "rejected") /\ UNCHANGED req
         [] OTHER -> /\ req' = [req EXCEPT ![r].state = "EXECUTING", ![r].confirmed = FALSE]
                     /\ Set(c, At(c, "exec")) /\ UNCHANGED outstanding
    /\ UNCHANGED <<cap, closing, auto, world, effects, counters>>

\* The handler behind the boundary: it acts, it knows it did not, or nobody knows.
Exec(c) ==
    /\ call[c].pc = "exec"
    /\ LET r == call[c].prev IN
       \/ /\ cap.classifier => world \in Devices \ Locks
          /\ Happens(c, "approval")
          /\ \/ Answered(c, "success") /\ req' = [req EXCEPT ![r].state = "CONSUMED"]
             \/ Answered(c, "recovery_required") /\ req' = [req EXCEPT ![r].state = "FAILED"]
       \/ /\ \E o \in {"failed", "recovery_required"} : Answered(c, o)
          /\ UNCHANGED effects
          /\ req' = [req EXCEPT ![r].state = "FAILED"]
    /\ UNCHANGED <<cap, closing, auto, world, counters>>

\* Mutant: a request withdrawn is deleted.
Withdrawn_Deletes(r) == IF req[r].state \in {"PENDING", "APPROVED"}
                        THEN req' = SubSeq(req, 1, r - 1) \o SubSeq(req, r + 1, Len(req))
                        ELSE UNCHANGED req

Withdrawn(r) == IF req[r].state \in {"PENDING", "APPROVED"}
                THEN req' = [req EXCEPT ![r].state = "EXPIRED", ![r].confirmed = FALSE]
                ELSE UNCHANGED req

\* Mutant: the old request is only forgotten, not withdrawn.
Drop_JustForgets(c) ==
    /\ call[c].pc = "drop"
    /\ Set(c, At(c, "ask"))
    /\ UNCHANGED <<cap, outstanding, closing, req, auto, world, effects, counters>>

\* abandon: an answer that came in between makes it a no-op, or is withdrawn too.
Drop(c) ==
    /\ call[c].pc = "drop"
    /\ Withdrawn(call[c].prev)
    /\ Set(c, At(c, "ask"))
    /\ UNCHANGED <<cap, outstanding, closing, auto, world, effects, counters>>

\* create_request commits the row ...
Ask(c) ==
    /\ call[c].pc = "ask"
    /\ \/ /\ Len(req) < MaxRequests
          /\ req' = Append(req, [state |-> "PENDING", shown |-> call[c].shown, confirmed |-> FALSE])
          /\ Set(c, [call[c] EXCEPT !.pc = "note", !.prev = Len(req) + 1])
       \/ Ends(c, "rejected") /\ UNCHANGED req
    /\ UNCHANGED <<cap, outstanding, closing, auto, world, effects, counters>>

\* Mutant: the id is kept only where none is kept yet.
Note_KeepsFirst(c) ==
    /\ call[c].pc = "note"
    /\ UNCHANGED outstanding
    /\ Ends(c, "approval_required")
    /\ UNCHANGED <<cap, closing, req, auto, world, effects, counters>>

\* ... and the router remembers its id after the await.
Note(c) ==
    /\ call[c].pc = "note"
    /\ outstanding' = call[c].prev
    /\ Ends(c, "approval_required")
    /\ UNCHANGED <<cap, closing, req, auto, world, effects, counters>>

\* abandon_outstanding: the caller gives up on what it had asked for.
GiveUp ==
    /\ closing = 0 /\ outstanding # 0 /\ Cardinality(InFlight) < MaxInFlight
    /\ closing' = outstanding /\ outstanding' = 0
    /\ UNCHANGED <<cap, call, req, auto, world, effects, counters>>

Close ==
    /\ closing # 0 /\ closing' = 0
    /\ Withdrawn(closing)
    /\ UNCHANGED <<cap, call, outstanding, auto, world, effects, counters>>

\* --------------------------------------------- people, automation, world, core

\* The human on the phone, or the time a request lives.
Approve(r) == /\ req[r].state = "PENDING"
              /\ req' = [req EXCEPT ![r].state = "APPROVED", ![r].confirmed = TRUE]
              /\ UNCHANGED <<cap, call, outstanding, closing, auto, world, effects, counters>>
Deny(r) == /\ req[r].state = "PENDING" /\ req' = [req EXCEPT ![r].state = "DENIED"]
           /\ UNCHANGED <<cap, call, outstanding, closing, auto, world, effects, counters>>
Expire(r) == /\ req[r].state \in {"PENDING", "APPROVED"} /\ req' = [req EXCEPT ![r].state = "EXPIRED"]
             /\ UNCHANGED <<cap, call, outstanding, closing, auto, world, effects, counters>>

\* _grant_preauth at the creation of the automation, for what was measured there.
CreateAutomation ==
    /\ auto = [running |-> FALSE, grant |-> None] /\ world \in Devices
    /\ auto' = [running |-> TRUE,
                grant |-> IF world \in Locks THEN None ELSE [device |-> world, active |-> TRUE]]
    /\ UNCHANGED <<cap, call, outstanding, closing, req, world, effects, counters>>
Pause == /\ auto.running /\ auto' = [auto EXCEPT !.running = FALSE]
         /\ UNCHANGED <<cap, call, outstanding, closing, req, world, effects, counters>>
\* require_approval: the task stays, its grant is gone for good.
Revoke == /\ auto.grant # None /\ auto.grant.active /\ auto' = [auto EXCEPT !.grant.active = FALSE]
          /\ UNCHANGED <<cap, call, outstanding, closing, req, world, effects, counters>>

Drift == /\ drifts < MaxDrift /\ drifts' = drifts + 1
         /\ world' \in Worlds \ {world}
         /\ UNCHANGED <<cap, call, outstanding, closing, req, auto, effects, restarts>>

\* A new process: calls, notes and confirmations are gone, abandon_orphans
\* closes what nobody can carry out any more.
Restart ==
    /\ restarts < MaxRestarts /\ restarts' = restarts + 1
    /\ call' = [c \in Calls |-> IF c \in InFlight THEN EndedAs(call[c], "lost") ELSE call[c]]
    /\ outstanding' = 0 /\ closing' = 0
    /\ req' = [r \in Requests |->
                 [req[r] EXCEPT !.confirmed = FALSE,
                                !.state = IF @ = "PENDING" THEN "EXPIRED" ELSE @]]
    /\ UNCHANGED <<cap, auto, world, effects, drifts>>

Advance(c) == \/ Classify(c) \/ VerifyTask(c) \/ VerifyGrant(c) \/ Run(c) \/ Describe(c)
              \/ Probe(c) \/ Claim(c) \/ Exec(c) \/ Drop(c) \/ Ask(c) \/ Note(c)

Init ==
    /\ cap \in Caps
    /\ call = [c \in Calls |-> NewCall]
    /\ outstanding = 0 /\ closing = 0 /\ req = <<>>
    /\ auto = [running |-> FALSE, grant |-> None]
    /\ world \in Worlds
    /\ effects = <<>> /\ drifts = 0 /\ restarts = 0

Next ==
    \/ \E c \in Calls : \/ \E i \in Inputs, given \in Requests \cup {0} : Request(c, i, given)
                        \/ Advance(c)
    \/ \E r \in Requests : Approve(r) \/ Deny(r) \/ Expire(r)
    \/ GiveUp \/ Close \/ CreateAutomation \/ Pause \/ Revoke \/ Drift \/ Restart

\* A coroutine that can go on goes on; people and the world owe nothing.
Fairness == (\A c \in Calls : WF_vars(Advance(c))) /\ WF_vars(Close)
Spec == Init /\ [][Next]_vars /\ Fairness
\* ------------------------------------------------------------------ properties

\* Every field has its type, and what is noted as outstanding is a request.
TypeOK ==
    /\ cap \in Caps /\ world \in Worlds
    /\ \A c \in Calls :
         /\ call[c].pc \in Steps \cup {"idle", "done"} /\ call[c].out \in Outcomes \cup {"none"}
         /\ call[c].in \in Inputs \cup {None} /\ call[c].class \in Classes
         /\ call[c].given \in Requests \cup {0} /\ call[c].prev \in Requests \cup {0}
    /\ {outstanding, closing} \subseteq Requests \cup {0}
    /\ \A r \in Requests :
         /\ req[r].state \in {"PENDING", "APPROVED", "DENIED", "EXPIRED", "EXECUTING", "CONSUMED", "FAILED"}
         /\ req[r].confirmed \in BOOLEAN
    /\ auto \in [running : BOOLEAN, grant : Grant \cup {None}]
    /\ \A n \in DOMAIN effects : effects[n].by \in {"direct", "grant", "approval"}

\* What happened without a human was commanded, came from nobody foreign, is not
\* very critical, and under a grant is a harmless change of an automation's own;
\* whatever the capability is named or measured as (policy.py decide, router _classify).
NothingActsAlone ==
    \A n \in DOMAIN effects :
        LET e == effects[n]
            i == call[e.call].in
        IN  e.by # "approval" =>
              \/ call[e.call].class = "read_only" /\ cap.reads /\ ~cap.born /\ cap.risk < 2
              \/ /\ i.authority /\ i.commanded /\ ~i.untrusted
                 /\ i.origin \notin {"external_untrusted", "unspecified"}
                 /\ ~cap.born /\ cap.registered # "very_critical"
                 /\ i.origin = "background_automation" =>
                      e.by = "grant" /\ call[e.call].class = "ha_normal" /\ cap.risk < 2

\* An approval carries one effect, of a call that shows what the human saw, and
\* neither a denied nor a withdrawn one carries any (gateway resume, bridge claim).
EffectsAreApproved ==
    \A n \in DOMAIN effects : effects[n].by = "approval" =>
        LET r == effects[n].req IN
        /\ req[r].state \in {"CONSUMED", "FAILED"}
        /\ call[effects[n].call].shown = req[r].shown
        /\ \A m \in DOMAIN effects \ {n} : effects[m].by = "approval" => effects[m].req # r

\* An effect under a grant is measured on the very device the grant was given for.
GrantIsBound ==
    \A n \in DOMAIN effects : effects[n].by = "grant" =>
        auto.grant # None /\ auto.grant.device = call[effects[n].call].device

\* Who follows an entry on the display: the router's note, a withdrawal under way, or a call
\* that looks at it, withdraws it or has just put it up.
Followed(r) ==
    \/ r \in {outstanding, closing}
    \/ \E c \in Calls : call[c].prev = r /\ call[c].pc \in {"probe", "claim", "drop", "note"}

\* The two ways to lose sight of an entry: a call that names an approval puts the note aside,
\* and a call meets a note that another one has written since it looked.
MayLose(c) ==
    \/ call[c].given # 0 /\ call[c].pc \in {"describe", "probe", "claim", "exec"}
    \/ outstanding \notin {0, call[c].prev} /\ call[c].pc \in {"probe", "claim", "exec", "note"}

\* Two entries for one capability on the display are how the wrong one is confirmed: a call puts
\* one up only when the one it replaces is gone, and an entry that waits is followed until it is
\* settled, unless a call names an approval or meets the note of another one
\* (_mobile_approval, abandon_outstanding).
EntriesAreFollowed ==
    /\ \A c \in Calls : call[c].pc = "ask" /\ call'[c].pc = "note" =>
           \A r \in Requests : r = call[c].prev => req[r].state # "PENDING"
    /\ \A r \in Requests :
           Followed(r) /\ req'[r].state = "PENDING" =>
               Followed(r)' \/ \E c \in Calls : MayLose(c) /\ call'[c] # call[c]

\* A call never throws away an approval that was there before it looked and that
\* fits what it would show; only one given for something else, or given since.
ApprovalIsUsed ==
    \A c \in Calls :
        LET r == call[c].prev IN
        (call[c].pc = "drop" /\ call'[c].pc = "ask" /\ req[r].state = "APPROVED") =>
            req[r].shown # call[c].shown \/ call[c].status = "not_approved"

\* No answer is fetched a second time because the first one was a no.
NoAskAfterNo ==
    [][\A c \in Calls : (call[c].pc = "ask" /\ call'[c].pc = "note") =>
         (call[c].prev # 0 => req[call[c].prev].state # "DENIED")]_vars

\* The effect under a grant touches the device the grant was given for.
GrantReachesItsDevice ==
    \A n \in DOMAIN effects : effects[n].by = "grant" => effects[n].device = auto.grant.device

\* Every call comes to an end by itself, whatever humans and the world do.
CallsEnd == \A c \in Calls : call[c].pc \in Steps ~> call[c].pc = "done"
=============================================================================
