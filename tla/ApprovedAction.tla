--------------------------- MODULE ApprovedAction ---------------------------
(***************************************************************************)
(* What the mobile approval path promises for one requested action, with   *)
(* no devices, leases, processes or crashes: a human is asked; the answer  *)
(* is final; an approved action is taken up at most once; from the durable *)
(* boundary on its effect MAY have happened; and the answer finally        *)
(* written into the journal is the truth about the outside world.          *)
(***************************************************************************)
EXTENDS Naturals

CONSTANT Approvals     \* the actions that may be asked for

Phases == {"unasked", "asked", "approved", "refused", "claimed", "may_have_happened",
           "happened", "did_not_happen"}

VARIABLES phase,    \* what the journal lets a reader conclude
          effects   \* how often the external effect is in the world

absVars == <<phase, effects>>

TypeOK ==
    /\ phase \in [Approvals -> Phases]
    /\ effects \in [Approvals -> 0 .. 1]

Init ==
    /\ phase = [a \in Approvals |-> "unasked"]
    /\ effects = [a \in Approvals |-> 0]

Move(a, from, to) ==
    /\ phase[a] = from
    /\ phase' = [phase EXCEPT ![a] = to]
    /\ UNCHANGED effects

Ask(a)     == Move(a, "unasked", "asked")
Approve(a) == Move(a, "asked", "approved")
Claim(a)   == Move(a, "approved", "claimed")
Cross(a)   == Move(a, "claimed", "may_have_happened")
GiveUp(a)  == Move(a, "claimed", "did_not_happen")

\* A denial ends one action before anyone took it up; a deadline sweep may end several.
Refuse(S) ==
    /\ S # {} /\ \A a \in S : phase[a] \in {"asked", "approved"}
    /\ phase' = [a \in Approvals |-> IF a \in S THEN "refused" ELSE phase[a]]
    /\ UNCHANGED effects

\* The world changes only behind the boundary, and once.
TakeEffect(a) ==
    /\ phase[a] = "may_have_happened"
    /\ effects[a] = 0
    /\ effects' = [effects EXCEPT ![a] = 1]
    /\ UNCHANGED phase

\* The verdict must agree with the world.
Confirm(a) == effects[a] = 1 /\ Move(a, "may_have_happened", "happened")
RuleOut(a) == effects[a] = 0 /\ Move(a, "may_have_happened", "did_not_happen")

Next ==
    \/ \E a \in Approvals :
           \/ Ask(a) \/ Approve(a) \/ Claim(a) \/ Cross(a) \/ GiveUp(a)
           \/ TakeEffect(a) \/ Confirm(a) \/ RuleOut(a)
    \/ \E S \in SUBSET Approvals : Refuse(S)

Spec == Init /\ [][Next]_absVars
=============================================================================
