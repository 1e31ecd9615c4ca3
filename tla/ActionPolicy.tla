---------------------------- MODULE ActionPolicy ----------------------------
(***************************************************************************)
(* Approval policy V2 of capabilities/policy.py: which decision a call     *)
(* gets from where it comes from and from what it does.  Pure operators    *)
(* that CapabilityCall applies to calls.                                   *)
(***************************************************************************)
EXTENDS Integers

Origins == {"trusted_interactive_app", "room_voice", "local_owner",
            "background_automation", "external_untrusted", "unspecified"}
Classes == {"read_only", "ha_normal", "ha_security", "normal_write", "critical",
            "very_critical", "unclassified"}
Decisions == {"execute_directly", "require_face_id", "deny"}

Strictness == [execute_directly |-> 0, require_face_id |-> 1, deny |-> 2]
stricter(d, e) == IF Strictness[d] >= Strictness[e] THEN d ELSE e

\* What each origin may do without asking; what it may not do at all.
Free(o) == CASE o = "trusted_interactive_app" -> Classes \ {"very_critical", "unclassified"}
             [] o \in {"room_voice", "local_owner"} -> {"read_only", "ha_normal"}
             [] OTHER -> {"read_only"}
Closed(o) == CASE o = "external_untrusted" -> Classes \ {"read_only"}
               [] o = "background_automation" -> {"very_critical"}
               [] OTHER -> {}

MATRIX(o, k) == CASE k \in Free(o) -> "execute_directly"
                  [] k \in Closed(o) -> "deny"
                  [] OTHER -> "require_face_id"

ClassRank == [k \in Classes |->
    CASE k = "read_only" -> 0
      [] k = "ha_normal" -> 1
      [] k \in {"ha_security", "normal_write", "critical"} -> 2
      [] k = "unclassified" -> 3
      [] OTHER -> 4]

\* Risk 0 is observing, 1 harmless, 2 mutating, 3 critical.
Risks == 0..3
RiskFloor(k, risk) == CASE risk = 2 -> "normal_write" [] risk = 3 -> "critical" [] OTHER -> k

\* A capability may not be classified below what it declares of itself.
apply_floor(k, risk) == IF ClassRank[k] >= ClassRank[RiskFloor(k, risk)]
                        THEN k ELSE RiskFloor(k, risk)

\* The birth rule goes before the capability's own claim to be reading only.
base_class(born, read_only, registered) ==
    IF born THEN "very_critical" ELSE IF read_only THEN "read_only" ELSE registered

\* The rule for whoever was not commanded, or acts on a foreign argument.
Overlay(o, k) == LET d == stricter(MATRIX(o, k), MATRIX(o, "critical"))
                 IN  IF d = "execute_directly" THEN "require_face_id" ELSE d

\* Mutant: the grant is looked at before the overlay.
decide_GrantFirst(o, k, commanded, untrusted, preauth) ==
    IF preauth /\ o = "background_automation" /\ k = "ha_normal" THEN "execute_directly"
    ELSE IF k # "read_only" /\ (~commanded \/ untrusted) THEN Overlay(o, k)
    ELSE MATRIX(o, k)

\* preauth: the bound grant of an automation carries this very effect.
decide(o, k, commanded, untrusted, preauth) ==
    IF k # "read_only" /\ (~commanded \/ untrusted) THEN Overlay(o, k)
    ELSE IF preauth /\ o = "background_automation" /\ k = "ha_normal" THEN "execute_directly"
    ELSE MATRIX(o, k)

\* Without the attested session an iPhone is a microphone in the room.
origin_for_session(channel, proof) ==
    CASE channel = "voice_iphone" -> IF proof THEN "trusted_interactive_app" ELSE "room_voice"
      [] channel = "voice_satellite" -> "room_voice"
      [] OTHER -> "unspecified"
=============================================================================
