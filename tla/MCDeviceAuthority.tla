-------------------------- MODULE MCDeviceAuthority --------------------------
(* Small instances of DeviceAuthority for TLC.                             *)
EXTENDS DeviceAuthority, TLC

\* No action singles out a device, a key, a token, a handler or an enrolment id.
Symmetry ==
    UNION {Permutations(S) : S \in {Devices, ApprovalKeys, AttestKeys, Tokens, Handlers,
                                    Enrollments}}
=============================================================================
