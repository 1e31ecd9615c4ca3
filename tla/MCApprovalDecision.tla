------------------------- MODULE MCApprovalDecision -------------------------
(* Small instances of ApprovalDecision for TLC.                            *)
EXTENDS ApprovalDecision, TLC

\* No action singles out an approval, a device, a key, a nonce or a handler.
Symmetry ==
    UNION {Permutations(S) : S \in {Approvals, Devices, ApprovalKeys, AttestKeys, Nonces,
                                    Handlers}}
=============================================================================
