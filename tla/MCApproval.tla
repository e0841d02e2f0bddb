----------------------------- MODULE MCApproval -----------------------------
(* Model-checking instances of ApprovalResolution: amounts in units of ten    *)
(* thousand rupees of the adversarial fixture (365,000 committed, a 90,000    *)
(* quote, a 400,000 threshold).                                               *)
EXTENDS ApprovalResolution, TLC

CONSTANTS i1, i2, k1, k2, none

OneInstance == {i1}
TwoInstances == {i1, i2}
OneKey == {k1}
TwoKeys == {k1, k2}
ApproveOnly == {"APPROVE"}
RejectOnly == {"REJECT"}
BothDecisions == {"APPROVE", "REJECT"}

\* Nothing tells two idempotency keys apart but their being different.
KeySymmetry == Permutations(Keys)
=============================================================================
