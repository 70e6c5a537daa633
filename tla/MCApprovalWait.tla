--------------------------- MODULE MCApprovalWait ---------------------------
(* Instances of ApprovalWait for TLC.                                       *)
EXTENDS ApprovalWait, TLC

\* Requests and workers are interchangeable; reviewers are not, the published
\* node names some of them.
Symmetry == Permutations(Process)
=============================================================================
