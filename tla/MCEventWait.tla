---------------------------- MODULE MCEventWait ----------------------------
(* Instances of EventWait for TLC.                                          *)
EXTENDS EventWait, TLC

\* Consumers, scheduler ticks and workers are interchangeable.
Symmetry == Permutations(Process)
=============================================================================
