------------------------------ MODULE MCRuntime ------------------------------
(***************************************************************************)
(* Instances of Runtime for TLC.                                           *)
(***************************************************************************)
EXTENDS Runtime, TLC

CONSTANTS StoreFaults, GateFaults, PowerFaults, Crashes, ClockJumps

MCFaults == [store |-> StoreFaults, gate |-> GateFaults, power |-> PowerFaults,
             crash |-> Crashes, jump |-> ClockJumps]
BackAndForth == {-1, 1}
Forward == {1}
NoJumps == {}

Symmetry == Permutations(TimerId)
=============================================================================
