------------------------------ MODULE MCEventLog ------------------------------
(* Small instances of EventLog for TLC: events are interchangeable, and so   *)
(* are emitters.                                                             *)
EXTENDS EventLog, TLC

CONSTANTS e1, e2, a1, a2

TwoEvents   == {e1, e2}
EmittersMC  == {a1, a2}
TwoSymmetry == Permutations(TwoEvents) \cup Permutations(EmittersMC)
=============================================================================
