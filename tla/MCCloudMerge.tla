----------------------------- MODULE MCCloudMerge -----------------------------
(* Small instances of CloudMerge for TLC: two grades of PATTERN that do not  *)
(* clash, and one of RULE.                                                   *)
EXTENDS CloudMerge

CONSTANTS A, B

OneDevice  == {A}
TwoDevices == {A, B}
GradesMC ==
    {[state |-> "PATTERN", conf |-> 61], [state |-> "PATTERN", conf |-> 70],
     [state |-> "RULE", conf |-> 92]}
=============================================================================
