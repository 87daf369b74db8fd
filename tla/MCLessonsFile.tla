---------------------------- MODULE MCLessonsFile ----------------------------
(* A small instance of LessonsFile for TLC: two callers, two lessons.      *)
EXTENDS LessonsFile

CONSTANTS p, q, l1, l2

TwoCallers == {p, q}
TwoLessons == {l1, l2}

(* The callers that take the lock, before they read or only to write.      *)
LockersSpec == Init /\ [][Next /\ \A a \in Callers : kind'[a] # "bare"]_vars
=============================================================================
