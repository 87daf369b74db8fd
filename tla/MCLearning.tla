------------------------------ MODULE MCLearning ------------------------------
(* A small instance of Learning for TLC: two lessons of one category, the  *)
(* second one-off and born with approval_required, and a category without  *)
(* a lesson, whose corrections the two survive.                            *)
EXTENDS Learning

CONSTANTS l1, l2, c1, c2

TwoLessons    == {l1, l2}
TwoCategories == {c1, c2}
SameCategory  == [l \in TwoLessons |-> c1]
SecondOnly    == {l2}
OneSeverity   == {"rewrite"}
BothWays      == {"REINFORCING", "CONTRADICTING"}
===============================================================================
