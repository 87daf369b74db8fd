------------------------------- MODULE RuleLife -------------------------------
(***************************************************************************)
(* The life of a lesson as everyone but the code sees it, with confidence, *)
(* thresholds, idle counters and the two passes of a call taken away:      *)
(* evidence is heard, and at some later time one call settles where every  *)
(* lesson stands, each of them one move further at most.  Evidence is      *)
(* needed to rise and to have fired, a rule that has fired is there for    *)
(* good, and only the user can overrule that.                              *)
(***************************************************************************)
EXTENDS Naturals

CONSTANTS Lessons,
          ForPattern, ForRule   \* corrections it takes to be a PATTERN, a RULE

VARIABLES tier,           \* "absent", or the tier lessons.md shows
          fired,          \* lessons that have fired
          heard,          \* corrections in favour of each
          given           \* lessons that came with their tier

lifeVars == <<tier, fired, heard, given>>

LifeInit ==
    /\ tier = [l \in Lessons |-> "absent"] /\ fired = {}
    /\ heard = [l \in Lessons |-> 0] /\ given = {}

Hear(S) ==
    /\ heard' = [l \in Lessons |-> IF l \in S THEN heard[l] + 1 ELSE heard[l]]
    /\ UNCHANGED <<tier, fired, given>>

Moved(l, from, into) == tier[l] \in from /\ tier'[l] \in into

Backed(l, n) == l \in given' \/ heard[l] >= n

\* A new lesson is at the bottom, or above it where its correction is enough
\* for that, or set aside where no idleness is allowed.
Born(l)     == \/ Moved(l, {"absent"}, {"INSTINCT", "UNTESTABLE"})
               \/ Moved(l, {"absent"}, {"PATTERN"}) /\ Backed(l, ForPattern)
Lifted(l)   == Moved(l, {"absent"}, {"INSTINCT", "PATTERN", "RULE"}) /\ l \in given' \ given
Promoted(l) == \/ Moved(l, {"INSTINCT"}, {"PATTERN"}) /\ Backed(l, ForPattern)
               \/ Moved(l, {"PATTERN"}, {"RULE"}) /\ Backed(l, ForRule)
Demoted(l)  == Moved(l, {"PATTERN"}, {"INSTINCT"})
SetAside(l) == \/ Moved(l, {"INSTINCT", "PATTERN"}, {"UNTESTABLE"})
               \/ Moved(l, {"RULE"}, {"UNTESTABLE"}) /\ l \notin fired
Killed(l)   == Moved(l, {"INSTINCT", "PATTERN", "UNTESTABLE"}, {"absent"})

\* What is known of a lesson is kept as long as the lesson is, and no longer.
Remembers(l) ==
    /\ l \in fired' => tier'[l] # "absent" /\ Backed(l, 1)
    /\ l \in fired => l \in fired' \/ Killed(l)
    /\ l \in given' => tier'[l] # "absent" /\ (l \in given \/ tier[l] = "absent")
    /\ l \in given => l \in given' \/ Killed(l)

Settle ==
    /\ \A l \in Lessons :
         /\ \/ tier'[l] = tier[l] \/ Born(l) \/ Lifted(l)
            \/ Promoted(l) \/ Demoted(l) \/ SetAside(l) \/ Killed(l)
         /\ Remembers(l)
    /\ heard' = [l \in Lessons |-> IF Killed(l) THEN 0 ELSE heard[l]]

\* The user takes a lesson out.
Retire(l) ==
    /\ tier' = [tier EXCEPT ![l] = "absent"]
    /\ fired' = fired \ {l}
    /\ heard' = [heard EXCEPT ![l] = 0]
    /\ given' = given \ {l}

LifeNext ==
    \/ Settle
    \/ \E l \in Lessons : Retire(l)
    \/ \E S \in SUBSET Lessons : Hear(S)

LifeSpec == LifeInit /\ [][LifeNext]_lifeVars
=============================================================================
