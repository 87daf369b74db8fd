-------------------------------- MODULE Learning --------------------------------
(***************************************************************************)
(* How corrections become rules (_core.py, enhancements/self_improvement,  *)
(* rule_canary.py, brain.py, hooks/session_close.py, rule_pipeline.py).    *)
(* A lesson has a tier, INSTINCT, PATTERN or RULE, that its confidence and *)
(* its fire count decide.  Two pieces of code move it: update_confidence,  *)
(* which correct() and end_session() call and which promotes and demotes   *)
(* inline, and graduate(), which end_session() calls next and which the    *)
(* session_close hook and the rule pipeline call alone.  Each call parses  *)
(* lessons.md anew: nothing of a session but the file outlives the call,   *)
(* and a process can end between the steps of end_session.  Calls do not   *)
(* overlap here; LessonsFile is about calls that do.                       *)
(*                                                                         *)
(* Confidence is in hundredths; a tie between two hundredths rounds up     *)
(* (the code's floats decide it one way or the other).                     *)
(***************************************************************************)
EXTENDS Integers, FiniteSets

CONSTANTS
    Lessons, Categories,
    CategoryOf,             \* the category of each lesson
    Gated,                  \* lessons whose correction came with approval_required
    OneOff,                 \* lessons whose correction_scope is "one_off"
    Severities,             \* the severities and
    Directions,             \*   the directions of the corrections that occur
    PatternAbove,           \* PATTERN_THRESHOLD as salted for this brain: above
    PatternBelow,           \*   the one a lesson is promoted, below the other demoted
    RuleAt,                 \* RULE_THRESHOLD as salted for this brain
    MinPattern, MinRule,    \* brain-config.json: the fires a PATTERN and a RULE need
    KillLimit, Grace,       \* KILL_LIMITS: idle calls of a lesson; and of an UNTESTABLE one
    BlendFrom, BlendTo,     \* observations from which, to which the posterior gains weight
    MaxCalls, MaxSessions   \* bounds: calls, sessions

VARIABLES
    file,                   \* lessons.md
    mem,                    \* the lessons as the call under way has them
    pc,                     \* where that call is
    todo,                   \* promotions end_session has not announced yet
    canary,                 \* rule_canary: per category, its row
    agents,                 \* AGENTS.md: the rules it shows
    session,                \* the highest session number in the events
    calls,                  \* calls so far
    heard,                  \* history: corrections that raised a lesson's fire count
    quiet,                  \* history: calls since that happened, up to KillLimit
    given                   \* history: lessons that came with their tier

callVars == <<mem, pc, todo>>
history  == <<heard, quiet, given>>
vars     == <<file, callVars, canary, agents, session, calls, history>>

Tiers   == {"absent", "INSTINCT", "PATTERN", "RULE", "UNTESTABLE", "KILLED"}
Lesson  == [tier : Tiers, conf : 0..100, fires : Nat, idle : Nat,
            wins : Nat, losses : Nat, pending : BOOLEAN]

Fresh(tier, conf, pending) ==
    [tier |-> tier, conf |-> conf, fires |-> 0, idle |-> 0,
     wins |-> 0, losses |-> 0, pending |-> pending]
Absent == Fresh("absent", 0, FALSE)
Blank  == [l \in Lessons |-> Absent]

Present(f) == {l \in Lessons : f[l].tier # "absent"}
RulesOf(f) == {l \in Lessons : f[l].tier = "RULE"}

Within(c) == {l \in Lessons : CategoryOf[l] = c}

Initial == 60               \* INITIAL_CONFIDENCE
MaxDelta == 30              \* MAX_PER_SESSION_DELTA
CanarySessions == 3         \* CANARY_SESSIONS
Weight         == [trivial |-> 20, minor |-> 50, moderate |-> 80, major |-> 100, rewrite |-> 130]
SurvivalWeight == [trivial |-> 30, minor |-> 60, moderate |-> 80, major |-> 100, rewrite |-> 120]
Boost          == [trivial |-> 80, minor |-> 90, moderate |-> 100, major |-> 165, rewrite |-> 180]

ASSUME LearningAssumption ==
    /\ CategoryOf \in [Lessons -> Categories] /\ IsFiniteSet(Lessons)
    /\ Gated \subseteq Lessons /\ OneOff \subseteq Lessons
    /\ Severities \subseteq DOMAIN Weight
    /\ Directions \subseteq {"REINFORCING", "CONTRADICTING", "UNKNOWN"}
    /\ PatternAbove \in 0..100 /\ PatternBelow \in PatternAbove..PatternAbove + 1
    /\ RuleAt \in 0..100 /\ PatternBelow < RuleAt
    /\ MinPattern \in Nat \ {0} /\ MinRule \in Nat \ {0}
    /\ KillLimit \in Nat \ {0} /\ Grace \in Nat \ {0}
    /\ BlendFrom \in Nat /\ BlendTo \in Nat /\ BlendFrom < BlendTo
    /\ MaxCalls \in Nat /\ MaxSessions \in Nat
-----------------------------------------------------------------------------
Least(a, b)    == IF a < b THEN a ELSE b
Greatest(a, b) == IF a < b THEN b ELSE a
Clamp(lo, x, hi) == Greatest(lo, Least(x, hi))
Percent(x)     == Clamp(0, x, 100)
Nearest(n, d)  == (2 * n + d) \div (2 * d)

(* Confidence after an FSRS bonus and after an FSRS penalty, of weight w   *)
(* and the multiplier m, which is capped at MAX_PER_STEP_PENALTY.          *)
Gained(k, w) == Percent(Nearest(1000 * k + (200 - k) * w, 1000))
Lost(k, w, m) ==
    LET base == Nearest(850000 + 136 * k * k, 1000) IN
    Percent(Nearest(1000000 * k - Least(base * w * m, 20000000), 1000000))

(* The posterior of the beta distribution, blended in as observations      *)
(* accumulate.                                                             *)
Blended(k, wins, losses) ==
    LET n == wins + losses
        whole == 10 * (BlendTo - BlendFrom)
        part  == 7 * (Clamp(BlendFrom, n, BlendTo) - BlendFrom)
        mean  == Nearest(10000 * (1 + wins), 2 + n)
    IN Percent(Nearest(part * mean + (whole - part) * k * 100, 100 * whole))

(* What a call knows: no correction, or one of a category and a severity   *)
(* that misfired or that has a direction for each lesson of its category.  *)
Silence == [kind |-> "none"]
Correction(c, s, dir) == [kind |-> "corrected", cat |-> c, severity |-> s, dir |-> dir]
Misfire(c, s) == [kind |-> "misfired", cat |-> c, severity |-> s]

Reinforced(r, s) ==
    [r EXCEPT !.wins = @ + 1, !.fires = @ + 1,
              !.conf = Greatest(Blended(Gained(r.conf, Weight[s]), r.wins + 1, r.losses), r.conf)]

Severe(r, s) == ((IF r.tier = "RULE" THEN 180 ELSE 150) * Boost[s]) \div 100

\* MUTANT: the posterior has the last word on a penalty.
PenalizedByBlend(r, s, direction) ==
    LET m == IF direction = "CONTRADICTING" THEN Severe(r, s) ELSE 100 IN
    [r EXCEPT !.losses = @ + 1,
              !.conf = Blended(Lost(r.conf, Weight[s], m), r.wins, r.losses + 1)]

Penalized(r, s, direction) ==
    LET m == IF direction = "CONTRADICTING" THEN Severe(r, s) ELSE 100 IN
    [r EXCEPT !.losses = @ + 1,
              !.conf = Least(Blended(Lost(r.conf, Weight[s], m), r.wins, r.losses + 1), r.conf)]

\* MUTANT: surviving counts as a fire.
SurvivedFired(r, s) ==
    [r EXCEPT !.fires = @ + 1,
              !.conf = Percent(Nearest(10000 * @ + (2000 - 10 * @) * SurvivalWeight[s], 10000))]

\* No lesson is ever marked as injected, so surviving does not count as a fire.
Survived(r, s) ==
    [r EXCEPT !.conf = Percent(Nearest(10000 * @ + (2000 - 10 * @) * SurvivalWeight[s], 10000))]

Scored(l, r, ev) ==
    CASE ev.kind = "none" -> r
      [] ev.kind = "misfired" /\ ev.cat = CategoryOf[l] -> [r EXCEPT !.conf = Percent(@ - 15)]
      [] ev.kind = "corrected" /\ ev.cat = CategoryOf[l] ->
           IF ev.dir[l] = "REINFORCING" THEN Reinforced(r, ev.severity)
                                        ELSE Penalized(r, ev.severity, ev.dir[l])
      [] OTHER -> Survived(r, ev.severity)

\* MUTANT: a lesson is shelved for its idleness although it has fired.
AgedAnyway(r) ==
    [r EXCEPT !.idle = @ + 1, !.tier = IF r.idle + 1 >= KillLimit THEN "UNTESTABLE" ELSE @]

\* sessions_since_fire goes up whether or not the lesson fired.
Aged(r) ==
    [r EXCEPT !.idle = @ + 1,
              !.tier = IF r.fires = 0 /\ r.idle + 1 >= KillLimit THEN "UNTESTABLE" ELSE @]

Capped(r, pre) == [r EXCEPT !.conf = Clamp(Greatest(0, pre - MaxDelta), @, Least(100, pre + MaxDelta))]

(* What a lesson is measured by: the thresholds and minimums of the brain, *)
(* or those of a process that has opened no brain, and read no config.     *)
OwnBar == [above |-> PatternAbove, below |-> PatternBelow, rule |-> RuleAt,
           forPattern |-> MinPattern, forRule |-> MinRule]
DefaultBar == [above |-> 60, below |-> 60, rule |-> 90, forPattern |-> 2, forRule |-> 3]

Ripe(r, bar) ==
    \/ r.tier = "INSTINCT" /\ r.conf > bar.above /\ r.fires >= bar.forPattern
    \/ r.tier = "PATTERN" /\ r.conf >= bar.rule /\ r.fires >= bar.forRule
Overripe(r, bar) == r.tier = "PATTERN" /\ r.conf < bar.below

Promote(r) == [r EXCEPT !.tier = IF @ = "INSTINCT" THEN "PATTERN" ELSE "RULE"]
Demote(r)  == [r EXCEPT !.tier = "INSTINCT"]

Retiered(r) ==
    IF Ripe(r, OwnBar) THEN Promote(r) ELSE IF Overripe(r, OwnBar) THEN Demote(r) ELSE r

(* update_confidence.                                                      *)
Updated(l, r, ev) ==
    IF r.tier = "absent" THEN r ELSE Retiered(Capped(Aged(Scored(l, r, ev)), r.conf))

\* MUTANT: an UNTESTABLE lesson gets no grace.
GraduatedAtOnce(l, r, bar, held, suspect) ==
    [r EXCEPT !.tier = IF @ = "UNTESTABLE" /\ ~r.pending /\ r.idle >= KillLimit THEN "KILLED" ELSE @]

\* MUTANT: a rule at zero confidence is killed as well.
GraduatedRulesToo(l, r, bar, held, suspect) ==
    IF r.tier \notin {"absent", "UNTESTABLE"} /\ (r.conf = 0 \/ r.idle > KillLimit)
    THEN [r EXCEPT !.tier = "KILLED"] ELSE r

(* graduate: the verdict on one lesson.  held says that it has moved in    *)
(* this call already or that a gate (the lower bound of its posterior, a   *)
(* duplicate, a contradiction, fragile wording) blocks it, suspect that it *)
(* is quarantined.                                                         *)
Graduated(l, r, bar, held, suspect) ==
    LET dying == r.tier \in {"INSTINCT", "PATTERN"}
        ripe  == Ripe(r, bar) /\ l \notin OneOff /\ ~held
    IN
    IF r.tier = "absent" \/ r.pending THEN r
    ELSE IF r.tier = "UNTESTABLE" THEN
        [r EXCEPT !.tier = IF r.idle >= KillLimit + Grace THEN "KILLED" ELSE @]
    ELSE IF r.conf = 0 THEN [r EXCEPT !.tier = IF dying THEN "KILLED" ELSE @]
    ELSE IF dying /\ r.idle >= KillLimit THEN [r EXCEPT !.tier = "UNTESTABLE"]
    ELSE IF ripe /\ r.tier = "PATTERN" /\ suspect THEN [r EXCEPT !.pending = TRUE]
    ELSE IF ripe THEN Promote(r)
    ELSE IF Overripe(r, bar) THEN Demote(r) ELSE r

\* MUTANT: killed lessons are written.
FormattedAll(f) == f

\* What format_lessons writes: a killed lesson is dropped.
Formatted(f) == [l \in Lessons |-> IF f[l].tier = "KILLED" THEN Absent ELSE f[l]]
-----------------------------------------------------------------------------
Init ==
    /\ file = Blank /\ mem = Blank /\ pc = "idle" /\ todo = {}
    /\ canary = [c \in Categories |-> [status |-> "none", since |-> 0]]
    /\ agents = {} /\ session = 1 /\ calls = 0
    /\ heard = [l \in Lessons |-> 0] /\ quiet = [l \in Lessons |-> 0] /\ given = {}

Call == pc = "idle" /\ calls < MaxCalls /\ calls' = calls + 1

\* A call in which the lessons of fired have fired.
Listen(fired) ==
    /\ heard' = [l \in Lessons |-> IF l \in fired THEN heard[l] + 1 ELSE heard[l]]
    /\ quiet' = [l \in Lessons |-> IF l \in fired THEN 0 ELSE Least(quiet[l] + 1, KillLimit)]
    /\ UNCHANGED given

\* The history of a lesson is that of its present life: it ends with the lesson.
Dead(f) == {l \in Lessons : f[l].tier = "KILLED"}
Remember(came, gone) ==
    /\ heard' = [l \in Lessons |-> IF l \in gone THEN 0 ELSE heard[l]]
    /\ quiet' = [l \in Lessons |-> IF l \in gone THEN 0 ELSE quiet[l]]
    /\ given' = (given \cup came) \ gone

FiredBy(ev) ==
    {l \in Lessons : ev.kind = "corrected" /\ ev.cat = CategoryOf[l] /\ ev.dir[l] = "REINFORCING"}

Born(l) == Fresh("INSTINCT", IF l \in Gated THEN 0 ELSE Initial, l \in Gated)

\* The lesson the correction is matched with, or the one it makes.
Matched(l) == IF file[l].tier = "absent" THEN Born(l) ELSE [file[l] EXCEPT !.fires = @ + 1]

(* correct, up to the write.                                               *)
Correct(l, s, dir) ==
    /\ Call
    /\ LET read == [file EXCEPT ![l] = Matched(l)]
           ev == Correction(CategoryOf[l], s, dir)
       IN /\ mem' = [x \in Lessons |-> Updated(x, read[x], ev)]
          /\ Listen((FiredBy(ev) \cap Present(read)) \cup ({l} \cap Present(file)))
    /\ pc' = "corrected"
    /\ UNCHANGED <<file, todo, canary, agents, session>>

WriteCorrected ==
    /\ pc = "corrected"
    /\ file' = Formatted(mem)
    /\ mem' = Blank /\ pc' = "idle"
    /\ Remember({}, Dead(mem))
    /\ UNCHANGED <<todo, canary, agents, session, calls>>

(* end_session.  update_confidence, then graduate, on what was read.  A    *)
(* PATTERN that is ripe has been promoted by the former, which has no      *)
(* gates, before the latter comes to its own.                              *)
Swept(ev) ==
    [l \in Lessons |->
        LET r == Updated(l, file[l], ev) IN
        Graduated(l, r, OwnBar, r.tier # file[l].tier, FALSE)]

EndSession(ev) ==
    /\ Call
    /\ Present(file) # {}
    /\ mem' = Swept(ev)
    /\ todo' = {l \in Lessons : mem'[l].tier # file[l].tier /\ mem'[l].tier \in {"PATTERN", "RULE"}}
    /\ Listen(FiredBy(ev) \cap Present(file))
    /\ pc' = "announce"
    /\ UNCHANGED <<file, canary, agents, session>>

\* The GRADUATION event, and for a rule promote_to_canary.
Announce(l) ==
    /\ pc = "announce" /\ l \in todo
    /\ todo' = todo \ {l}
    /\ canary' = IF mem[l].tier = "RULE"
                 THEN [canary EXCEPT ![CategoryOf[l]] = [status |-> "canary", since |-> session]]
                 ELSE canary
    /\ UNCHANGED <<file, mem, pc, agents, session, calls, history>>

\* MUTANT: the file is written before the promotions are announced.
WriteFirst ==
    /\ pc = "announce"
    /\ file' = Formatted(mem)
    /\ mem' = Blank /\ todo' = {}
    /\ pc' = IF \E l \in Lessons : mem[l].tier # file[l].tier THEN "export" ELSE "health"
    /\ Remember({}, Dead(mem))
    /\ UNCHANGED <<canary, agents, session, calls>>

WriteSwept ==
    /\ pc = "announce" /\ todo = {}
    /\ file' = Formatted(mem)
    /\ mem' = Blank
    /\ pc' = IF \E l \in Lessons : mem[l].tier # file[l].tier THEN "export" ELSE "health"
    /\ Remember({}, Dead(mem))
    /\ UNCHANGED <<todo, canary, agents, session, calls>>

\* AGENTS.md is rewritten if this call moved a lesson.
Export ==
    /\ pc = "export"
    /\ agents' = RulesOf(file)
    /\ pc' = "health"
    /\ UNCHANGED <<file, mem, todo, canary, session, calls, history>>

(* The canary sweep.  It counts the corrections that carry rule_category;  *)
(* nothing in the code sets that field, so no rule is found unhealthy.     *)
OnTrial(c) == canary[c].status = "canary" /\ \E l \in RulesOf(file) : CategoryOf[l] = c

CheckCanaries ==
    /\ pc = "health"
    /\ canary' = [c \in Categories |->
                    IF OnTrial(c) /\ session - canary[c].since + 1 >= CanarySessions
                    THEN [canary[c] EXCEPT !.status = "active"] ELSE canary[c]]
    /\ pc' = "idle"
    /\ UNCHANGED <<file, mem, todo, agents, session, calls, history>>

\* The process ends in the middle of a call.
Crash ==
    /\ pc # "idle"
    /\ pc' = "idle" /\ mem' = Blank /\ todo' = {}
    /\ UNCHANGED <<file, canary, agents, session, calls, history>>

\* An event of the next session is emitted.
NewSession ==
    /\ pc = "idle" /\ session < MaxSessions
    /\ session' = session + 1
    /\ UNCHANGED <<file, callVars, canary, agents, calls, history>>
-----------------------------------------------------------------------------
(* add_rule, with the tier and the confidence it defaults to.              *)
AddRule(l) ==
    /\ Call
    /\ file[l].tier = "absent"
    /\ file' = [file EXCEPT ![l] = Fresh("RULE", 90, FALSE)]
    /\ Remember({l}, {})
    /\ UNCHANGED <<callVars, canary, agents, session>>

(* forget and rollback, after which AGENTS.md still shows the rule.        *)
Forget(l) ==
    /\ Call
    /\ file[l].tier # "absent"
    /\ file' = [file EXCEPT ![l] = Absent]
    /\ Remember({}, {l})
    /\ UNCHANGED <<callVars, canary, agents, session>>

\* graduate() alone, in the hook's process.
Sweep(f, blocked, suspect) ==
    [l \in Lessons |-> Graduated(l, f[l], DefaultBar, l \in blocked, l \in suspect)]

(* The session_close hook: graduate, a bare write, and AGENTS.md if there  *)
(* is anything that is neither INSTINCT nor PATTERN.                       *)
HookGraduate(blocked, suspect) ==
    /\ Call
    /\ Present(file) # {}
    /\ LET swept == Sweep(file, blocked, suspect) IN
       /\ file' = Formatted(swept)
       /\ agents' = IF \E l \in Present(swept) : swept[l].tier \notin {"INSTINCT", "PATTERN"}
                    THEN RulesOf(file') ELSE agents
       /\ Remember({}, Dead(swept))
    /\ UNCHANGED <<callVars, canary, session>>

\* _state_for_sessions: a mined pattern comes with the tier its sessions earn.
Mined(sessions) ==
    [Fresh(IF sessions >= 5 THEN "RULE" ELSE "PATTERN",
           IF sessions >= 5 THEN 92 ELSE IF sessions >= 3 THEN 80 ELSE 70, FALSE)
       EXCEPT !.fires = sessions]
Observed == Fresh("INSTINCT", 40, TRUE)

(* run_rule_pipeline: what the mined patterns, or the review of the brain's *)
(* own output, offer joins the lessons unless they have it, then graduate  *)
(* and a bare write; the hook shows the rules if any lesson was lifted or  *)
(* promoted.  (Freshness decay is left out: it asks for a rule that never  *)
(* fired, idle for more than 30 calls, and such a rule is UNTESTABLE.)     *)
Offers == {Absent, Observed} \cup {Mined(n) : n \in {2, 3, 5}}

Pipeline(l, offer, blocked, suspect) ==
    /\ Call
    /\ LET news   == file[l].tier = "absent" /\ offer # Absent
           read   == IF news THEN [file EXCEPT ![l] = offer] ELSE file
           swept  == Sweep(read, blocked, suspect)
           lifted == news /\ offer # Observed
           raised == {x \in Lessons : swept[x].tier # read[x].tier /\ swept[x].tier \in {"PATTERN", "RULE"}}
       IN /\ file' = Formatted(swept)
          /\ agents' = IF lifted \/ raised # {} THEN RulesOf(file') ELSE agents
          /\ Remember(IF news THEN {l} ELSE {}, Dead(swept))
    /\ UNCHANGED <<callVars, canary, session>>
-----------------------------------------------------------------------------
Evidence ==
    {Silence}
    \cup {Misfire(c, s) : c \in Categories, s \in Severities}
    \cup UNION {{Correction(c, s, dir) : s \in Severities, dir \in [Within(c) -> Directions]} :
                 c \in Categories}

\* The lessons a gate can hold back.
Candidates == {l \in Lessons : file[l].tier = "PATTERN" /\ Ripe(file[l], DefaultBar)}

Next ==
    \/ \E l \in Lessons, s \in Severities :
        \E dir \in [Within(CategoryOf[l]) -> Directions] : Correct(l, s, dir)
    \/ WriteCorrected
    \/ \E ev \in Evidence : EndSession(ev)
    \/ \E l \in Lessons : Announce(l)
    \/ WriteSwept \/ Export \/ CheckCanaries \/ Crash \/ NewSession
    \/ \E l \in Lessons : AddRule(l) \/ Forget(l)
    \/ \E blocked \in SUBSET Candidates :
        \E suspect \in SUBSET (Candidates \ blocked) :
            \/ HookGraduate(blocked, suspect)
            \/ \E l \in Lessons, offer \in Offers : Pipeline(l, offer, blocked, suspect)

Spec == Init /\ [][Next]_vars
-----------------------------------------------------------------------------
(* The shape of every variable; nothing is half done while no call is      *)
(* under way; what was killed is not in the file.                          *)
FileTypeOK ==
    /\ file \in [Lessons -> Lesson] /\ mem \in [Lessons -> Lesson]
    /\ \A l \in Lessons : file[l].tier # "KILLED"
CallTypeOK ==
    /\ pc \in {"idle", "corrected", "announce", "export", "health"}
    /\ todo \subseteq Lessons /\ given \subseteq Lessons /\ agents \subseteq Lessons
    /\ pc \notin {"corrected", "announce"} => mem = Blank
    /\ pc # "announce" => todo = {}
CountTypeOK ==
    /\ canary \in [Categories -> [status : {"none", "canary", "active"}, since : 0..MaxSessions + 1]]
    /\ session \in 1..MaxSessions + 1 /\ calls \in 0..MaxCalls
    /\ heard \in [Lessons -> Nat] /\ quiet \in [Lessons -> 0..KillLimit]
TypeOK == FileTypeOK /\ CallTypeOK /\ CountTypeOK

(* The corrections that so many fires are evidence of: one that is matched *)
(* with the lesson it reinforces counts twice.                             *)
Corrections(fires) == (fires + 1) \div 2
FloorOfPattern == Corrections(Least(OwnBar.forPattern, DefaultBar.forPattern))
FloorOfRule    == Corrections(Least(OwnBar.forRule, DefaultBar.forRule))

(* SPEC guardrail of graduate(), which the inline promotions share: no     *)
(* promotion from silence.  Whatever survival does to its confidence, in   *)
(* however many calls, a lesson that did not come with its tier is a       *)
(* PATTERN or a RULE only if corrections made it fire, with the default    *)
(* minimums one for a PATTERN and two for a RULE, in its present life:     *)
(* what it was before it died does not count.                              *)
NoPromotionFromSilence ==
    \A l \in Lessons \ given :
        /\ file[l].tier = "PATTERN" => heard[l] >= FloorOfPattern
        /\ file[l].tier = "RULE" => heard[l] >= FloorOfRule

(* "The fire-count gates are non-bypassable", and configured: whoever      *)
(* promotes a lesson, it has the fires that brain-config.json asks for.    *)
ConfiguredMinimums ==
    \A l \in Lessons \ given :
        /\ file[l].tier = "PATTERN" => file[l].fires >= MinPattern
        /\ file[l].tier = "RULE" => file[l].fires >= MinRule

(* The two passes of a call, update_confidence and then graduate, do not   *)
(* add up: between two states of the file a lesson goes up or down one     *)
(* tier at most, and unless the user retires it, it disappears only when   *)
(* its confidence was within MAX_PER_SESSION_DELTA of zero, or when it has *)
(* been UNTESTABLE to the end of its grace.                                *)
Moves ==
    {<<"INSTINCT", "PATTERN">>, <<"PATTERN", "RULE">>, <<"PATTERN", "INSTINCT">>}
    \cup {<<t, "UNTESTABLE">> : t \in {"INSTINCT", "PATTERN", "RULE"}}
MayDie(r) ==
    \/ r.tier \in {"INSTINCT", "PATTERN"} /\ r.conf <= MaxDelta
    \/ r.tier = "UNTESTABLE" /\ r.idle + 1 >= KillLimit + Grace
OneTierPerCall ==
    [][\A l \in Lessons :
         \/ file[l].tier \in {"absent", file'[l].tier}
         \/ <<file[l].tier, file'[l].tier>> \in Moves
         \/ file'[l].tier = "absent" /\ MayDie(file[l])
         \/ Forget(l)]_vars

(* Calls that are cut short, sweeps of three kinds and two passes in one   *)
(* call amount to the life of a lesson: between hearing and writing a call *)
(* may die, but what it writes moves every lesson by one edge of the       *)
(* lifecycle at most, upwards only on evidence that had been heard, and a  *)
(* fire is never forgotten nor made up.                                    *)
Life == INSTANCE RuleLife WITH
    ForPattern <- FloorOfPattern, ForRule <- FloorOfRule,
    tier  <- [l \in Lessons |-> file[l].tier],
    fired <- {l \in Lessons : file[l].fires > 0}
ImplementsLife == Life!LifeSpec

(* A rule that has fired is the user's to retire: no penalty, no idleness  *)
(* and no sweep of hook, pipeline or session takes it out of the file or   *)
(* down a tier.                                                            *)
FiredRuleStays ==
    [][\A l \in Lessons :
         file[l].tier = "RULE" /\ file[l].fires > 0 => file'[l].tier = "RULE" \/ Forget(l)]_vars

(* Gap 4 of the audit: one call moves the confidence of a lesson by        *)
(* MAX_PER_SESSION_DELTA at most, however FSRS and the posterior add up.   *)
DeltaCapped ==
    [][\A l \in Lessons :
         file[l].tier # "absent" /\ file'[l].tier # "absent"
             => file'[l].conf - file[l].conf \in -MaxDelta..MaxDelta]_vars

(* Audit #1.3: the posterior cannot overrule the correction.  A lesson     *)
(* the correction reinforces does not lose confidence and one it does not  *)
(* reinforce does not gain any.                                            *)
EvidenceMovesItsWay ==
    [][pc' = "corrected" =>
         \A l \in Lessons, s \in Severities :
         \A dir \in [Within(CategoryOf[l]) -> Directions] :
            Correct(l, s, dir) =>
                \A x \in DOMAIN dir \cap Present(file) :
                    IF dir[x] = "REINFORCING" THEN mem'[x].conf >= file[x].conf
                                              ELSE mem'[x].conf <= file[x].conf]_vars

(* A rule that end_session promotes is on trial before anyone can read it  *)
(* in lessons.md: a crash in between leaves a trial without a rule, never  *)
(* a rule without a trial.                                                 *)
TriedWhenSeen ==
    [][WriteSwept =>
         \A l \in RulesOf(file') \ RulesOf(file) :
            canary[CategoryOf[l]] = [status |-> "canary", since |-> session]]_vars

(* What a sweep leaves behind could live: no INSTINCT or PATTERN lesson,   *)
(* unless it awaits approval, is at zero confidence or past its idle limit *)
(* when end_session has written the file.                                  *)
SweepLeavesNoDead ==
    [][WriteSwept =>
         \A l \in Lessons :
            file'[l].tier \in {"INSTINCT", "PATTERN"} /\ ~file'[l].pending
                => file'[l].conf > 0 /\ file'[l].idle < KillLimit]_vars

(* Said of sessions_since_fire and of the kill limits: a lesson becomes    *)
(* UNTESTABLE when it has not fired for so many sessions.                  *)
UntestableMeansSilent ==
    [][\A l \in Lessons :
         file[l].tier # "UNTESTABLE" /\ file'[l].tier = "UNTESTABLE" => quiet[l] >= KillLimit]_vars
=============================================================================
