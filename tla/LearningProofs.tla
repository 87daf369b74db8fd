---------------------------- MODULE LearningProofs ----------------------------
(***************************************************************************)
(* What Learning promises, for every value of its constants.  The bounds   *)
(* on confidence come from the clamps alone, so no proof looks into the    *)
(* FSRS or the beta arithmetic.                                            *)
(***************************************************************************)
EXTENDS Learning, TLAPS

(* What a call may have made of lesson r of the file by the time it        *)
(* writes u.                                                               *)
Follows(r, u) ==
    /\ u.tier # "absent"
    /\ u.conf - r.conf \in -MaxDelta..MaxDelta
    /\ u.fires >= r.fires
    /\ \/ u.tier = r.tier
       \/ <<r.tier, u.tier>> \in Moves
       \/ u.tier = "KILLED" /\ MayDie(r)
    /\ r.tier = "RULE" /\ r.fires > 0 => u.tier = "RULE"

EnoughForPattern == Least(MinPattern, 2)
EnoughForRule    == Least(MinRule, 3)

(* A tier that was earned, fires that were heard, and idleness that        *)
(* update_confidence would have noticed.                                   *)
Earned(r, n) ==
    /\ r.fires <= 2 * n
    /\ r.tier = "PATTERN" => r.fires >= EnoughForPattern
    /\ r.tier = "RULE" => r.fires >= EnoughForRule
Young(r) == r.fires = 0 /\ r.tier \in {"INSTINCT", "PATTERN", "RULE"} => r.idle < KillLimit

Alive(r) == r.tier \in {"INSTINCT", "PATTERN"} /\ ~r.pending => r.conf > 0 /\ r.idle < KillLimit

Writing == pc \in {"corrected", "announce"}

EvidenceInv ==
    \A l \in Lessons :
        /\ Young(file[l]) /\ Young(mem[l])
        /\ l \notin given => Earned(file[l], heard[l]) /\ Earned(mem[l], heard[l])
MemInv ==
    /\ Writing => \A l \in Lessons : file[l].tier # "absent" => Follows(file[l], mem[l])
    /\ pc = "announce" => \A l \in Lessons : Alive(mem[l])
TrialInv ==
    pc = "announce" =>
        \A l \in RulesOf(mem) \ (RulesOf(file) \cup todo) :
            canary[CategoryOf[l]] = [status |-> "canary", since |-> session]

IInv == TypeOK /\ EvidenceInv /\ MemInv /\ TrialInv
-----------------------------------------------------------------------------
(* Whoever promotes asks for that many fires at least, and for one.        *)
LEMMA Enough ==
    /\ EnoughForPattern \in 1..2 /\ EnoughForPattern <= MinPattern /\ MinPattern \in Nat
    /\ EnoughForRule \in 1..3 /\ EnoughForRule <= MinRule /\ MinRule \in Nat
BY LearningAssumption DEF EnoughForPattern, EnoughForRule, Least

(* One correction makes at most two fires.                                 *)
LEMMA Floors ==
    /\ FloorOfPattern \in Nat \ {0} /\ FloorOfRule \in Nat \ {0}
    /\ \A n \in Nat : EnoughForPattern <= 2 * n => FloorOfPattern <= n
    /\ \A n \in Nat : EnoughForRule <= 2 * n => FloorOfRule <= n
<1>1. FloorOfPattern = Corrections(EnoughForPattern) /\ FloorOfRule = Corrections(EnoughForRule)
  BY DEF FloorOfPattern, FloorOfRule, EnoughForPattern, EnoughForRule, OwnBar, DefaultBar
<1>2. ASSUME NEW e \in 1..3
      PROVE  Corrections(e) \in Nat \ {0} /\ \A n \in Nat : e <= 2 * n => Corrections(e) <= n
  BY <1>2 DEF Corrections
<1> QED BY <1>1, <1>2, Enough

LEMMA PercentRange ==
    ASSUME NEW x \in Int PROVE Percent(x) \in 0..100
BY DEF Percent, Clamp, Greatest, Least

LEMMA ClampRange ==
    ASSUME NEW lo \in Int, NEW hi \in Int, lo <= hi, NEW x \in Int
    PROVE Clamp(lo, x, hi) \in lo..hi
BY DEF Clamp, Greatest, Least

LEMMA CapRange ==
    ASSUME NEW x \in 0..100, NEW pre \in 0..100
    PROVE  LET k == Clamp(Greatest(0, pre - MaxDelta), x, Least(100, pre + MaxDelta)) IN
           /\ k \in 0..100 /\ k - pre \in -MaxDelta..MaxDelta
           /\ x >= pre => k >= pre
           /\ x <= pre => k <= pre
BY DEF Clamp, Greatest, Least, MaxDelta

LEMMA NearestInt ==
    ASSUME NEW n \in Int, NEW d \in Nat, d > 0 PROVE Nearest(n, d) \in Int
BY DEF Nearest

LEMMA Weights ==
    ASSUME NEW s \in Severities
    PROVE Weight[s] \in Nat /\ SurvivalWeight[s] \in Nat /\ Boost[s] \in Nat
<1>1. s \in {"trivial", "minor", "moderate", "major", "rewrite"}
  BY LearningAssumption DEF Weight
<1> QED BY <1>1 DEF Weight, SurvivalWeight, Boost

LEMMA BlendedRange ==
    ASSUME NEW k \in 0..100, NEW w \in Nat, NEW n \in Nat PROVE Blended(k, w, n) \in 0..100
<1> DEFINE whole == 10 * (BlendTo - BlendFrom)
           part == 7 * (Clamp(BlendFrom, w + n, BlendTo) - BlendFrom)
           mean == Nearest(10000 * (1 + w), 2 + (w + n))
<1>1. whole \in Nat /\ whole > 0 BY LearningAssumption
<1>2. part \in Int BY LearningAssumption, ClampRange
<1>3. mean \in Int BY NearestInt
<1>4. part * mean + (whole - part) * k * 100 \in Int
  <2>1. part * mean \in Int BY <1>2, <1>3
  <2>2. whole - part \in Int BY <1>1, <1>2
  <2>3. (whole - part) * k \in Int BY <2>2
  <2> QED BY <2>1, <2>3
<1>5. 100 * whole \in Nat /\ 100 * whole > 0 BY <1>1
<1> HIDE DEF whole, part, mean
<1>6. Nearest(part * mean + (whole - part) * k * 100, 100 * whole) \in Int
  BY <1>4, <1>5, NearestInt
<1>7. Percent(Nearest(part * mean + (whole - part) * k * 100, 100 * whole)) \in 0..100
  BY <1>6, PercentRange
<1> QED BY <1>7 DEF Blended, whole, part, mean

LEMMA GainedRange ==
    ASSUME NEW k \in 0..100, NEW w \in Nat PROVE Gained(k, w) \in 0..100
<1>1. (200 - k) * w \in Int OBVIOUS
<1>2. Nearest(1000 * k + (200 - k) * w, 1000) \in Int BY <1>1, NearestInt
<1> QED BY <1>2, PercentRange DEF Gained

LEMMA LostRange ==
    ASSUME NEW k \in 0..100, NEW w \in Nat, NEW m \in Int PROVE Lost(k, w, m) \in 0..100
<1> DEFINE base == Nearest(850000 + 136 * k * k, 1000)
<1>1. 136 * k * k \in Int OBVIOUS
<1>2. base \in Int BY <1>1, NearestInt
<1>3. base * w * m \in Int
  <2>1. base * w \in Int BY <1>2
  <2> HIDE DEF base
  <2> QED BY <2>1
<1>4. Least(base * w * m, 20000000) \in Int BY <1>3 DEF Least
<1>5. Nearest(1000000 * k - Least(base * w * m, 20000000), 1000000) \in Int
  BY <1>4, NearestInt
<1> QED BY <1>5, PercentRange DEF Lost
-----------------------------------------------------------------------------
(* What a call knows is well formed.                                       *)
LEMMA EvidenceShape ==
    ASSUME NEW ev \in Evidence
    PROVE  /\ ev.kind # "none" => ev.severity \in Severities
           /\ ev.kind \in {"none", "misfired", "corrected"}
BY DEF Evidence, Silence, Misfire, Correction

(* What the confidence branch of update_confidence does to a lesson.       *)
LEMMA ScoredFacts ==
    ASSUME NEW l \in Lessons, NEW r \in Lesson,
           NEW ev, ev.kind # "none" => ev.severity \in Severities
    PROVE  /\ Scored(l, r, ev) \in Lesson
           /\ Scored(l, r, ev).tier = r.tier /\ Scored(l, r, ev).idle = r.idle
           /\ Scored(l, r, ev).pending = r.pending
           /\ Scored(l, r, ev).fires \in {r.fires, r.fires + 1}
           /\ Scored(l, r, ev).fires = r.fires \/ l \in FiredBy(ev)
<1>1. CASE ev.kind = "none"
  BY <1>1 DEF Scored, Lesson
<1>2. CASE ev.kind # "none"
  <2> DEFINE s == ev.severity
  <2>1. s \in Severities BY <1>2
  <2>2. Weight[s] \in Nat /\ SurvivalWeight[s] \in Nat /\ Boost[s] \in Nat
    BY <2>1, Weights
  <2>3. /\ Reinforced(r, s) \in Lesson /\ Reinforced(r, s).tier = r.tier
        /\ Reinforced(r, s).idle = r.idle /\ Reinforced(r, s).fires = r.fires + 1
        /\ Reinforced(r, s).pending = r.pending
    <3>1. Gained(r.conf, Weight[s]) \in 0..100 BY <2>2, GainedRange DEF Lesson
    <3>2. Blended(Gained(r.conf, Weight[s]), r.wins + 1, r.losses) \in 0..100
      <4>1. r.wins + 1 \in Nat /\ r.losses \in Nat BY DEF Lesson
      <4> QED BY <3>1, <4>1, BlendedRange
    <3> DEFINE k == Greatest(Blended(Gained(r.conf, Weight[s]), r.wins + 1, r.losses), r.conf)
    <3>3. k \in 0..100
      <4>1. r.conf \in 0..100 BY DEF Lesson
      <4> QED BY <3>2, <4>1 DEF Greatest
    <3>4. Reinforced(r, s) = [r EXCEPT !.wins = r.wins + 1, !.fires = r.fires + 1, !.conf = k]
      BY DEF Reinforced, Lesson
    <3>5. r.wins + 1 \in Nat /\ r.fires + 1 \in Nat BY DEF Lesson
    <3> HIDE DEF k
    <3> QED BY <3>3, <3>4, <3>5 DEF Lesson
  <2>4. \A how : /\ Penalized(r, s, how) \in Lesson /\ Penalized(r, s, how).tier = r.tier
                 /\ Penalized(r, s, how).idle = r.idle /\ Penalized(r, s, how).fires = r.fires
                 /\ Penalized(r, s, how).pending = r.pending
    <3> TAKE how
    <3> DEFINE m == IF how = "CONTRADICTING" THEN Severe(r, s) ELSE 100
    <3>1. m \in Int BY <2>2 DEF Severe
    <3>2. Lost(r.conf, Weight[s], m) \in 0..100 BY <2>2, <3>1, LostRange DEF Lesson
    <3>3. Blended(Lost(r.conf, Weight[s], m), r.wins, r.losses + 1) \in 0..100
      <4>1. r.wins \in Nat /\ r.losses + 1 \in Nat BY DEF Lesson
      <4> HIDE DEF m
      <4> QED BY <3>2, <4>1, BlendedRange
    <3> DEFINE k == Least(Blended(Lost(r.conf, Weight[s], m), r.wins, r.losses + 1), r.conf)
    <3>4. k \in 0..100
      <4>1. r.conf \in 0..100 BY DEF Lesson
      <4> HIDE DEF m
      <4> QED BY <3>3, <4>1 DEF Least
    <3>5. Penalized(r, s, how) = [r EXCEPT !.losses = r.losses + 1, !.conf = k]
      BY DEF Penalized, Lesson
    <3>6. r.losses + 1 \in Nat BY DEF Lesson
    <3> HIDE DEF k
    <3> QED BY <3>4, <3>5, <3>6 DEF Lesson
  <2>5. /\ Survived(r, s) \in Lesson /\ Survived(r, s).tier = r.tier
        /\ Survived(r, s).idle = r.idle /\ Survived(r, s).fires = r.fires
        /\ Survived(r, s).pending = r.pending
    <3>1. (2000 - 10 * r.conf) * SurvivalWeight[s] \in Int BY <2>2 DEF Lesson
    <3>2. Nearest(10000 * r.conf + (2000 - 10 * r.conf) * SurvivalWeight[s], 10000) \in Int
      <4>1. 10000 * r.conf \in Int BY DEF Lesson
      <4> QED BY <3>1, <4>1, NearestInt
    <3>3. Percent(Nearest(10000 * r.conf + (2000 - 10 * r.conf) * SurvivalWeight[s], 10000)) \in 0..100
      BY <3>2, PercentRange
    <3> QED BY <3>3 DEF Survived, Lesson
  <2>6. Percent(r.conf - 15) \in 0..100 BY PercentRange DEF Lesson
  <2>7. CASE ev.kind = "misfired" /\ ev.cat = CategoryOf[l]
    BY <2>6, <2>7 DEF Scored, Lesson
  <2>8. CASE ev.kind = "corrected" /\ ev.cat = CategoryOf[l]
    <3>1. Scored(l, r, ev) = IF ev.dir[l] = "REINFORCING" THEN Reinforced(r, s)
                                                          ELSE Penalized(r, s, ev.dir[l])
      BY <2>8 DEF Scored
    <3>2. ev.dir[l] = "REINFORCING" => l \in FiredBy(ev) BY <2>8 DEF FiredBy
    <3> QED BY <3>1, <3>2, <2>3, <2>4
  <2>9. CASE ~(ev.kind = "misfired" /\ ev.cat = CategoryOf[l])
             /\ ~(ev.kind = "corrected" /\ ev.cat = CategoryOf[l])
    <3>1. Scored(l, r, ev) = Survived(r, s) BY <1>2, <2>9 DEF Scored
    <3> QED BY <3>1, <2>5
  <2> QED BY <2>7, <2>8, <2>9
<1> QED BY <1>1, <1>2

(* The direction of a correction is the direction of the confidence.       *)
LEMMA ScoredDirection ==
    ASSUME NEW l \in Lessons, NEW r \in Lesson, NEW s \in Severities, NEW dir
    PROVE  LET u == Scored(l, r, Correction(CategoryOf[l], s, dir)) IN
           IF dir[l] = "REINFORCING" THEN u.conf >= r.conf ELSE u.conf <= r.conf
<1>0. Weight[s] \in Nat /\ Boost[s] \in Nat BY Weights
<1>1. Scored(l, r, Correction(CategoryOf[l], s, dir)) =
        IF dir[l] = "REINFORCING" THEN Reinforced(r, s) ELSE Penalized(r, s, dir[l])
  BY DEF Scored, Correction
<1>2. Reinforced(r, s).conf >= r.conf
  <2>1. Gained(r.conf, Weight[s]) \in 0..100 BY <1>0, GainedRange DEF Lesson
  <2>2. Blended(Gained(r.conf, Weight[s]), r.wins + 1, r.losses) \in 0..100
    <3>1. r.wins + 1 \in Nat /\ r.losses \in Nat BY DEF Lesson
    <3> QED BY <2>1, <3>1, BlendedRange
  <2> QED BY <2>2 DEF Reinforced, Lesson, Greatest
<1>3. Penalized(r, s, dir[l]).conf <= r.conf
  <2> DEFINE m == IF dir[l] = "CONTRADICTING" THEN Severe(r, s) ELSE 100
  <2>1. m \in Int BY <1>0 DEF Severe
  <2>2. Lost(r.conf, Weight[s], m) \in 0..100 BY <1>0, <2>1, LostRange DEF Lesson
  <2>3. Blended(Lost(r.conf, Weight[s], m), r.wins, r.losses + 1) \in 0..100
    <3>1. r.wins \in Nat /\ r.losses + 1 \in Nat BY DEF Lesson
    <3> HIDE DEF m
    <3> QED BY <2>2, <3>1, BlendedRange
  <2> QED BY <2>3 DEF Penalized, Lesson, Least
<1> QED BY <1>1, <1>2, <1>3

(* update_confidence, the three steps after the scoring.                   *)
LEMMA UpdatedFacts ==
    ASSUME NEW l \in Lessons, NEW r \in Lesson, r.tier \notin {"absent", "KILLED"},
           NEW ev, ev.kind # "none" => ev.severity \in Severities
    PROVE  LET u == Updated(l, r, ev) IN
           /\ u \in Lesson /\ u.tier \notin {"absent", "KILLED"}
           /\ u.conf - r.conf \in -MaxDelta..MaxDelta
           /\ Scored(l, r, ev).conf >= r.conf => u.conf >= r.conf
           /\ Scored(l, r, ev).conf <= r.conf => u.conf <= r.conf
           /\ u.idle = r.idle + 1 /\ u.pending = r.pending
           /\ u.fires \in {r.fires, r.fires + 1}
           /\ u.fires = r.fires \/ l \in FiredBy(ev)
           /\ r.tier = "UNTESTABLE" => u.tier = "UNTESTABLE"
           /\ r.tier = "RULE" => u.tier = "RULE" \/ (u.tier = "UNTESTABLE" /\ r.fires = 0)
           /\ u.tier = "PATTERN" => u.fires >= EnoughForPattern \/ r.tier = "PATTERN"
           /\ u.tier = "RULE" => u.fires >= EnoughForRule \/ r.tier = "RULE"
           /\ u.tier = "UNTESTABLE" => r.tier = "UNTESTABLE" \/ (u.fires = 0 /\ u.idle >= KillLimit)
           /\ r.tier = "INSTINCT" => u.tier \in {"INSTINCT", "PATTERN", "UNTESTABLE"}
           /\ u.tier = "PATTERN" /\ r.tier = "INSTINCT" => u.conf > PatternAbove
           /\ u.tier = "RULE" /\ r.tier = "PATTERN" => u.conf >= RuleAt
           /\ Young(u)
<1> DEFINE a == Scored(l, r, ev)
           b == Aged(a)
           c == Capped(b, r.conf)
<1>1. /\ a \in Lesson /\ a.tier = r.tier /\ a.idle = r.idle /\ a.pending = r.pending
      /\ a.fires \in {r.fires, r.fires + 1} /\ (a.fires = r.fires \/ l \in FiredBy(ev))
  BY ScoredFacts
<1> HIDE DEF a
<1>2. /\ b \in Lesson /\ b.idle = r.idle + 1 /\ b.pending = r.pending /\ b.fires = a.fires
      /\ b.tier = (IF a.fires = 0 /\ r.idle + 1 >= KillLimit THEN "UNTESTABLE" ELSE r.tier)
      /\ b.conf = a.conf
  <2> DEFINE t == IF a.fires = 0 /\ r.idle + 1 >= KillLimit THEN "UNTESTABLE" ELSE r.tier
  <2>1. t \in Tiers BY DEF Lesson, Tiers
  <2>2. b = [a EXCEPT !.idle = r.idle + 1, !.tier = t] BY <1>1 DEF Aged, Lesson
  <2>4. r.idle + 1 \in Nat BY DEF Lesson
  <2>3. /\ b \in Lesson /\ b.idle = r.idle + 1 /\ b.pending = r.pending /\ b.fires = a.fires
        /\ b.tier = t /\ b.conf = a.conf
    <3> HIDE DEF t, b
    <3> QED BY <1>1, <2>1, <2>2, <2>4 DEF Lesson
  <2> QED BY <2>3
<1> HIDE DEF b
<1>3. /\ c \in Lesson /\ c.idle = b.idle /\ c.pending = b.pending /\ c.fires = b.fires
      /\ c.tier = b.tier /\ c.conf - r.conf \in -MaxDelta..MaxDelta
      /\ b.conf >= r.conf => c.conf >= r.conf
      /\ b.conf <= r.conf => c.conf <= r.conf
  <2> DEFINE k == Clamp(Greatest(0, r.conf - MaxDelta), b.conf, Least(100, r.conf + MaxDelta))
  <2>1. /\ k \in 0..100 /\ k - r.conf \in -MaxDelta..MaxDelta
        /\ b.conf >= r.conf => k >= r.conf
        /\ b.conf <= r.conf => k <= r.conf
    <3>1. r.conf \in 0..100 /\ b.conf \in 0..100 BY <1>2 DEF Lesson
    <3> QED BY <3>1, CapRange
  <2>2. c = [b EXCEPT !.conf = k] BY <1>2 DEF Capped, Lesson
  <2> HIDE DEF k, c
  <2> QED BY <1>2, <2>1, <2>2 DEF Lesson
<1> HIDE DEF c
<1>4. Updated(l, r, ev) = Retiered(c) BY DEF Updated, a, b, c
<1>5. LET u == Retiered(c) IN
      /\ u \in Lesson /\ u.conf = c.conf /\ u.idle = c.idle /\ u.pending = c.pending
      /\ u.fires = c.fires
      /\ u.tier = IF Ripe(c, OwnBar)
                  THEN (IF c.tier = "INSTINCT" THEN "PATTERN" ELSE "RULE")
                  ELSE IF Overripe(c, OwnBar) THEN "INSTINCT" ELSE c.tier
  BY <1>3 DEF Retiered, Promote, Demote, Lesson, Tiers, Ripe, Overripe
<1> DEFINE u == Updated(l, r, ev)
<1>6. /\ u \in Lesson /\ u.conf - r.conf \in -MaxDelta..MaxDelta
      /\ u.idle = r.idle + 1 /\ u.pending = r.pending /\ u.fires = a.fires /\ u.conf = c.conf
      /\ u.tier = IF Ripe(c, OwnBar)
                  THEN (IF c.tier = "INSTINCT" THEN "PATTERN" ELSE "RULE")
                  ELSE IF Overripe(c, OwnBar) THEN "INSTINCT" ELSE c.tier
      /\ c.fires = a.fires
      /\ (a.conf >= r.conf => u.conf >= r.conf) /\ (a.conf <= r.conf => u.conf <= r.conf)
      /\ c.tier = IF a.fires = 0 /\ r.idle + 1 >= KillLimit THEN "UNTESTABLE" ELSE r.tier
  BY <1>2, <1>3, <1>4, <1>5
<1> HIDE DEF u
<1>7. a.fires \in Nat /\ r.fires \in Nat /\ r.idle \in Nat /\ r.tier \in Tiers /\ KillLimit \in Nat
  BY <1>1, LearningAssumption DEF Lesson
<1>8. Young(u)
  BY <1>1, <1>6, <1>7 DEF Young, Ripe, Overripe, OwnBar, Tiers
<1> QED BY <1>1, <1>6, <1>7, <1>8, Enough DEF Ripe, Overripe, OwnBar, Tiers, u, a


(* The verdict of graduate on one lesson: where it can go and from where.  *)
LEMMA GraduatedFacts ==
    ASSUME NEW l \in Lessons, NEW r \in Lesson, r.tier \notin {"absent", "KILLED"},
           NEW bar, bar.below \in Int, NEW held \in BOOLEAN, NEW suspect \in BOOLEAN
    PROVE  LET g == Graduated(l, r, bar, held, suspect) IN
           /\ g \in Lesson /\ g.conf = r.conf /\ g.fires = r.fires /\ g.idle = r.idle
           /\ \/ g.tier = r.tier
              \/ g.tier = "KILLED" /\ r.tier = "UNTESTABLE" /\ r.idle >= KillLimit + Grace
              \/ g.tier = "KILLED" /\ r.tier \in {"INSTINCT", "PATTERN"} /\ r.conf = 0
              \/ g.tier = "UNTESTABLE" /\ r.tier \in {"INSTINCT", "PATTERN"}
              \/ g.tier = "PATTERN" /\ r.tier = "INSTINCT" /\ r.fires >= bar.forPattern /\ ~held
              \/ g.tier = "RULE" /\ r.tier = "PATTERN" /\ r.fires >= bar.forRule /\ ~held
              \/ g.tier = "INSTINCT" /\ r.tier = "PATTERN" /\ r.conf < bar.below
           /\ Alive(g)
           /\ Young(r) => Young(g)
<1> DEFINE g == Graduated(l, r, bar, held, suspect)
<1>1. PICK t \in Tiers, p \in BOOLEAN :
        /\ g = [r EXCEPT !.tier = t, !.pending = p]
        /\ \/ t = r.tier
           \/ t = "KILLED" /\ r.tier = "UNTESTABLE" /\ r.idle >= KillLimit + Grace
           \/ t = "KILLED" /\ r.tier \in {"INSTINCT", "PATTERN"} /\ r.conf = 0
           \/ t = "UNTESTABLE" /\ r.tier \in {"INSTINCT", "PATTERN"}
           \/ t = "PATTERN" /\ r.tier = "INSTINCT" /\ r.fires >= bar.forPattern /\ ~held
           \/ t = "RULE" /\ r.tier = "PATTERN" /\ r.fires >= bar.forRule /\ ~held
           \/ t = "INSTINCT" /\ r.tier = "PATTERN" /\ r.conf < bar.below
        /\ t \in {"INSTINCT", "PATTERN"} /\ ~p => r.conf > 0 /\ r.idle < KillLimit
        /\ t # "absent"
  <2>1. /\ r.tier \in {"INSTINCT", "PATTERN", "RULE", "UNTESTABLE"} /\ r.conf \in 0..100
        /\ r.idle \in Nat /\ r.fires \in Nat /\ r.pending \in BOOLEAN /\ KillLimit \in Nat /\ Grace \in Nat
    BY LearningAssumption DEF Lesson, Tiers
  <2>3. /\ r = [r EXCEPT !.tier = r.tier, !.pending = r.pending]
        /\ \A t : [r EXCEPT !.tier = t] = [r EXCEPT !.tier = t, !.pending = r.pending]
        /\ [r EXCEPT !.pending = TRUE] = [r EXCEPT !.tier = r.tier, !.pending = TRUE]
    BY DEF Lesson
  <2>4. CASE r.pending
    <3>1. g = [r EXCEPT !.tier = r.tier, !.pending = r.pending] BY <2>3, <2>4 DEF Graduated
    <3> HIDE DEF g
    <3> QED BY <2>1, <2>4, <3>1 DEF Tiers
  <2>5. CASE ~r.pending /\ r.tier = "UNTESTABLE"
    <3> DEFINE t == IF r.idle >= KillLimit + Grace THEN "KILLED" ELSE r.tier
    <3>1. g = [r EXCEPT !.tier = t, !.pending = r.pending] BY <2>3, <2>5 DEF Graduated
    <3>2. t \in {"KILLED", "UNTESTABLE"} /\ (t = "KILLED" => r.idle >= KillLimit + Grace) BY <2>5
    <3> HIDE DEF g, t
    <3> QED BY <2>1, <2>5, <3>1, <3>2 DEF Tiers
  <2>6. CASE ~r.pending /\ r.tier # "UNTESTABLE" /\ r.conf = 0
    <3> DEFINE t == IF r.tier \in {"INSTINCT", "PATTERN"} THEN "KILLED" ELSE r.tier
    <3>1. g = [r EXCEPT !.tier = t, !.pending = r.pending] BY <2>3, <2>6 DEF Graduated
    <3>2. t \in {"KILLED", "RULE"} /\ (t = "KILLED" => r.tier \in {"INSTINCT", "PATTERN"})
          /\ (t = "RULE" => r.tier = "RULE")
      BY <2>1, <2>6
    <3> HIDE DEF g, t
    <3> QED BY <2>1, <2>6, <3>1, <3>2 DEF Tiers
  <2>7. CASE ~r.pending /\ r.tier # "UNTESTABLE" /\ r.conf # 0
    <3>1. CASE r.tier \in {"INSTINCT", "PATTERN"} /\ r.idle >= KillLimit
      <4>1. g = [r EXCEPT !.tier = "UNTESTABLE", !.pending = r.pending]
        BY <2>3, <2>7, <3>1 DEF Graduated
      <4> HIDE DEF g
      <4> QED BY <2>1, <3>1, <4>1 DEF Tiers
    <3>2. CASE ~(r.tier \in {"INSTINCT", "PATTERN"} /\ r.idle >= KillLimit)
      <4> DEFINE ripe == Ripe(r, bar) /\ l \notin OneOff /\ ~held
      <4>0. g = IF ripe /\ r.tier = "PATTERN" /\ suspect THEN [r EXCEPT !.pending = TRUE]
                ELSE IF ripe THEN Promote(r)
                ELSE IF Overripe(r, bar) THEN Demote(r) ELSE r
        BY <2>7, <3>2 DEF Graduated
      <4>1. CASE ripe /\ r.tier = "PATTERN" /\ suspect
        <5>1. g = [r EXCEPT !.tier = r.tier, !.pending = TRUE] BY <2>3, <4>0, <4>1
        <5> HIDE DEF g
        <5> QED BY <2>1, <4>1, <5>1 DEF Tiers
      <4>2. CASE ripe /\ ~(r.tier = "PATTERN" /\ suspect)
        <5> DEFINE t == IF r.tier = "INSTINCT" THEN "PATTERN" ELSE "RULE"
        <5>1. g = [r EXCEPT !.tier = t, !.pending = r.pending] BY <2>3, <4>0, <4>2 DEF Promote
        <5>2. \/ t = "PATTERN" /\ r.tier = "INSTINCT" /\ r.fires >= bar.forPattern /\ ~held
              \/ t = "RULE" /\ r.tier = "PATTERN" /\ r.fires >= bar.forRule /\ ~held
          BY <4>2 DEF Ripe
        <5>3. r.conf > 0 /\ (t = "PATTERN" => r.idle < KillLimit) BY <2>1, <2>7, <3>2, <5>2
        <5> HIDE DEF g, t, ripe
        <5> QED BY <2>1, <5>1, <5>2, <5>3 DEF Tiers
      <4>3. CASE ~ripe /\ Overripe(r, bar)
        <5>1. g = [r EXCEPT !.tier = "INSTINCT", !.pending = r.pending]
          BY <2>3, <4>0, <4>3 DEF Demote
        <5>2. r.tier = "PATTERN" /\ r.conf < bar.below BY <4>3 DEF Overripe
        <5>3. r.conf > 0 /\ r.idle < KillLimit BY <2>1, <2>7, <3>2, <5>2
        <5> HIDE DEF g, ripe
        <5> QED BY <2>1, <5>1, <5>2, <5>3 DEF Tiers
      <4>4. CASE ~ripe /\ ~Overripe(r, bar)
        <5>1. g = [r EXCEPT !.tier = r.tier, !.pending = r.pending] BY <2>3, <4>0, <4>4
        <5>2. r.conf > 0 BY <2>1, <2>7
        <5>3. r.tier \in {"INSTINCT", "PATTERN"} => r.idle < KillLimit BY <2>1, <3>2
        <5> HIDE DEF g, ripe
        <5> QED BY <2>1, <5>1, <5>2, <5>3 DEF Tiers
      <4> QED BY <4>1, <4>2, <4>3, <4>4
    <3> QED BY <3>1, <3>2
  <2> QED BY <2>4, <2>5, <2>6, <2>7
<1> HIDE DEF g
<1>2. /\ g \in Lesson /\ g.conf = r.conf /\ g.fires = r.fires /\ g.idle = r.idle
      /\ g.tier = t /\ g.pending = p
  BY <1>1 DEF Lesson
<1>3. Alive(g) BY <1>1, <1>2 DEF Alive
<1>4. Young(r) => Young(g)
  BY <1>1, <1>2, LearningAssumption DEF Young, Lesson
<1> QED BY <1>1, <1>2, <1>3, <1>4 DEF g

(* end_session on one lesson: the two passes do not add up.                *)
Verdict(l, r, ev) ==
    LET u == Updated(l, r, ev) IN
    Graduated(l, u, OwnBar, u.tier # r.tier, FALSE)

LEMMA SweptFacts ==
    ASSUME NEW l \in Lessons, NEW r \in Lesson, r.tier \notin {"absent", "KILLED"}, Young(r),
           NEW ev, ev.kind # "none" => ev.severity \in Severities
    PROVE  LET g == Verdict(l, r, ev) IN
              /\ g \in Lesson /\ Follows(r, g) /\ Alive(g) /\ Young(g)
              /\ g.fires \in {r.fires, r.fires + 1}
              /\ g.fires = r.fires \/ l \in FiredBy(ev)
              /\ g.tier = "PATTERN" => g.fires >= EnoughForPattern \/ r.tier = "PATTERN"
              /\ g.tier = "RULE" => g.fires >= EnoughForRule \/ r.tier = "RULE"
<1> DEFINE u == Updated(l, r, ev)
           held == u.tier # r.tier
           suspect == FALSE
           g == Graduated(l, u, OwnBar, held, suspect)
<1>1. /\ u \in Lesson /\ u.tier \notin {"absent", "KILLED"}
      /\ u.conf - r.conf \in -MaxDelta..MaxDelta
      /\ u.idle = r.idle + 1
      /\ u.fires \in {r.fires, r.fires + 1} /\ (u.fires = r.fires \/ l \in FiredBy(ev))
      /\ r.tier = "UNTESTABLE" => u.tier = "UNTESTABLE"
      /\ r.tier = "RULE" => u.tier = "RULE" \/ (u.tier = "UNTESTABLE" /\ r.fires = 0)
      /\ u.tier = "PATTERN" => u.fires >= EnoughForPattern \/ r.tier = "PATTERN"
      /\ u.tier = "RULE" => u.fires >= EnoughForRule \/ r.tier = "RULE"
      /\ u.tier = "UNTESTABLE" => r.tier = "UNTESTABLE" \/ (u.fires = 0 /\ u.idle >= KillLimit)
      /\ r.tier = "INSTINCT" => u.tier \in {"INSTINCT", "PATTERN", "UNTESTABLE"}
      /\ u.tier = "PATTERN" /\ r.tier = "INSTINCT" => u.conf > PatternAbove
      /\ Young(u)
  BY UpdatedFacts
<1> HIDE DEF u
<1>2. held \in BOOLEAN /\ suspect \in BOOLEAN OBVIOUS
<1>3. /\ OwnBar.below \in Int /\ OwnBar.below = PatternBelow
      /\ OwnBar.forPattern = MinPattern /\ OwnBar.forRule = MinRule
  BY LearningAssumption DEF OwnBar
<1> HIDE DEF held, suspect
<1>4. /\ g \in Lesson /\ g.conf = u.conf /\ g.fires = u.fires /\ g.idle = u.idle
      /\ \/ g.tier = u.tier
         \/ g.tier = "KILLED" /\ u.tier = "UNTESTABLE" /\ u.idle >= KillLimit + Grace
         \/ g.tier = "KILLED" /\ u.tier \in {"INSTINCT", "PATTERN"} /\ u.conf = 0
         \/ g.tier = "UNTESTABLE" /\ u.tier \in {"INSTINCT", "PATTERN"}
         \/ g.tier = "PATTERN" /\ u.tier = "INSTINCT" /\ u.fires >= MinPattern /\ ~held
         \/ g.tier = "RULE" /\ u.tier = "PATTERN" /\ u.fires >= MinRule /\ ~held
         \/ g.tier = "INSTINCT" /\ u.tier = "PATTERN" /\ u.conf < PatternBelow
      /\ Alive(g) /\ (Young(u) => Young(g))
  <2>1. u \in Lesson /\ u.tier \notin {"absent", "KILLED"} BY <1>1
  <2> QED BY <1>2, <1>3, <2>1, GraduatedFacts
<1> HIDE DEF g
<1>5. held <=> u.tier # r.tier BY DEF held
<1>6. /\ r.tier \in {"INSTINCT", "PATTERN", "RULE", "UNTESTABLE"} /\ r.conf \in 0..100
      /\ u.conf \in 0..100 /\ r.idle \in Nat /\ r.fires \in Nat /\ u.fires \in Nat
      /\ u.tier \in {"INSTINCT", "PATTERN", "RULE", "UNTESTABLE"}
  BY <1>1 DEF Lesson, Tiers
<1>7. /\ KillLimit \in Nat /\ Grace \in Nat \ {0} /\ PatternAbove \in Nat
      /\ PatternBelow <= PatternAbove + 1 /\ PatternBelow \in Int
  BY LearningAssumption
<1>8. r.fires = 0 /\ r.tier \in {"INSTINCT", "PATTERN", "RULE"} => r.idle < KillLimit BY DEF Young
<1>9. u.tier = r.tier \/ <<r.tier, u.tier>> \in Moves BY <1>1, <1>6 DEF Moves
<1>10. \/ g.tier = r.tier \/ <<r.tier, g.tier>> \in Moves
       \/ g.tier = "KILLED" /\ MayDie(r)
  <2>1. CASE g.tier = u.tier BY <1>9, <2>1
  <2>2. CASE g.tier = "KILLED" /\ u.tier = "UNTESTABLE" /\ u.idle >= KillLimit + Grace
    BY <1>1, <1>6, <1>7, <1>8, <2>2 DEF MayDie
  <2>3. CASE g.tier = "KILLED" /\ u.tier \in {"INSTINCT", "PATTERN"} /\ u.conf = 0
    <3>1. r.tier \in {"INSTINCT", "PATTERN"} BY <1>1, <1>6, <2>3
    <3>2. r.conf <= MaxDelta BY <1>1, <1>6, <2>3 DEF MaxDelta
    <3> QED BY <2>3, <3>1, <3>2 DEF MayDie
  <2>4. CASE g.tier = "UNTESTABLE" /\ u.tier \in {"INSTINCT", "PATTERN"}
    <3>1. r.tier \in {"INSTINCT", "PATTERN"} BY <1>1, <1>6, <2>4
    <3> QED BY <2>4, <3>1 DEF Moves
  <2>5. CASE g.tier = "PATTERN" /\ u.tier = "INSTINCT" /\ ~held BY <1>5, <2>5 DEF Moves
  <2>6. CASE g.tier = "RULE" /\ u.tier = "PATTERN" /\ ~held BY <1>5, <2>6 DEF Moves
  <2>7. CASE g.tier = "INSTINCT" /\ u.tier = "PATTERN" /\ u.conf < PatternBelow
    <3>1. r.tier = "PATTERN" BY <1>1, <1>6, <1>7, <2>7
    <3> QED BY <2>7, <3>1 DEF Moves
  <2> QED BY <1>4, <2>1, <2>2, <2>3, <2>4, <2>5, <2>6, <2>7
<1>11. r.tier = "RULE" /\ r.fires > 0 => g.tier = "RULE"
  BY <1>1, <1>4, <1>6
<1>12. g.tier # "absent" BY <1>4, <1>6
<1>13. Follows(r, g) BY <1>1, <1>4, <1>6, <1>10, <1>11, <1>12 DEF Follows
<1>14. (g.tier = "PATTERN" => g.fires >= EnoughForPattern \/ r.tier = "PATTERN")
       /\ (g.tier = "RULE" => g.fires >= EnoughForRule \/ r.tier = "RULE")
  BY <1>1, <1>4, <1>5, <1>6, Enough
<1> QED BY <1>1, <1>4, <1>13, <1>14 DEF u, g, held, suspect, Verdict

(* A sweep alone on one lesson.                                            *)
LEMMA SweepFacts ==
    ASSUME NEW l \in Lessons, NEW r \in Lesson, r.tier \notin {"absent", "KILLED"}, Young(r),
           NEW held \in BOOLEAN, NEW suspect \in BOOLEAN
    PROVE  LET g == Graduated(l, r, DefaultBar, held, suspect) IN
           /\ g \in Lesson /\ Follows(r, g) /\ Young(g) /\ g.fires = r.fires
           /\ g.tier = "PATTERN" => g.fires >= EnoughForPattern \/ r.tier = "PATTERN"
           /\ g.tier = "RULE" => g.fires >= EnoughForRule \/ r.tier = "RULE"
<1> DEFINE g == Graduated(l, r, DefaultBar, held, suspect)
<1>1. /\ g \in Lesson /\ g.conf = r.conf /\ g.fires = r.fires /\ g.idle = r.idle
      /\ \/ g.tier = r.tier
         \/ g.tier = "KILLED" /\ r.tier = "UNTESTABLE" /\ r.idle >= KillLimit + Grace
         \/ g.tier = "KILLED" /\ r.tier \in {"INSTINCT", "PATTERN"} /\ r.conf = 0
         \/ g.tier = "UNTESTABLE" /\ r.tier \in {"INSTINCT", "PATTERN"}
         \/ g.tier = "PATTERN" /\ r.tier = "INSTINCT" /\ r.fires >= 2 /\ ~held
         \/ g.tier = "RULE" /\ r.tier = "PATTERN" /\ r.fires >= 3 /\ ~held
         \/ g.tier = "INSTINCT" /\ r.tier = "PATTERN" /\ r.conf < 60
      /\ Young(g)
  <2>1. /\ DefaultBar.below = 60 /\ DefaultBar.forPattern = 2 /\ DefaultBar.forRule = 3
    BY DEF DefaultBar
  <2> QED BY <2>1, GraduatedFacts
<1> HIDE DEF g
<1>2. /\ r.conf \in 0..100 /\ r.idle \in Nat /\ r.fires \in Nat
      /\ KillLimit \in Nat /\ Grace \in Nat
  BY LearningAssumption DEF Lesson
<1>3. g.tier = r.tier \/ <<r.tier, g.tier>> \in Moves \/ (g.tier = "KILLED" /\ MayDie(r))
  BY <1>1, <1>2 DEF Moves, MayDie, MaxDelta
<1>4. g.conf - r.conf \in -MaxDelta..MaxDelta BY <1>1, <1>2 DEF MaxDelta
<1>5. g.tier # "absent" /\ (r.tier = "RULE" => g.tier = "RULE") BY <1>1
<1>6. Follows(r, g) BY <1>1, <1>2, <1>3, <1>4, <1>5 DEF Follows
<1> QED BY <1>1, <1>2, <1>6, Enough DEF g

LEMMA AbsentFacts ==
    /\ Absent \in Lesson /\ Absent.tier = "absent" /\ Absent.fires = 0
    /\ Young(Absent) /\ \A n \in Nat : Earned(Absent, n)
    /\ Blank \in [Lessons -> Lesson] /\ \A l \in Lessons : Blank[l] = Absent
<1>1. /\ Absent = [tier |-> "absent", conf |-> 0, fires |-> 0, idle |-> 0,
                   wins |-> 0, losses |-> 0, pending |-> FALSE]
  BY DEF Absent, Fresh
<1>2. Absent \in Lesson /\ Absent.tier = "absent" /\ Absent.fires = 0
  BY <1>1 DEF Lesson, Tiers
<1> QED BY <1>2 DEF Young, Earned, Blank

LEMMA FreshFacts ==
    ASSUME NEW t \in Tiers, NEW k \in 0..100, NEW p \in BOOLEAN
    PROVE  /\ Fresh(t, k, p) \in Lesson /\ Fresh(t, k, p).tier = t
           /\ Fresh(t, k, p).fires = 0 /\ Young(Fresh(t, k, p))
           /\ t = "INSTINCT" => Earned(Fresh(t, k, p), 0)
<1>1. /\ Fresh(t, k, p) \in Lesson /\ Fresh(t, k, p).tier = t
      /\ Fresh(t, k, p).fires = 0 /\ Fresh(t, k, p).idle = 0
  BY DEF Fresh, Lesson
<1> QED BY <1>1, LearningAssumption DEF Young, Earned

LEMMA FormattedFacts ==
    ASSUME NEW f \in [Lessons -> Lesson]
    PROVE  /\ Formatted(f) \in [Lessons -> Lesson]
           /\ \A l \in Lessons :
                \/ f[l].tier # "KILLED" /\ Formatted(f)[l] = f[l]
                \/ f[l].tier = "KILLED" /\ Formatted(f)[l] = Absent
BY AbsentFacts DEF Formatted

LEMMA EarnedMore ==
    ASSUME NEW r \in Lesson, NEW g \in Lesson, NEW n \in Nat, NEW m \in Nat, Earned(r, n),
           g.fires \in {r.fires, r.fires + 1}, m >= n, g.fires = r.fires \/ m >= n + 1,
           g.tier = "PATTERN" => g.fires >= EnoughForPattern \/ r.tier = "PATTERN",
           g.tier = "RULE" => g.fires >= EnoughForRule \/ r.tier = "RULE"
    PROVE  Earned(g, m)
<1>1. r.fires \in Nat /\ g.fires \in Nat BY DEF Lesson
<1> QED BY <1>1, Enough DEF Earned

LEMMA FollowsSelf ==
    ASSUME NEW r \in Lesson, r.tier # "absent" PROVE Follows(r, r)
<1>1. r.conf \in Int /\ r.fires \in Int BY DEF Lesson
<1> QED BY <1>1 DEF Follows, MaxDelta
-----------------------------------------------------------------------------
(* The inductive invariant holds to begin with.                             *)
THEOREM InitInv == Init => IInv
<1> SUFFICES ASSUME Init PROVE IInv OBVIOUS
<1>1. TypeOK
  <2>1. FileTypeOK BY AbsentFacts DEF Init, FileTypeOK
  <2>2. CallTypeOK BY DEF Init, CallTypeOK
  <2>3. CountTypeOK BY LearningAssumption DEF Init, CountTypeOK
  <2> QED BY <2>1, <2>2, <2>3 DEF TypeOK
<1>2. EvidenceInv BY AbsentFacts DEF Init, EvidenceInv
<1>3. MemInv BY DEF Init, MemInv, Writing
<1>4. TrialInv BY DEF Init, TrialInv
<1> QED BY <1>1, <1>2, <1>3, <1>4 DEF IInv

(* What Listen does to the history.                                        *)
LEMMA ListenFacts ==
    ASSUME TypeOK, NEW fired, Listen(fired)
    PROVE  /\ heard' \in [Lessons -> Nat] /\ quiet' \in [Lessons -> 0..KillLimit]
           /\ \A l \in Lessons : heard'[l] >= heard[l] /\ (l \in fired => heard'[l] >= heard[l] + 1)
           /\ given' = given
<1>1. heard \in [Lessons -> Nat] /\ quiet \in [Lessons -> 0..KillLimit] /\ KillLimit \in Nat
  BY LearningAssumption DEF TypeOK, CountTypeOK
<1>2. \A l \in Lessons : Least(quiet[l] + 1, KillLimit) \in 0..KillLimit BY <1>1 DEF Least
<1> QED BY <1>1, <1>2 DEF Listen

(* What Remember does to it.                                               *)
LEMMA RememberFacts ==
    ASSUME TypeOK, NEW came \in SUBSET Lessons, NEW gone \in SUBSET Lessons, Remember(came, gone)
    PROVE  /\ heard' \in [Lessons -> Nat] /\ quiet' \in [Lessons -> 0..KillLimit]
           /\ given' \subseteq Lessons
           /\ \A l \in Lessons \ gone :
                heard'[l] = heard[l] /\ (l \in given' <=> l \in given \cup came)
           /\ \A l \in gone : l \notin given' /\ heard'[l] \in Nat
<1>1. /\ heard \in [Lessons -> Nat] /\ quiet \in [Lessons -> 0..KillLimit] /\ 0 \in 0..KillLimit
      /\ given \subseteq Lessons
  BY LearningAssumption DEF TypeOK, CountTypeOK, CallTypeOK
<1> QED BY <1>1 DEF Remember

(* correct.                                                                *)
LEMMA MatchedFacts ==
    ASSUME TypeOK, EvidenceInv, NEW l \in Lessons
    PROVE  LET m == Matched(l) IN
           /\ m \in Lesson /\ m.tier \notin {"absent", "KILLED"}
           /\ file[l].tier = "absent" => m.fires = 0 /\ m.tier = "INSTINCT"
           /\ file[l].tier # "absent" =>
                m.tier = file[l].tier /\ m.conf = file[l].conf /\ m.fires = file[l].fires + 1
<1>1. file[l] \in Lesson /\ file[l].tier # "KILLED" BY DEF TypeOK, FileTypeOK
<1>2. Born(l) \in Lesson /\ Born(l).tier = "INSTINCT" /\ Born(l).fires = 0
  <2> DEFINE k == IF l \in Gated THEN 0 ELSE Initial
             p == l \in Gated
  <2>1. "INSTINCT" \in Tiers /\ k \in 0..100 /\ p \in BOOLEAN BY DEF Tiers, Initial
  <2>2. Born(l) = Fresh("INSTINCT", k, p) BY DEF Born
  <2> HIDE DEF k, p
  <2> QED BY <2>1, <2>2, FreshFacts
<1>3. file[l].fires + 1 \in Nat BY <1>1 DEF Lesson
<1>4. [file[l] EXCEPT !.fires = @ + 1] = [file[l] EXCEPT !.fires = file[l].fires + 1]
  BY <1>1 DEF Lesson
<1>5. LET m == [file[l] EXCEPT !.fires = file[l].fires + 1] IN
      m \in Lesson /\ m.tier = file[l].tier /\ m.conf = file[l].conf /\ m.fires = file[l].fires + 1
  BY <1>1, <1>3 DEF Lesson
<1> QED BY <1>1, <1>2, <1>4, <1>5 DEF Matched

LEMMA CorrectInv ==
    ASSUME IInv, NEW l \in Lessons, NEW s \in Severities, NEW dir, Correct(l, s, dir)
    PROVE  /\ IInv'
           /\ \A x \in Lessons : file[x].tier # "absent" =>
                mem'[x] = Updated(x, [file EXCEPT ![l] = Matched(l)][x], Correction(CategoryOf[l], s, dir))
<1> DEFINE read == [file EXCEPT ![l] = Matched(l)]
           ev == Correction(CategoryOf[l], s, dir)
           fired == (FiredBy(ev) \cap Present(read)) \cup ({l} \cap Present(file))
<1>0. /\ TypeOK /\ EvidenceInv
      /\ file \in [Lessons -> Lesson] /\ \A x \in Lessons : file[x].tier # "KILLED"
      /\ heard \in [Lessons -> Nat] /\ pc = "idle" /\ todo = {} /\ mem = Blank
  BY DEF IInv, TypeOK, FileTypeOK, CallTypeOK, CountTypeOK, Correct, Call
<1>1. /\ mem' = [x \in Lessons |-> Updated(x, read[x], ev)]
      /\ Listen(fired) /\ pc' = "corrected" /\ calls' = calls + 1 /\ calls < MaxCalls
      /\ UNCHANGED <<file, todo, canary, agents, session>>
  BY DEF Correct, Call
<1>2. /\ heard' \in [Lessons -> Nat] /\ quiet' \in [Lessons -> 0..KillLimit] /\ given' = given
      /\ \A x \in Lessons : heard'[x] >= heard[x] /\ (x \in fired => heard'[x] >= heard[x] + 1)
  BY <1>0, <1>1, ListenFacts
<1>3. ev.kind # "none" => ev.severity \in Severities BY DEF Correction
<1>4. \A x \in Lessons : read[x] = IF x = l THEN Matched(l) ELSE file[x] BY <1>0
<1> HIDE DEF read, ev
<1>5. ASSUME NEW x \in Lessons
      PROVE  /\ mem'[x] \in Lesson /\ Young(mem'[x])
             /\ file[x].tier # "absent" => Follows(file[x], mem'[x])
             /\ x \notin given' => Earned(mem'[x], heard'[x])
  <2> DEFINE r == read[x]
             u == Updated(x, r, ev)
  <2>1. mem'[x] = u BY <1>1
  <2>2. /\ r \in Lesson /\ r.tier # "KILLED"
        /\ r.tier = "absent" => r = file[x]
        /\ file[x].tier # "absent" =>
              r.tier = file[x].tier /\ r.conf = file[x].conf /\ r.fires \in {file[x].fires, file[x].fires + 1}
        /\ x # l => r = file[x]
        /\ file[l].tier = "absent" /\ x = l => r.fires = 0 /\ r.tier = "INSTINCT"
    BY <1>0, <1>4, MatchedFacts
  <2>3. r.fires \in Nat /\ file[x].fires \in Nat /\ file[x] \in Lesson BY <1>0, <2>2 DEF Lesson
  <2>4. Young(file[x]) /\ (x \notin given => Earned(file[x], heard[x])) BY <1>0 DEF EvidenceInv
  <2> HIDE DEF r
  <2>5. CASE r.tier = "absent"
    <3>1. u = file[x] BY <2>2, <2>5 DEF Updated
    <3>2. heard[x] \in Nat /\ heard'[x] \in Nat /\ heard'[x] >= heard[x] BY <1>0, <1>2
    <3>3. x \notin given' => Earned(file[x], heard'[x])
      BY <1>2, <2>3, <2>4, <3>2, EarnedMore
    <3>4. file[x].tier = "absent" BY <2>2, <2>5
    <3> QED BY <2>1, <2>3, <2>4, <3>1, <3>3, <3>4
  <2>6. CASE r.tier # "absent"
    <3>1. /\ u \in Lesson /\ u.tier \notin {"absent", "KILLED"}
          /\ u.conf - r.conf \in -MaxDelta..MaxDelta
          /\ u.fires \in {r.fires, r.fires + 1}
          /\ u.fires = r.fires \/ x \in FiredBy(ev)
          /\ r.tier = "UNTESTABLE" => u.tier = "UNTESTABLE"
          /\ r.tier = "RULE" => u.tier = "RULE" \/ (u.tier = "UNTESTABLE" /\ r.fires = 0)
          /\ u.tier = "PATTERN" => u.fires >= EnoughForPattern \/ r.tier = "PATTERN"
          /\ u.tier = "RULE" => u.fires >= EnoughForRule \/ r.tier = "RULE"
          /\ r.tier = "INSTINCT" => u.tier \in {"INSTINCT", "PATTERN", "UNTESTABLE"}
          /\ Young(u)
      BY <1>3, <2>2, <2>6, UpdatedFacts
    <3> HIDE DEF u
    <3>2. r.tier \in Tiers /\ u.tier \in Tiers BY <2>2, <3>1 DEF Lesson
    <3>3. u.tier = r.tier \/ <<r.tier, u.tier>> \in Moves
      BY <2>2, <2>6, <3>1, <3>2 DEF Moves, Tiers
    <3>4. file[x].tier # "absent" => Follows(file[x], u)
      BY <2>2, <2>3, <3>1, <3>3 DEF Follows
    <3>5. x \notin given' => Earned(u, heard'[x])
      <4> SUFFICES ASSUME x \notin given PROVE Earned(u, heard'[x]) BY <1>2
      <4>1. /\ heard[x] \in Nat /\ heard'[x] \in Nat /\ heard'[x] >= heard[x]
            /\ x \in fired => heard'[x] >= heard[x] + 1
        BY <1>0, <1>2
      <4>2. x \in Present(read) BY <2>6 DEF Present, r
      <4>3. x \in FiredBy(ev) => x \in fired BY <4>2
      <4>4. x = l /\ file[l].tier # "absent" => x \in fired BY DEF Present
      <4>5. /\ file[x].fires <= 2 * heard[x]
            /\ file[x].tier = "PATTERN" => file[x].fires >= EnoughForPattern
            /\ file[x].tier = "RULE" => file[x].fires >= EnoughForRule
        BY <2>4 DEF Earned
      <4>6. u.fires \in Nat BY <3>1 DEF Lesson
      <4> HIDE DEF fired
      <4>7. u.fires <= 2 * heard'[x]
        <5>1. CASE x # l \/ file[l].tier = "absent"
          <6>1. r.fires <= 2 * heard[x] BY <2>2, <2>3, <4>1, <4>5, <5>1
          <6> QED BY <2>3, <3>1, <4>1, <4>3, <4>6, <6>1
        <5>2. CASE x = l /\ file[l].tier # "absent"
          BY <2>2, <2>3, <3>1, <4>1, <4>4, <4>5, <4>6, <5>2
        <5> QED BY <5>1, <5>2
      <4>8. /\ u.tier = "PATTERN" => u.fires >= EnoughForPattern
            /\ u.tier = "RULE" => u.fires >= EnoughForRule
        <5>1. r.tier \in {"PATTERN", "RULE"} => r.tier = file[x].tier BY <2>2
        <5> QED BY <2>2, <2>3, <3>1, <4>5, <4>6, <5>1, Enough
      <4> QED BY <4>7, <4>8 DEF Earned
    <3> QED BY <2>1, <3>1, <3>4, <3>5
  <2> QED BY <2>5, <2>6
<1>6. TypeOK'
  <2>1. FileTypeOK' BY <1>0, <1>1, <1>5 DEF FileTypeOK
  <2>2. CallTypeOK' BY <1>0, <1>1, <1>2 DEF TypeOK, CallTypeOK
  <2>3. CountTypeOK'
    <3>1. calls' \in 0..MaxCalls BY <1>0, <1>1, LearningAssumption DEF TypeOK, CountTypeOK
    <3> QED BY <1>0, <1>1, <1>2, <3>1 DEF TypeOK, CountTypeOK
  <2> QED BY <2>1, <2>2, <2>3 DEF TypeOK
<1>7. EvidenceInv'
  <2> SUFFICES ASSUME NEW x \in Lessons
               PROVE  Young(file'[x]) /\ Young(mem'[x])
                      /\ (x \notin given' => Earned(file'[x], heard'[x]) /\ Earned(mem'[x], heard'[x]))
    BY DEF EvidenceInv
  <2>1. file' = file /\ given' = given BY <1>1, <1>2
  <2>2. Young(file[x]) /\ (x \notin given => Earned(file[x], heard[x])) BY <1>0 DEF EvidenceInv
  <2>3. file[x] \in Lesson /\ heard[x] \in Nat /\ heard'[x] \in Nat /\ heard'[x] >= heard[x]
    BY <1>0, <1>2
  <2>4. file[x].fires \in Nat BY <2>3 DEF Lesson
  <2>5. x \notin given => Earned(file[x], heard'[x]) BY <2>2, <2>3, <2>4, EarnedMore
  <2> QED BY <1>5, <2>1, <2>2, <2>5
<1>8. MemInv' BY <1>1, <1>5 DEF MemInv
<1>9. TrialInv' BY <1>1 DEF TrialInv
<1> QED BY <1>1, <1>6, <1>7, <1>8, <1>9 DEF IInv, read, ev

(* end_session, up to its first step that can be seen.                     *)
LEMMA EndSessionInv ==
    ASSUME IInv, NEW ev, ev.kind # "none" => ev.severity \in Severities, EndSession(ev)
    PROVE  IInv'
<1> DEFINE fired == FiredBy(ev) \cap Present(file)
<1>0. /\ TypeOK /\ EvidenceInv
      /\ file \in [Lessons -> Lesson] /\ \A x \in Lessons : file[x].tier # "KILLED"
      /\ heard \in [Lessons -> Nat] /\ pc = "idle"
  BY DEF IInv, TypeOK, FileTypeOK, CountTypeOK, EndSession, Call
<1>1. /\ mem' = Swept(ev)
      /\ todo' = {l \in Lessons : mem'[l].tier # file[l].tier /\ mem'[l].tier \in {"PATTERN", "RULE"}}
      /\ Listen(fired) /\ pc' = "announce" /\ calls' = calls + 1 /\ calls < MaxCalls
      /\ UNCHANGED <<file, canary, agents, session>>
  BY DEF EndSession, Call
<1>2. /\ heard' \in [Lessons -> Nat] /\ quiet' \in [Lessons -> 0..KillLimit] /\ given' = given
      /\ \A x \in Lessons : heard'[x] >= heard[x] /\ (x \in fired => heard'[x] >= heard[x] + 1)
  BY <1>0, <1>1, ListenFacts
<1>3. ASSUME NEW x \in Lessons
      PROVE  /\ mem'[x] \in Lesson /\ Young(mem'[x]) /\ Alive(mem'[x])
             /\ file[x].tier # "absent" => Follows(file[x], mem'[x])
             /\ x \notin given' => Earned(mem'[x], heard'[x])
             /\ Young(file[x]) /\ (x \notin given' => Earned(file[x], heard'[x]))
  <2> DEFINE r == file[x]
             g == Verdict(x, r, ev)
  <2>1. mem'[x] = g BY <1>1 DEF Swept, Verdict
  <2>2. r \in Lesson /\ r.tier # "KILLED" BY <1>0
  <2>3. Young(r) /\ (x \notin given => Earned(r, heard[x])) BY <1>0 DEF EvidenceInv
  <2>4. /\ heard[x] \in Nat /\ heard'[x] \in Nat /\ heard'[x] >= heard[x] /\ r.fires \in Nat
        /\ x \in fired => heard'[x] >= heard[x] + 1 /\ given' = given
    BY <1>0, <1>2, <2>2 DEF Lesson
  <2>5. x \notin given' => Earned(r, heard'[x]) BY <1>2, <2>2, <2>3, <2>4, EarnedMore
  <2>6. CASE r.tier = "absent"
    <3>1. Updated(x, r, ev) = r BY <2>6 DEF Updated
    <3>2. g = r BY <2>6, <3>1 DEF Graduated, Verdict
    <3>3. Alive(r) BY <2>6 DEF Alive
    <3> QED BY <2>1, <2>2, <2>3, <2>5, <2>6, <3>2, <3>3
  <2>7. CASE r.tier # "absent"
    <3>1. /\ g \in Lesson /\ Follows(r, g) /\ Alive(g) /\ Young(g)
          /\ g.fires \in {r.fires, r.fires + 1}
          /\ g.fires = r.fires \/ x \in FiredBy(ev)
          /\ g.tier = "PATTERN" => g.fires >= EnoughForPattern \/ r.tier = "PATTERN"
          /\ g.tier = "RULE" => g.fires >= EnoughForRule \/ r.tier = "RULE"
      BY <2>2, <2>3, <2>7, SweptFacts
    <3>2. x \in FiredBy(ev) => x \in fired BY <2>7 DEF Present
    <3> HIDE DEF g, r, fired
    <3>3. x \notin given' => Earned(g, heard'[x])
      BY <1>2, <2>2, <2>3, <2>4, <3>1, <3>2, EarnedMore
    <3> QED BY <2>1, <2>3, <2>5, <3>1, <3>3 DEF r
  <2> QED BY <2>6, <2>7
<1>4. TypeOK'
  <2>0. mem' \in [Lessons -> Lesson] BY <1>1, <1>3 DEF Swept
  <2>1. FileTypeOK' BY <1>0, <1>1, <2>0 DEF FileTypeOK
  <2>2. CallTypeOK' BY <1>0, <1>1, <1>2 DEF TypeOK, CallTypeOK
  <2>3. CountTypeOK'
    <3>1. calls' \in 0..MaxCalls BY <1>0, <1>1, LearningAssumption DEF TypeOK, CountTypeOK
    <3> QED BY <1>0, <1>1, <1>2, <3>1 DEF TypeOK, CountTypeOK
  <2> QED BY <2>1, <2>2, <2>3 DEF TypeOK
<1>5. EvidenceInv'
  <2>1. file' = file BY <1>1
  <2> QED BY <1>3, <2>1 DEF EvidenceInv
<1>6. MemInv' BY <1>1, <1>3 DEF MemInv
<1>7. TrialInv' BY <1>1 DEF TrialInv, RulesOf
<1> QED BY <1>4, <1>5, <1>6, <1>7 DEF IInv

(* The two writes.                                                         *)
LEMMA WriteInv ==
    ASSUME IInv, Writing, file' = Formatted(mem), mem' = Blank,
           pc' \in {"idle", "export", "health"}, todo' = {},
           Remember({}, Dead(mem)), UNCHANGED <<canary, agents, session, calls>>
    PROVE  IInv'
<1>0. /\ TypeOK /\ EvidenceInv /\ mem \in [Lessons -> Lesson]
      /\ heard' \in [Lessons -> Nat] /\ quiet' \in [Lessons -> 0..KillLimit] /\ given' \subseteq Lessons
      /\ \A l \in Lessons \ Dead(mem) : heard'[l] = heard[l] /\ (l \notin given' => l \notin given)
  <2>1. TypeOK /\ EvidenceInv /\ mem \in [Lessons -> Lesson] BY DEF IInv, TypeOK, FileTypeOK
  <2>2. {} \in SUBSET Lessons /\ Dead(mem) \in SUBSET Lessons BY DEF Dead
  <2> QED BY <2>1, <2>2, RememberFacts
<1>1. /\ file' \in [Lessons -> Lesson]
      /\ \A l \in Lessons : \/ l \notin Dead(mem) /\ mem[l].tier # "KILLED" /\ file'[l] = mem[l]
                            \/ file'[l] = Absent
  BY <1>0, FormattedFacts DEF Dead
<1>2. TypeOK'
  <2>1. FileTypeOK' BY <1>1, AbsentFacts DEF FileTypeOK
  <2>2. CallTypeOK' BY <1>0 DEF TypeOK, CallTypeOK
  <2>3. CountTypeOK' BY <1>0 DEF TypeOK, CountTypeOK
  <2> QED BY <2>1, <2>2, <2>3 DEF TypeOK
<1>3. EvidenceInv' BY <1>0, <1>1, AbsentFacts DEF EvidenceInv
<1>4. MemInv' BY DEF MemInv, Writing
<1>5. TrialInv' BY DEF TrialInv
<1> QED BY <1>2, <1>3, <1>4, <1>5 DEF IInv

(* The two sweeps that write at once, of the lessons as they were read.    *)
LEMMA SweepWriteInv ==
    ASSUME IInv, Call, NEW f \in [Lessons -> Lesson], NEW blocked, NEW suspect,
           NEW came \in SUBSET Lessons,
           \A l \in Lessons : f[l].tier # "KILLED" /\ Young(f[l])
                              /\ (l \notin given \cup came => Earned(f[l], heard[l])),
           file' = Formatted(Sweep(f, blocked, suspect)), agents' \subseteq Lessons,
           Remember(came, Dead(Sweep(f, blocked, suspect))), UNCHANGED <<callVars, canary, session>>
    PROVE  /\ IInv'
           /\ \A l \in Lessons : f[l].tier # "absent" =>
                \/ Follows(f[l], file'[l]) /\ file'[l].tier # "KILLED"
                \/ file'[l] = Absent /\ \E u : Follows(f[l], u) /\ u.tier = "KILLED"
<1>0. /\ TypeOK /\ pc = "idle" /\ UNCHANGED <<mem, pc, todo, canary, session>>
      /\ calls' = calls + 1 /\ calls < MaxCalls /\ heard \in [Lessons -> Nat]
      /\ mem = Blank /\ todo = {}
  BY DEF IInv, TypeOK, CallTypeOK, CountTypeOK, Call, callVars
<1> DEFINE swept == Sweep(f, blocked, suspect)
<1>1. ASSUME NEW l \in Lessons
      PROVE  /\ swept[l] \in Lesson /\ Young(swept[l])
             /\ f[l].tier # "absent" => Follows(f[l], swept[l])
             /\ l \notin given \cup came => Earned(swept[l], heard[l])
  <2> DEFINE b == l \in blocked
             p == l \in suspect
             g == Graduated(l, f[l], DefaultBar, b, p)
  <2>1. swept[l] = g BY DEF Sweep
  <2>2. b \in BOOLEAN /\ p \in BOOLEAN OBVIOUS
  <2>3. f[l] \in Lesson /\ heard[l] \in Nat BY <1>0
  <2> HIDE DEF b, p
  <2>4. CASE f[l].tier = "absent"
    <3>1. g = f[l] BY <2>4 DEF Graduated
    <3> QED BY <2>1, <2>3, <2>4, <3>1
  <2>5. CASE f[l].tier # "absent"
    <3>1. /\ g \in Lesson /\ Follows(f[l], g) /\ Young(g) /\ g.fires = f[l].fires
          /\ g.tier = "PATTERN" => g.fires >= EnoughForPattern \/ f[l].tier = "PATTERN"
          /\ g.tier = "RULE" => g.fires >= EnoughForRule \/ f[l].tier = "RULE"
      BY <2>2, <2>3, <2>5, SweepFacts
    <3> HIDE DEF g
    <3>2. l \notin given \cup came => Earned(g, heard[l]) BY <2>3, <3>1, EarnedMore
    <3> QED BY <2>1, <3>1, <3>2
  <2> QED BY <2>4, <2>5
<1>2. swept \in [Lessons -> Lesson] BY <1>1 DEF Sweep
<1>8. /\ heard' \in [Lessons -> Nat] /\ quiet' \in [Lessons -> 0..KillLimit] /\ given' \subseteq Lessons
      /\ \A l \in Lessons \ Dead(swept) :
            heard'[l] = heard[l] /\ (l \notin given' => l \notin given \cup came)
  <2>1. Dead(swept) \in SUBSET Lessons BY DEF Dead
  <2>2. Remember(came, Dead(swept)) OBVIOUS
  <2> HIDE DEF swept
  <2> QED BY <1>0, <2>1, <2>2, RememberFacts
<1> HIDE DEF swept
<1>3. /\ file' \in [Lessons -> Lesson]
      /\ \A l \in Lessons : \/ swept[l].tier # "KILLED" /\ file'[l] = swept[l]
                            \/ swept[l].tier = "KILLED" /\ file'[l] = Absent
  BY <1>2, FormattedFacts DEF swept
<1>4. TypeOK'
  <2>1. FileTypeOK' BY <1>0, <1>3, AbsentFacts DEF TypeOK, FileTypeOK
  <2>2. CallTypeOK' BY <1>0, <1>8 DEF TypeOK, CallTypeOK
  <2>3. CountTypeOK'
    <3>1. calls' \in 0..MaxCalls BY <1>0, LearningAssumption DEF TypeOK, CountTypeOK
    <3> QED BY <1>0, <1>8, <3>1 DEF TypeOK, CountTypeOK
  <2> QED BY <2>1, <2>2, <2>3 DEF TypeOK
<1>5. EvidenceInv'
  <2>1. mem' = Blank BY <1>0
  <2>2. \A l \in Lessons : \/ l \notin Dead(swept) /\ file'[l] = swept[l]
                          \/ file'[l] = Absent
    BY <1>3 DEF Dead
  <2> QED BY <1>1, <1>8, <2>1, <2>2, AbsentFacts DEF EvidenceInv
<1>6. MemInv' BY <1>0 DEF MemInv, Writing
<1>7. TrialInv' BY <1>0 DEF TrialInv
<1> QED BY <1>1, <1>3, <1>4, <1>5, <1>6, <1>7 DEF IInv
-----------------------------------------------------------------------------
LEMMA ObservedFacts ==
    ASSUME NEW l \in Lessons, NEW offer \in Offers, offer # Absent
    PROVE  offer \in Lesson /\ offer.tier \notin {"absent", "KILLED"} /\ Young(offer)
<1>1. CASE offer = Observed
  <2>1. "INSTINCT" \in Tiers /\ 40 \in 0..100 /\ TRUE \in BOOLEAN BY DEF Tiers
  <2> QED BY <1>1, <2>1, FreshFacts DEF Observed
<1>2. ASSUME NEW n \in {2, 3, 5}, offer = Mined(n)
      PROVE  offer \in Lesson /\ offer.tier \notin {"absent", "KILLED"} /\ Young(offer)
  <2> DEFINE t == IF n >= 5 THEN "RULE" ELSE "PATTERN"
             k == IF n >= 5 THEN 92 ELSE IF n >= 3 THEN 80 ELSE 70
  <2>1. t \in Tiers /\ t \notin {"absent", "KILLED"} /\ k \in 0..100 /\ FALSE \in BOOLEAN BY DEF Tiers
  <2>2. offer = [Fresh(t, k, FALSE) EXCEPT !.fires = n] BY <1>2 DEF Mined
  <2> HIDE DEF t, k
  <2>3. Fresh(t, k, FALSE) \in Lesson /\ Fresh(t, k, FALSE).tier = t BY <2>1, FreshFacts
  <2>4. offer \in Lesson /\ offer.tier = t /\ offer.fires = n BY <2>2, <2>3, n \in Nat DEF Lesson
  <2> QED BY <2>1, <2>4 DEF Young
<1> QED BY <1>1, <1>2 DEF Offers

(* The lessons a pipeline run starts from.                                 *)
LEMMA PipelineInv ==
    ASSUME IInv, NEW l \in Lessons, NEW offer \in Offers, NEW blocked, NEW suspect,
           Pipeline(l, offer, blocked, suspect)
    PROVE  /\ IInv'
           /\ \A x \in Lessons : file[x].tier # "absent" =>
                \/ Follows(file[x], file'[x]) /\ file'[x].tier # "KILLED"
                \/ file'[x] = Absent /\ \E u : Follows(file[x], u) /\ u.tier = "KILLED"
<1> DEFINE news == file[l].tier = "absent" /\ offer # Absent
           read == IF news THEN [file EXCEPT ![l] = offer] ELSE file
           came == IF news THEN {l} ELSE {}
<1>0. /\ TypeOK /\ EvidenceInv /\ file \in [Lessons -> Lesson] /\ given \subseteq Lessons
      /\ \A x \in Lessons : file[x].tier # "KILLED"
  BY DEF IInv, TypeOK, FileTypeOK, CallTypeOK
<1>1. /\ Call /\ file' = Formatted(Sweep(read, blocked, suspect))
      /\ agents' \in {agents, RulesOf(file')}
      /\ Remember(came, Dead(Sweep(read, blocked, suspect)))
      /\ UNCHANGED <<callVars, canary, session>>
  BY DEF Pipeline
<1>2. agents' \subseteq Lessons /\ came \in SUBSET Lessons
  BY <1>0, <1>1 DEF TypeOK, CallTypeOK, RulesOf
<1>3. ASSUME NEW x \in Lessons
      PROVE  /\ read[x] \in Lesson /\ read[x].tier # "KILLED" /\ Young(read[x])
             /\ x \notin given \cup came => Earned(read[x], heard[x])
             /\ file[x].tier # "absent" => read[x] = file[x]
  <2>1. Young(file[x]) /\ (x \notin given => Earned(file[x], heard[x])) BY <1>0 DEF EvidenceInv
  <2>2. CASE news /\ x = l BY <1>0, <1>1, <2>2, ObservedFacts
  <2>3. CASE ~(news /\ x = l) BY <1>0, <1>1, <2>1, <2>3
  <2> QED BY <2>2, <2>3
<1>4. read \in [Lessons -> Lesson] BY <1>0, <1>3
<1> HIDE DEF read, came
<1>5. /\ IInv'
      /\ \A x \in Lessons : read[x].tier # "absent" =>
                \/ Follows(read[x], file'[x]) /\ file'[x].tier # "KILLED"
                \/ file'[x] = Absent /\ \E u : Follows(read[x], u) /\ u.tier = "KILLED"
  BY <1>1, <1>2, <1>3, <1>4, SweepWriteInv
<1> QED BY <1>3, <1>5

LEMMA HookInv ==
    ASSUME IInv, NEW blocked, NEW suspect, HookGraduate(blocked, suspect)
    PROVE  /\ IInv'
           /\ \A x \in Lessons : file[x].tier # "absent" =>
                \/ Follows(file[x], file'[x]) /\ file'[x].tier # "KILLED"
                \/ file'[x] = Absent /\ \E u : Follows(file[x], u) /\ u.tier = "KILLED"
<1>0. /\ TypeOK /\ EvidenceInv /\ file \in [Lessons -> Lesson] /\ given \subseteq Lessons
      /\ \A x \in Lessons : file[x].tier # "KILLED"
  BY DEF IInv, TypeOK, FileTypeOK, CallTypeOK
<1>1. /\ Call /\ file' = Formatted(Sweep(file, blocked, suspect))
      /\ agents' \in {agents, RulesOf(file')}
      /\ Remember({}, Dead(Sweep(file, blocked, suspect)))
      /\ UNCHANGED <<callVars, canary, session>>
  BY DEF HookGraduate
<1>2. agents' \subseteq Lessons /\ {} \in SUBSET Lessons
  BY <1>0, <1>1 DEF TypeOK, CallTypeOK, RulesOf
<1>3. \A x \in Lessons : file[x].tier # "KILLED" /\ Young(file[x])
                          /\ (x \notin given \cup {} => Earned(file[x], heard[x]))
  BY <1>0 DEF EvidenceInv
<1> QED BY <1>0, <1>1, <1>2, <1>3, SweepWriteInv

(* A step that leaves the lessons and their history alone.                 *)
LEMMA QuietInv ==
    ASSUME IInv, UNCHANGED <<file, mem, history>>,
           calls' = calls, todo' \subseteq todo, agents' \subseteq Lessons,
           canary' \in [Categories -> [status : {"none", "canary", "active"}, since : 0..MaxSessions + 1]],
           session' \in 1..MaxSessions + 1,
           \/ pc' = pc
           \/ pc \notin {"corrected", "announce"} /\ pc' \in {"idle", "health"},
           TrialInv'
    PROVE  IInv'
<1>0. TypeOK /\ EvidenceInv /\ MemInv /\ UNCHANGED <<heard, quiet, given>> BY DEF IInv, history
<1>1. TypeOK'
  <2>1. FileTypeOK' BY <1>0 DEF TypeOK, FileTypeOK
  <2>2. CallTypeOK' BY <1>0 DEF TypeOK, CallTypeOK
  <2>3. CountTypeOK' BY <1>0 DEF TypeOK, CountTypeOK
  <2> QED BY <2>1, <2>2, <2>3 DEF TypeOK
<1>2. EvidenceInv' BY <1>0 DEF EvidenceInv
<1>3. MemInv' BY <1>0 DEF MemInv, Writing
<1> QED BY <1>1, <1>2, <1>3 DEF IInv

(* add_rule and forget.                                                    *)
LEMMA UserInv ==
    ASSUME IInv, NEW l \in Lessons, AddRule(l) \/ Forget(l) PROVE IInv'
<1>0. /\ TypeOK /\ EvidenceInv /\ file \in [Lessons -> Lesson] /\ pc = "idle"
      /\ heard \in [Lessons -> Nat] /\ quiet \in [Lessons -> 0..KillLimit] /\ KillLimit \in Nat
      /\ mem = Blank /\ todo = {} /\ given \subseteq Lessons
  BY LearningAssumption DEF IInv, TypeOK, FileTypeOK, CallTypeOK, CountTypeOK, AddRule, Forget, Call
<1>1. /\ UNCHANGED <<mem, pc, todo, canary, agents, session>>
      /\ calls' = calls + 1 /\ calls < MaxCalls
  BY DEF AddRule, Forget, Call, callVars
<1>2. /\ Fresh("RULE", 90, FALSE) \in Lesson /\ Fresh("RULE", 90, FALSE).tier = "RULE"
      /\ Young(Fresh("RULE", 90, FALSE))
  <2>1. "RULE" \in Tiers /\ 90 \in 0..100 /\ FALSE \in BOOLEAN BY DEF Tiers
  <2> QED BY <2>1, FreshFacts
<1>3. /\ file' \in [Lessons -> Lesson] /\ file'[l].tier \in {"RULE", "absent"} /\ Young(file'[l])
      /\ l \notin given' => file'[l] = Absent
      /\ heard' \in [Lessons -> Nat] /\ quiet' \in [Lessons -> 0..KillLimit]
      /\ given' \subseteq Lessons
      /\ \A x \in Lessons \ {l} : /\ file'[x] = file[x] /\ heard'[x] = heard[x]
                                  /\ x \notin given' => x \notin given
  <2>1. CASE AddRule(l)
    <3>1. file' = [file EXCEPT ![l] = Fresh("RULE", 90, FALSE)] /\ Remember({l}, {})
      BY <2>1 DEF AddRule
    <3>2. /\ heard' \in [Lessons -> Nat] /\ quiet' \in [Lessons -> 0..KillLimit]
          /\ given' \subseteq Lessons
          /\ \A x \in Lessons : heard'[x] = heard[x] /\ (x \in given' <=> x \in given \cup {l})
      BY <1>0, <3>1, RememberFacts
    <3> QED BY <1>0, <1>2, <3>1, <3>2
  <2>2. CASE Forget(l)
    <3>1. file' = [file EXCEPT ![l] = Absent] /\ Remember({}, {l})
      BY <2>2 DEF Forget
    <3>2. Absent \in Lesson /\ Absent.tier = "absent" /\ Young(Absent) BY AbsentFacts
    <3>3. /\ heard' \in [Lessons -> Nat] /\ quiet' \in [Lessons -> 0..KillLimit]
          /\ given' \subseteq Lessons
          /\ \A x \in Lessons \ {l} : heard'[x] = heard[x] /\ (x \in given' <=> x \in given)
      <4>1. {} \in SUBSET Lessons /\ {l} \in SUBSET Lessons OBVIOUS
      <4> QED BY <1>0, <3>1, <4>1, RememberFacts
    <3> HIDE DEF Absent
    <3> QED BY <1>0, <3>1, <3>2, <3>3
  <2> QED BY <2>1, <2>2
<1>4. TypeOK'
  <2>1. FileTypeOK'
    <3>1. \A x \in Lessons \ {l} : file[x].tier # "KILLED" BY <1>0 DEF TypeOK, FileTypeOK
    <3>2. mem' \in [Lessons -> Lesson] BY <1>0, <1>1, AbsentFacts
    <3> QED BY <1>3, <3>1, <3>2 DEF FileTypeOK
  <2>2. CallTypeOK' BY <1>0, <1>1, <1>3 DEF TypeOK, CallTypeOK
  <2>3. CountTypeOK'
    <3>1. calls' \in 0..MaxCalls BY <1>0, <1>1, LearningAssumption DEF TypeOK, CountTypeOK
    <3> QED BY <1>0, <1>1, <1>3, <3>1 DEF TypeOK, CountTypeOK
  <2> QED BY <2>1, <2>2, <2>3 DEF TypeOK
<1>5. EvidenceInv'
  <2> SUFFICES ASSUME NEW x \in Lessons
               PROVE  Young(file'[x]) /\ Young(mem'[x])
                      /\ (x \notin given' => Earned(file'[x], heard'[x]) /\ Earned(mem'[x], heard'[x]))
    BY DEF EvidenceInv
  <2>1. mem'[x] = Absent /\ heard'[x] \in Nat BY <1>0, <1>1, <1>3, AbsentFacts
  <2>2. Young(mem'[x]) /\ Earned(mem'[x], heard'[x]) BY <2>1, AbsentFacts
  <2>3. Young(file'[x]) /\ (x \notin given' => Earned(file'[x], heard'[x]))
    <3>1. CASE x = l BY <1>3, <2>1, <3>1, AbsentFacts
    <3>2. CASE x # l
      <4>1. file'[x] = file[x] /\ heard'[x] = heard[x] /\ (x \notin given' => x \notin given)
        BY <1>0, <1>3, <3>2
      <4> QED BY <1>0, <4>1 DEF EvidenceInv
    <3> QED BY <3>1, <3>2
  <2> QED BY <2>2, <2>3
<1>6. MemInv' BY <1>0, <1>1 DEF MemInv, Writing
<1>7. TrialInv' BY <1>0, <1>1 DEF TrialInv
<1> QED BY <1>4, <1>5, <1>6, <1>7 DEF IInv

(* Every step keeps it: one case per action of end_session, correct, the    *)
(* hook, the pipeline, add_rule and forget, and for a crash among them.     *)
THEOREM NextInv == IInv /\ [Next]_vars => IInv'
<1> SUFFICES ASSUME IInv, [Next]_vars PROVE IInv' OBVIOUS
<1>0. /\ TypeOK /\ TrialInv /\ session \in 1..MaxSessions + 1 /\ MaxSessions \in Nat
      /\ canary \in [Categories -> [status : {"none", "canary", "active"}, since : 0..MaxSessions + 1]]
      /\ agents \subseteq Lessons /\ todo \subseteq Lessons
      /\ pc # "announce" => todo = {}
  BY LearningAssumption DEF IInv, TypeOK, CallTypeOK, CountTypeOK
<1>1. ASSUME NEW l \in Lessons, NEW s \in Severities,
             NEW dir \in [Within(CategoryOf[l]) -> Directions], Correct(l, s, dir)
      PROVE  IInv'
  BY <1>1, CorrectInv
<1>2. CASE WriteCorrected
  BY <1>0, <1>2, WriteInv DEF WriteCorrected, Writing
<1>3. ASSUME NEW ev \in Evidence, EndSession(ev) PROVE IInv'
  BY <1>3, EndSessionInv, EvidenceShape
<1>4. ASSUME NEW l \in Lessons, Announce(l) PROVE IInv'
  <2>1. /\ pc = "announce" /\ todo' = todo \ {l}
        /\ UNCHANGED <<file, mem, pc, agents, session, calls, history>>
        /\ canary' = IF mem[l].tier = "RULE"
                     THEN [canary EXCEPT ![CategoryOf[l]] = [status |-> "canary", since |-> session]]
                     ELSE canary
    BY <1>4 DEF Announce
  <2>2. \A x \in Lessons : CategoryOf[x] \in Categories BY LearningAssumption
  <2>3. [status |-> "canary", since |-> session]
          \in [status : {"none", "canary", "active"}, since : 0..MaxSessions + 1]
    BY <1>0
  <2>4. canary' \in [Categories -> [status : {"none", "canary", "active"}, since : 0..MaxSessions + 1]]
    BY <1>0, <2>1, <2>3
  <2>5. TrialInv'
    <3> SUFFICES ASSUME NEW x \in Lessons, mem[x].tier = "RULE", file[x].tier # "RULE", x \notin todo'
                 PROVE  canary'[CategoryOf[x]] = [status |-> "canary", since |-> session]
      BY <2>1 DEF TrialInv, RulesOf
    <3>1. CASE x = l BY <1>0, <2>1, <2>2, <3>1
    <3>2. CASE x # l
      <4>1. x \in RulesOf(mem) \ (RulesOf(file) \cup todo) BY <2>1, <3>2 DEF RulesOf
      <4>2. canary[CategoryOf[x]] = [status |-> "canary", since |-> session]
        BY <1>0, <2>1, <4>1 DEF TrialInv
      <4> QED BY <1>0, <2>1, <2>2, <4>2
    <3> QED BY <3>1, <3>2
  <2> QED BY <1>0, <2>1, <2>4, <2>5, QuietInv
<1>5. CASE WriteSwept
  <2>1. pc' \in {"export", "health"} /\ todo' = {} BY <1>5 DEF WriteSwept
  <2> QED BY <1>5, <2>1, WriteInv DEF WriteSwept, Writing
<1>6. CASE Export
  <2>1. agents' \subseteq Lessons BY <1>6 DEF Export, RulesOf
  <2>2. TrialInv' BY <1>6 DEF Export, TrialInv
  <2> QED BY <1>0, <1>6, <2>1, <2>2, QuietInv DEF Export
<1>7. CASE CheckCanaries
  <2>1. canary' \in [Categories -> [status : {"none", "canary", "active"}, since : 0..MaxSessions + 1]]
    <3>1. \A c \in Categories : /\ canary[c] \in [status : {"none", "canary", "active"}, since : 0..MaxSessions + 1]
                                /\ [canary[c] EXCEPT !.status = "active"]
                                     \in [status : {"none", "canary", "active"}, since : 0..MaxSessions + 1]
      BY <1>0
    <3> QED BY <1>7, <3>1 DEF CheckCanaries
  <2>2. TrialInv' BY <1>7 DEF CheckCanaries, TrialInv
  <2> QED BY <1>0, <1>7, <2>1, <2>2, QuietInv DEF CheckCanaries
<1>8. CASE Crash
  <2>0. UNCHANGED <<file, heard, quiet, given, canary, agents, session, calls>>
        /\ pc' = "idle" /\ mem' = Blank /\ todo' = {}
    BY <1>8 DEF Crash, history
  <2>1. TypeOK'
    <3>1. FileTypeOK' BY <1>0, <2>0, AbsentFacts DEF TypeOK, FileTypeOK
    <3>2. CallTypeOK' BY <1>0, <2>0 DEF TypeOK, CallTypeOK
    <3>3. CountTypeOK' BY <1>0, <2>0 DEF TypeOK, CountTypeOK
    <3> QED BY <3>1, <3>2, <3>3 DEF TypeOK
  <2>2. EvidenceInv'
    <3>1. heard \in [Lessons -> Nat] BY <1>0 DEF TypeOK, CountTypeOK
    <3> QED BY <2>0, <3>1, AbsentFacts DEF IInv, EvidenceInv
  <2>3. MemInv' BY <2>0 DEF MemInv, Writing
  <2>4. TrialInv' BY <2>0 DEF TrialInv
  <2> QED BY <2>1, <2>2, <2>3, <2>4 DEF IInv
<1>9. CASE NewSession
  <2>1. session' \in 1..MaxSessions + 1 BY <1>0, <1>9 DEF NewSession
  <2>2. TrialInv' BY <1>9 DEF NewSession, TrialInv, callVars
  <2> QED BY <1>0, <1>9, <2>1, <2>2, QuietInv DEF NewSession, callVars
<1>10. ASSUME NEW l \in Lessons, AddRule(l) \/ Forget(l) PROVE IInv'
  BY <1>10, UserInv
<1>11. ASSUME NEW blocked, NEW suspect, HookGraduate(blocked, suspect) PROVE IInv'
  BY <1>11, HookInv
<1>12. ASSUME NEW l \in Lessons, NEW offer \in Offers, NEW blocked, NEW suspect,
              Pipeline(l, offer, blocked, suspect)
       PROVE  IInv'
  BY <1>12, PipelineInv
<1>13. CASE UNCHANGED vars
  <2>1. UNCHANGED <<file, mem, pc, todo, canary, agents, session, calls, history>>
    BY <1>13 DEF vars, callVars
  <2>2. TrialInv' BY <1>0, <2>1 DEF TrialInv, RulesOf
  <2> QED BY <1>0, <2>1, <2>2, QuietInv
<1> QED BY <1>1, <1>2, <1>3, <1>4, <1>5, <1>6, <1>7, <1>8, <1>9, <1>10, <1>11, <1>12, <1>13 DEF Next
-----------------------------------------------------------------------------
(* So it holds in every state.                                             *)
THEOREM Invariance == Spec => []IInv
BY InitInv, NextInv, PTL DEF Spec

(* Of every variable; what was killed is never in lessons.md.              *)
THEOREM TypeCorrect == Spec => []TypeOK
<1>1. IInv => TypeOK BY DEF IInv
<1> QED BY <1>1, Invariance, PTL

(* No promotion from silence, whatever the weights and the thresholds.     *)
THEOREM SilenceNeverPromotes == Spec => []NoPromotionFromSilence
<1>1. IInv => NoPromotionFromSilence
  <2> SUFFICES ASSUME IInv, NEW l \in Lessons, l \notin given
               PROVE  /\ file[l].tier = "PATTERN" => heard[l] >= FloorOfPattern
                      /\ file[l].tier = "RULE" => heard[l] >= FloorOfRule
    BY DEF NoPromotionFromSilence
  <2>1. Earned(file[l], heard[l]) BY DEF IInv, EvidenceInv
  <2>2. file[l].fires \in Nat /\ heard[l] \in Nat
    BY DEF IInv, TypeOK, FileTypeOK, CountTypeOK, Lesson
  <2> QED BY <2>1, <2>2, Enough, Floors DEF Earned
<1> QED BY <1>1, Invariance, PTL

(* What one step can do to a lesson of the file.                           *)
LEMMA FileStep ==
    ASSUME IInv, [Next]_vars, NEW l \in Lessons, file[l].tier # "absent"
    PROVE  \/ Follows(file[l], file'[l]) /\ file'[l].tier # "KILLED"
           \/ file'[l] = Absent /\ \E u : Follows(file[l], u) /\ u.tier = "KILLED"
           \/ Forget(l)
<1>0. file \in [Lessons -> Lesson] /\ mem \in [Lessons -> Lesson] /\ file[l].tier # "KILLED"
  BY DEF IInv, TypeOK, FileTypeOK
<1>1. CASE file'[l] = file[l] BY <1>0, <1>1, FollowsSelf
<1>2. CASE WriteCorrected \/ WriteSwept
  <2>1. file' = Formatted(mem) /\ Writing BY <1>2 DEF WriteCorrected, WriteSwept, Writing
  <2>2. Follows(file[l], mem[l]) BY <2>1 DEF IInv, MemInv
  <2>3. \/ mem[l].tier # "KILLED" /\ file'[l] = mem[l]
        \/ mem[l].tier = "KILLED" /\ file'[l] = Absent
    BY <1>0, <2>1, FormattedFacts
  <2> QED BY <2>2, <2>3
<1>3. ASSUME NEW x \in Lessons, AddRule(x) \/ Forget(x)
      PROVE  Forget(l) \/ file'[l] = file[l]
  <2>1. CASE AddRule(x) BY <1>0, <2>1 DEF AddRule
  <2>2. CASE Forget(x) BY <1>0, <2>2 DEF Forget
  <2> QED BY <1>3, <2>1, <2>2
<1>4. ASSUME NEW blocked, NEW suspect, HookGraduate(blocked, suspect)
      PROVE  \/ Follows(file[l], file'[l]) /\ file'[l].tier # "KILLED"
             \/ file'[l] = Absent /\ \E u : Follows(file[l], u) /\ u.tier = "KILLED"
  BY <1>4, HookInv
<1>5. ASSUME NEW x \in Lessons, NEW offer \in Offers, NEW blocked, NEW suspect,
             Pipeline(x, offer, blocked, suspect)
      PROVE  \/ Follows(file[l], file'[l]) /\ file'[l].tier # "KILLED"
             \/ file'[l] = Absent /\ \E u : Follows(file[l], u) /\ u.tier = "KILLED"
  BY <1>5, PipelineInv
<1>6. ASSUME \/ \E x \in Lessons, s \in Severities :
                  \E dir \in [Within(CategoryOf[x]) -> Directions] : Correct(x, s, dir)
             \/ \E ev \in Evidence : EndSession(ev)
             \/ \E x \in Lessons : Announce(x)
             \/ Export \/ CheckCanaries \/ Crash \/ NewSession
             \/ UNCHANGED vars
      PROVE  file' = file
  BY <1>6 DEF Correct, EndSession, Announce, Export, CheckCanaries, Crash, NewSession, vars
<1> QED BY <1>1, <1>2, <1>3, <1>4, <1>5, <1>6 DEF Next

(* update_confidence and graduate together move a lesson by one tier.      *)
THEOREM OneTier == Spec => OneTierPerCall
<1>1. IInv /\ [Next]_vars =>
        [\A l \in Lessons :
            \/ file[l].tier \in {"absent", file'[l].tier}
            \/ <<file[l].tier, file'[l].tier>> \in Moves
            \/ file'[l].tier = "absent" /\ MayDie(file[l])
            \/ Forget(l)]_vars
  <2> SUFFICES ASSUME IInv, [Next]_vars, NEW l \in Lessons, file[l].tier # "absent", ~Forget(l)
               PROVE  \/ file'[l].tier = file[l].tier
                      \/ <<file[l].tier, file'[l].tier>> \in Moves
                      \/ file'[l].tier = "absent" /\ MayDie(file[l])
    OBVIOUS
  <2>1. CASE Follows(file[l], file'[l]) /\ file'[l].tier # "KILLED" BY <2>1 DEF Follows
  <2>2. CASE file'[l] = Absent /\ \E u : Follows(file[l], u) /\ u.tier = "KILLED"
    <3>1. PICK u : Follows(file[l], u) /\ u.tier = "KILLED" BY <2>2
    <3>2. file[l].tier # "KILLED" BY DEF IInv, TypeOK, FileTypeOK
    <3>3. MayDie(file[l]) BY <3>1, <3>2 DEF Follows, Moves
    <3> QED BY <2>2, <3>3, AbsentFacts
  <2> QED BY <2>1, <2>2, FileStep
<1> QED BY <1>1, Invariance, PTL DEF Spec, OneTierPerCall

(* Only the user takes a rule that has fired away.                         *)
THEOREM RuleStays == Spec => FiredRuleStays
<1>1. IInv /\ [Next]_vars =>
        [\A l \in Lessons :
            file[l].tier = "RULE" /\ file[l].fires > 0 => file'[l].tier = "RULE" \/ Forget(l)]_vars
  <2> SUFFICES ASSUME IInv, [Next]_vars, NEW l \in Lessons, ~Forget(l),
                      file[l].tier = "RULE", file[l].fires > 0
               PROVE  file'[l].tier = "RULE"
    OBVIOUS
  <2>1. CASE Follows(file[l], file'[l]) BY <2>1 DEF Follows
  <2>2. CASE \E u : Follows(file[l], u) /\ u.tier = "KILLED" BY <2>2 DEF Follows
  <2> QED BY <2>1, <2>2, FileStep
<1> QED BY <1>1, Invariance, PTL DEF Spec, FiredRuleStays

(* The cap on one call holds for what ends up in lessons.md.               *)
THEOREM Capping == Spec => DeltaCapped
<1>1. IInv /\ [Next]_vars =>
        [\A l \in Lessons :
            file[l].tier # "absent" /\ file'[l].tier # "absent"
                => file'[l].conf - file[l].conf \in -MaxDelta..MaxDelta]_vars
  <2> SUFFICES ASSUME IInv, [Next]_vars, NEW l \in Lessons,
                      file[l].tier # "absent", file'[l].tier # "absent"
               PROVE  file'[l].conf - file[l].conf \in -MaxDelta..MaxDelta
    OBVIOUS
  <2>1. CASE Follows(file[l], file'[l]) BY <2>1 DEF Follows
  <2>2. CASE file'[l] = Absent BY <2>2, AbsentFacts
  <2>3. CASE Forget(l)
    <3>1. file \in [Lessons -> Lesson] BY DEF IInv, TypeOK, FileTypeOK
    <3>2. file'[l] = Absent BY <2>3, <3>1 DEF Forget
    <3> QED BY <3>2, AbsentFacts
  <2> QED BY <2>1, <2>2, <2>3, FileStep
<1> QED BY <1>1, Invariance, PTL DEF Spec, DeltaCapped

(* No correction is overruled by the posterior.                            *)
THEOREM EvidenceRules == Spec => EvidenceMovesItsWay
<1>1. IInv /\ [Next]_vars =>
        [pc' = "corrected" =>
            \A l \in Lessons, s \in Severities :
            \A dir \in [Within(CategoryOf[l]) -> Directions] :
                Correct(l, s, dir) =>
                    \A x \in DOMAIN dir \cap Present(file) :
                        IF dir[x] = "REINFORCING" THEN mem'[x].conf >= file[x].conf
                                                  ELSE mem'[x].conf <= file[x].conf]_vars
  <2> SUFFICES ASSUME IInv, NEW l \in Lessons, NEW s \in Severities,
                      NEW dir \in [Within(CategoryOf[l]) -> Directions], Correct(l, s, dir),
                      NEW x \in Within(CategoryOf[l]) \cap Present(file)
               PROVE  IF dir[x] = "REINFORCING" THEN mem'[x].conf >= file[x].conf
                                                ELSE mem'[x].conf <= file[x].conf
    OBVIOUS
  <2> DEFINE read == [file EXCEPT ![l] = Matched(l)]
             ev == Correction(CategoryOf[l], s, dir)
  <2>1. /\ x \in Lessons /\ CategoryOf[x] = CategoryOf[l] /\ file[x].tier # "absent"
        /\ file \in [Lessons -> Lesson] /\ TypeOK /\ EvidenceInv
    BY DEF Within, Present, IInv, TypeOK, FileTypeOK
  <2>2. mem'[x] = Updated(x, read[x], ev) BY <2>1, CorrectInv
  <2>3. read[x] \in Lesson /\ read[x].tier \notin {"absent", "KILLED"} /\ read[x].conf = file[x].conf
    <3>1. file[x].tier # "KILLED" BY <2>1 DEF TypeOK, FileTypeOK
    <3>2. CASE x = l BY <2>1, <3>2, MatchedFacts
    <3>3. CASE x # l BY <2>1, <3>1, <3>3
    <3> QED BY <3>2, <3>3
  <2>4. ev.kind # "none" => ev.severity \in Severities BY DEF Correction
  <2>5. /\ Scored(x, read[x], ev).conf >= read[x].conf => Updated(x, read[x], ev).conf >= read[x].conf
        /\ Scored(x, read[x], ev).conf <= read[x].conf => Updated(x, read[x], ev).conf <= read[x].conf
    <3> HIDE DEF read, ev
    <3> QED BY <2>1, <2>3, <2>4, UpdatedFacts
  <2>6. IF dir[x] = "REINFORCING" THEN Scored(x, read[x], ev).conf >= read[x].conf
                                  ELSE Scored(x, read[x], ev).conf <= read[x].conf
    <3>1. ev = Correction(CategoryOf[x], s, dir) BY <2>1
    <3> HIDE DEF read, ev
    <3> QED BY <2>1, <2>3, <3>1, ScoredDirection
  <2> HIDE DEF read, ev
  <2> QED BY <2>2, <2>3, <2>5, <2>6
<1> QED BY <1>1, Invariance, PTL DEF Spec, EvidenceMovesItsWay

(* A promoted rule is on trial when lessons.md first shows it.             *)
THEOREM TrialFirst == Spec => TriedWhenSeen
<1>1. IInv /\ [Next]_vars =>
        [WriteSwept =>
            \A l \in RulesOf(file') \ RulesOf(file) :
                canary[CategoryOf[l]] = [status |-> "canary", since |-> session]]_vars
  <2> SUFFICES ASSUME IInv, WriteSwept, NEW l \in Lessons, file'[l].tier = "RULE", file[l].tier # "RULE"
               PROVE  canary[CategoryOf[l]] = [status |-> "canary", since |-> session]
    BY DEF RulesOf
  <2>1. file' = Formatted(mem) /\ pc = "announce" /\ todo = {} BY DEF WriteSwept
  <2>2. mem \in [Lessons -> Lesson] BY DEF IInv, TypeOK, FileTypeOK
  <2>3. mem[l].tier = "RULE" BY <2>1, <2>2, FormattedFacts, AbsentFacts
  <2> QED BY <2>1, <2>3 DEF IInv, TrialInv, RulesOf
<1> QED BY <1>1, Invariance, PTL DEF Spec, TriedWhenSeen

(* What end_session has swept could live.                                  *)
THEOREM SweepIsThorough == Spec => SweepLeavesNoDead
<1>1. IInv /\ [Next]_vars =>
        [WriteSwept =>
            \A l \in Lessons :
                file'[l].tier \in {"INSTINCT", "PATTERN"} /\ ~file'[l].pending
                    => file'[l].conf > 0 /\ file'[l].idle < KillLimit]_vars
  <2> SUFFICES ASSUME IInv, WriteSwept, NEW l \in Lessons,
                      file'[l].tier \in {"INSTINCT", "PATTERN"}, ~file'[l].pending
               PROVE  file'[l].conf > 0 /\ file'[l].idle < KillLimit
    OBVIOUS
  <2>1. file' = Formatted(mem) /\ pc = "announce" BY DEF WriteSwept
  <2>2. mem \in [Lessons -> Lesson] BY DEF IInv, TypeOK, FileTypeOK
  <2>3. file'[l] = mem[l] BY <2>1, <2>2, FormattedFacts, AbsentFacts
  <2>4. Alive(mem[l]) BY <2>1 DEF IInv, MemInv
  <2> QED BY <2>3, <2>4 DEF Alive
<1> QED BY <1>1, Invariance, PTL DEF Spec, SweepLeavesNoDead

-----------------------------------------------------------------------------
(* The refinement of the life of a lesson.  A lesson that is not in the    *)
(* file, or that a call has not read, is nothing at all, and what a call   *)
(* makes new is no rule; a lesson that came with its tier is     *)
(* still there.                                                            *)
BirthInv ==
    /\ \A l \in given : file[l].tier # "absent"
    /\ \A l \in Lessons : file[l].tier = "absent" => file[l] = Absent
    /\ \A l \in Lessons : mem[l].tier = "absent" => mem[l] = Absent
    /\ Writing => \A l \in Lessons : file[l].tier = "absent" =>
                                   mem[l].tier \in {"absent", "INSTINCT", "PATTERN", "UNTESTABLE"}

LEMMA InitBirth == Init => BirthInv
BY AbsentFacts DEF Init, BirthInv, Writing

LEMMA CorrectBirth ==
    ASSUME IInv, BirthInv, NEW l \in Lessons, NEW s \in Severities, NEW dir, Correct(l, s, dir)
    PROVE  BirthInv'
<1> DEFINE read == [file EXCEPT ![l] = Matched(l)]
           ev == Correction(CategoryOf[l], s, dir)
<1>0. /\ TypeOK /\ EvidenceInv /\ file \in [Lessons -> Lesson]
      /\ \A x \in Lessons : file[x].tier # "KILLED"
  BY DEF IInv, TypeOK, FileTypeOK
<1>1. /\ mem' = [x \in Lessons |-> Updated(x, read[x], ev)] /\ file' = file /\ pc' = "corrected"
      /\ given' = given
  BY DEF Correct, Listen
<1>2. ev.kind # "none" => ev.severity \in Severities BY DEF Correction
<1>3. ASSUME NEW x \in Lessons
      PROVE  /\ mem'[x].tier = "absent" => mem'[x] = Absent
             /\ file[x].tier = "absent" => mem'[x].tier \in {"absent", "INSTINCT", "PATTERN", "UNTESTABLE"}
  <2> DEFINE r == read[x]
             u == Updated(x, r, ev)
  <2>1. mem'[x] = u BY <1>1
  <2>2. CASE file[x].tier = "absent" /\ x # l
    <3>1. r = Absent BY <1>0, <2>2 DEF BirthInv
    <3>2. u = Absent BY <3>1, AbsentFacts DEF Updated
    <3> QED BY <2>1, <3>2, AbsentFacts
  <2>3. CASE ~(file[x].tier = "absent" /\ x # l)
    <3>1. r = IF x = l THEN Matched(l) ELSE file[x] BY <1>0
    <3>2. /\ r \in Lesson /\ r.tier \notin {"absent", "KILLED"}
          /\ file[x].tier = "absent" => r.fires = 0 /\ r.tier = "INSTINCT"
      <4>1. CASE x = l BY <1>0, <3>1, <4>1, MatchedFacts
      <4>2. CASE x # l BY <1>0, <2>3, <3>1, <4>2
      <4> QED BY <4>1, <4>2
    <3> HIDE DEF r, ev
    <3>3. /\ u \in Lesson /\ u.tier \notin {"absent", "KILLED"}
          /\ u.fires \in {r.fires, r.fires + 1}
          /\ u.tier = "PATTERN" => u.fires >= EnoughForPattern \/ r.tier = "PATTERN"
          /\ r.tier = "INSTINCT" => u.tier \in {"INSTINCT", "PATTERN", "UNTESTABLE"}
      BY <1>2, <3>2, UpdatedFacts
    <3> HIDE DEF u
    <3> QED BY <2>1, <3>2, <3>3
  <2> QED BY <2>2, <2>3
<1> QED BY <1>1, <1>3 DEF BirthInv

LEMMA EndSessionBirth ==
    ASSUME IInv, BirthInv, NEW ev, ev.kind # "none" => ev.severity \in Severities, EndSession(ev)
    PROVE  BirthInv'
<1>0. file \in [Lessons -> Lesson] /\ EvidenceInv /\ \A x \in Lessons : file[x].tier # "KILLED"
  BY DEF IInv, TypeOK, FileTypeOK
<1>1. mem' = [x \in Lessons |-> Verdict(x, file[x], ev)] /\ file' = file /\ given' = given
  BY DEF EndSession, Swept, Verdict, Listen
<1>2. ASSUME NEW x \in Lessons, file[x].tier = "absent" PROVE mem'[x] = Absent
  <2>1. file[x] = Absent BY <1>2 DEF BirthInv
  <2>2. Updated(x, Absent, ev) = Absent BY AbsentFacts DEF Updated
  <2>3. Verdict(x, Absent, ev) = Absent BY <2>2, AbsentFacts DEF Verdict, Graduated
  <2> QED BY <1>1, <2>1, <2>3
<1>3. ASSUME NEW x \in Lessons, file[x].tier # "absent" PROVE mem'[x].tier # "absent"
  <2>1. Young(file[x]) BY <1>0 DEF EvidenceInv
  <2>2. Follows(file[x], Verdict(x, file[x], ev)) BY <1>0, <1>3, <2>1, SweptFacts
  <2> QED BY <1>1, <2>2 DEF Follows
<1> QED BY <1>1, <1>2, <1>3, AbsentFacts DEF BirthInv

(* What a sweep leaves of what it read.                                    *)
LEMMA SweepShape ==
    ASSUME NEW f \in [Lessons -> Lesson], NEW blocked, NEW suspect,
           \A l \in Lessons : /\ f[l].tier # "KILLED" /\ Young(f[l])
                              /\ f[l].tier = "absent" => f[l] = Absent
    PROVE  /\ Sweep(f, blocked, suspect) \in [Lessons -> Lesson]
           /\ \A l \in Lessons : IF f[l].tier = "absent"
                                 THEN Sweep(f, blocked, suspect)[l] = Absent
                                 ELSE Follows(f[l], Sweep(f, blocked, suspect)[l])
<1>1. ASSUME NEW l \in Lessons
      PROVE  LET g == Sweep(f, blocked, suspect)[l] IN
             g \in Lesson /\ IF f[l].tier = "absent" THEN g = Absent ELSE Follows(f[l], g)
  <2> DEFINE b == l \in blocked
             p == l \in suspect
             s == Graduated(l, f[l], DefaultBar, b, p)
  <2>1. Sweep(f, blocked, suspect)[l] = s BY DEF Sweep
  <2>2. CASE f[l].tier = "absent"
    <3>1. s = f[l] BY <2>2 DEF Graduated
    <3> QED BY <2>1, <2>2, <3>1
  <2>3. CASE f[l].tier # "absent"
    <3>1. b \in BOOLEAN /\ p \in BOOLEAN OBVIOUS
    <3> HIDE DEF b, p
    <3>2. s \in Lesson /\ Follows(f[l], s) BY <2>3, <3>1, SweepFacts
    <3> QED BY <2>1, <2>3, <3>2
  <2> QED BY <2>2, <2>3
<1> QED BY <1>1 DEF Sweep

(* What is written of a lesson that stands at r, with n corrections heard, *)
(* and what is then known of it; had and has: it came with its tier.       *)
Wrote(r, n, had, u, m, has) ==
    \/ /\ r.tier # "absent" /\ Follows(r, u) /\ u.tier # "KILLED"
       /\ m = n /\ (has <=> had)
    \/ r.tier # "absent" /\ MayDie(r) /\ u = Absent /\ m = 0 /\ ~has
    \/ r = Absent /\ u = Absent /\ m = n /\ (has <=> had)
    \/ /\ r = Absent /\ u.tier \notin {"absent", "KILLED"} /\ m = n
       /\ has \/ u.tier \in {"INSTINCT", "PATTERN", "UNTESTABLE"}

(* The write itself, of the lessons f a call has made.                     *)
LEMMA FormattedShape ==
    ASSUME IInv, NEW f \in [Lessons -> Lesson], NEW came \in SUBSET Lessons,
           file' = Formatted(f), Remember(came, Dead(f)), NEW l \in Lessons
    PROVE  \/ /\ f[l].tier # "KILLED" /\ file'[l] = f[l]
              /\ heard'[l] = heard[l] /\ (l \in given' <=> l \in given \cup came)
           \/ f[l].tier = "KILLED" /\ file'[l] = Absent /\ heard'[l] = 0 /\ l \notin given'
<1>1. file'[l] = IF f[l].tier = "KILLED" THEN Absent ELSE f[l] BY FormattedFacts
<1>2. l \in Dead(f) <=> f[l].tier = "KILLED" BY DEF Dead
<1>3. heard'[l] = (IF l \in Dead(f) THEN 0 ELSE heard[l]) /\ given' = (given \cup came) \ Dead(f)
  BY DEF Remember
<1> HIDE DEF Absent
<1> QED BY <1>1, <1>2, <1>3

LEMMA Dying ==
    ASSUME NEW r, NEW u, Follows(r, u), u.tier = "KILLED", r.tier # "KILLED"
    PROVE  MayDie(r)
BY DEF Follows, Moves

(* What the pipeline is offered does not die of the sweep that follows.    *)
LEMMA OfferLives ==
    ASSUME NEW offer \in Offers, offer # Absent
    PROVE  ~MayDie(offer)
<1>1. CASE offer = Observed
  <2>1. offer.tier = "INSTINCT" /\ offer.conf = 40 BY <1>1 DEF Observed, Fresh
  <2> QED BY <2>1 DEF MayDie, MaxDelta
<1>2. ASSUME NEW n \in {2, 3, 5}, offer = Mined(n) PROVE ~MayDie(offer)
  <2> DEFINE t == IF n >= 5 THEN "RULE" ELSE "PATTERN"
             k == IF n >= 5 THEN 92 ELSE IF n >= 3 THEN 80 ELSE 70
  <2>1. offer.tier = t /\ offer.conf = k BY <1>2 DEF Mined, Fresh
  <2>2. t # "UNTESTABLE" /\ k \in Int /\ k > 30 OBVIOUS
  <2> HIDE DEF t, k
  <2> QED BY <2>1, <2>2 DEF MayDie, MaxDelta
<1> QED BY <1>1, <1>2 DEF Offers

(* The steps that write lessons.md, the user's forget apart.               *)
Writes ==
    \/ WriteCorrected \/ WriteSwept
    \/ \E l \in Lessons : AddRule(l)
    \/ \E blocked, suspect : HookGraduate(blocked, suspect)
    \/ \E l \in Lessons, offer \in Offers : \E blocked, suspect : Pipeline(l, offer, blocked, suspect)

(* Every such step, for every lesson.                                      *)
LEMMA WritesShape ==
    ASSUME IInv, BirthInv, Writes, NEW x \in Lessons
    PROVE  Wrote(file[x], heard[x], x \in given, file'[x], heard'[x], x \in given')
<1>0. /\ file \in [Lessons -> Lesson] /\ mem \in [Lessons -> Lesson] /\ given \subseteq Lessons
      /\ heard \in [Lessons -> Nat]
      /\ \A y \in Lessons : /\ file[y].tier # "KILLED" /\ Young(file[y])
                            /\ file[y].tier = "absent" => file[y] = Absent
      /\ \A y \in Lessons : mem[y].tier = "absent" => mem[y] = Absent
      /\ {} \in SUBSET Lessons /\ Absent.tier = "absent"
  BY AbsentFacts DEF IInv, TypeOK, FileTypeOK, CallTypeOK, CountTypeOK, EvidenceInv, BirthInv
<1>1. CASE WriteCorrected \/ WriteSwept
  <2>1. file' = Formatted(mem) /\ Remember({}, Dead(mem)) /\ Writing
    BY <1>1 DEF WriteCorrected, WriteSwept, Writing
  <2>2. \/ /\ mem[x].tier # "KILLED" /\ file'[x] = mem[x]
           /\ heard'[x] = heard[x] /\ (x \in given' <=> x \in given)
        \/ mem[x].tier = "KILLED" /\ file'[x] = Absent /\ heard'[x] = 0 /\ x \notin given'
    BY <1>0, <2>1, FormattedShape
  <2>3. CASE file[x].tier = "absent"
    <3>1. mem[x].tier \in {"absent", "INSTINCT", "PATTERN", "UNTESTABLE"} BY <2>1, <2>3 DEF BirthInv
    <3> QED BY <1>0, <2>2, <2>3, <3>1 DEF Wrote
  <2>4. CASE file[x].tier # "absent"
    <3>1. Follows(file[x], mem[x]) BY <2>1, <2>4 DEF IInv, MemInv
    <3> QED BY <1>0, <2>2, <2>4, <3>1, Dying DEF Wrote
  <2> QED BY <2>3, <2>4
<1>2. ASSUME NEW l \in Lessons, AddRule(l)
      PROVE  Wrote(file[x], heard[x], x \in given, file'[x], heard'[x], x \in given')
  <2>1. /\ file' = [file EXCEPT ![l] = Fresh("RULE", 90, FALSE)] /\ Remember({l}, {})
        /\ file[l].tier = "absent"
    BY <1>2 DEF AddRule
  <2>2. heard'[x] = heard[x] /\ given' = given \cup {l} BY <2>1 DEF Remember
  <2>3. CASE x = l
    <3>1. file'[x].tier = "RULE" BY <1>0, <2>1, <2>3 DEF Fresh
    <3> QED BY <1>0, <2>1, <2>2, <2>3, <3>1 DEF Wrote
  <2>4. CASE x # l
    <3>1. file'[x] = file[x] /\ (x \in given' <=> x \in given) BY <1>0, <2>1, <2>2, <2>4
    <3> QED BY <1>0, <2>2, <3>1, FollowsSelf DEF Wrote
  <2> QED BY <2>3, <2>4
<1>3. ASSUME NEW blocked, NEW suspect, HookGraduate(blocked, suspect)
      PROVE  Wrote(file[x], heard[x], x \in given, file'[x], heard'[x], x \in given')
  <2> DEFINE swept == Sweep(file, blocked, suspect)
  <2>1. file' = Formatted(swept) /\ Remember({}, Dead(swept)) BY <1>3 DEF HookGraduate
  <2>2. /\ swept \in [Lessons -> Lesson]
        /\ IF file[x].tier = "absent" THEN swept[x] = Absent ELSE Follows(file[x], swept[x])
    BY <1>0, SweepShape
  <2> HIDE DEF swept
  <2>3. \/ /\ swept[x].tier # "KILLED" /\ file'[x] = swept[x]
           /\ heard'[x] = heard[x] /\ (x \in given' <=> x \in given)
        \/ swept[x].tier = "KILLED" /\ file'[x] = Absent /\ heard'[x] = 0 /\ x \notin given'
    BY <1>0, <2>1, <2>2, FormattedShape
  <2> QED BY <1>0, <2>2, <2>3, Dying DEF Wrote
<1>4. ASSUME NEW l \in Lessons, NEW offer \in Offers, NEW blocked, NEW suspect,
             Pipeline(l, offer, blocked, suspect)
      PROVE  Wrote(file[x], heard[x], x \in given, file'[x], heard'[x], x \in given')
  <2> DEFINE news == file[l].tier = "absent" /\ offer # Absent
             read == IF news THEN [file EXCEPT ![l] = offer] ELSE file
             came == IF news THEN {l} ELSE {}
             swept == Sweep(read, blocked, suspect)
  <2>1. file' = Formatted(swept) /\ Remember(came, Dead(swept)) BY <1>4 DEF Pipeline
  <2>2. ASSUME NEW y \in Lessons
        PROVE  /\ read[y] \in Lesson /\ read[y].tier # "KILLED" /\ Young(read[y])
               /\ read[y].tier = "absent" => read[y] = Absent
    <3>1. CASE news /\ y = l BY <1>0, <3>1, ObservedFacts
    <3>2. CASE ~(news /\ y = l) BY <1>0, <3>2
    <3> QED BY <3>1, <3>2
  <2>3. read \in [Lessons -> Lesson] /\ came \in SUBSET Lessons BY <1>0, <2>2
  <2>4. \/ news /\ x = l /\ read[x] = offer /\ x \in came /\ file[x] = Absent
        \/ read[x] = file[x] /\ x \notin came
    BY <1>0
  <2>5. news => offer.tier \notin {"absent", "KILLED"} /\ ~MayDie(offer)
    BY ObservedFacts, OfferLives
  <2> HIDE DEF read, came
  <2>6. /\ swept \in [Lessons -> Lesson]
        /\ IF read[x].tier = "absent" THEN swept[x] = Absent ELSE Follows(read[x], swept[x])
    BY <2>2, <2>3, SweepShape
  <2> HIDE DEF swept, news
  <2>7. \/ /\ swept[x].tier # "KILLED" /\ file'[x] = swept[x]
           /\ heard'[x] = heard[x] /\ (x \in given' <=> x \in given \cup came)
        \/ swept[x].tier = "KILLED" /\ file'[x] = Absent /\ heard'[x] = 0 /\ x \notin given'
    BY <2>1, <2>3, <2>6, FormattedShape
  <2>8. CASE news /\ x = l /\ read[x] = offer /\ x \in came /\ file[x] = Absent
    <3>1. Follows(offer, swept[x]) /\ offer.tier # "KILLED" /\ ~MayDie(offer)
      BY <2>5, <2>6, <2>8
    <3>2. swept[x].tier \notin {"absent", "KILLED"} BY <3>1, Dying DEF Follows
    <3> QED BY <2>7, <2>8, <3>2 DEF Wrote
  <2>9. CASE read[x] = file[x] /\ x \notin came
    BY <1>0, <2>6, <2>7, <2>9, Dying DEF Wrote
  <2> QED BY <2>4, <2>8, <2>9
<1> QED BY <1>1, <1>2, <1>3, <1>4 DEF Writes

(* Every step keeps it.                                                    *)
LEMMA StepBirth == IInv /\ BirthInv /\ [Next]_vars => BirthInv'
<1> SUFFICES ASSUME IInv, BirthInv, [Next]_vars PROVE BirthInv' OBVIOUS
<1>0. /\ file \in [Lessons -> Lesson] /\ mem \in [Lessons -> Lesson] /\ given \subseteq Lessons
      /\ pc = "idle" => mem = Blank
  BY DEF IInv, TypeOK, FileTypeOK, CallTypeOK
<1>1. ASSUME NEW l \in Lessons, NEW s \in Severities,
             NEW dir \in [Within(CategoryOf[l]) -> Directions], Correct(l, s, dir)
      PROVE  BirthInv'
  BY <1>1, CorrectBirth
<1>2. ASSUME NEW ev \in Evidence, EndSession(ev) PROVE BirthInv'
  BY <1>2, EndSessionBirth, EvidenceShape
<1>3. CASE Writes
  <2>1. mem' = Blank /\ ~Writing'
    <3>1. CASE WriteCorrected \/ WriteSwept
      BY <3>1 DEF WriteCorrected, WriteSwept, Writing
    <3>2. CASE pc = "idle" /\ UNCHANGED callVars
      BY <1>0, <3>2 DEF callVars, Writing
    <3>3. \A l \in Lessons : AddRule(l) => pc = "idle" /\ UNCHANGED callVars BY DEF AddRule, Call
    <3>4. \A blocked, suspect : HookGraduate(blocked, suspect) => pc = "idle" /\ UNCHANGED callVars
      BY DEF HookGraduate, Call
    <3>5. \A l \in Lessons, offer \in Offers : \A blocked, suspect :
            Pipeline(l, offer, blocked, suspect) => pc = "idle" /\ UNCHANGED callVars
      BY DEF Pipeline, Call
    <3> QED BY <1>3, <3>1, <3>2, <3>3, <3>4, <3>5 DEF Writes
  <2>2. given' \subseteq Lessons
    <3>1. IInv' BY NextInv
    <3> QED BY <3>1 DEF IInv, TypeOK, CallTypeOK
  <2>3. ASSUME NEW x \in Lessons
        PROVE  /\ file'[x].tier = "absent" => file'[x] = Absent
               /\ x \in given' => file'[x].tier # "absent"
    <3>1. Wrote(file[x], heard[x], x \in given, file'[x], heard'[x], x \in given')
      BY <1>3, WritesShape
    <3>2. x \in given => file[x] # Absent BY AbsentFacts DEF BirthInv
    <3> HIDE DEF Absent
    <3> QED BY <3>1, <3>2 DEF Wrote, Follows
  <2> QED BY <2>1, <2>2, <2>3, AbsentFacts DEF BirthInv
<1>4. CASE Crash
  BY <1>4, AbsentFacts DEF Crash, BirthInv, Writing, history
<1>5. ASSUME NEW l \in Lessons, Forget(l) PROVE BirthInv'
  <2>1. UNCHANGED <<mem, pc>> /\ pc = "idle" BY <1>5 DEF Forget, callVars, Call
  <2>2. file' = [file EXCEPT ![l] = Absent] /\ given' = given \ {l}
    BY <1>5 DEF Forget, Remember
  <2>3. \A x \in Lessons : IF x = l THEN file'[x] = Absent ELSE file'[x] = file[x]
    BY <1>0, <2>2
  <2> HIDE DEF Absent
  <2> QED BY <1>0, <2>1, <2>2, <2>3 DEF BirthInv, Writing
<1>6. ASSUME NEW l \in Lessons, Announce(l) PROVE BirthInv'
  BY <1>6 DEF Announce, BirthInv, Writing, history
<1>7. CASE Export \/ CheckCanaries \/ NewSession \/ UNCHANGED vars
  <2>1. UNCHANGED <<file, mem, given>> /\ (Writing' => Writing)
    BY <1>7 DEF Export, CheckCanaries, NewSession, vars, callVars, Writing, history
  <2> QED BY <2>1 DEF BirthInv
<1> QED BY <1>1, <1>2, <1>3, <1>4, <1>5, <1>6, <1>7 DEF Next, Writes
-----------------------------------------------------------------------------
(* Initially, and with every step, the lessons live as RuleLife says.      *)
LEMMA LifeInitRefined == Init => Life!LifeInit
BY AbsentFacts DEF Init, Life!LifeInit

LEMMA SettleRefined ==
    ASSUME IInv, BirthInv, IInv', Writes PROVE Life!Settle
<1>0. /\ heard \in [Lessons -> Nat] /\ heard' \in [Lessons -> Nat]
      /\ \A l \in Lessons : /\ file[l] \in Lesson /\ file[l].tier # "KILLED"
                            /\ file'[l] \in Lesson /\ file'[l].tier # "KILLED"
  BY DEF IInv, TypeOK, FileTypeOK, CountTypeOK
<1>1. ASSUME NEW l \in Lessons
      PROVE  /\ \/ file'[l].tier = file[l].tier
                \/ Life!Born(l) \/ Life!Lifted(l)
                \/ Life!Promoted(l) \/ Life!Demoted(l) \/ Life!SetAside(l) \/ Life!Killed(l)
             /\ Life!Remembers(l)
             /\ heard'[l] = IF Life!Killed(l) THEN 0 ELSE heard[l]
  <2> DEFINE r == file[l]
             u == file'[l]
             came == l \in given
             kept == l \in given'
  <2>1. Wrote(r, heard[l], came, u, heard'[l], kept) BY WritesShape
  <2>2. r.fires \in Nat /\ u.fires \in Nat /\ heard[l] \in Nat /\ heard'[l] \in Nat
        /\ r.tier \in Tiers /\ u.tier \in Tiers /\ r.tier # "KILLED" /\ u.tier # "KILLED"
    BY <1>0 DEF Lesson
  <2>3. came => r.tier # "absent" BY DEF BirthInv
  <2>4. ~kept => Earned(u, heard'[l]) BY DEF IInv, EvidenceInv
  <2>5. Absent.tier = "absent" /\ Absent.fires = 0 BY AbsentFacts
  <2> USE DEF Life!Born, Life!Lifted, Life!Promoted, Life!Demoted, Life!SetAside, Life!Killed,
              Life!Moved, Life!Backed, Life!Remembers
  <2> HIDE DEF r, u, Absent
  <2>6. CASE /\ r.tier # "absent" /\ Follows(r, u)
             /\ heard'[l] = heard[l] /\ (kept <=> came)
    <3>1. /\ kept \/ u.fires > 0 => kept \/ heard[l] >= 1
          /\ u.tier = "PATTERN" => kept \/ heard[l] >= FloorOfPattern
          /\ u.tier = "RULE" => kept \/ heard[l] >= FloorOfRule
      BY <2>2, <2>4, <2>6, Enough, Floors DEF Earned
    <3>2. r.fires > 0 => u.fires > 0 BY <2>2, <2>6 DEF Follows
    <3>3. /\ u.tier # "absent" /\ (r.tier = "RULE" /\ r.fires > 0 => u.tier = "RULE")
          /\ u.tier = r.tier \/ <<r.tier, u.tier>> \in Moves
      BY <2>2, <2>6 DEF Follows
    <3> QED BY <2>6, <3>1, <3>2, <3>3 DEF Moves, r, u
  <2>7. CASE r.tier # "absent" /\ MayDie(r) /\ u = Absent /\ heard'[l] = 0 /\ ~kept
    <3>1. r.tier \in {"INSTINCT", "PATTERN", "UNTESTABLE"} BY <2>7 DEF MayDie
    <3> QED BY <2>5, <2>7, <3>1 DEF r, u
  <2>8. CASE r = Absent /\ u = Absent /\ heard'[l] = heard[l] /\ (kept <=> came)
    BY <2>3, <2>5, <2>8 DEF r, u
  <2>9. CASE /\ r = Absent /\ u.tier \notin {"absent", "KILLED"} /\ heard'[l] = heard[l]
             /\ kept \/ u.tier \in {"INSTINCT", "PATTERN", "UNTESTABLE"}
    <3>1. /\ u.fires > 0 => kept \/ heard[l] >= 1
          /\ u.tier = "PATTERN" => kept \/ heard[l] >= FloorOfPattern
      BY <2>2, <2>4, <2>9, Enough, Floors DEF Earned
    <3> QED BY <2>2, <2>3, <2>5, <2>9, <3>1 DEF r, u, Tiers
  <2> QED BY <2>1, <2>6, <2>7, <2>8, <2>9 DEF Wrote
<1>2. heard' = [l \in Lessons |-> IF Life!Killed(l) THEN 0 ELSE heard[l]] BY <1>0, <1>1
<1> QED BY <1>1, <1>2 DEF Life!Settle

LEMMA LifeStepRefined ==
    IInv /\ BirthInv /\ IInv' /\ [Next]_vars => [Life!LifeNext]_Life!lifeVars
<1> SUFFICES ASSUME IInv, BirthInv, IInv', [Next]_vars
             PROVE  [Life!LifeNext]_Life!lifeVars
  OBVIOUS
<1>0. /\ file \in [Lessons -> Lesson] /\ heard \in [Lessons -> Nat] /\ given \subseteq Lessons
  BY DEF IInv, TypeOK, FileTypeOK, CallTypeOK, CountTypeOK
<1>1. CASE Writes BY <1>1, SettleRefined DEF Life!LifeNext
<1>2. ASSUME NEW l \in Lessons, Forget(l) PROVE Life!Retire(l)
  <2>1. /\ file' = [file EXCEPT ![l] = Absent]
        /\ heard' = [x \in Lessons |-> IF x = l THEN 0 ELSE heard[x]] /\ given' = given \ {l}
    BY <1>2 DEF Forget, Remember
  <2>2. Absent.tier = "absent" /\ Absent.fires = 0 BY AbsentFacts
  <2> HIDE DEF Absent
  <2>3. heard' = [heard EXCEPT ![l] = 0] BY <1>0, <2>1
  <2>4. [x \in Lessons |-> file'[x].tier]
          = [[x \in Lessons |-> file[x].tier] EXCEPT ![l] = "absent"]
    BY <1>0, <2>1, <2>2
  <2>5. {x \in Lessons : file'[x].fires > 0} = {x \in Lessons : file[x].fires > 0} \ {l}
    BY <1>0, <2>1, <2>2
  <2> QED BY <2>1, <2>3, <2>4, <2>5 DEF Life!Retire
<1>3. ASSUME NEW fired \in SUBSET Lessons, Listen(fired), file' = file PROVE Life!Hear(fired)
  BY <1>3 DEF Listen, Life!Hear
<1>4. ASSUME NEW l \in Lessons, NEW s \in Severities,
             NEW dir \in [Within(CategoryOf[l]) -> Directions], Correct(l, s, dir)
      PROVE  \E fired \in SUBSET Lessons : Life!Hear(fired)
  <2> DEFINE read == [file EXCEPT ![l] = Matched(l)]
             fired == (FiredBy(Correction(CategoryOf[l], s, dir)) \cap Present(read))
                        \cup ({l} \cap Present(file))
  <2>1. fired \in SUBSET Lessons BY DEF Present
  <2>2. Listen(fired) /\ file' = file BY <1>4 DEF Correct
  <2> HIDE DEF fired
  <2> QED BY <1>3, <2>1, <2>2
<1>5. ASSUME NEW ev \in Evidence, EndSession(ev)
      PROVE  \E fired \in SUBSET Lessons : Life!Hear(fired)
  <2> DEFINE fired == FiredBy(ev) \cap Present(file)
  <2>1. fired \in SUBSET Lessons BY DEF Present
  <2>2. Listen(fired) /\ file' = file BY <1>5 DEF EndSession
  <2> HIDE DEF fired
  <2> QED BY <1>3, <2>1, <2>2
<1>6. ASSUME \/ \E l \in Lessons : Announce(l)
             \/ Export \/ CheckCanaries \/ Crash \/ NewSession \/ UNCHANGED vars
      PROVE  UNCHANGED Life!lifeVars
  <2>1. UNCHANGED <<file, heard, given>>
    BY <1>6 DEF Announce, Export, CheckCanaries, Crash, NewSession, vars, history
  <2> QED BY <2>1 DEF Life!lifeVars
<1> QED BY <1>1, <1>2, <1>4, <1>5, <1>6 DEF Next, Writes, Life!LifeNext

(* Calls cut short and sweeps of three kinds amount to lessons that live   *)
(* by evidence: each write moves every lesson by one edge of the lifecycle *)
(* at most, upwards only on what has been heard, and forgets no fire.      *)
THEOREM LifeImplemented == Spec => ImplementsLife
<1>1. Spec => [](IInv /\ BirthInv)
  <2>1. Init => IInv /\ BirthInv BY InitInv, InitBirth
  <2>2. IInv /\ BirthInv /\ [Next]_vars => IInv' /\ BirthInv' BY NextInv, StepBirth
  <2> QED BY <2>1, <2>2, PTL DEF Spec
<1>2. IInv /\ BirthInv /\ [Next]_vars => [Life!LifeNext]_Life!lifeVars
  BY NextInv, LifeStepRefined
<1> QED BY <1>1, <1>2, LifeInitRefined, PTL DEF Spec, ImplementsLife, Life!LifeSpec
=============================================================================
