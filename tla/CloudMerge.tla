------------------------------ MODULE CloudMerge ------------------------------
(***************************************************************************)
(* How the devices of one user share a graduated rule: a device that       *)
(* graduates it emits RULE_GRADUATED (_graduation.py) and pushes the event *)
(* to the cloud, which keeps one stream in order of arrival; each device   *)
(* runs pull_events(apply=True) (pull.py): page by page from its cursor,   *)
(* fold of the pulled events (materialize in materializer.py), merge into  *)
(* lessons.md (_apply_materialized.py), cursor saved (_sync_state.py).     *)
(*                                                                         *)
(* One rule key, since keys do not interact.  A grade is what an event     *)
(* says of the rule: new_state and confidence, in hundredths; fire_count,  *)
(* kept at its maximum, is left out, and so is the drift of a confidence   *)
(* between two graduations, which no event carries.  Timestamps are unique *)
(* but in no order: clocks are skewed and events arrive late.  A pull is   *)
(* not atomic, any step of it may be its last, and graduations of the same *)
(* device go on beside it; a device runs one pull at a time.               *)
(***************************************************************************)
EXTENDS Integers, Sequences, FiniteSets

CONSTANTS Devices,        \* devices modelled in full
          Elsewhere,      \* any other device, or the dashboard
          Grades,         \* what a graduation may say of the rule
          Threshold,      \* CONFLICT_THRESHOLD
          Limit,          \* events on a page
          PageCap,        \* PAGE_CAP: pages of one pull
          MaxEvents,      \* bound: events of a behaviour
          None            \* no grade, no winner

States == {"INSTINCT", "PATTERN", "RULE"}

ASSUME CloudMergeAssumption ==
    /\ Elsewhere \notin Devices
    /\ Grades \subseteq [state : States, conf : 0..100]
    /\ None \notin Grades \cup [ts : 1..MaxEvents, grade : Grades]
    /\ Threshold \in Nat \ {0}
    /\ Limit \in Nat \ {0} /\ PageCap \in Nat \ {0} /\ MaxEvents \in Nat

VARIABLES
    stream, used,             \* the cloud's event stream; timestamps in use
    lesson,                   \* per device: the rule in lessons.md, or None
    outbox,                   \* per device: events not yet pushed
    cursor,                   \* per device: last_pull_cursor, as a position
    pc, upto, pages,          \* per pull: where it is, what it fetched
    next, winner, held,       \* materialize: the loop, winners, conflict_holds
    existing,                 \* the lesson as the pull has read it
    applied                   \* history: positions whose fold was written

cloudVars  == <<stream, used>>
deviceVars == <<lesson, outbox, cursor>>
pullVars   == <<pc, upto, pages, next, winner, held, existing>>
vars == <<cloudVars, deviceVars, pullVars, applied>>

Init ==
    /\ stream = <<>> /\ used = {}
    /\ lesson = [d \in Devices |-> None]
    /\ outbox = [d \in Devices |-> {}]
    /\ cursor = [d \in Devices |-> 0]
    /\ pc = [d \in Devices |-> "idle"]
    /\ upto = [d \in Devices |-> 0] /\ pages = [d \in Devices |-> 0]
    /\ next = [d \in Devices |-> 0]
    /\ winner = [d \in Devices |-> None] /\ held = [d \in Devices |-> FALSE]
    /\ existing = [d \in Devices |-> None]
    /\ applied = [d \in Devices |-> {}]
-----------------------------------------------------------------------------
(* Events.                                                                 *)
Event(kind, t, g, by) ==
    [kind |-> kind, ts |-> t, grade |-> g, by |-> by, picks |-> 0, whole |-> FALSE]

\* RULE_CONFLICT_RESOLVED names the winner by its timestamp, and may embed it.
Resolution(t, e, embeds) ==
    [kind |-> "resolved", ts |-> t, grade |-> e.grade, by |-> Elsewhere,
     picks |-> e.ts, whole |-> embeds]

Fresh == 1..MaxEvents \ used

Graduations == {p \in DOMAIN stream : stream[p].kind = "graduated"}

\* What other devices, the dashboard and other parts of the program send.
Incoming(t) ==
    {Event(kind, t, g, Elsewhere) : kind \in {"graduated", "override"}, g \in Grades}
    \cup {Resolution(t, stream[p], w) : p \in Graduations, w \in BOOLEAN}
    \cup {Event("other", t, None, Elsewhere)}

Arrive ==
    \E t \in Fresh : \E e \in Incoming(t) :
        /\ stream' = Append(stream, e)
        /\ used' = used \cup {t}
        /\ UNCHANGED <<deviceVars, pullVars, applied>>

(* graduate: a tier up or down; a rule starts as an INSTINCT without event.*)
Transitions == {<<"INSTINCT", "PATTERN">>, <<"PATTERN", "RULE">>, <<"PATTERN", "INSTINCT">>}

Graduate(d, g) ==
    /\ <<IF lesson[d] = None THEN "INSTINCT" ELSE lesson[d].state, g.state>> \in Transitions
    /\ lesson' = [lesson EXCEPT ![d] = g]
    /\ \E t \in Fresh :
         /\ outbox' = [outbox EXCEPT ![d] = @ \cup {Event("graduated", t, g, d)}]
         /\ used' = used \cup {t}
    /\ UNCHANGED <<stream, cursor, pullVars, applied>>

\* The push of one event, which drops what the cloud already has.  A batch
\* goes out in order of ids, but the cloud may take a part of it first.
Push(d) ==
    \E e \in outbox[d] :
        /\ stream' = Append(stream, e)
        /\ outbox' = [outbox EXCEPT ![d] = @ \ {e}]
        /\ UNCHANGED <<used, lesson, cursor, pullVars, applied>>
-----------------------------------------------------------------------------
(* pull_events: the page loop.  Nothing is fetched twice: the watermark of *)
(* a page is the cursor of the next.                                       *)
Goto(d, p) == pc' = [pc EXCEPT ![d] = p]

PullBegin(d) ==
    /\ pc[d] = "idle"
    /\ Goto(d, "fetch")
    /\ upto' = [upto EXCEPT ![d] = cursor[d]]
    /\ UNCHANGED <<cloudVars, deviceVars, pages, next, winner, held, existing, applied>>

\* MUTANT: the end of the stream is not looked at.
PagesBeyondEnd(d) == (upto[d] + 1)..(upto[d] + Limit)

\* A page holds the next events, Limit at most; it may be empty at the end.
PageEnds(d) ==
    IF upto[d] = Len(stream) THEN {upto[d]}
    ELSE {p \in (upto[d] + 1)..(upto[d] + Limit) : p <= Len(stream)}

FetchPage(d) ==
    /\ pc[d] = "fetch"
    /\ \E p \in PageEnds(d) :
         /\ upto' = [upto EXCEPT ![d] = p]
         /\ IF p = Len(stream) \/ pages[d] + 1 = PageCap
            THEN Goto(d, "fold") /\ next' = [next EXCEPT ![d] = cursor[d] + 1]
            ELSE UNCHANGED <<pc, next>>
    /\ pages' = [pages EXCEPT ![d] = @ + 1]
    /\ UNCHANGED <<cloudVars, deviceVars, winner, held, existing, applied>>

PullEnd(d) ==
    /\ Goto(d, "idle")
    /\ upto' = [upto EXCEPT ![d] = 0] /\ pages' = [pages EXCEPT ![d] = 0]
    /\ next' = [next EXCEPT ![d] = 0]
    /\ winner' = [winner EXCEPT ![d] = None] /\ held' = [held EXCEPT ![d] = FALSE]
    /\ existing' = [existing EXCEPT ![d] = None]

\* An HTTP or parse error, a write that fails, a crash: nothing is undone.
Abort(d) ==
    /\ pc[d] # "idle"
    /\ PullEnd(d)
    /\ UNCHANGED <<cloudVars, deviceVars, applied>>
-----------------------------------------------------------------------------
(* materialize: one iteration of its loop per step, over the pulled events *)
(* only; what earlier pulls have folded is not known to it.                *)
Folding(d, kind) ==
    /\ pc[d] = "fold" /\ next[d] <= upto[d]
    /\ stream[next[d]].kind = kind

Step(d) ==
    /\ next' = [next EXCEPT ![d] = @ + 1]
    /\ UNCHANGED <<cloudVars, deviceVars, pc, upto, pages, existing, applied>>

SetWinner(d, t, g) == winner' = [winner EXCEPT ![d] = [ts |-> t, grade |-> g]]

Gap(a, b) == IF a > b THEN a - b ELSE b - a

Clash(g, h) == g.state # h.state \/ Gap(g.conf, h.conf) >= Threshold

\* MUTANT: the first writer wins.
EarlierWins(d) == stream[next[d]].ts < winner[d].ts

\* _lww.  Payloads hold no device_id, so the tie-break never comes into play.
LaterWins(d) == stream[next[d]].ts > winner[d].ts

(* _apply_tier, and the hold of its Tier 2.                                *)
FoldGraduation(d) ==
    /\ Folding(d, "graduated")
    /\ Step(d)
    /\ LET e == stream[next[d]]
           clash == winner[d] # None /\ Clash(winner[d].grade, e.grade)
       IN  /\ held' = [held EXCEPT ![d] = @ \/ clash]
           /\ IF ~held[d] /\ ~clash /\ (winner[d] = None \/ LaterWins(d))
              THEN SetWinner(d, e.ts, e.grade)
              ELSE UNCHANGED winner

\* MUTANT: an override does not lift the hold.
FoldOverrideHeld(d) ==
    /\ Folding(d, "override")
    /\ Step(d)
    /\ SetWinner(d, stream[next[d]].ts, stream[next[d]].grade)
    /\ UNCHANGED held

FoldOverride(d) ==
    /\ Folding(d, "override")
    /\ Step(d)
    /\ SetWinner(d, stream[next[d]].ts, stream[next[d]].grade)
    /\ held' = [held EXCEPT ![d] = FALSE]

\* The winner is looked up in graduation_history, else taken from the event.
FoldResolution(d) ==
    /\ Folding(d, "resolved")
    /\ Step(d)
    /\ held' = [held EXCEPT ![d] = FALSE]
    /\ LET e == stream[next[d]]
           named == {p \in Graduations : /\ cursor[d] < p /\ p < next[d]
                                         /\ stream[p].ts = e.picks}
       IN  IF named # {} \/ e.whole
           THEN SetWinner(d, e.picks, e.grade)
           ELSE UNCHANGED winner

FoldOther(d) ==
    /\ Folding(d, "other")
    /\ Step(d)
    /\ UNCHANGED <<winner, held>>

Fold(d) ==
    FoldGraduation(d) \/ FoldOverride(d) \/ FoldResolution(d) \/ FoldOther(d)

(* The rest of the pull.  Nothing is written for an empty result.          *)
FoldEnd(d) ==
    /\ pc[d] = "fold" /\ next[d] > upto[d]
    /\ Goto(d, IF winner[d] = None /\ ~held[d] THEN "persist" ELSE "read")
    /\ UNCHANGED <<cloudVars, deviceVars, upto, pages, next, winner, held, existing, applied>>

ReadLessons(d) ==
    /\ pc[d] = "read"
    /\ existing' = [existing EXCEPT ![d] = lesson[d]]
    /\ Goto(d, "write")
    /\ UNCHANGED <<cloudVars, deviceVars, upto, pages, next, winner, held, applied>>

\* MUTANT: conflict_keys is not consulted.
MergedAnyway(d) == winner[d].grade

\* apply_to_lessons: a rule in conflict leaves the lesson as it was read.
Merged(d) == IF held[d] THEN existing[d] ELSE winner[d].grade

WriteLessons(d) ==
    /\ pc[d] = "write"
    /\ lesson' = [lesson EXCEPT ![d] = Merged(d)]
    /\ applied' = [applied EXCEPT ![d] = @ \cup (cursor[d] + 1)..upto[d]]
    /\ Goto(d, "persist")
    /\ UNCHANGED <<cloudVars, outbox, cursor, upto, pages, next, winner, held, existing>>

\* MUTANT: the cursor is put at the head of the stream.
PersistHead(d) ==
    /\ pc[d] = "persist"
    /\ cursor' = [cursor EXCEPT ![d] = Len(stream)]
    /\ PullEnd(d)
    /\ UNCHANGED <<cloudVars, lesson, outbox, applied>>

PersistCursor(d) ==
    /\ pc[d] = "persist"
    /\ cursor' = [cursor EXCEPT ![d] = upto[d]]
    /\ PullEnd(d)
    /\ UNCHANGED <<cloudVars, lesson, outbox, applied>>

Pull(d) ==
    \/ PullBegin(d) \/ FetchPage(d) \/ Fold(d) \/ FoldEnd(d)
    \/ ReadLessons(d) \/ WriteLessons(d) \/ PersistCursor(d) \/ Abort(d)

Next ==
    \/ Arrive
    \/ \E d \in Devices :
         \/ \E g \in Grades : Graduate(d, g)
         \/ Push(d) \/ Pull(d)

Spec == Init /\ [][Next]_vars
-----------------------------------------------------------------------------
Kinds  == {"graduated", "override", "resolved", "other"}
Times  == 1..MaxEvents
Events == [kind : Kinds, ts : Times, grade : Grades \cup {None},
           by : Devices \cup {Elsewhere}, picks : 0..MaxEvents, whole : BOOLEAN]
Winners == [ts : Times, grade : Grades]

(* The shape of every variable; only events of kind "other" have no grade, *)
(* and a pull stays within the stream.                                     *)
Graded(e) == e.kind # "other" => e.grade \in Grades /\ (e.kind = "resolved" => e.picks \in Times)
StreamTypeOK ==
    /\ stream \in Seq(Events) /\ used \in SUBSET Times
    /\ outbox \in [Devices -> SUBSET Events]
    /\ \A p \in DOMAIN stream : Graded(stream[p])
    /\ \A d \in Devices : \A e \in outbox[d] : Graded(e)
DeviceTypeOK ==
    /\ lesson \in [Devices -> Grades \cup {None}]
    /\ cursor \in [Devices -> 0..Len(stream)]
PullTypeOK ==
    /\ pc \in [Devices -> {"idle", "fetch", "fold", "read", "write", "persist"}]
    /\ upto \in [Devices -> 0..Len(stream)] /\ pages \in [Devices -> 0..PageCap]
    /\ next \in [Devices -> 0..Len(stream) + 1]
    /\ winner \in [Devices -> Winners \cup {None}] /\ held \in [Devices -> BOOLEAN]
    /\ existing \in [Devices -> Grades \cup {None}]
TypeOK ==
    /\ StreamTypeOK /\ DeviceTypeOK /\ PullTypeOK
    /\ applied \in [Devices -> SUBSET DOMAIN stream]

(* No event is skipped for good: whatever a device's cursor has passed has *)
(* been through a fold whose result reached lessons.md, although more      *)
(* events arrive and pulls are cut short, by the page cap or by a failure, *)
(* at any step.                                                            *)
CursorCovers ==
    \A d \in Devices : \A p \in 1..cursor[d] :
        stream[p].kind \in {"graduated", "override"} => p \in applied[d]

CaughtUp(d) ==
    /\ pc[d] = "idle" /\ outbox[d] = {}
    /\ stream # <<>> /\ cursor[d] = Len(stream)

Last == stream[Len(stream)]

Decisive(e) == e.kind = "override" \/ (e.kind = "resolved" /\ e.whole)

(* Agreement settles: from the user's word on, or from the first event if  *)
(* the user never spoke, let all that is said of the rule be graduations   *)
(* in the order of their timestamps of which no two clash, with other      *)
(* events between them.  Then every device that has caught up has the      *)
(* grade of the last word, however it had cut the stream into pulls,       *)
(* repeated them or held a conflict before.                                *)
Says(s, p) == s[p].kind # "other"
Clock(e)   == IF e.kind = "resolved" THEN e.picks ELSE e.ts
Agreed(s, m, n) ==
    /\ \/ Decisive(s[m])
       \/ s[m].kind = "graduated" /\ \A p \in 1..m - 1 : ~Says(s, p)
    /\ \A p \in m + 1..n : s[p].kind \in {"graduated", "other"}
    /\ \A p, q \in m..n :
         p < q /\ Says(s, p) /\ Says(s, q) => /\ Clock(s[p]) < s[q].ts
                                              /\ ~Clash(s[p].grade, s[q].grade)
LastWord(s, q, n) == Says(s, q) /\ \A p \in q + 1..n : ~Says(s, p)
AgreementSettles ==
    \A d \in Devices : CaughtUp(d) =>
        \A m, q \in DOMAIN stream :
            Agreed(stream, m, Len(stream)) /\ LastWord(stream, q, Len(stream))
                => lesson[d] = stream[q].grade

(* The user's word is final: when the newest event overrides the rule, or  *)
(* resolves its conflict and carries the winner, every device that has     *)
(* caught up has exactly that grade, however it had cut the stream into    *)
(* pulls and whatever it had graduated or held before: an agreement of one.*)
AdjudicationSettles ==
    \A d \in Devices :
        CaughtUp(d) /\ Decisive(Last) => lesson[d] = Last.grade

(* A disagreement is never settled silently: a pull that has seen two      *)
(* graduations to different states, and no adjudication after the first of *)
(* them, writes the lesson back as it had read it.                         *)
Contested(d) ==
    \E p, q \in Graduations :
        /\ cursor[d] < p /\ p < q /\ q <= upto[d]
        /\ stream[p].grade.state # stream[q].grade.state
        /\ \A r \in p..upto[d] : stream[r].kind \in {"graduated", "other"}
DisagreementHolds ==
    [][\A d \in Devices :
         pc[d] = "write" /\ pc'[d] = "persist" /\ Contested(d)
             => lesson'[d] = existing[d]]_vars

(* Claimed by the materializer and by the disaster recovery test: a fresh  *)
(* device that applies the stream of an origin device has the rule as the  *)
(* origin has it.                                                          *)
RecoversOrigin ==
    \A a, b \in Devices :
        /\ CaughtUp(a) /\ CaughtUp(b)
        /\ \A p \in DOMAIN stream : stream[p].kind = "graduated" /\ stream[p].by = a
        => lesson[b] = lesson[a]
=============================================================================
