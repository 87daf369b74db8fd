------------------------------ MODULE LessonsFile ------------------------------
(***************************************************************************)
(* lessons.md, the file every part of a brain reads and rewrites whole,    *)
(* and lessons_lock (_db.py), the file lock next to it.  An operation is a *)
(* read, an edit and a write, and the code holds the lock in four ways:    *)
(*   "cycle"    around all of it: add_rule (brain.py), _mutate_lessons     *)
(*              (pattern_integration.py);                                  *)
(*   "late"     around the write alone (write_lessons_safe): correct and   *)
(*              end_session (_core.py), patch_rule, forget, rollback       *)
(*              (brain.py), the promotion reviews (brain_inspection.py),   *)
(*              pull (cloud/pull.py);                                      *)
(*   "bare"     not at all: the session_close hook, rule_pipeline, absorb; *)
(*   "resolve"  around all of it, and write_lessons_safe takes it once     *)
(*              more: approve_lesson and reject_lesson (brain.py).         *)
(* The lock is on an open file, so it is not re-entrant, and a process     *)
(* that ends gives it up.  write_text is not atomic: it truncates, then    *)
(* fills.                                                                  *)
(***************************************************************************)
EXTENDS Naturals

CONSTANTS Callers,        \* threads and processes that work on the brain
          Lessons,        \* the lessons they edit
          None            \* nobody holds the lock; no lesson

ASSUME LessonsFileAssumption == None \notin Callers \cup Lessons

VARIABLES
    file,                 \* lessons.md: what it says of each lesson
    lock,                 \* who holds .lessons.lock
    pc, kind,             \* per caller: where its operation is, how it locks
    lesson, value,        \* per caller: the edit it makes
    seen, copy,           \* per caller: it has read the file; what it read
    mixed, torn,          \* history: operations overlapped of which one did
                          \*   not lock its whole cycle / a write was cut short
    want                  \* history: what the finished edits ask for, followed
                          \*   until the file is mixed or torn

opVars  == <<pc, kind, lesson, value, seen, copy>>
history == <<mixed, torn, want>>
vars == <<file, lock, opVars, history>>

Kinds    == {"cycle", "late", "bare", "resolve"}
Loose    == {"late", "bare"}
Values   == {"pending", "active"}
Contents == [Lessons -> Values \cup {"absent"}]
Blank    == [l \in Lessons |-> "absent"]

Busy == {a \in Callers : pc[a] \notin {"idle", "down"}}

Disturbed == mixed \/ torn

Init ==
    /\ file = Blank /\ lock = None
    /\ pc = [a \in Callers |-> "idle"] /\ kind = [a \in Callers |-> "cycle"]
    /\ lesson = [a \in Callers |-> None] /\ value = [a \in Callers |-> "pending"]
    /\ seen = [a \in Callers |-> FALSE] /\ copy = [a \in Callers |-> Blank]
    /\ mixed = FALSE /\ torn = FALSE /\ want = Blank
-----------------------------------------------------------------------------
\* MUTANT: the file is read before the lock is taken.
ReadsFirst(k) == "read"

FirstStep(k) == IF k \in {"cycle", "resolve"} THEN "lock" ELSE "read"

(* A lesson is added pending if approvals are required, else active; to    *)
(* resolve an approval, either way, is to end its being pending.  An edit  *)
(* that removes a lesson or moves its confidence differs in nothing the    *)
(* properties look at.                                                     *)
Begin(a, k, l, v) ==
    /\ pc[a] = "idle"
    /\ k = "resolve" => v = "active"
    /\ pc' = [pc EXCEPT ![a] = FirstStep(k)]
    /\ kind' = [kind EXCEPT ![a] = k]
    /\ lesson' = [lesson EXCEPT ![a] = l]
    /\ value' = [value EXCEPT ![a] = v]
    /\ IF \E b \in Busy : k \in Loose \/ kind[b] \in Loose
       THEN mixed' = TRUE /\ want' = Blank
       ELSE UNCHANGED <<mixed, want>>
    /\ UNCHANGED <<file, lock, seen, copy, torn>>

\* The operation ends, whatever the reason: the with block gives the lock up.
Leave(a, next) ==
    /\ pc' = [pc EXCEPT ![a] = next]
    /\ kind' = [kind EXCEPT ![a] = "cycle"]
    /\ lesson' = [lesson EXCEPT ![a] = None]
    /\ value' = [value EXCEPT ![a] = "pending"]
    /\ seen' = [seen EXCEPT ![a] = FALSE]
    /\ copy' = [copy EXCEPT ![a] = Blank]
    /\ lock' = IF lock = a THEN None ELSE lock

\* MUTANT: the content read before the call is the one to write.
LockToWrite(a) ==
    /\ pc[a] = "lock" /\ lock = None
    /\ lock' = a
    /\ pc' = [pc EXCEPT ![a] = "truncate"]
    /\ UNCHANGED <<file, kind, lesson, value, seen, copy, history>>

(* lessons_lock: tried every 0.1 s until the timeout.                      *)
Lock(a) ==
    /\ pc[a] = "lock" /\ lock = None
    /\ lock' = a
    /\ pc' = [pc EXCEPT ![a] = IF seen[a] THEN "truncate" ELSE "read"]
    /\ UNCHANGED <<file, kind, lesson, value, seen, copy, history>>

\* MUTANT: the lock is polled without a deadline.
KeepPolling(a) ==
    /\ pc[a] = "lock" /\ lock # None
    /\ UNCHANGED vars

\* TimeoutError; the caller may be the one who holds the lock.
TimeOut(a) ==
    /\ pc[a] = "lock" /\ lock # None
    /\ Leave(a, "idle")
    /\ UNCHANGED <<file, history>>

(* The file is read and parsed.                                            *)
Read(a) ==
    /\ pc[a] = "read"
    /\ kind[a] = "resolve" => file[lesson[a]] = "pending"
    /\ seen' = [seen EXCEPT ![a] = TRUE]
    /\ copy' = [copy EXCEPT ![a] = file]
    /\ pc' = [pc EXCEPT ![a] = IF kind[a] \in {"late", "resolve"} THEN "lock" ELSE "truncate"]
    /\ UNCHANGED <<file, lock, kind, lesson, value, history>>

\* Nothing to write: a duplicate, no match, no lessons.
ReadNothing(a) ==
    /\ pc[a] = "read"
    /\ kind[a] = "resolve" => file[lesson[a]] # "pending"
    /\ Leave(a, "idle")
    /\ UNCHANGED <<file, history>>

(* write_text.                                                             *)
Truncate(a) ==
    /\ pc[a] = "truncate"
    /\ file' = Blank
    /\ pc' = [pc EXCEPT ![a] = "fill"]
    /\ UNCHANGED <<lock, kind, lesson, value, seen, copy, history>>

Edited(a) == [copy[a] EXCEPT ![lesson[a]] = value[a]]

\* What another writer has put there meanwhile shows through behind the end
\* of a shorter text.
Fill(a) ==
    /\ pc[a] = "fill"
    /\ \E tail \in SUBSET {l \in Lessons : file[l] # "absent"} :
         file' = [l \in Lessons |-> IF l \in tail THEN file[l] ELSE Edited(a)[l]]
    /\ want' = IF Disturbed THEN want ELSE [want EXCEPT ![lesson[a]] = value[a]]
    /\ Leave(a, "idle")
    /\ UNCHANGED <<mixed, torn>>

(* The process of the caller ends.                                         *)
Crash(a) ==
    /\ a \in Busy
    /\ IF pc[a] = "fill" THEN torn' = TRUE /\ want' = Blank ELSE UNCHANGED <<torn, want>>
    /\ Leave(a, "down")
    /\ UNCHANGED <<file, mixed>>

Restart(a) ==
    /\ pc[a] = "down"
    /\ pc' = [pc EXCEPT ![a] = "idle"]
    /\ UNCHANGED <<file, lock, kind, lesson, value, seen, copy, history>>

Step(a) == Lock(a) \/ TimeOut(a) \/ Read(a) \/ ReadNothing(a) \/ Truncate(a) \/ Fill(a)

Next ==
    \E a \in Callers :
        \/ \E k \in Kinds, l \in Lessons, v \in Values : Begin(a, k, l, v)
        \/ Step(a) \/ Crash(a) \/ Restart(a)

Spec == Init /\ [][Next]_vars

(* A call that has begun goes on.                                          *)
FairSpec == Spec /\ \A a \in Callers : WF_vars(Step(a))
-----------------------------------------------------------------------------
(* The shape of every variable; an operation that writes has read.         *)
FileTypeOK ==
    /\ file \in Contents /\ want \in Contents /\ lock \in Callers \cup {None}
    /\ mixed \in BOOLEAN /\ torn \in BOOLEAN
OpTypeOK ==
    /\ pc \in [Callers -> {"idle", "lock", "read", "truncate", "fill", "down"}]
    /\ kind \in [Callers -> Kinds]
    /\ lesson \in [Callers -> Lessons \cup {None}] /\ value \in [Callers -> Values]
    /\ seen \in [Callers -> BOOLEAN] /\ copy \in [Callers -> Contents]
    /\ \A a \in Callers : a \in Busy <=> lesson[a] # None
    /\ \A a \in Callers : pc[a] \in {"truncate", "fill"} => seen[a]
TypeOK == FileTypeOK /\ OpTypeOK

(* No edit is lost and none is invented: the file is what the finished     *)
(* operations have asked for, one after the other, whatever timed out or   *)
(* crashed before it wrote, as long as no write was cut short and every    *)
(* operation that overlapped another locked its whole cycle.               *)
NoLostEdit ==
    ~Disturbed /\ (\A a \in Callers : pc[a] # "fill") => file = want

(* An edit under the lock is one step of an atomic document, although the  *)
(* code takes six, truncates the file in the middle and may stop at any of *)
(* them: it is applied once, between its call and its return, to what the  *)
(* document says at that time, or not at all.                              *)
Filling == {a \in Callers : pc[a] = "fill"}
Intact  == IF Filling = {} THEN file ELSE copy[CHOOSE a \in Filling : TRUE]
Shared == INSTANCE Document WITH
    Editors <- Callers, Parts <- Lessons, Texts <- Values, Empty <- "absent",
    doc    <- IF Disturbed THEN Blank ELSE Intact,
    spoilt <- Disturbed,
    asked  <- [a \in Callers |-> IF a \in Busy THEN {<<lesson[a], value[a]>>} ELSE {}]
ImplementsDocument == Shared!DocSpec

(* Every call returns, also one that waits for a lock it holds itself.     *)
CallsReturn == \A a \in Callers : a \in Busy ~> a \notin Busy

(* Claimed by approve_lesson: a pending lesson is approved.  So a call     *)
(* that holds the lock and has found its lesson pending does not give up,  *)
(* it ends with the lesson active, unless its process dies.                *)
ApprovalsTakeEffect ==
    [][\A a \in Callers :
         kind[a] = "resolve" /\ seen[a] /\ pc'[a] = "idle"
             => file'[lesson[a]] = "active"]_vars

(* Claimed of the lock (_db.py, _mutate_lessons): callers that use it      *)
(* cannot read stale state and overwrite each other.  So what a call that  *)
(* holds the lock begins to overwrite is what it has read, unless a write  *)
(* was cut short.                                                          *)
StaleNeverWritten ==
    [][\A a \in Callers : Truncate(a) /\ lock = a /\ ~torn => copy[a] = file]_vars
=============================================================================
