--------------------------- MODULE LessonsFileProofs ---------------------------
(***************************************************************************)
(* Proofs about LessonsFile, for any number of callers and lessons.        *)
(*                                                                         *)
(* NoLostEdit is not inductive: that a write replaces the current content  *)
(* needs to be known of every operation between its read and its write.    *)
(* Guarded says when an operation holds the lock; Apart, that as long as   *)
(* the file is undisturbed nobody overlaps an operation that does not lock *)
(* its whole cycle; Current, that what an operation has read is then still *)
(* what the file has to say.                                               *)
(***************************************************************************)
EXTENDS LessonsFile, TLAPS

(* An operation that locks first holds the lock once it has got past that, *)
(* also while it waits for the lock a second time.                         *)
Guarded ==
    \A a \in Callers :
        /\ kind[a] \notin Loose /\ pc[a] \in {"read", "truncate", "fill"} => lock = a
        /\ kind[a] \notin Loose /\ seen[a] => lock = a
        /\ kind[a] = "resolve" => pc[a] \notin {"truncate", "fill"}
        /\ a \notin Busy => ~seen[a]

Apart ==
    ~Disturbed => \A a, b \in Busy : a # b => kind[a] \notin Loose /\ kind[b] \notin Loose

Current ==
    ~Disturbed =>
        /\ \A a \in Callers : seen[a] => copy[a] = want
        /\ \A a \in Callers : pc[a] = "fill" => file = Blank
        /\ (\A a \in Callers : pc[a] # "fill") => file = want

Inv == TypeOK /\ Guarded /\ Apart /\ Current

-----------------------------------------------------------------------------
LEMMA InitInv == Init => Inv
<1> SUFFICES ASSUME Init PROVE Inv
  OBVIOUS
<1>1. Blank \in Contents
  BY DEF Blank, Contents
<1>2. TypeOK
  BY <1>1, LessonsFileAssumption
     DEF Init, TypeOK, FileTypeOK, OpTypeOK, Busy, Kinds, Values
<1>3. Guarded /\ Apart /\ Current
  BY DEF Init, Guarded, Apart, Current, Disturbed, Busy, Loose
<1>4. QED
  BY <1>2, <1>3 DEF Inv

LEMMA StepType == TypeOK /\ [Next]_vars => TypeOK'
<1> SUFFICES ASSUME TypeOK, [Next]_vars PROVE TypeOK'
  OBVIOUS
<1> USE LessonsFileAssumption DEF TypeOK, FileTypeOK, OpTypeOK, Busy
<1>b. Blank \in Contents
  BY DEF Blank, Contents
<1>1. CASE UNCHANGED vars
  BY <1>1 DEF vars, opVars, history
<1>2. ASSUME NEW a \in Callers, NEW k \in Kinds, NEW l \in Lessons, NEW v \in Values,
             Begin(a, k, l, v)
      PROVE  TypeOK'
  BY <1>2, <1>b DEF Begin, FirstStep
<1>3. ASSUME NEW a \in Callers, Lock(a) PROVE TypeOK'
  BY <1>3 DEF Lock, history
<1>4. ASSUME NEW a \in Callers, TimeOut(a) PROVE TypeOK'
  BY <1>4, <1>b DEF TimeOut, Leave, history, Kinds, Values
<1>5. ASSUME NEW a \in Callers, Read(a) PROVE TypeOK'
  BY <1>5 DEF Read, history
<1>6. ASSUME NEW a \in Callers, ReadNothing(a) PROVE TypeOK'
  BY <1>6, <1>b DEF ReadNothing, Leave, history, Kinds, Values
<1>7. ASSUME NEW a \in Callers, Truncate(a) PROVE TypeOK'
  BY <1>7, <1>b DEF Truncate, history
<1>8. ASSUME NEW a \in Callers, Fill(a) PROVE TypeOK'
  <2>1. lesson[a] \in Lessons /\ value[a] \in Values /\ copy[a] \in Contents
    BY <1>8 DEF Fill
  <2>2. file' \in Contents /\ want' \in Contents
    BY <1>8, <2>1 DEF Fill, Edited, Contents
  <2>3. QED
    BY <1>8, <1>b, <2>2 DEF Fill, Leave, Kinds, Values
<1>9. ASSUME NEW a \in Callers, Crash(a) PROVE TypeOK'
  BY <1>9, <1>b DEF Crash, Leave, Kinds, Values
<1>10. ASSUME NEW a \in Callers, Restart(a) PROVE TypeOK'
  BY <1>10 DEF Restart, history
<1>11. QED
  BY <1>1, <1>2, <1>3, <1>4, <1>5, <1>6, <1>7, <1>8, <1>9, <1>10 DEF Next, Step
-----------------------------------------------------------------------------
\* An operation that ends takes its share of the invariant with it.
LEMMA LeaveGuarded ==
    ASSUME TypeOK, Guarded, NEW a \in Callers, NEW next \in {"idle", "down"}, Leave(a, next)
    PROVE  Guarded'
BY LessonsFileAssumption DEF TypeOK, FileTypeOK, OpTypeOK, Guarded, Busy, Leave, Loose

LEMMA LeaveApart ==
    ASSUME TypeOK, Apart, NEW a \in Callers, NEW next \in {"idle", "down"}, Leave(a, next),
           Disturbed => Disturbed'
    PROVE  Apart'
BY DEF TypeOK, OpTypeOK, Apart, Busy, Leave

\* Nothing is written: the copies of the others stay current.
LEMMA LeaveCurrent ==
    ASSUME TypeOK, Guarded, Current, NEW a \in Callers, NEW next \in {"idle", "down"},
           Leave(a, next), pc[a] # "fill", UNCHANGED <<file, history>>
    PROVE  Current'
BY DEF TypeOK, FileTypeOK, OpTypeOK, Guarded, Current, Disturbed, Leave, history

LEMMA StepGuarded == Inv /\ [Next]_vars => Guarded'
<1> SUFFICES ASSUME Inv, [Next]_vars PROVE Guarded'
  OBVIOUS
<1> USE LessonsFileAssumption DEF Inv
<1>1. CASE UNCHANGED vars
  BY <1>1 DEF vars, opVars, history, Guarded, Busy
<1>2. ASSUME NEW a \in Callers, NEW k \in Kinds, NEW l \in Lessons, NEW v \in Values,
             Begin(a, k, l, v)
      PROVE  Guarded'
  BY <1>2 DEF Begin, FirstStep, Guarded, Busy, TypeOK, OpTypeOK, Kinds, Loose
<1>3. ASSUME NEW a \in Callers, Lock(a) PROVE Guarded'
  BY <1>3 DEF Lock, Guarded, Busy, TypeOK, OpTypeOK, FileTypeOK, Kinds, Loose, history
<1>5. ASSUME NEW a \in Callers, Read(a) PROVE Guarded'
  BY <1>5 DEF Read, Guarded, Busy, TypeOK, OpTypeOK, Kinds, Loose, history
<1>7. ASSUME NEW a \in Callers, Truncate(a) PROVE Guarded'
  BY <1>7 DEF Truncate, Guarded, Busy, TypeOK, OpTypeOK, Kinds, Loose, history
<1>9. ASSUME NEW a \in Callers, TimeOut(a) \/ ReadNothing(a) \/ Fill(a) \/ Crash(a)
      PROVE  Guarded'
  BY <1>9, LeaveGuarded DEF TimeOut, ReadNothing, Fill, Crash
<1>10. ASSUME NEW a \in Callers, Restart(a) PROVE Guarded'
  BY <1>10 DEF Restart, Guarded, Busy, TypeOK, OpTypeOK, history
<1>11. QED
  BY <1>1, <1>2, <1>3, <1>5, <1>7, <1>9, <1>10 DEF Next, Step

LEMMA StepApart == Inv /\ [Next]_vars => Apart'
<1> SUFFICES ASSUME Inv, [Next]_vars PROVE Apart'
  OBVIOUS
<1> USE DEF Inv
<1>1. CASE UNCHANGED vars
  BY <1>1 DEF vars, opVars, history, Apart, Busy, Disturbed
<1>2. ASSUME NEW a \in Callers, NEW k \in Kinds, NEW l \in Lessons, NEW v \in Values,
             Begin(a, k, l, v)
      PROVE  Apart'
  BY <1>2 DEF Begin, FirstStep, Apart, Busy, Disturbed, TypeOK, OpTypeOK
<1>3. ASSUME NEW a \in Callers, Lock(a) \/ Read(a) \/ Truncate(a) \/ Restart(a)
      PROVE  Apart'
  BY <1>3 DEF Lock, Read, Truncate, Restart, Apart, Busy, Disturbed, TypeOK, OpTypeOK, history
<1>4. ASSUME NEW a \in Callers, TimeOut(a) \/ ReadNothing(a) \/ Fill(a) \/ Crash(a)
      PROVE  Apart'
  <2>1. Disturbed => Disturbed'
    BY <1>4 DEF TimeOut, ReadNothing, Fill, Crash, Disturbed, history
  <2>2. QED
    BY <1>4, <2>1, LeaveApart DEF TimeOut, ReadNothing, Fill, Crash
<1>5. QED
  BY <1>1, <1>2, <1>3, <1>4 DEF Next, Step

\* While the file is undisturbed no two operations are past their read, and
\* nobody is past its read while another is about to read with the lock.
LEMMA OneAtWork ==
    ASSUME Inv, ~Disturbed, NEW a \in Callers, NEW b \in Callers, a # b,
           seen[a] \/ pc[a] = "read", seen[b] \/ pc[b] = "fill"
    PROVE  FALSE
<1>1. a \in Busy /\ b \in Busy
  BY DEF Inv, Guarded, Busy
<1>2. kind[a] \notin Loose /\ kind[b] \notin Loose
  BY <1>1 DEF Inv, Apart
<1>3. lock = a /\ lock = b
  BY <1>2 DEF Inv, Guarded
<1>4. QED
  BY <1>3

LEMMA StepCurrent == Inv /\ [Next]_vars => Current'
<1> SUFFICES ASSUME Inv, [Next]_vars, ~Disturbed'
             PROVE  Current'
  BY DEF Current
<1>1. CASE UNCHANGED vars
  BY <1>1 DEF vars, opVars, history, Inv, Current, Disturbed
<1>2. ASSUME NEW a \in Callers, NEW k \in Kinds, NEW l \in Lessons, NEW v \in Values,
             Begin(a, k, l, v)
      PROVE  Current'
  BY <1>2 DEF Begin, FirstStep, Inv, Current, Disturbed, TypeOK, OpTypeOK, FileTypeOK
<1>3. ASSUME NEW a \in Callers, Lock(a) \/ Restart(a) PROVE Current'
  BY <1>3 DEF Lock, Restart, Inv, Current, Disturbed, TypeOK, OpTypeOK, history
<1>4. ASSUME NEW a \in Callers, TimeOut(a) \/ ReadNothing(a) PROVE Current'
  BY <1>4, LeaveCurrent DEF TimeOut, ReadNothing, Inv
<1>5. ASSUME NEW a \in Callers, Read(a) PROVE Current'
  <2>0. ~Disturbed /\ a \in Busy
    BY <1>5 DEF Read, Disturbed, history, Busy
  <2>1. \A b \in Callers : pc[b] # "fill"
    BY <1>5, <2>0, OneAtWork DEF Read
  <2>2. file = want
    BY <2>0, <2>1 DEF Inv, Current
  <2>3. QED
    BY <1>5, <2>0, <2>1, <2>2 DEF Read, Inv, Current, Disturbed, TypeOK, OpTypeOK, history
<1>6. ASSUME NEW a \in Callers, Truncate(a) PROVE Current'
  <2>0. ~Disturbed /\ seen[a]
    BY <1>6 DEF Truncate, Disturbed, history, Inv, TypeOK, OpTypeOK
  <2>1. QED
    BY <1>6, <2>0 DEF Truncate, Inv, Current, Disturbed, TypeOK, OpTypeOK, history
<1>7. ASSUME NEW a \in Callers, Fill(a) PROVE Current'
  <2>0. ~Disturbed /\ pc[a] = "fill" /\ seen[a] /\ lesson[a] \in Lessons
    BY <1>7 DEF Fill, Leave, Disturbed, Inv, TypeOK, OpTypeOK, Busy
  <2>1. file = Blank /\ copy[a] = want /\ copy[a] \in Contents
    BY <2>0 DEF Inv, Current, TypeOK, OpTypeOK
  <2>2. \A b \in Callers : b # a => ~seen[b] /\ pc[b] # "fill"
    BY <2>0, OneAtWork
  <2>3. file' = [l \in Lessons |-> Edited(a)[l]]
    BY <1>7, <2>1 DEF Fill, Blank
  <2>4. file' = want'
    BY <1>7, <2>0, <2>1, <2>3 DEF Fill, Edited, Contents
  <2>5. \A b \in Callers : pc'[b] # "fill" /\ ~seen'[b]
    BY <1>7, <2>2 DEF Fill, Leave, Inv, TypeOK, OpTypeOK
  <2>6. QED
    BY <2>4, <2>5 DEF Current
<1>8. ASSUME NEW a \in Callers, Crash(a) PROVE Current'
  <2>1. pc[a] # "fill" /\ UNCHANGED <<file, history>>
    BY <1>8 DEF Crash, Disturbed, history
  <2>2. QED
    BY <1>8, <2>1, LeaveCurrent DEF Crash, Inv
<1>9. QED
  BY <1>1, <1>2, <1>3, <1>4, <1>5, <1>6, <1>7, <1>8 DEF Next, Step

LEMMA Invariance == Spec => []Inv
<1>1. Inv /\ [Next]_vars => Inv'
  BY StepType, StepGuarded, StepApart, StepCurrent DEF Inv
<1>2. QED
  BY InitInv, <1>1, PTL DEF Spec
-----------------------------------------------------------------------------
(* Every variable keeps its shape; an operation that writes has read.      *)
THEOREM TypeCorrect == Spec => []TypeOK
<1>1. Inv => TypeOK
  BY DEF Inv
<1>2. QED
  BY Invariance, <1>1, PTL

(* Operations that lock their whole cycle, and others that overlap         *)
(* nothing, lose no edit, however many callers and lessons there are.      *)
THEOREM EditsKept == Spec => []NoLostEdit
<1>1. Inv => NoLostEdit
  BY DEF Inv, Current, NoLostEdit
<1>2. QED
  BY Invariance, <1>1, PTL

(* An approval or a rejection never gets to its write: the lock it waits   *)
(* for is its own, in every state of every behaviour.  This is why         *)
(* approve_lesson and reject_lesson (brain.py) cannot succeed.             *)
THEOREM ApprovalsNeverWrite ==
    Spec => [](\A a \in Callers :
                 kind[a] = "resolve" =>
                     /\ pc[a] \notin {"truncate", "fill"}
                     /\ pc[a] = "lock" /\ seen[a] => lock = a)
<1>1. Inv => \A a \in Callers :
                 kind[a] = "resolve" =>
                     /\ pc[a] \notin {"truncate", "fill"}
                     /\ pc[a] = "lock" /\ seen[a] => lock = a
  BY DEF Inv, Guarded, Loose
<1>2. QED
  BY Invariance, <1>1, PTL
-----------------------------------------------------------------------------
(* The refinement of Document.  While the file is undisturbed the document *)
(* is what the finished edits have asked for, in the middle of a write too.*)
DocNow == IF Disturbed THEN Blank ELSE Intact

AskedNow == [a \in Callers |-> IF a \in Busy THEN {<<lesson[a], value[a]>>} ELSE {}]

LEMMA IntactIsWant == Inv => DocNow = IF Disturbed THEN Blank ELSE want
<1> SUFFICES ASSUME Inv, ~Disturbed PROVE Intact = want
  BY DEF DocNow
<1>1. CASE Filling = {}
  BY <1>1 DEF Inv, Current, Filling, Intact
<1>2. CASE Filling # {}
  <2>1. PICK b \in Filling : b = CHOOSE a \in Filling : TRUE
    BY <1>2
  <2>2. seen[b]
    BY DEF Filling, Inv, TypeOK, OpTypeOK
  <2>3. copy[b] = want
    BY <2>2 DEF Filling, Inv, Current
  <2> QED BY <1>2, <2>1, <2>3 DEF Intact
<1> QED BY <1>1, <1>2

\* A caller that calls, and one that returns, whatever came of its call.
LEMMA AskRefined ==
  ASSUME TypeOK, NEW a \in Callers, NEW k \in Kinds, NEW l \in Lessons, NEW v \in Values,
         Begin(a, k, l, v)
  PROVE  AskedNow[a] = {} /\ AskedNow' = [AskedNow EXCEPT ![a] = {<<l, v>>}]
<1>1. a \notin Busy /\ Busy' = Busy \cup {a}
  BY DEF Begin, FirstStep, Busy, TypeOK, OpTypeOK
<1>2. /\ lesson'[a] = l /\ value'[a] = v
      /\ \A b \in Callers \ {a} : lesson'[b] = lesson[b] /\ value'[b] = value[b]
  BY DEF Begin, TypeOK, OpTypeOK
<1> QED BY <1>1, <1>2 DEF AskedNow

LEMMA ReturnRefined ==
  ASSUME TypeOK, NEW a \in Callers, a \in Busy, NEW next \in {"idle", "down"}, Leave(a, next)
  PROVE  /\ AskedNow[a] = {<<lesson[a], value[a]>>}
         /\ lesson[a] \in Lessons /\ value[a] \in Values
         /\ AskedNow' = [AskedNow EXCEPT ![a] = {}]
<1>1. Busy' = Busy \ {a}
  BY DEF Leave, Busy, TypeOK, OpTypeOK
<1>2. \A b \in Callers \ {a} : lesson'[b] = lesson[b] /\ value'[b] = value[b]
  BY DEF Leave, TypeOK, OpTypeOK
<1>3. lesson[a] \in Lessons /\ value[a] \in Values
  BY DEF TypeOK, OpTypeOK
<1> QED BY <1>1, <1>2, <1>3 DEF AskedNow

LEMMA InnerRefined ==
  ASSUME TypeOK, NEW a \in Callers, Lock(a) \/ Read(a) \/ Truncate(a) \/ Restart(a)
  PROVE  AskedNow' = AskedNow /\ UNCHANGED history
<1>1. Busy' = Busy /\ lesson' = lesson /\ value' = value
  BY DEF Lock, Read, Truncate, Restart, Busy, TypeOK, OpTypeOK
<1> QED BY <1>1 DEF AskedNow, Lock, Read, Truncate, Restart

(* A step of the file is a step of the document, or none.                  *)
LEMMA DocStepRefined == Inv /\ Inv' /\ [Next]_vars => [Shared!DocNext]_(Shared!docVars)
<1> SUFFICES ASSUME Inv, Inv', [Next]_vars PROVE [Shared!DocNext]_(Shared!docVars)
  OBVIOUS
<1>p. (DocNow = IF Disturbed THEN Blank ELSE want)'
  BY IntactIsWant, PTL
<1>d. /\ DocNow = IF Disturbed THEN Blank ELSE want
      /\ DocNow' = IF Disturbed' THEN Blank' ELSE want'
      /\ Blank' = Blank
  BY <1>p, IntactIsWant DEF Blank
<1>k. ASSUME UNCHANGED history PROVE DocNow' = DocNow /\ Disturbed' = Disturbed
  BY <1>d, <1>k DEF history, Disturbed
<1>s. ASSUME DocNow' = DocNow, Disturbed' = Disturbed, AskedNow' = AskedNow
      PROVE  [Shared!DocNext]_(Shared!docVars)
  BY <1>s DEF Shared!docVars, DocNow, AskedNow
<1>g. ASSUME NEW a \in Callers, NEW next \in {"idle", "down"}, a \in Busy, Leave(a, next),
             \/ DocNow' = DocNow /\ Disturbed' = Disturbed
             \/ DocNow' = Blank /\ Disturbed' = TRUE
      PROVE  [Shared!DocNext]_(Shared!docVars)
  <2>1. AskedNow[a] # {} /\ AskedNow' = [AskedNow EXCEPT ![a] = {}]
    BY <1>g, ReturnRefined DEF Inv
  <2>2. Shared!GiveUp(a)
    BY <1>g, <2>1 DEF Shared!GiveUp, Shared!Kept, Shared!Spoils, DocNow, AskedNow, Blank
  <2> QED BY <2>2 DEF Shared!DocNext
<1>1. CASE UNCHANGED vars
  <2>1. AskedNow' = AskedNow
    BY <1>1 DEF vars, opVars, AskedNow, Busy
  <2> QED BY <1>1, <1>k, <1>s, <2>1 DEF vars
<1>2. ASSUME NEW a \in Callers, NEW k \in Kinds, NEW l \in Lessons, NEW v \in Values,
             Begin(a, k, l, v)
      PROVE  [Shared!DocNext]_(Shared!docVars)
  <2>1. AskedNow[a] = {} /\ AskedNow' = [AskedNow EXCEPT ![a] = {<<l, v>>}]
    BY <1>2, AskRefined DEF Inv
  <2>2. \/ DocNow' = DocNow /\ Disturbed' = Disturbed
        \/ DocNow' = Blank /\ Disturbed' = TRUE
    BY <1>2, <1>d DEF Begin, Disturbed
  <2>3. Shared!Ask(a)
    BY <2>1, <2>2 DEF Shared!Ask, Shared!Kept, Shared!Spoils, DocNow, AskedNow, Blank
  <2> QED BY <2>3 DEF Shared!DocNext
<1>3. ASSUME NEW a \in Callers, Lock(a) \/ Read(a) \/ Truncate(a) \/ Restart(a)
      PROVE  [Shared!DocNext]_(Shared!docVars)
  BY <1>3, <1>k, <1>s, InnerRefined DEF Inv
<1>4. ASSUME NEW a \in Callers, TimeOut(a) \/ ReadNothing(a)
      PROVE  [Shared!DocNext]_(Shared!docVars)
  <2>1. a \in Busy /\ Leave(a, "idle") /\ UNCHANGED history
    BY <1>4 DEF TimeOut, ReadNothing, Busy
  <2> QED BY <2>1, <1>k, <1>g
<1>5. ASSUME NEW a \in Callers, Fill(a) PROVE [Shared!DocNext]_(Shared!docVars)
  <2>1. a \in Busy /\ Leave(a, "idle") /\ Disturbed' = Disturbed
    BY <1>5 DEF Fill, Busy, Disturbed
  <2>2. CASE Disturbed
    BY <2>1, <2>2, <1>d, <1>g
  <2>3. CASE ~Disturbed
    <3>1. /\ AskedNow[a] = {<<lesson[a], value[a]>>} /\ AskedNow' = [AskedNow EXCEPT ![a] = {}]
          /\ lesson[a] \in Lessons /\ value[a] \in Values
      BY <2>1, ReturnRefined DEF Inv
    <3>2. DocNow' = [DocNow EXCEPT ![lesson[a]] = value[a]]
      BY <1>5, <1>d, <2>1, <2>3 DEF Fill
    <3>3. Shared!Apply(a)
      BY <2>1, <2>3, <3>1, <3>2 DEF Shared!Apply, DocNow, AskedNow
    <3> QED BY <3>3 DEF Shared!DocNext
  <2> QED BY <2>2, <2>3
<1>6. ASSUME NEW a \in Callers, Crash(a) PROVE [Shared!DocNext]_(Shared!docVars)
  <2>1. a \in Busy /\ Leave(a, "down")
    BY <1>6 DEF Crash
  <2>2. \/ DocNow' = DocNow /\ Disturbed' = Disturbed
        \/ DocNow' = Blank /\ Disturbed' = TRUE
    BY <1>6, <1>d DEF Crash, Disturbed
  <2> QED BY <2>1, <2>2, <1>g
<1> QED BY <1>1, <1>2, <1>3, <1>4, <1>5, <1>6 DEF Next, Step

(* The operations of the code, each of them six steps beside those of      *)
(* others, are edits of one atomic document as long as it is undisturbed   *)
(* (lessons_lock and write_lessons_safe in _db.py, and their callers).     *)
THEOREM DocumentImplemented == Spec => ImplementsDocument
<1>1. Init => Shared!DocInit
  <2> SUFFICES ASSUME Init PROVE Shared!DocInit
    OBVIOUS
  <2>1. ~Disturbed /\ Filling = {} /\ Busy = {} /\ file = Blank
    BY DEF Init, Disturbed, Filling, Busy
  <2> QED BY <2>1 DEF Shared!DocInit, Intact, Blank
<1>2. Inv /\ Inv' /\ [Next]_vars => [Shared!DocNext]_(Shared!docVars)
  BY DocStepRefined
<1> QED BY <1>1, <1>2, Invariance, PTL DEF Spec, ImplementsDocument, Shared!DocSpec
=============================================================================
