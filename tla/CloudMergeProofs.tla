--------------------------- MODULE CloudMergeProofs ---------------------------
(***************************************************************************)
(* Proofs about CloudMerge, for any devices, grades, page sizes, threshold *)
(* and number of events: its types, that the cursor covers what was        *)
(* applied, that agreements and adjudications settle, and that a           *)
(* disagreement is held.                                                   *)
(*                                                                         *)
(* The last three are about what a fold computes.  It is a loop of the     *)
(* model, one event per step, so its result is described by a loop         *)
(* invariant (FoldInv) over the events it has read, and no induction over  *)
(* the stream is needed.                                                   *)
(***************************************************************************)
EXTENDS CloudMerge, TLAPS, SequenceTheorems

USE DEF cloudVars, deviceVars, pullVars

Given(e) == e \in Events /\ Graded(e)

(* Where a pull is, and what it may rely on there.                         *)
PullShape(d) ==
    /\ pc[d] = "idle" => pages[d] = 0
    /\ pc[d] = "fetch" => pages[d] < PageCap
    /\ pc[d] \in {"idle", "fetch"} => winner[d] = None /\ held[d] = FALSE
    /\ pc[d] # "idle" => cursor[d] <= upto[d]
    /\ pc[d] = "fold" => next[d] \in cursor[d] + 1..upto[d] + 1
    /\ pc[d] \in {"read", "write", "persist"} => next[d] = upto[d] + 1
    /\ held[d] = TRUE => winner[d] # None
    /\ pc[d] \in {"read", "write"} => winner[d] # None

\* What waits to be pushed are graduations of the device.
Own(d) == \A e \in outbox[d] : e.kind = "graduated"

Shape == \A d \in Devices : PullShape(d) /\ Own(d)

(* What the cloud receives is well formed, from elsewhere or from an       *)
(* outbox (Arrive, Push), and the stream only grows at its end.            *)
LEMMA EventTypes ==
  ASSUME TypeOK
  PROVE  /\ \A t \in Fresh : \A e \in Incoming(t) : Given(e)
         /\ \A t \in Fresh, g \in Grades, d \in Devices : Given(Event("graduated", t, g, d))
<1> USE CloudMergeAssumption
<1>1. \A t \in Fresh, g \in Grades, by \in Devices \cup {Elsewhere},
         kind \in {"graduated", "override"} : Given(Event(kind, t, g, by))
  BY DEF Event, Events, Kinds, Times, Given, Graded, Fresh
<1>2. \A t \in Fresh : Given(Event("other", t, None, Elsewhere))
  BY DEF Event, Events, Kinds, Times, Given, Graded, Fresh
<1>3. ASSUME NEW t \in Fresh, NEW p \in Graduations, NEW w \in BOOLEAN
      PROVE  Given(Resolution(t, stream[p], w))
  <2>1. p \in DOMAIN stream /\ stream[p].kind = "graduated"
    BY DEF Graduations
  <2>2. stream \in Seq(Events) /\ Graded(stream[p])
    BY <2>1 DEF TypeOK, StreamTypeOK
  <2>3. stream[p] \in Events
    BY <2>1, <2>2
  <2>4. stream[p].grade \in Grades /\ stream[p].ts \in 1..MaxEvents
    BY <2>1, <2>2, <2>3 DEF Events, Times, Graded
  <2> QED BY <2>4 DEF Resolution, Given, Graded, Events, Kinds, Times, Fresh
<1> QED BY <1>1, <1>2, <1>3 DEF Incoming

LEMMA Growth ==
  ASSUME TypeOK, NEW e, Given(e), stream' = Append(stream, e)
  PROVE  /\ stream' \in Seq(Events) /\ Len(stream') = Len(stream) + 1 /\ Len(stream) \in Nat
         /\ stream'[Len(stream) + 1] = e
         /\ \A p \in 1..Len(stream) : stream'[p] = stream[p]
         /\ \A p \in DOMAIN stream' : Graded(stream'[p])
         /\ DOMAIN stream = 1..Len(stream) /\ DOMAIN stream' = 1..Len(stream')
<1>1. stream \in Seq(Events) /\ e \in Events
  BY DEF TypeOK, StreamTypeOK, Given
<1>2. /\ stream' \in Seq(Events) /\ Len(stream') = Len(stream) + 1 /\ Len(stream) \in Nat
      /\ stream'[Len(stream) + 1] = e
      /\ \A p \in 1..Len(stream) : stream'[p] = stream[p]
      /\ DOMAIN stream = 1..Len(stream) /\ DOMAIN stream' = 1..Len(stream')
  BY <1>1
<1>3. \A p \in 1..Len(stream) : Graded(stream'[p])
  BY <1>2 DEF TypeOK, StreamTypeOK
<1>4. \A p \in DOMAIN stream' : Graded(stream'[p])
  BY <1>2, <1>3 DEF Given
<1> QED BY <1>2, <1>4

LEMMA TypeStep == TypeOK /\ Shape /\ [Next]_vars => TypeOK'
<1> SUFFICES ASSUME TypeOK, Shape, [Next]_vars PROVE TypeOK'
  OBVIOUS
<1> USE CloudMergeAssumption
<1>0. DOMAIN stream = 1..Len(stream) /\ Len(stream) \in Nat
  BY DEF TypeOK, StreamTypeOK
<1>a. ASSUME NEW e, Given(e), stream' = Append(stream, e), UNCHANGED <<lesson, cursor, pullVars, applied>>
      PROVE  /\ DeviceTypeOK' /\ PullTypeOK' /\ (applied \in [Devices -> SUBSET DOMAIN stream])'
             /\ stream' \in Seq(Events) /\ \A p \in DOMAIN stream' : Graded(stream'[p])
  BY <1>0, <1>a, Growth DEF TypeOK, DeviceTypeOK, PullTypeOK
<1>1. CASE Arrive
  <2>0. PICK t \in Fresh : \E x \in Incoming(t) :
           stream' = Append(stream, x) /\ used' = used \cup {t} /\ UNCHANGED <<deviceVars, pullVars, applied>>
    BY <1>1 DEF Arrive
  <2>1. PICK e \in Incoming(t) :
           stream' = Append(stream, e) /\ used' = used \cup {t} /\ UNCHANGED <<deviceVars, pullVars, applied>>
    BY <2>0
  <2>2. Given(e) /\ t \in Times
    BY <2>1, EventTypes DEF Fresh, Times
  <2> QED BY <1>a, <2>1, <2>2 DEF TypeOK, StreamTypeOK
<1>2. ASSUME NEW d \in Devices, NEW g \in Grades, Graduate(d, g) PROVE TypeOK'
  <2>1. PICK t \in Fresh :
           /\ outbox' = [outbox EXCEPT ![d] = @ \cup {Event("graduated", t, g, d)}]
           /\ used' = used \cup {t}
    BY <1>2 DEF Graduate
  <2> DEFINE e == Event("graduated", t, g, d)
  <2>2. Given(e) /\ t \in Times
    BY <2>1, EventTypes DEF Fresh, Times
  <2> HIDE DEF e
  <2>5. StreamTypeOK'
    BY <2>1, <2>2, <1>2 DEF Graduate, Given, TypeOK, StreamTypeOK, e
  <2>6. DeviceTypeOK' /\ PullTypeOK' /\ (applied \in [Devices -> SUBSET DOMAIN stream])'
    BY <1>2 DEF Graduate, TypeOK, DeviceTypeOK, PullTypeOK
  <2> QED BY <2>5, <2>6 DEF TypeOK
<1>3. ASSUME NEW d \in Devices, Push(d) PROVE TypeOK'
  <2>1. PICK e \in outbox[d] :
          /\ stream' = Append(stream, e) /\ outbox' = [outbox EXCEPT ![d] = @ \ {e}]
          /\ UNCHANGED <<used, lesson, cursor, pullVars, applied>>
    BY <1>3 DEF Push
  <2>2. Given(e)
    BY DEF Given, TypeOK, StreamTypeOK
  <2> QED BY <1>a, <2>1, <2>2 DEF TypeOK, StreamTypeOK
<1>4. ASSUME NEW d \in Devices, Pull(d) PROVE TypeOK'
  <2>0. StreamTypeOK'
    BY <1>4 DEF Pull, PullBegin, FetchPage, Fold, FoldGraduation, FoldOverride, FoldResolution, FoldOther,
       Step, FoldEnd, ReadLessons, WriteLessons, PersistCursor, Abort, TypeOK, StreamTypeOK
  <2>1. PullShape(d) /\ stream' = stream
    BY <1>4 DEF Shape, Pull, PullBegin, FetchPage, Fold, FoldGraduation, FoldOverride, FoldResolution,
       FoldOther, Step, FoldEnd, ReadLessons, WriteLessons, PersistCursor, Abort
  <2> DEFINE Pcs == {"idle", "fetch", "fold", "read", "write", "persist"}
  <2> DEFINE AppliedOK == applied \in [Devices -> SUBSET DOMAIN stream]
  <2>2. CASE PullBegin(d)
    BY <2>0, <2>2, <2>1, <1>0 DEF PullBegin, Goto, TypeOK, DeviceTypeOK, PullTypeOK
  <2>3. CASE FetchPage(d)
    <3>1. PICK q \in PageEnds(d) :
            /\ upto' = [upto EXCEPT ![d] = q]
            /\ IF q = Len(stream) \/ pages[d] + 1 = PageCap
               THEN Goto(d, "fold") /\ next' = [next EXCEPT ![d] = cursor[d] + 1]
               ELSE UNCHANGED <<pc, next>>
      BY <2>3 DEF FetchPage
    <3>2. q \in 0..Len(stream)
      BY <1>0 DEF PageEnds, TypeOK, PullTypeOK
    <3>3. pages[d] + 1 \in 0..PageCap
      BY <2>1, <2>3 DEF PullShape, FetchPage, TypeOK, PullTypeOK
    <3>4. DeviceTypeOK' /\ AppliedOK'
      BY <2>1, <2>3 DEF FetchPage, TypeOK, DeviceTypeOK
    <3>5. (next \in [Devices -> 0..Len(stream) + 1])' /\ pc' \in [Devices -> Pcs]
      <4>1. cursor[d] + 1 \in 0..Len(stream) + 1
        BY <1>0 DEF TypeOK, DeviceTypeOK
      <4>2. CASE Goto(d, "fold") /\ next' = [next EXCEPT ![d] = cursor[d] + 1]
        BY <2>1, <4>1, <4>2 DEF Goto, TypeOK, PullTypeOK
      <4>3. CASE UNCHANGED <<pc, next>>
        BY <2>1, <4>3 DEF TypeOK, PullTypeOK
      <4> QED BY <3>1, <4>2, <4>3
    <3>6. (upto \in [Devices -> 0..Len(stream)])' /\ (pages \in [Devices -> 0..PageCap])'
      BY <2>1, <2>3, <3>1, <3>2, <3>3 DEF FetchPage, TypeOK, PullTypeOK
    <3>7. PullTypeOK'
      BY <2>1, <2>3, <3>5, <3>6 DEF FetchPage, TypeOK, PullTypeOK
    <3> QED BY <2>0, <3>4, <3>7 DEF TypeOK
  <2>4. CASE Fold(d)
    <3>1. pc[d] = "fold" /\ next[d] <= upto[d] /\ Step(d)
      BY <2>4 DEF Fold, FoldGraduation, FoldOverride, FoldResolution, FoldOther, Folding
    <3>2. DeviceTypeOK' /\ AppliedOK'
      BY <2>1, <3>1 DEF Step, TypeOK, DeviceTypeOK
    <3>3. next[d] \in 1..Len(stream) /\ next[d] + 1 \in 0..Len(stream) + 1
      BY <2>1, <3>1, <1>0 DEF PullShape, TypeOK, PullTypeOK, DeviceTypeOK
    <3>4. stream[next[d]] \in Events /\ Graded(stream[next[d]])
      BY <3>3, <1>0 DEF TypeOK, StreamTypeOK
    <3>5. (winner \in [Devices -> Winners \cup {None}])'
      <4>1. winner' = winner \/ \E t \in Times, g \in Grades : SetWinner(d, t, g)
        BY <2>4, <3>4 DEF Fold, FoldGraduation, FoldOverride, FoldResolution, FoldOther, Folding,
           Events, Graded, Kinds
      <4>2. ASSUME NEW t \in Times, NEW g \in Grades, SetWinner(d, t, g)
            PROVE (winner \in [Devices -> Winners \cup {None}])'
        BY <4>2 DEF SetWinner, Winners, TypeOK, PullTypeOK
      <4> QED BY <4>1, <4>2 DEF TypeOK, PullTypeOK
    <3>6. (held \in [Devices -> BOOLEAN])'
      BY <2>4 DEF Fold, FoldGraduation, FoldOverride, FoldResolution, FoldOther, TypeOK, PullTypeOK
    <3>7. PullTypeOK'
      BY <2>1, <3>1, <3>3, <3>5, <3>6 DEF Step, TypeOK, PullTypeOK
    <3> QED BY <2>0, <3>2, <3>7 DEF TypeOK
  <2>5. CASE FoldEnd(d)
    BY <2>0, <2>5, <2>1 DEF FoldEnd, Goto, TypeOK, DeviceTypeOK, PullTypeOK
  <2>6. CASE ReadLessons(d)
    BY <2>0, <2>6, <2>1 DEF ReadLessons, Goto, TypeOK, DeviceTypeOK, PullTypeOK
  <2>7. CASE WriteLessons(d)
    <3>1. Merged(d) \in Grades \cup {None}
      BY <2>7, <2>1 DEF WriteLessons, PullShape, Merged, Winners, TypeOK, PullTypeOK
    <3>2. (cursor[d] + 1)..upto[d] \subseteq DOMAIN stream
      BY <1>0 DEF TypeOK, PullTypeOK, DeviceTypeOK
    <3> QED BY <2>0, <2>7, <2>1, <3>1, <3>2 DEF WriteLessons, Goto, TypeOK, DeviceTypeOK, PullTypeOK
  <2>8. CASE PersistCursor(d)
    BY <2>0, <2>8, <2>1, <1>0 DEF PersistCursor, PullEnd, Goto, TypeOK, DeviceTypeOK, PullTypeOK
  <2>9. CASE Abort(d)
    BY <2>0, <2>9, <2>1, <1>0 DEF Abort, PullEnd, Goto, TypeOK, DeviceTypeOK, PullTypeOK
  <2> QED BY <1>4, <2>2, <2>3, <2>4, <2>5, <2>6, <2>7, <2>8, <2>9 DEF Pull
<1>5. CASE UNCHANGED vars
  BY <1>5 DEF vars, TypeOK, StreamTypeOK, DeviceTypeOK, PullTypeOK
<1> QED BY <1>1, <1>2, <1>3, <1>4, <1>5 DEF Next
-----------------------------------------------------------------------------
(* What a device relies on, in four parts: where its pull is (PullShape),  *)
(* what it has applied (Cover), what its fold has computed from the events *)
(* it has read (FoldInv), and what lessons.md then holds (LessonInv).      *)
Matters(p) == stream[p].kind \in {"graduated", "override"}

Cover(d) ==
    /\ \A p \in 1..cursor[d] : Matters(p) => p \in applied[d]
    /\ pc[d] = "fold" /\ winner[d] = None
           => \A p \in cursor[d] + 1..next[d] - 1 : ~Matters(p)
    /\ pc[d] = "persist" => \A p \in 1..upto[d] : Matters(p) => p \in applied[d]

Uncontested(s, p, n) ==
    /\ s[p].kind = "graduated"
    /\ \A r \in p..n : s[r].kind \in {"graduated", "other"}

(* What a fold of s from b + 1 to n has computed, w the winner and h the   *)
(* hold: of nothing said there is no winner; as long as what is said       *)
(* agrees, the last word of this pull wins; and with no hold, the winner   *)
(* has the state of every graduation not yet adjudicated.                  *)
Folded(s, b, n, w, h) ==
    /\ (\A p \in b + 1..n : ~Says(s, p)) => w = None /\ h = FALSE
    /\ \A m \in 1..n : Agreed(s, m, n) =>
         /\ h = FALSE
         /\ \/ w = None /\ \A p \in b + 1..n : ~Says(s, p)
            \/ \E q \in b + 1..n :
                 /\ LastWord(s, q, n)
                 /\ w = [ts |-> Clock(s[q]), grade |-> s[q].grade]
    /\ h = FALSE => \A p \in b + 1..n :
         Uncontested(s, p, n) => w # None /\ w.grade.state = s[p].grade.state

FoldInv(d) ==
    pc[d] \in {"fold", "read", "write"}
        => Folded(stream, cursor[d], next[d] - 1, winner[d], held[d])

(* A device that has pulled the last word of an agreement holds it, unless *)
(* it has something of its own to say, and other events take nothing away. *)
Pulled(d, q) == q <= cursor[d] \/ (pc[d] = "persist" /\ q <= upto[d])
LessonInv(d) ==
    outbox[d] = {} =>
      \A m, q \in 1..Len(stream) :
        Agreed(stream, m, Len(stream)) /\ LastWord(stream, q, Len(stream)) /\ Pulled(d, q)
            => lesson[d] = stream[q].grade

(* How a step changes what concerns one device.                            *)
Grows ==
    /\ Len(stream') = Len(stream) + 1
    /\ \A p \in 1..Len(stream) : stream'[p] = stream[p]
    /\ \A d \in Devices : outbox'[d] = outbox[d] \/ stream'[Len(stream) + 1].kind = "graduated"
    /\ UNCHANGED <<lesson, cursor, pullVars, applied>>
SameDevice(c) ==
    /\ stream' = stream /\ cursor'[c] = cursor[c]
    /\ pc'[c] = pc[c] /\ upto'[c] = upto[c] /\ pages'[c] = pages[c]
    /\ next'[c] = next[c] /\ winner'[c] = winner[c] /\ held'[c] = held[c]
    /\ existing'[c] = existing[c] /\ applied'[c] = applied[c]
    /\ \/ lesson'[c] = lesson[c] /\ outbox'[c] = outbox[c]
       \/ outbox'[c] # {}

LEMMA Lengths ==
  ASSUME TypeOK
  PROVE  /\ DOMAIN stream = 1..Len(stream) /\ Len(stream) \in Nat
         /\ \A d \in Devices : /\ cursor[d] \in 0..Len(stream) /\ upto[d] \in 0..Len(stream)
                               /\ next[d] \in 0..Len(stream) + 1 /\ pages[d] \in Nat
                               /\ held[d] \in BOOLEAN /\ winner[d] \in Winners \cup {None}
                               /\ applied[d] \in SUBSET (1..Len(stream))
BY DEF TypeOK, StreamTypeOK, DeviceTypeOK, PullTypeOK

(* Every step is a growth of the stream, a step of a pull, or leaves the   *)
(* device alone, except that a graduation fills its outbox.                *)
LEMMA StepKinds ==
  ASSUME TypeOK, Shape, [Next]_vars
  PROVE  Grows \/ \A c \in Devices : SameDevice(c) \/ Pull(c)
<1>1. CASE Arrive
  <2>1. PICK t \in Fresh : \E x \in Incoming(t) : stream' = Append(stream, x)
    BY <1>1 DEF Arrive
  <2>2. PICK e \in Incoming(t) : stream' = Append(stream, e)
    BY <2>1
  <2>3. Given(e)
    BY <2>2, EventTypes
  <2> QED BY <1>1, <2>2, <2>3, Growth DEF Arrive, Grows
<1>2. ASSUME NEW d \in Devices, Push(d) PROVE Grows
  <2>1. PICK e \in outbox[d] :
          /\ stream' = Append(stream, e) /\ outbox' = [outbox EXCEPT ![d] = @ \ {e}]
          /\ UNCHANGED <<used, lesson, cursor, pullVars, applied>>
    BY <1>2 DEF Push
  <2>2. Given(e) /\ e.kind = "graduated"
    BY DEF Given, TypeOK, StreamTypeOK, Shape, Own
  <2>3. \A c \in Devices : c # d => outbox'[c] = outbox[c]
    BY <2>1 DEF TypeOK, StreamTypeOK
  <2> QED BY <2>1, <2>2, <2>3, Growth DEF Grows
<1>3. ASSUME NEW d \in Devices, NEW g \in Grades, Graduate(d, g), NEW c \in Devices
      PROVE SameDevice(c)
  <2>1. PICK t \in Fresh : outbox' = [outbox EXCEPT ![d] = @ \cup {Event("graduated", t, g, d)}]
    BY <1>3 DEF Graduate
  <2> DEFINE e == Event("graduated", t, g, d)
  <2> HIDE DEF e
  <2>3. outbox[d] \cup {e} # {}
    OBVIOUS
  <2>4. outbox'[c] = IF c = d THEN outbox[d] \cup {e} ELSE outbox[c]
    BY <2>1 DEF TypeOK, StreamTypeOK, e
  <2>5. c # d => lesson'[c] = lesson[c]
    BY <1>3 DEF Graduate, TypeOK, DeviceTypeOK
  <2> QED BY <1>3, <2>3, <2>4, <2>5 DEF Graduate, SameDevice
<1>4. ASSUME NEW d \in Devices, Pull(d), NEW c \in Devices, c # d
      PROVE SameDevice(c)
  <2> USE <1>4 DEF SameDevice, TypeOK, StreamTypeOK, DeviceTypeOK, PullTypeOK
  <2>1. CASE PullBegin(d)
    BY <2>1 DEF PullBegin, Goto
  <2>2. CASE FetchPage(d)
    BY <2>2 DEF FetchPage, Goto
  <2>3. CASE Fold(d)
    <3>1. Step(d)
      BY <2>3 DEF Fold, FoldGraduation, FoldOverride, FoldResolution, FoldOther
    <3>2. winner'[c] = winner[c]
      BY <2>3 DEF Fold, FoldGraduation, FoldOverride, FoldResolution, FoldOther, SetWinner
    <3>3. held'[c] = held[c]
      BY <2>3 DEF Fold, FoldGraduation, FoldOverride, FoldResolution, FoldOther
    <3> QED BY <3>1, <3>2, <3>3 DEF Step
  <2>4. CASE FoldEnd(d) \/ ReadLessons(d) \/ WriteLessons(d)
    BY <2>4 DEF FoldEnd, ReadLessons, WriteLessons, Goto
  <2>5. CASE PersistCursor(d) \/ Abort(d)
    BY <2>5 DEF PersistCursor, Abort, PullEnd, Goto
  <2> QED BY <2>1, <2>2, <2>3, <2>4, <2>5 DEF Pull
<1>5. CASE UNCHANGED vars
  BY <1>5 DEF vars, SameDevice
<1> QED BY <1>1, <1>2, <1>3, <1>4, <1>5 DEF Next
-----------------------------------------------------------------------------
(* The parts are preserved one after the other.                            *)
LEMMA OwnStep ==
  ASSUME TypeOK, Shape, [Next]_vars, NEW c \in Devices
  PROVE  Own(c)'
<1>0. outbox \in [Devices -> SUBSET Events] /\ Own(c)
  BY DEF TypeOK, StreamTypeOK, Shape
<1>1. CASE outbox' = outbox
  BY <1>0, <1>1 DEF Own
<1>2. ASSUME NEW d \in Devices, NEW g \in Grades, Graduate(d, g) PROVE Own(c)'
  <2>1. PICK t \in Fresh : outbox' = [outbox EXCEPT ![d] = @ \cup {Event("graduated", t, g, d)}]
    BY <1>2 DEF Graduate
  <2> DEFINE e == Event("graduated", t, g, d)
  <2>2. e.kind = "graduated"
    BY DEF Event
  <2>3. outbox'[c] = IF c = d THEN outbox[d] \cup {e} ELSE outbox[c]
    BY <1>0, <2>1
  <2> HIDE DEF e
  <2> QED BY <1>0, <2>2, <2>3 DEF Own
<1>3. ASSUME NEW d \in Devices, Push(d) PROVE Own(c)'
  <2>1. outbox'[c] \subseteq outbox[c]
    BY <1>0, <1>3 DEF Push
  <2> QED BY <1>0, <2>1 DEF Own
<1>4. ASSUME \/ Arrive \/ UNCHANGED vars
             \/ \E d \in Devices : Pull(d)
      PROVE  outbox' = outbox
  BY <1>4 DEF Arrive, vars, Pull, PullBegin, FetchPage, Fold, FoldGraduation, FoldOverride,
     FoldResolution, FoldOther, Step, FoldEnd, ReadLessons, WriteLessons, PersistCursor, Abort
<1> QED BY <1>1, <1>2, <1>3, <1>4 DEF Next

LEMMA ShapeStep ==
  ASSUME TypeOK, Shape, [Next]_vars
  PROVE  Shape'
<1> SUFFICES ASSUME NEW c \in Devices PROVE PullShape(c)'
  BY OwnStep DEF Shape
<1>0. PullShape(c)
  BY DEF Shape
<1> USE CloudMergeAssumption, Lengths
<1>1. CASE Grows
  BY <1>0, <1>1 DEF Grows, PullShape
<1>2. CASE SameDevice(c)
  BY <1>0, <1>2 DEF SameDevice, PullShape
<1>3. CASE Pull(c)
  <2> USE <1>0 DEF TypeOK, DeviceTypeOK, PullTypeOK
  <2>1. CASE PullBegin(c)
    BY <2>1 DEF PullBegin, Goto, PullShape
  <2>2. CASE FetchPage(c)
    <3>1. PICK q \in PageEnds(c) :
            /\ upto' = [upto EXCEPT ![c] = q]
            /\ IF q = Len(stream) \/ pages[c] + 1 = PageCap
               THEN Goto(c, "fold") /\ next' = [next EXCEPT ![c] = cursor[c] + 1]
               ELSE UNCHANGED <<pc, next>>
      BY <2>2 DEF FetchPage
    <3>2. q \in Nat /\ cursor[c] <= q
      BY <2>2 DEF PageEnds, FetchPage, PullShape
    <3>3. /\ upto'[c] = q /\ pages'[c] = pages[c] + 1 /\ pages[c] < PageCap
          /\ cursor' = cursor /\ winner' = winner /\ held' = held
      BY <2>2, <3>1 DEF FetchPage, PullShape
    <3>4. CASE q = Len(stream) \/ pages[c] + 1 = PageCap
      <4>1. pc'[c] = "fold" /\ next'[c] = cursor[c] + 1
        BY <3>1, <3>4 DEF Goto
      <4> QED BY <2>2, <3>2, <3>3, <4>1 DEF PullShape, FetchPage
    <3>5. CASE ~(q = Len(stream) \/ pages[c] + 1 = PageCap)
      BY <2>2, <3>1, <3>2, <3>3, <3>5 DEF PullShape, FetchPage
    <3> QED BY <3>4, <3>5
  <2>3. CASE Fold(c)
    <3>1. pc[c] = "fold" /\ next[c] <= upto[c] /\ Step(c)
      BY <2>3 DEF Fold, FoldGraduation, FoldOverride, FoldResolution, FoldOther, Folding
    <3>2. held'[c] = TRUE => winner'[c] # None
      <4>1. held'[c] = TRUE => held[c] = TRUE \/ winner[c] # None
        BY <2>3 DEF Fold, FoldGraduation, FoldOverride, FoldResolution, FoldOther
      <4>2. winner[c] # None
            => winner' = winner \/ \E t \in Times, g \in Grades : SetWinner(c, t, g)
        <5>1. next[c] \in 1..Len(stream)
          BY <3>1 DEF PullShape
        <5>2. stream[next[c]] \in Events /\ Graded(stream[next[c]])
          BY <5>1 DEF StreamTypeOK
        <5> QED BY <2>3, <5>2 DEF Fold, FoldGraduation, FoldOverride, FoldResolution, FoldOther, Folding,
               Events, Graded, Kinds
      <4>3. ASSUME NEW t \in Times, NEW g \in Grades, SetWinner(c, t, g) PROVE winner'[c] # None
        BY <4>3 DEF SetWinner, Times
      <4> QED BY <4>1, <4>2, <4>3 DEF PullShape
    <3> QED BY <3>1, <3>2 DEF Step, PullShape
  <2>4. CASE FoldEnd(c)
    <3>1. next[c] = upto[c] + 1
      BY <2>4 DEF FoldEnd, PullShape
    <3> QED BY <2>4, <3>1 DEF FoldEnd, Goto, PullShape
  <2>5. CASE ReadLessons(c)
    BY <2>5 DEF ReadLessons, Goto, PullShape
  <2>6. CASE WriteLessons(c)
    BY <2>6 DEF WriteLessons, Goto, PullShape
  <2>7. CASE PersistCursor(c) \/ Abort(c)
    BY <2>7 DEF PersistCursor, Abort, PullEnd, Goto, PullShape
  <2> QED BY <1>3, <2>1, <2>2, <2>3, <2>4, <2>5, <2>6, <2>7 DEF Pull
<1> QED BY <1>1, <1>2, <1>3, StepKinds

LEMMA CoverStep ==
  ASSUME TypeOK, Shape, [Next]_vars, NEW c \in Devices, Cover(c)
  PROVE  Cover(c)'
<1>0. PullShape(c)
  BY DEF Shape
<1> USE Lengths
<1>1. CASE Grows
  BY <1>0, <1>1 DEF Grows, Cover, Matters, PullShape
<1>2. CASE SameDevice(c)
  BY <1>2 DEF SameDevice, Cover, Matters
<1>3. CASE Pull(c)
  <2> USE <1>0 DEF TypeOK, DeviceTypeOK, PullTypeOK
  <2>1. CASE PullBegin(c)
    BY <2>1 DEF PullBegin, Goto, Cover, Matters
  <2>2. CASE FetchPage(c)
    <3>1. /\ cursor' = cursor /\ applied' = applied /\ stream' = stream
          /\ pc'[c] = "fold" => next'[c] = cursor[c] + 1
          /\ pc'[c] \in {"fetch", "fold"}
      BY <2>2 DEF FetchPage, Goto
    <3> QED BY <3>1 DEF Cover, Matters
  <2>3. CASE Fold(c)
    <3>1. pc[c] = "fold" /\ next[c] <= upto[c] /\ Step(c) /\ next'[c] = next[c] + 1
      BY <2>3 DEF Fold, FoldGraduation, FoldOverride, FoldResolution, FoldOther, Folding, Step
    <3>2. winner'[c] = None => winner[c] = None /\ ~Matters(next[c])
      <4>1. next[c] \in 1..Len(stream)
        BY <3>1 DEF PullShape
      <4>2. stream[next[c]] \in Events /\ Graded(stream[next[c]])
        BY <4>1 DEF StreamTypeOK
      <4>3. ASSUME NEW t \in Times, NEW g \in Grades, SetWinner(c, t, g) PROVE winner'[c] # None
        BY <4>3, CloudMergeAssumption DEF SetWinner, Times
      <4>4. CASE FoldGraduation(c)
        <5>1. stream[next[c]].ts \in Times /\ stream[next[c]].grade \in Grades
          BY <4>2, <4>4 DEF FoldGraduation, Folding, Events, Graded
        <5>2. SetWinner(c, stream[next[c]].ts, stream[next[c]].grade) \/ (winner' = winner /\ winner[c] # None)
          BY <4>4, <1>0 DEF FoldGraduation, PullShape
        <5> QED BY <5>1, <5>2, <4>3
      <4>5. CASE FoldOverride(c)
        <5>1. stream[next[c]].ts \in Times /\ stream[next[c]].grade \in Grades
          BY <4>2, <4>5 DEF FoldOverride, Folding, Events, Graded
        <5> QED BY <5>1, <4>5, <4>3 DEF FoldOverride
      <4>6. CASE FoldResolution(c)
        <5>1. stream[next[c]].picks \in Times /\ stream[next[c]].grade \in Grades
          BY <4>2, <4>6 DEF FoldResolution, Folding, Events, Graded
        <5>2. SetWinner(c, stream[next[c]].picks, stream[next[c]].grade) \/ winner' = winner
          BY <4>6 DEF FoldResolution
        <5> QED BY <5>1, <5>2, <4>6, <4>3 DEF FoldResolution, Folding, Matters
      <4>7. CASE FoldOther(c)
        BY <4>7 DEF FoldOther, Folding, Matters
      <4> QED BY <2>3, <4>4, <4>5, <4>6, <4>7 DEF Fold
    <3>3. \A p \in cursor[c] + 1..next[c] : p \in cursor[c] + 1..next[c] - 1 \/ p = next[c]
      OBVIOUS
    <3>4. pc' = pc /\ cursor' = cursor /\ stream' = stream /\ applied' = applied
      BY <3>1 DEF Step
    <3> QED BY <3>1, <3>2, <3>3, <3>4 DEF Cover, Matters
  <2>4. CASE FoldEnd(c)
    <3>1. next[c] = upto[c] + 1 /\ cursor[c] <= upto[c]
      BY <2>4 DEF FoldEnd, PullShape
    <3>2. pc'[c] = "persist" => winner[c] = None
      BY <2>4 DEF FoldEnd, Goto
    <3>3. \A p \in 1..upto[c] : p \in 1..cursor[c] \/ p \in cursor[c] + 1..next[c] - 1
      BY <3>1
    <3> QED BY <2>4, <3>1, <3>2, <3>3 DEF FoldEnd, Goto, Cover, Matters
  <2>5. CASE ReadLessons(c)
    BY <2>5 DEF ReadLessons, Goto, Cover, Matters
  <2>6. CASE WriteLessons(c)
    <3>1. \A p \in 1..upto[c] : p \in 1..cursor[c] \/ p \in cursor[c] + 1..upto[c]
      OBVIOUS
    <3>2. applied'[c] = applied[c] \cup (cursor[c] + 1)..upto[c]
      BY <2>6 DEF WriteLessons
    <3> QED BY <2>6, <3>1, <3>2 DEF WriteLessons, Goto, Cover, Matters
  <2>7. CASE PersistCursor(c)
    BY <2>7 DEF PersistCursor, PullEnd, Goto, Cover, Matters
  <2>8. CASE Abort(c)
    BY <2>8 DEF Abort, PullEnd, Goto, Cover, Matters
  <2> QED BY <1>3, <2>1, <2>2, <2>3, <2>4, <2>5, <2>6, <2>7, <2>8 DEF Pull
<1> QED BY <1>1, <1>2, <1>3, StepKinds
-----------------------------------------------------------------------------
(* What is said up to n depends on the stream up to n only, and so does    *)
(* what a fold computes; what agrees has agreed before.                    *)
LEMMA Prefix ==
  ASSUME NEW s, NEW t, NEW n \in Nat, \A p \in 1..n : t[p] = s[p]
  PROVE  \A m \in 1..n : /\ Agreed(t, m, n) <=> Agreed(s, m, n)
                         /\ LastWord(t, m, n) <=> LastWord(s, m, n)
                         /\ Uncontested(t, m, n) <=> Uncontested(s, m, n)
<1> SUFFICES ASSUME NEW m \in 1..n
             PROVE  /\ Agreed(t, m, n) <=> Agreed(s, m, n)
                    /\ LastWord(t, m, n) <=> LastWord(s, m, n)
                    /\ Uncontested(t, m, n) <=> Uncontested(s, m, n)
  OBVIOUS
<1>1. /\ \A p \in 1..m - 1 : t[p] = s[p]
      /\ \A p \in m..n : t[p] = s[p]
      /\ \A p \in m + 1..n : t[p] = s[p]
      /\ t[m] = s[m]
  OBVIOUS
<1>2. LastWord(t, m, n) <=> LastWord(s, m, n)
  BY <1>1 DEF LastWord, Says
<1>3. Uncontested(t, m, n) <=> Uncontested(s, m, n)
  BY <1>1 DEF Uncontested
<1>4. Agreed(t, m, n) <=> Agreed(s, m, n)
  BY <1>1 DEF Agreed, Says
<1> QED BY <1>2, <1>3, <1>4

LEMMA FoldedPrefix ==
  ASSUME NEW s, NEW t, NEW n \in Nat, NEW b \in Nat, \A p \in 1..n : t[p] = s[p],
         NEW w, NEW h, Folded(s, b, n, w, h)
  PROVE  Folded(t, b, n, w, h)
<1>1. \A p \in b + 1..n : p \in 1..n /\ t[p] = s[p]
  OBVIOUS
<1>2. \A p \in b + 1..n : Says(t, p) <=> Says(s, p)
  BY <1>1 DEF Says
<1> QED BY <1>1, <1>2, Prefix DEF Folded

LEMMA Before ==
  ASSUME NEW s, NEW n \in Nat, NEW m \in 1..n, Agreed(s, m, n)
  PROVE  /\ Says(s, m)
         /\ \A j \in m..n : Agreed(s, m, j)
<1>1. Says(s, m)
  BY DEF Agreed, Says, Decisive
<1>2. ASSUME NEW j \in m..n PROVE Agreed(s, m, j)
  <2>1. (\A p \in m..j : p \in m..n) /\ (\A p \in m + 1..j : p \in m + 1..n)
    OBVIOUS
  <2> QED BY <2>1 DEF Agreed
<1> QED BY <1>1, <1>2

(* One iteration of the fold.                                              *)
LEMMA FoldStep ==
  ASSUME TypeOK, NEW c \in Devices, PullShape(c), FoldInv(c), Fold(c)
  PROVE  FoldInv(c)'
<1> DEFINE k == next[c]
           e == stream[k]
           Silent(n) == \A p \in cursor[c] + 1..n : ~Says(stream, p)
           Wins(q) == [ts |-> Clock(stream[q]), grade |-> stream[q].grade]
<1> USE Lengths
<1>1. /\ pc[c] = "fold" /\ k <= upto[c] /\ Step(c)
      /\ k \in cursor[c] + 1..upto[c] + 1
  BY DEF Fold, FoldGraduation, FoldOverride, FoldResolution, FoldOther, Folding, PullShape
<1>2. /\ k \in 1..Len(stream) /\ cursor[c] \in Nat
      /\ next'[c] - 1 = k /\ pc'[c] = "fold"
      /\ stream' = stream /\ cursor' = cursor
  BY <1>1 DEF Step, TypeOK, PullTypeOK
<1>3. e \in Events /\ Graded(e)
  BY <1>2 DEF TypeOK, StreamTypeOK
<1>4. e.kind = "graduated" => e.ts \in Times /\ e.grade \in Grades
  BY <1>3 DEF Events, Graded
<1>5. ASSUME NEW t, NEW g, SetWinner(c, t, g) PROVE winner'[c] = [ts |-> t, grade |-> g]
  BY <1>5 DEF SetWinner, TypeOK, PullTypeOK
<1>6. ASSUME NEW t \in Times, NEW g \in Grades PROVE [ts |-> t, grade |-> g] # None
  BY <1>6, CloudMergeAssumption DEF Times
<1>8. \A p \in cursor[c] + 1..k : Uncontested(stream, p, k) => e.kind \in {"graduated", "other"}
  BY <1>2 DEF Uncontested
<1>w. held' \in [Devices -> BOOLEAN]
  BY DEF Fold, FoldGraduation, FoldOverride, FoldResolution, FoldOther, TypeOK, PullTypeOK
<1>b. /\ Silent(k - 1) => winner[c] = None /\ held[c] = FALSE
      /\ \A m \in 1..k - 1 : Agreed(stream, m, k - 1) =>
           /\ held[c] = FALSE
           /\ \/ winner[c] = None /\ Silent(k - 1)
              \/ \E q \in cursor[c] + 1..k - 1 : LastWord(stream, q, k - 1) /\ winner[c] = Wins(q)
  BY <1>1 DEF FoldInv, Folded
<1>c. ASSUME NEW m \in 1..k, Agreed(stream, m, k), m # k
      PROVE  m \in 1..k - 1 /\ Agreed(stream, m, k - 1) /\ Says(stream, m)
  <2>1. k - 1 \in m..k /\ k \in Nat /\ m \in 1..k - 1 BY <1>2, <1>c
  <2> QED BY <1>c, <2>1, Before
<1> SUFFICES
      /\ Silent(k) => winner'[c] = None /\ held'[c] = FALSE
      /\ \A m \in 1..k : Agreed(stream, m, k) =>
           /\ held'[c] = FALSE
           /\ \/ winner'[c] = None /\ Silent(k)
              \/ \E q \in cursor[c] + 1..k : LastWord(stream, q, k) /\ winner'[c] = Wins(q)
      /\ held'[c] = FALSE
           => \A p \in cursor[c] + 1..k :
                Uncontested(stream, p, k) => /\ winner'[c] # None
                                     /\ winner'[c].grade.state = stream[p].grade.state
  <2>1. FoldInv(c)' <=> Folded(stream, cursor[c], k, winner'[c], held'[c]) BY <1>2 DEF FoldInv
  <2> HIDE DEF k
  <2> QED BY <2>1 DEF Folded
<1>d. k \in cursor[c] + 1..k /\ (\A p \in k + 1..k : FALSE) /\ \A p \in cursor[c] + 1..k - 1 : p \in cursor[c] + 1..k
  BY <1>1, <1>2
<1>f. e.kind # "other" => Says(stream, k) /\ LastWord(stream, k, k) /\ ~Silent(k)
  BY <1>d DEF Says, LastWord
<1> HIDE DEF e, k
<1>9. CASE FoldGraduation(c)
  <2> DEFINE clash == winner[c] # None /\ Clash(winner[c].grade, e.grade)
  <2>1. /\ e.kind = "graduated"
        /\ held'[c] = (held[c] \/ clash)
        /\ IF ~held[c] /\ ~clash /\ (winner[c] = None \/ LaterWins(c))
           THEN SetWinner(c, e.ts, e.grade) ELSE winner' = winner
    BY <1>9 DEF FoldGraduation, Folding, TypeOK, PullTypeOK, e, k
  <2>w. held[c] = FALSE /\ ~clash /\ (winner[c] = None \/ LaterWins(c))
        => /\ held'[c] = FALSE /\ winner'[c] = [ts |-> e.ts, grade |-> e.grade]
           /\ winner'[c] # None
    <3>1. SUFFICES ASSUME held[c] = FALSE, ~clash, winner[c] = None \/ LaterWins(c)
                   PROVE  /\ held'[c] = FALSE /\ winner'[c] = [ts |-> e.ts, grade |-> e.grade]
                          /\ winner'[c] # None
      OBVIOUS
    <3>2. held'[c] = FALSE /\ SetWinner(c, e.ts, e.grade)
      BY <2>1, <3>1
    <3>3. winner'[c] = [ts |-> e.ts, grade |-> e.grade]
      BY <3>2, <1>5
    <3>4. [ts |-> e.ts, grade |-> e.grade] # None
      BY <2>1, <1>4, <1>6
    <3> QED BY <3>2, <3>3, <3>4
  <2>3. ASSUME NEW m \in 1..k, Agreed(stream, m, k)
        PROVE  held'[c] = FALSE /\ winner'[c] = Wins(k)
    <3>1. CASE m = k
      <4>1. \A p \in 1..k - 1 : ~Says(stream, p)
        BY <2>1, <2>3, <3>1 DEF Agreed, Decisive, e
      <4>2. Silent(k - 1)
        BY <4>1, <1>2
      <4> QED BY <4>2, <1>b, <2>1, <2>w DEF Clock, e
    <3>2. CASE m # k
      <4>1. m \in 1..k - 1 /\ Agreed(stream, m, k - 1) /\ Says(stream, m)
        BY <1>c, <2>3, <3>2
      <4>2. CASE winner[c] = None
        BY <4>1, <4>2, <1>b, <2>1, <2>w DEF Clock, e
      <4>3. ASSUME NEW q \in cursor[c] + 1..k - 1, LastWord(stream, q, k - 1), winner[c] = Wins(q)
            PROVE  held'[c] = FALSE /\ winner'[c] = Wins(k)
        <5>1. q \in m..k - 1
          BY <1>2, <4>1, <4>3 DEF LastWord
        <5>2. q \in m..k /\ k \in m..k /\ q < k /\ Says(stream, q) /\ Says(stream, k)
          BY <1>2, <1>f, <2>1, <4>1, <4>3, <5>1 DEF LastWord
        <5>3. Clock(stream[q]) < e.ts /\ ~Clash(stream[q].grade, e.grade)
          BY <2>3, <5>2 DEF Agreed, e
        <5>4. ~clash
          BY <4>3, <5>3
        <5>5. LaterWins(c)
          <6>1. stream[q] \in Events /\ e \in Events
            BY <1>2, <1>3, <5>2 DEF TypeOK, StreamTypeOK
          <6>2. Clock(stream[q]) \in Int /\ e.ts \in Int
            BY <6>1 DEF Clock, Events, Times
          <6> QED BY <4>3, <5>3, <6>2 DEF LaterWins, e, k
        <5> QED BY <4>1, <5>4, <5>5, <1>b, <2>1, <2>w DEF Clock, e
      <4> QED BY <4>1, <4>2, <4>3, <1>b
    <3> QED BY <3>1, <3>2
  <2>4. ASSUME held'[c] = FALSE, NEW p \in cursor[c] + 1..k, Uncontested(stream, p, k)
        PROVE  winner'[c] # None /\ winner'[c].grade.state = stream[p].grade.state
    <3>1. held[c] = FALSE /\ ~clash
      BY <2>1, <2>4
    <3>2. winner'[c] # None /\ winner'[c].grade.state = e.grade.state
      <4>1. CASE winner[c] = None \/ LaterWins(c)
        <5>1. winner'[c] = [ts |-> e.ts, grade |-> e.grade] /\ winner'[c] # None
          BY <4>1, <3>1, <2>w
        <5> QED BY <5>1
      <4>2. CASE winner[c] # None /\ ~LaterWins(c)
        BY <4>2, <3>1, <2>1 DEF Clash
      <4> QED BY <4>1, <4>2
    <3>3. CASE p = k
      BY <3>2, <3>3 DEF e
    <3>4. CASE p # k
      <4>1. p \in cursor[c] + 1..k - 1 /\ Uncontested(stream, p, k - 1)
        BY <2>4, <3>4, <1>2 DEF Uncontested
      <4>2. winner[c] # None /\ winner[c].grade.state = stream[p].grade.state
        BY <4>1, <3>1, <1>1 DEF FoldInv, Folded, k
      <4>3. winner[c].grade.state = e.grade.state
        BY <3>1, <4>2 DEF Clash
      <4> QED BY <3>2, <4>2, <4>3
    <3> QED BY <3>3, <3>4
  <2> QED BY <1>d, <1>f, <2>1, <2>3, <2>4
<1>10. CASE FoldOverride(c)
  <2>1. e.kind = "override" /\ held'[c] = FALSE /\ SetWinner(c, e.ts, e.grade)
    BY <1>10 DEF FoldOverride, Folding, TypeOK, PullTypeOK, e, k
  <2>2. e.ts \in Times /\ e.grade \in Grades
    BY <2>1, <1>3 DEF Events, Graded
  <2>3. winner'[c] = Wins(k)
    BY <2>1, <1>5 DEF Clock, e
  <2> QED BY <2>1, <2>3, <1>8, <1>d, <1>f
<1>11. CASE FoldResolution(c)
  <2>1. e.kind = "resolved" /\ held'[c] = FALSE
    BY <1>11 DEF FoldResolution, Folding, TypeOK, PullTypeOK, e, k
  <2>2. e.whole => SetWinner(c, e.picks, e.grade)
    BY <1>11 DEF FoldResolution, e, k
  <2>3. e.picks \in Times /\ e.grade \in Grades
    BY <2>1, <1>3 DEF Events, Graded
  <2>4. e.whole => winner'[c] = [ts |-> e.picks, grade |-> e.grade]
    BY <2>2, <1>5
  <2>5. e.whole => winner'[c] = Wins(k)
    BY <2>1, <2>4 DEF Clock, e
  <2>6. ASSUME NEW m \in 1..k, Agreed(stream, m, k) PROVE e.whole
    <3>1. CASE m = k BY <2>1, <2>6, <3>1 DEF Agreed, Decisive, e
    <3>2. CASE m # k
      <4>1. k \in m + 1..k BY <1>2, <3>2
      <4> QED BY <2>1, <2>6, <4>1 DEF Agreed, e
    <3> QED BY <3>1, <3>2
  <2> QED BY <2>1, <2>5, <2>6, <1>8, <1>d, <1>f
<1>12. CASE FoldOther(c)
  <2>1. e.kind = "other" /\ held' = held /\ winner' = winner
    BY <1>12 DEF FoldOther, Folding, e, k
  <2>2. ASSUME held'[c] = FALSE, NEW p \in cursor[c] + 1..k, Uncontested(stream, p, k)
        PROVE  winner'[c] # None /\ winner'[c].grade.state = stream[p].grade.state
    <3>1. p # k
      BY <2>1, <2>2 DEF Uncontested, e
    <3>2. p \in cursor[c] + 1..k - 1 /\ Uncontested(stream, p, k - 1)
      BY <2>2, <3>1, <1>2 DEF Uncontested
    <3> QED BY <2>1, <2>2, <3>2, <1>1 DEF FoldInv, Folded, k
  <2>3. ~Says(stream, k) /\ \A p \in cursor[c] + 1..k : p = k \/ p \in cursor[c] + 1..k - 1
    BY <1>2, <2>1 DEF Says, e
  <2>4. Silent(k) <=> Silent(k - 1)
    BY <1>d, <2>3
  <2>5. ASSUME NEW m \in 1..k, Agreed(stream, m, k)
        PROVE  /\ held[c] = FALSE
               /\ \/ winner[c] = None /\ Silent(k - 1)
                  \/ \E q \in cursor[c] + 1..k : LastWord(stream, q, k) /\ winner[c] = Wins(q)
    <3>1. m # k BY <2>1, <2>5 DEF Agreed, Decisive, e
    <3>2. m \in 1..k - 1 /\ Agreed(stream, m, k - 1) BY <1>c, <2>5, <3>1
    <3>3. ASSUME NEW q \in cursor[c] + 1..k - 1, LastWord(stream, q, k - 1)
          PROVE  q \in cursor[c] + 1..k /\ LastWord(stream, q, k)
      <4>1. \A p \in q + 1..k : p = k \/ p \in q + 1..k - 1 BY <1>2, <3>3
      <4> QED BY <1>d, <2>3, <3>3, <4>1 DEF LastWord
    <3> QED BY <1>b, <3>2, <3>3
  <2> QED BY <2>1, <2>2, <2>4, <2>5, <1>b
<1> QED BY <1>9, <1>10, <1>11, <1>12 DEF Fold

LEMMA FoldInvStep ==
  ASSUME TypeOK, Shape, [Next]_vars, NEW c \in Devices, FoldInv(c)
  PROVE  FoldInv(c)'
<1>0. PullShape(c)
  BY DEF Shape
<1> USE Lengths
<1>1. CASE Grows
  <2> DEFINE n == next[c] - 1
  <2> SUFFICES ASSUME pc[c] \in {"fold", "read", "write"} PROVE FoldInv(c)'
    BY <1>1 DEF FoldInv, Grows
  <2>1. /\ n \in 0..Len(stream) /\ n \in Nat /\ cursor[c] \in Nat
        /\ next' = next /\ cursor' = cursor /\ pc' = pc /\ winner' = winner /\ held' = held
    BY <1>0, <1>1 DEF Grows, PullShape
  <2>2. \A p \in 1..n : stream'[p] = stream[p]
    BY <1>1, <2>1 DEF Grows
  <2>3. Folded(stream, cursor[c], n, winner[c], held[c])
    BY DEF FoldInv
  <2>4. Folded(stream', cursor[c], n, winner[c], held[c])
    <3> HIDE DEF n
    <3> QED BY <2>1, <2>2, <2>3, FoldedPrefix
  <2> QED BY <2>1, <2>4 DEF FoldInv
<1>2. CASE SameDevice(c)
  BY <1>2 DEF SameDevice, FoldInv
<1>3. CASE Pull(c)
  <2> USE <1>0 DEF TypeOK, DeviceTypeOK, PullTypeOK
  <2>1. CASE PullBegin(c)
    BY <2>1 DEF PullBegin, Goto, FoldInv
  <2>2. CASE FetchPage(c)
    <3>1. /\ cursor' = cursor /\ stream' = stream /\ winner' = winner /\ held' = held
          /\ pc'[c] = "fold" => next'[c] = cursor[c] + 1
          /\ pc'[c] \in {"fetch", "fold"} /\ winner[c] = None /\ held[c] = FALSE
      BY <2>2 DEF FetchPage, Goto, PullShape
    <3>2. cursor[c] \in Nat
      OBVIOUS
    <3>3. \A p \in cursor[c] + 1..cursor[c] : FALSE
      BY <3>2
    <3>4. Folded(stream, cursor[c], cursor[c], winner[c], held[c])
      BY <3>1, <3>3 DEF Folded
    <3>5. next'[c] - 1 = cursor[c] \/ pc'[c] = "fetch"
      BY <3>1, <3>2
    <3> QED BY <3>1, <3>4, <3>5 DEF FoldInv
  <2>3. CASE Fold(c)
    BY <2>3, FoldStep
  <2>4. CASE FoldEnd(c) \/ ReadLessons(c)
    <3>1. /\ cursor' = cursor /\ stream' = stream /\ winner' = winner /\ held' = held /\ next' = next
          /\ pc[c] \in {"fold", "read"}
      BY <2>4 DEF FoldEnd, ReadLessons
    <3> QED BY <3>1 DEF FoldInv
  <2>5. CASE WriteLessons(c) \/ PersistCursor(c) \/ Abort(c)
    <3>1. pc'[c] \in {"persist", "idle"}
      BY <2>5 DEF WriteLessons, PersistCursor, Abort, PullEnd, Goto
    <3> QED BY <3>1 DEF FoldInv
  <2> QED BY <1>3, <2>1, <2>2, <2>3, <2>4, <2>5 DEF Pull
<1> QED BY <1>1, <1>2, <1>3, StepKinds
-----------------------------------------------------------------------------
LEMMA Squeeze ==
  ASSUME NEW a \in Nat, NEW b \in Nat, NEW k \in a + 1..b + 1, k > b
  PROVE  k - 1 = b /\ a <= b
OBVIOUS

(* What lessons.md holds once the last word has been pulled.  A pull that  *)
(* has no winner has read nothing that says anything.                      *)
LEMMA LessonInvStep ==
  ASSUME TypeOK, Shape, [Next]_vars, NEW c \in Devices, FoldInv(c), LessonInv(c)
  PROVE  LessonInv(c)'
<1>0. PullShape(c)
  BY DEF Shape
<1> DEFINE L == Len(stream)
<1>n. L \in Nat
  BY Lengths
<1>1. CASE Grows
  <2>1. /\ Len(stream') = L + 1 /\ UNCHANGED <<lesson, cursor, pc, upto>>
        /\ \A p \in 1..L : stream'[p] = stream[p]
        /\ outbox'[c] = outbox[c] \/ stream'[L + 1].kind = "graduated"
    BY <1>1 DEF Grows
  <2> SUFFICES ASSUME outbox'[c] = {}, NEW m \in 1..L + 1, NEW q \in 1..L + 1,
                      Agreed(stream', m, L + 1), LastWord(stream', q, L + 1), Pulled(c, q)'
               PROVE  lesson[c] = stream'[q].grade
    BY <2>1 DEF LessonInv
  <2>2. q \in 1..L /\ Pulled(c, q)
    BY <2>1, <1>n, Lengths DEF Pulled
  <2>3. ~Says(stream', L + 1) /\ \A p \in q + 1..L : ~Says(stream', p)
    BY <1>n, <2>2 DEF LastWord
  <2>4. Says(stream', m) /\ m # L + 1
    BY <2>3 DEF Agreed, Says, Decisive
  <2>5. m \in 1..L
    BY <1>n, <2>4
  <2>6. Agreed(stream', m, L)
    <3>1. (\A p \in m..L : p \in m..L + 1) /\ (\A p \in m + 1..L : p \in m + 1..L + 1)
      BY <1>n, <2>5
    <3> QED BY <3>1 DEF Agreed
  <2>7. LastWord(stream', q, L)
    BY <2>3 DEF LastWord
  <2>8. Agreed(stream, m, L) /\ LastWord(stream, q, L)
    <3> HIDE DEF L
    <3> QED BY <1>n, <2>1, <2>2, <2>5, <2>6, <2>7, Prefix
  <2>9. outbox[c] = {}
    BY <2>1, <2>3 DEF Says
  <2> QED BY <2>1, <2>2, <2>5, <2>8, <2>9 DEF LessonInv
<1>2. CASE SameDevice(c)
  BY <1>2 DEF SameDevice, LessonInv, Pulled
<1>3. CASE Pull(c)
  <2> USE <1>0 DEF TypeOK, DeviceTypeOK, PullTypeOK
  <2>s. stream' = stream /\ outbox' = outbox
    BY <1>3 DEF Pull, PullBegin, FetchPage, Fold, FoldGraduation, FoldOverride, FoldResolution, FoldOther,
       Step, FoldEnd, ReadLessons, WriteLessons, PersistCursor, Abort
  <2> SUFFICES ASSUME outbox[c] = {}, NEW m \in 1..L, NEW q \in 1..L,
                      Agreed(stream, m, L), LastWord(stream, q, L), Pulled(c, q)'
               PROVE  lesson'[c] = stream[q].grade
    BY <2>s DEF LessonInv
  <2>t. Pulled(c, q) => lesson[c] = stream[q].grade
    BY DEF LessonInv
  <2>u. Says(stream, m) /\ m <= q
    <3>1. Says(stream, m) BY DEF Agreed, Says, Decisive
    <3> QED BY <1>n, <3>1 DEF LastWord
  (* As the fold has seen it, if it got as far as q. *)
  <2>v. ASSUME q <= upto[c] PROVE m \in 1..upto[c] /\ Agreed(stream, m, upto[c]) /\ LastWord(stream, q, upto[c])
    <3>1. upto[c] \in 0..L BY Lengths
    <3>2. upto[c] \in m..L /\ m \in 1..upto[c] BY <1>n, <2>u, <2>v, <3>1
    <3>3. Agreed(stream, m, upto[c]) BY <1>n, <3>2, Before
    <3>4. \A p \in q + 1..upto[c] : p \in q + 1..L BY <1>n, <3>1
    <3> QED BY <3>2, <3>3, <3>4 DEF LastWord
  <2>1. CASE PullBegin(c) \/ FetchPage(c) \/ Fold(c) \/ ReadLessons(c) \/ Abort(c)
    <3>1. lesson' = lesson /\ cursor' = cursor /\ pc'[c] # "persist"
      BY <2>1 DEF PullBegin, FetchPage, Fold, FoldGraduation, FoldOverride, FoldResolution, FoldOther,
         Step, Folding, ReadLessons, Abort, PullEnd, Goto
    <3> QED BY <3>1, <2>t DEF Pulled
  <2>2. CASE FoldEnd(c)
    <3>1. lesson' = lesson /\ cursor' = cursor /\ upto' = upto
      BY <2>2 DEF FoldEnd
    <3>2. next[c] - 1 = upto[c] /\ pc[c] = "fold" /\ cursor[c] <= upto[c]
      <4>1. cursor[c] \in Nat /\ upto[c] \in Nat
        BY Lengths
      <4>2. next[c] \in cursor[c] + 1..upto[c] + 1 /\ next[c] > upto[c] /\ pc[c] = "fold"
        BY <2>2 DEF FoldEnd, PullShape
      <4>3. next[c] - 1 = upto[c] /\ cursor[c] <= upto[c]
        BY ONLY <4>1, <4>2, Squeeze
      <4> QED BY <4>2, <4>3
    <3>3. ASSUME pc'[c] = "persist", q <= upto[c]
          PROVE  q <= cursor[c]
      <4>1. winner[c] = None
        BY <2>2, <3>3 DEF FoldEnd, Goto
      <4>2. m \in 1..upto[c] /\ Agreed(stream, m, upto[c]) /\ Says(stream, q)
        BY <2>v, <3>3 DEF LastWord
      <4>3. ASSUME NEW p \in cursor[c] + 1..upto[c], Says(stream, p)
            PROVE  [ts |-> Clock(stream[p]), grade |-> stream[p].grade] # None
        <5>1. p \in 1..L BY Lengths
        <5>2. stream[p] \in Events /\ Graded(stream[p]) BY <5>1, Lengths DEF StreamTypeOK
        <5>3. Clock(stream[p]) \in Times /\ stream[p].grade \in Grades
          BY <4>3, <5>2 DEF Events, Graded, Clock, Says
        <5> QED BY <5>3, CloudMergeAssumption DEF Times
      <4>4. \A p \in cursor[c] + 1..upto[c] : ~Says(stream, p)
        BY <3>2, <4>1, <4>2, <4>3 DEF FoldInv, Folded, LastWord
      <4>5. cursor[c] \in Nat /\ upto[c] \in Nat BY Lengths
      <4> QED BY <3>3, <4>2, <4>4, <4>5
    <3> QED BY <3>1, <3>3, <2>t DEF Pulled
  <2>3. CASE WriteLessons(c)
    <3>1. next[c] - 1 = upto[c] /\ pc[c] = "write" /\ winner[c] # None /\ cursor[c] <= upto[c]
      BY <2>3, Lengths DEF WriteLessons, PullShape
    <3>3. /\ cursor' = cursor /\ upto' = upto
          /\ lesson'[c] = IF held[c] THEN existing[c] ELSE winner[c].grade
      BY <2>3 DEF WriteLessons, Merged
    <3>4. q <= upto[c]
      BY <3>1, <3>3, Lengths DEF Pulled
    <3>5. m \in 1..upto[c] /\ Agreed(stream, m, upto[c]) /\ LastWord(stream, q, upto[c])
      BY <2>v, <3>4
    <3>6. held[c] = FALSE
      BY <3>1, <3>5 DEF FoldInv, Folded
    <3>7. PICK p \in cursor[c] + 1..upto[c] :
             LastWord(stream, p, upto[c]) /\ winner[c] = [ts |-> Clock(stream[p]), grade |-> stream[p].grade]
      BY <3>1, <3>5 DEF FoldInv, Folded
    <3>8. p = q
      BY <3>4, <3>5, <3>7, Lengths DEF LastWord
    <3> QED BY <3>3, <3>6, <3>7, <3>8
  <2>4. CASE PersistCursor(c)
    <3>1. lesson' = lesson /\ cursor'[c] = upto[c] /\ pc[c] = "persist" /\ pc'[c] = "idle"
      BY <2>4 DEF PersistCursor, PullEnd, Goto
    <3> QED BY <3>1, <2>t DEF Pulled
  <2> QED BY <1>3, <2>1, <2>2, <2>3, <2>4 DEF Pull
<1> QED BY <1>1, <1>2, <1>3, StepKinds
-----------------------------------------------------------------------------
(* The inductive invariant, and the theorems.                              *)
Inv ==
    /\ TypeOK /\ Shape
    /\ \A d \in Devices : Cover(d) /\ FoldInv(d) /\ LessonInv(d)

LEMMA InvInit == Init => Inv
<1> SUFFICES ASSUME Init PROVE Inv
  OBVIOUS
<1> USE CloudMergeAssumption DEF Init
<1>1. stream \in Seq(Events) /\ Len(stream) = 0 /\ DOMAIN stream = {}
  OBVIOUS
<1>2. \A d \in Devices : outbox[d] = {}
  OBVIOUS
<1>3. StreamTypeOK
  BY <1>1, <1>2 DEF StreamTypeOK
<1>4. DeviceTypeOK /\ PullTypeOK
  BY <1>1 DEF DeviceTypeOK, PullTypeOK
<1>5. TypeOK
  BY <1>3, <1>4 DEF TypeOK
<1>6. Shape
  BY <1>2 DEF Shape, PullShape, Own
<1>7. \A d \in Devices : Cover(d) /\ FoldInv(d) /\ LessonInv(d)
  BY <1>1 DEF Cover, FoldInv, LessonInv
<1> QED BY <1>5, <1>6, <1>7 DEF Inv

LEMMA InvStep == Inv /\ [Next]_vars => Inv'
BY TypeStep, ShapeStep, CoverStep, FoldInvStep, LessonInvStep DEF Inv

LEMMA Invariance == Spec => []Inv
BY InvInit, InvStep, PTL DEF Spec

(* Every variable has its type, and a pull never fetches, folds or saves   *)
(* beyond the end of the stream (the page loop of pull.py).                *)
THEOREM TypeCorrect == Spec => []TypeOK
<1>1. Inv => TypeOK
  BY DEF Inv
<1> QED BY <1>1, Invariance, PTL

(* A device's cursor passes only events whose fold was written to its      *)
(* lessons.md, however its pulls are cut short (pull.py's order of write   *)
(* and cursor).                                                            *)
THEOREM CursorCovered == Spec => []CursorCovers
<1>1. Inv => CursorCovers
  BY DEF Inv, Cover, Matters, CursorCovers
<1> QED BY <1>1, Invariance, PTL

(* What is said since the user's word, or from the start, and agrees: every *)
(* device that has caught up holds the last word of it (materialize and     *)
(* _lww over any cut into pulls).                                           *)
THEOREM AgreementsSettle == Spec => []AgreementSettles
<1>1. Inv => AgreementSettles
  <2> SUFFICES ASSUME Inv, NEW d \in Devices, CaughtUp(d),
                      NEW m \in DOMAIN stream, NEW q \in DOMAIN stream,
                      Agreed(stream, m, Len(stream)), LastWord(stream, q, Len(stream))
               PROVE  lesson[d] = stream[q].grade
    BY DEF AgreementSettles
  <2>1. TypeOK /\ LessonInv(d) BY DEF Inv
  <2>2. m \in 1..Len(stream) /\ q \in 1..Len(stream) BY <2>1, Lengths
  <2> QED BY <2>1, <2>2 DEF LessonInv, CaughtUp, Pulled
<1> QED BY <1>1, Invariance, PTL

(* When an override, or a resolution with its winner, is the newest event, *)
(* every device that has caught up has its grade (materialize).            *)
THEOREM AdjudicationsSettle == Spec => []AdjudicationSettles
<1>1. Inv => AdjudicationSettles
  <2> SUFFICES ASSUME Inv, NEW d \in Devices, CaughtUp(d), Decisive(Last)
               PROVE  lesson[d] = Last.grade
    BY DEF AdjudicationSettles
  <2> DEFINE L == Len(stream)
  <2>1. TypeOK /\ LessonInv(d) BY DEF Inv
  <2>2. L \in 1..L /\ \A p \in L + 1..L : FALSE
    <3>1. L \in Nat /\ L > 0 BY <2>1, Lengths DEF CaughtUp, TypeOK, StreamTypeOK
    <3> QED BY <3>1
  <2>3. LastWord(stream, L, L) BY <2>2 DEF LastWord, Says, Decisive, Last
  <2>4. Agreed(stream, L, L) BY <2>2 DEF Agreed, Last
  <2> QED BY <2>1, <2>2, <2>3, <2>4 DEF LessonInv, CaughtUp, Pulled, Last
<1> QED BY <1>1, Invariance, PTL

(* A pull that has read two graduations to different states with no        *)
(* adjudication since leaves the lesson as it had read it (_apply_tier's   *)
(* hold, apply_to_lessons' conflict keys).                                 *)
THEOREM DisagreementHeld == Spec => DisagreementHolds
<1>1. ASSUME Inv, [Next]_vars, NEW d \in Devices, pc[d] = "write", pc'[d] = "persist", Contested(d)
      PROVE  lesson'[d] = existing[d]
  <2> USE Lengths DEF Inv
  <2>1. PullShape(d) /\ FoldInv(d) /\ TypeOK
    BY <1>1 DEF Shape
  <2>2. next[d] - 1 = upto[d]
    <3>1. upto[d] \in Nat
      BY <2>1
    <3>2. next[d] = upto[d] + 1
      BY <1>1, <2>1 DEF PullShape
    <3> QED BY <3>1, <3>2
  <2>3. PICK p \in Graduations, q \in Graduations :
          /\ cursor[d] < p /\ p < q /\ q <= upto[d]
          /\ stream[p].grade.state # stream[q].grade.state
          /\ \A r \in p..upto[d] : stream[r].kind \in {"graduated", "other"}
    BY <1>1 DEF Contested
  <2>4. p \in 1..Len(stream) /\ q \in 1..Len(stream)
    BY <2>1 DEF Graduations
  <2>5. p \in cursor[d] + 1..upto[d] /\ q \in cursor[d] + 1..upto[d]
    BY <2>1, <2>3, <2>4
  <2>6. Uncontested(stream, p, upto[d]) /\ Uncontested(stream, q, upto[d])
    <3>1. \A r \in q..upto[d] : r \in p..upto[d]
      BY <2>1, <2>3, <2>4
    <3> QED BY <2>3, <3>1 DEF Uncontested, Graduations
  <2>7. held[d] = TRUE
    <3>1. held[d] \in BOOLEAN
      BY <2>1
    <3>2. held[d] # FALSE
      BY <1>1, <2>1, <2>2, <2>3, <2>5, <2>6 DEF FoldInv, Folded
    <3> QED BY <3>1, <3>2
  <2>8. WriteLessons(d)
    <3>1. CASE Grows
      BY <3>1, <1>1 DEF Grows
    <3>2. CASE SameDevice(d)
      BY <3>2, <1>1 DEF SameDevice
    <3>3. CASE Pull(d)
      BY <3>3, <1>1, <2>1 DEF Pull, PullBegin, FetchPage, Fold, FoldGraduation, FoldOverride, FoldResolution,
         FoldOther, Folding, FoldEnd, ReadLessons, PersistCursor, Abort, PullEnd, Goto, TypeOK, PullTypeOK
    <3> QED BY <3>1, <3>2, <3>3, <2>1, <1>1, StepKinds
  <2> QED BY <2>1, <2>7, <2>8 DEF WriteLessons, Merged, TypeOK, DeviceTypeOK
<1>2. Inv /\ [Next]_vars =>
        [\A d \in Devices : pc[d] = "write" /\ pc'[d] = "persist" /\ Contested(d)
             => lesson'[d] = existing[d]]_vars
  BY <1>1
<1> QED BY <1>2, Invariance, PTL DEF Spec, DisagreementHolds
=============================================================================
