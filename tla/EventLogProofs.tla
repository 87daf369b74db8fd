---------------------------- MODULE EventLogProofs ----------------------------
(***************************************************************************)
(* Proofs about EventLog for every set of events and emitters: its type    *)
(* invariant, that an acknowledged event is lost only behind a torn tail,  *)
(* that a reconcile heals the lag it found, that a flush writes an event a *)
(* second time only when it was blind or the event was queued twice, and   *)
(* that all of it together implements the journal.                         *)
(***************************************************************************)
EXTENDS EventLog, TLAPS

USE EventLogAssumption

(* What an emitter at work knows of its event, which is nobody else's.     *)
EmitInv ==
    /\ acked \subseteq rows \cup log \cup glued
    /\ \A a \in Emitters :
         /\ jsonlOk[a] => ev[a] \in log \cup glued
         /\ pc[a] # "idle" => ev[a] \in emitted
         /\ pc[a] = "append" => ev[a] \notin log
    /\ \A a, b \in Emitters : a # b /\ pc[a] # "idle" => ev[a] # ev[b]

(* Readable lines stay readable, so what was due has been scanned.         *)
ReconInv ==
    /\ due \subseteq log /\ scanned \subseteq log
    /\ rpc = "commit" => due \subseteq scanned
    /\ rpc = "done" => due \subseteq rows

(* What a flush is about to append is new, or the flush is blind: nobody   *)
(* else appends queued events.                                             *)
BatchInv ==
    /\ emitted \cap Queued = {}
    /\ fpc = "append" => \A i \in batch : pending[i] \in log => pending[i] \in blind

Shape == FileTypeOK /\ EmitTypeOK /\ ReconTypeOK /\ FlushTypeOK /\ FlagTypeOK
IInv  == Shape /\ EmitInv /\ ReconInv /\ BatchInv
-----------------------------------------------------------------------------
(* What an append does to the file, whether the file was torn or not and   *)
(* whether it fails or not: of the lines those at read become readable.    *)
LEMMA AppendEffect ==
  ASSUME NEW lines, AppendMany(lines)
  PROVE  /\ torn' \in BOOLEAN
         /\ \E read \in SUBSET DOMAIN lines :
              /\ Becomes(lines, read)
              /\ glued' = glued \cup Line(lines, DOMAIN lines \ read)
<1>1. Unglued(DOMAIN lines) \in SUBSET DOMAIN lines
  BY DEF Unglued
<1> QED BY <1>1 DEF AppendMany

LEMMA AppendFailsEffect ==
  ASSUME NEW lines, AppendManyFails(lines), torn \in BOOLEAN
  PROVE  /\ torn' \in BOOLEAN
         /\ glued' = glued
         /\ \/ UNCHANGED <<log, twice>>
            \/ \E read \in SUBSET DOMAIN lines : Becomes(lines, read)
<1>1. ASSUME NEW at PROVE Unglued(at) \in SUBSET at
  BY DEF Unglued
<1>2. ASSUME NEW cut \in DOMAIN lines
      PROVE  Unglued({i \in DOMAIN lines : i < cut}) \in SUBSET DOMAIN lines
  BY <1>1
<1> QED BY <1>2 DEF AppendManyFails, fileVars

(* The one line of an emit, whose event is nowhere in the file yet.        *)
LEMMA OneLine ==
  ASSUME NEW e, e \notin log, NEW read \in SUBSET DOMAIN <<e>>, Becomes(<<e>>, read)
  PROVE  /\ twice' = twice
         /\ \/ read = {1} /\ log' = log \cup {e} /\ Line(<<e>>, DOMAIN <<e>> \ read) = {}
            \/ read = {} /\ log' = log /\ Line(<<e>>, DOMAIN <<e>> \ read) = {e}
<1>1. DOMAIN <<e>> = {1} /\ <<e>>[1] = e
  OBVIOUS
<1>2. read = {} \/ read = {1}
  BY <1>1
<1>3. Line(<<e>>, {}) = {} /\ Line(<<e>>, {1}) = {e}
  BY <1>1 DEF Line
<1>4. {i \in read : <<e>>[i] \in log \/ \E j \in read \ {i} : <<e>>[j] = <<e>>[i]} = {}
  BY <1>1, <1>2
<1>5. log' = log \cup Line(<<e>>, read) /\ twice' = twice
  BY <1>3, <1>4 DEF Becomes
<1> QED BY <1>1, <1>2, <1>3, <1>5

LEMMA EmitOneLine ==
  ASSUME NEW e, e \notin log, AppendMany(<<e>>)
  PROVE  /\ twice' = twice
         /\ \/ log' = log \cup {e} /\ glued' = glued
            \/ log' = log /\ glued' = glued \cup {e}
<1>1. PICK read \in SUBSET DOMAIN <<e>> :
         Becomes(<<e>>, read) /\ glued' = glued \cup Line(<<e>>, DOMAIN <<e>> \ read)
  BY AppendEffect
<1>2. /\ twice' = twice
      /\ \/ log' = log \cup {e} /\ Line(<<e>>, DOMAIN <<e>> \ read) = {}
         \/ log' = log /\ Line(<<e>>, DOMAIN <<e>> \ read) = {e}
  BY <1>1, OneLine
<1> QED BY <1>1, <1>2

LEMMA EmitLineFails ==
  ASSUME NEW e, e \notin log, AppendManyFails(<<e>>), torn \in BOOLEAN
  PROVE  twice' = twice /\ glued' = glued /\ (log' = log \cup {e} \/ log' = log)
<1>1. CASE UNCHANGED <<log, twice>>
  BY <1>1, AppendFailsEffect
<1>2. ASSUME NEW read \in SUBSET DOMAIN <<e>>, Becomes(<<e>>, read)
      PROVE  twice' = twice /\ (log' = log \cup {e} \/ log' = log)
  BY <1>2, OneLine
<1> QED BY <1>1, <1>2, AppendFailsEffect

(* The lines of a batch: its events become readable, and an event comes    *)
(* twice when it was readable or the batch has it at two positions.        *)
LEMMA BatchLines ==
  ASSUME NEW read \in SUBSET DOMAIN NewEvents, Becomes(NewEvents, read)
  PROVE  /\ Line(NewEvents, DOMAIN NewEvents) = Line(pending, batch)
         /\ log' = log \cup Line(pending, read) /\ read \subseteq batch
         /\ Line(NewEvents, DOMAIN NewEvents \ read) = Line(pending, batch \ read)
         /\ twice \subseteq twice'
         /\ \A e \in twice' \ twice :
              \E i \in batch : pending[i] = e /\ (e \in log \/ TwiceInBatch(e))
<1>1. DOMAIN NewEvents = batch /\ \A i \in batch : NewEvents[i] = pending[i]
  BY DEF NewEvents
<1>2. \A at \in SUBSET batch : Line(NewEvents, at) = Line(pending, at)
  BY <1>1 DEF Line
<1> QED BY <1>1, <1>2 DEF Becomes, Line, TwiceInBatch

LEMMA Entries ==
  ASSUME FlushTypeOK
  PROVE  /\ Queued \subseteq Events
         /\ \A at \in SUBSET DOMAIN pending : Line(pending, at) \subseteq Queued
BY DEF FlushTypeOK, Queued, Line

(* What queueing adds to the list.                                         *)
LEMMA QueueEffect ==
  ASSUME NEW e \in Events, Queue(e), FlushTypeOK
  PROVE  /\ pending' \in Seq(Events) /\ DOMAIN pending \subseteq DOMAIN pending'
         /\ Queued' = Queued \cup {e}
         /\ \A i \in DOMAIN pending : pending'[i] = pending[i]
<1>1. pending \in Seq(Events) /\ pending' = Append(pending, e)
  BY DEF Queue, FlushTypeOK
<1>2. /\ pending' \in Seq(Events) /\ DOMAIN pending = 1..Len(pending) /\ Len(pending) \in Nat
      /\ DOMAIN pending' = 1..(Len(pending) + 1)
      /\ pending'[Len(pending) + 1] = e
      /\ \A i \in 1..Len(pending) : pending'[i] = pending[i]
  BY <1>1
<1> QED BY <1>2 DEF Queued, Line

LEMMA InitIInv == Init => IInv
<1>1. <<>> \in Seq(Events) /\ DOMAIN <<>> = {}
  OBVIOUS
<1> QED BY <1>1 DEF Init, IInv, Shape, FileTypeOK, EmitTypeOK, ReconTypeOK, FlushTypeOK, FlagTypeOK, EmitInv,
       ReconInv, BatchInv, Queued, Line

LEMMA StepIInv == IInv /\ [Next]_vars => IInv'
<1> SUFFICES ASSUME IInv, [Next]_vars PROVE IInv'
  OBVIOUS
<1> USE DEF IInv, Shape, FileTypeOK, EmitTypeOK, ReconTypeOK, FlushTypeOK, FlagTypeOK, EmitInv, ReconInv,
        BatchInv, fileVars, emitVars, reconVars, flushVars
<1>1. ASSUME NEW a \in Emitters, NEW e \in Events, Emit(a, e) PROVE IInv'
  <2>1. Queued' = Queued
    BY <1>1 DEF Emit, Queued
  <2> QED BY <1>1, <2>1 DEF Emit
<1>2. ASSUME NEW a \in Emitters, EmitAppend(a) PROVE IInv'
  <2>1. torn' \in BOOLEAN
    BY <1>2, AppendEffect DEF EmitAppend
  <2>2. ev[a] \in Events /\ ev[a] \in emitted /\ ev[a] \notin log /\ ev[a] \notin Queued
    BY <1>2 DEF EmitAppend
  <2>3. /\ twice' = twice
        /\ \/ log' = log \cup {ev[a]} /\ glued' = glued
           \/ log' = log /\ glued' = glued \cup {ev[a]}
    BY <1>2, <2>2, EmitOneLine DEF EmitAppend
  <2>4. UNCHANGED <<rows, ev, emitted, acked, reconVars, flushVars, Queued>>
    BY <1>2 DEF EmitAppend, Queued
  <2>5. Shape'
    BY <1>2, <2>1, <2>2, <2>3, <2>4 DEF EmitAppend
  <2>6. EmitInv'
    BY <1>2, <2>2, <2>3, <2>4 DEF EmitAppend
  <2>7. \A i \in batch : pending[i] \in Queued
    BY DEF Queued, Line
  <2>8. ReconInv' /\ BatchInv'
    BY <2>2, <2>3, <2>4, <2>7
  <2> QED BY <2>5, <2>6, <2>8
<1>3. ASSUME NEW a \in Emitters, EmitAppendFails(a) PROVE IInv'
  <2>1. torn' \in BOOLEAN /\ glued' = glued
    BY <1>3, AppendFailsEffect DEF EmitAppendFails
  <2>2. ev[a] \in Events /\ ev[a] \in emitted /\ ev[a] \notin log /\ ev[a] \notin Queued
    BY <1>3 DEF EmitAppendFails
  <2>3. twice' = twice /\ (log' = log \cup {ev[a]} \/ log' = log)
    BY <1>3, <2>2, EmitLineFails DEF EmitAppendFails
  <2>4. UNCHANGED <<rows, ev, jsonlOk, emitted, acked, reconVars, flushVars, Queued>>
    BY <1>3 DEF EmitAppendFails, Queued
  <2>5. Shape'
    BY <1>3, <2>1, <2>2, <2>3, <2>4 DEF EmitAppendFails
  <2>6. EmitInv'
    BY <1>3, <2>1, <2>2, <2>3, <2>4 DEF EmitAppendFails
  <2>7. \A i \in batch : pending[i] \in Queued
    BY DEF Queued, Line
  <2>8. ReconInv' /\ BatchInv'
    BY <2>2, <2>3, <2>4, <2>7
  <2> QED BY <2>5, <2>6, <2>8
<1>4. ASSUME NEW a \in Emitters, EmitProject(a) PROVE IInv'
  <2>1. /\ pc' = [pc EXCEPT ![a] = "idle"] /\ ev' = [ev EXCEPT ![a] = Nil]
        /\ jsonlOk' = [jsonlOk EXCEPT ![a] = FALSE]
        /\ UNCHANGED <<fileVars, emitted, reconVars, flushVars>> /\ rows \subseteq rows'
    BY <1>4 DEF EmitProject, EmitEnd
  <2>2. Shape' /\ ReconInv' /\ BatchInv'
    BY <1>4, <2>1 DEF EmitProject, Queued
  <2>3. acked' \subseteq rows' \cup log' \cup glued'
    BY <1>4, <2>1 DEF EmitProject
  <2>4. \A b \in Emitters : b # a =>
           pc'[b] = pc[b] /\ ev'[b] = ev[b] /\ (jsonlOk'[b] <=> jsonlOk[b])
    BY <2>1
  <2>5. pc'[a] = "idle" /\ ~jsonlOk'[a] /\ ev'[a] = Nil
    BY <2>1
  <2>6. EmitInv'
    BY <2>1, <2>3, <2>4, <2>5
  <2> QED BY <2>2, <2>6
<1>5. ASSUME NEW a \in Emitters, EmitProjectFails(a) PROVE IInv'
  <2>1. /\ pc' = [pc EXCEPT ![a] = "idle"] /\ ev' = [ev EXCEPT ![a] = Nil]
        /\ jsonlOk' = [jsonlOk EXCEPT ![a] = FALSE]
        /\ UNCHANGED <<fileVars, emitted, reconVars, flushVars>> /\ rows \subseteq rows'
    BY <1>5 DEF EmitProjectFails, EmitEnd
  <2>2. Shape' /\ ReconInv' /\ BatchInv'
    BY <1>5, <2>1 DEF EmitProjectFails, Queued
  <2>3. acked' \subseteq rows' \cup log' \cup glued'
    BY <1>5, <2>1 DEF EmitProjectFails
  <2>4. \A b \in Emitters : b # a =>
           pc'[b] = pc[b] /\ ev'[b] = ev[b] /\ (jsonlOk'[b] <=> jsonlOk[b])
    BY <2>1
  <2>5. pc'[a] = "idle" /\ ~jsonlOk'[a] /\ ev'[a] = Nil
    BY <2>1
  <2>6. EmitInv'
    BY <2>1, <2>3, <2>4, <2>5
  <2> QED BY <2>2, <2>6
<1>6. ASSUME NEW a \in Emitters, EmitCrash(a) PROVE IInv'
  <2>1. /\ pc' = [pc EXCEPT ![a] = "idle"] /\ ev' = [ev EXCEPT ![a] = Nil]
        /\ jsonlOk' = [jsonlOk EXCEPT ![a] = FALSE]
        /\ UNCHANGED <<fileVars, emitted, reconVars, flushVars>> /\ rows \subseteq rows'
    BY <1>6 DEF EmitCrash, EmitEnd
  <2>2. Shape' /\ ReconInv' /\ BatchInv'
    BY <1>6, <2>1 DEF EmitCrash, Queued
  <2>3. acked' \subseteq rows' \cup log' \cup glued'
    BY <1>6, <2>1 DEF EmitCrash
  <2>4. \A b \in Emitters : b # a =>
           pc'[b] = pc[b] /\ ev'[b] = ev[b] /\ (jsonlOk'[b] <=> jsonlOk[b])
    BY <2>1
  <2>5. pc'[a] = "idle" /\ ~jsonlOk'[a] /\ ev'[a] = Nil
    BY <2>1
  <2>6. EmitInv'
    BY <2>1, <2>3, <2>4, <2>5
  <2> QED BY <2>2, <2>6
<1>7. CASE Reconcile
  BY <1>7 DEF Reconcile, ReconcileOpen, ReconcileRead, ReconcileCommit, ReconcileEnd, Queued
<1>8. ASSUME NEW e \in Events, Queue(e) PROVE IInv'
  <2>1. /\ pending' \in Seq(Events) /\ DOMAIN pending \subseteq DOMAIN pending'
        /\ Queued' = Queued \cup {e}
        /\ \A i \in DOMAIN pending : pending'[i] = pending[i]
    BY <1>8, QueueEffect
  <2>2. UNCHANGED <<fileVars, rows, emitVars, reconVars, fpc, batch, blind>> /\ e \notin emitted
    BY <1>8 DEF Queue
  <2>3. Shape' /\ EmitInv' /\ ReconInv'
    BY <2>1, <2>2
  <2>4. BatchInv'
    BY <2>1, <2>2
  <2> QED BY <2>3, <2>4
<1>9. CASE FlushRead
  <2>1. Delta \in SUBSET DOMAIN pending /\ \A i \in Delta : pending[i] \notin log
    BY DEF Delta
  <2>2. Queued' = Queued \/ Queued' = {}
    BY <1>9 DEF FlushRead, Queued, Line
  <2>3. <<>> \in Seq(Events)
    OBVIOUS
  <2> QED BY <1>9, <2>1, <2>2, <2>3 DEF FlushRead
<1>10. CASE FlushReadFails
  <2>1. Queued' = Queued /\ Queued \subseteq Events
    BY <1>10, Entries DEF FlushReadFails, Queued
  <2>2. \A i \in DOMAIN pending : pending[i] \in Queued
    BY DEF Queued, Line
  <2>3. DOMAIN pending # {}
    <3>1. Len(pending) \in Nat /\ Len(pending) # 0 /\ DOMAIN pending = 1..Len(pending)
      BY <1>10 DEF FlushReadFails
    <3>2. 1 \in 1..Len(pending)
      BY <3>1
    <3> QED BY <3>1, <3>2
  <2>4. /\ UNCHANGED <<fileVars, rows, emitVars, reconVars, pending>>
        /\ fpc' = "append" /\ batch' = DOMAIN pending /\ blind' = blind \cup Queued
    BY <1>10 DEF FlushReadFails
  <2>5. Shape' /\ EmitInv' /\ ReconInv'
    BY <2>1, <2>3, <2>4
  <2>6. BatchInv'
    BY <2>1, <2>2, <2>4
  <2> QED BY <2>5, <2>6
<1>11. CASE FlushAppend
  <2>1. torn' \in BOOLEAN
    BY <1>11, AppendEffect DEF FlushAppend
  <2>2. PICK read \in SUBSET DOMAIN NewEvents :
             /\ Becomes(NewEvents, read)
             /\ glued' = glued \cup Line(NewEvents, DOMAIN NewEvents \ read)
    BY <1>11, AppendEffect DEF FlushAppend
  <2>3. /\ log' = log \cup Line(pending, read) /\ read \subseteq batch
        /\ glued' = glued \cup Line(pending, batch \ read)
    BY <2>2, BatchLines
  <2>4. Line(pending, read) \subseteq Queued /\ Line(pending, batch \ read) \subseteq Queued
        /\ Queued \subseteq Events
    BY <2>3, Entries
  <2>5. twice' \subseteq Events
    <3>1. \A e \in twice' \ twice : \E i \in batch : pending[i] = e
      BY <2>2, BatchLines
    <3>2. \A i \in batch : pending[i] \in Events
      OBVIOUS
    <3> QED BY <3>1, <3>2
  <2>6. UNCHANGED <<rows, emitVars, reconVars, pending, batch, blind, Queued>> /\ fpc' = "project"
    BY <1>11 DEF FlushAppend, Queued
  <2>7. Shape' /\ ReconInv' /\ BatchInv'
    BY <1>11, <2>1, <2>3, <2>4, <2>5, <2>6 DEF FlushAppend
  <2>8. EmitInv'
    BY <2>3, <2>4, <2>6
  <2> QED BY <2>7, <2>8
<1>12. CASE FlushAppendFails
  <2>1. torn' \in BOOLEAN /\ glued' = glued
    BY <1>12, AppendFailsEffect DEF FlushAppendFails
  <2>2. /\ log \subseteq log' /\ log' \subseteq log \cup Queued
        /\ twice' \subseteq twice \cup Queued /\ Queued \subseteq Events
    <3>1. CASE UNCHANGED <<log, twice>>
      BY <3>1, Entries
    <3>2. ASSUME NEW read \in SUBSET DOMAIN NewEvents, Becomes(NewEvents, read)
          PROVE  /\ log \subseteq log' /\ log' \subseteq log \cup Queued
                 /\ twice' \subseteq twice \cup Queued
      <4>1. log' = log \cup Line(pending, read) /\ read \subseteq batch
        BY <3>2, BatchLines
      <4>2. Line(pending, read) \subseteq Queued
        BY <4>1, Entries
      <4>3. \A e \in twice' \ twice : \E i \in batch : pending[i] = e
        BY <3>2, BatchLines
      <4>4. \A i \in batch : pending[i] \in Queued
        BY DEF Queued, Line
      <4> QED BY <4>1, <4>2, <4>3, <4>4
    <3> QED BY <1>12, <3>1, <3>2, AppendFailsEffect, Entries DEF FlushAppendFails
  <2>3. /\ UNCHANGED <<rows, emitVars, reconVars, blind>>
        /\ fpc' = "idle" /\ pending' = <<>> /\ batch' = {}
    BY <1>12 DEF FlushAppendFails
  <2>4. pending' \in Seq(Events) /\ Queued' = {}
    BY <2>3 DEF Queued, Line
  <2>5. Shape' /\ ReconInv' /\ BatchInv'
    BY <2>1, <2>2, <2>3, <2>4
  <2>6. EmitInv'
    BY <2>1, <2>2, <2>3
  <2> QED BY <2>5, <2>6
<1>13. CASE FlushProject \/ FlushCrash
  <2>1. /\ UNCHANGED <<fileVars, emitVars, reconVars, blind>>
        /\ fpc' = "idle" /\ pending' = <<>> /\ batch' = {}
        /\ rows' = rows \/ rows' = rows \cup Line(pending, batch)
    BY <1>13 DEF FlushProject, FlushCrash
  <2>2. pending' \in Seq(Events) /\ Queued' = {}
    BY <2>1 DEF Queued, Line
  <2>3. Line(pending, batch) \subseteq Events
    BY Entries
  <2>4. rows \subseteq rows' /\ rows' \subseteq Events
    BY <2>1, <2>3
  <2> QED BY <2>1, <2>2, <2>4
<1>14. CASE UNCHANGED vars
  BY <1>14 DEF vars, Queued
<1> QED
  BY <1>1, <1>2, <1>3, <1>4, <1>5, <1>6, <1>7, <1>8, <1>9, <1>10, <1>11, <1>12, <1>13, <1>14
  DEF Next, EmitStep, Flush

-----------------------------------------------------------------------------
(* The strengthened invariant holds in every reachable state.              *)
THEOREM Invariance == Spec => []IInv
<1> QED BY InitIInv, StepIInv, PTL DEF Spec

(* Every variable of the event store keeps its type.                       *)
THEOREM TypeCorrect == Spec => []TypeOK
<1>1. IInv => TypeOK
  BY DEF IInv, Shape, TypeOK
<1> QED BY <1>1, Invariance, PTL

(* An acknowledged event that is nowhere was appended to a torn file.      *)
THEOREM LossOnlyBehindTornTail == Spec => []LossNeedsTornTail
<1>1. IInv => LossNeedsTornTail
  BY DEF IInv, EmitInv, LossNeedsTornTail
<1> QED BY <1>1, Invariance, PTL

(* A committed reconcile has projected all that was readable at its start. *)
THEOREM Healing == Spec => []ReconcileHeals
<1>1. IInv => ReconcileHeals
  BY DEF IInv, ReconInv, ReconcileHeals
<1> QED BY <1>1, Invariance, PTL

(* Of one step, only the append of a flush writes an event a second time.  *)
LEMMA StepTwice ==
  ASSUME IInv, [Next]_vars, NEW e \in twice' \ twice
  PROVE  e \in blind \/ TwiceInBatch(e)
<1> USE DEF fileVars, emitVars, reconVars, flushVars, EmitEnd
<1>1. ASSUME NEW a \in Emitters, EmitStep(a) PROVE twice' = twice
  <2>1. pc[a] = "append" => ev[a] \notin log
    BY DEF IInv, EmitInv
  <2>2. CASE EmitAppend(a)
    BY <2>1, <2>2, EmitOneLine DEF EmitAppend
  <2>3. CASE EmitAppendFails(a)
    BY <2>1, <2>3, EmitLineFails DEF EmitAppendFails, IInv, Shape, FlagTypeOK
  <2> QED BY <1>1, <2>2, <2>3 DEF EmitStep, Emit, EmitProject, EmitProjectFails, EmitCrash
<1>2. ASSUME FlushAppend \/ FlushAppendFails PROVE e \in blind \/ TwiceInBatch(e)
  <2>1. PICK read \in SUBSET DOMAIN NewEvents : Becomes(NewEvents, read)
    BY <1>2, AppendEffect, AppendFailsEffect
    DEF FlushAppend, FlushAppendFails, IInv, Shape, FlagTypeOK
  <2>2. PICK i \in batch : pending[i] = e /\ (e \in log \/ TwiceInBatch(e))
    BY <2>1, BatchLines
  <2>3. fpc = "append"
    BY <1>2 DEF FlushAppend, FlushAppendFails
  <2> QED BY <2>2, <2>3 DEF IInv, BatchInv
<1>3. CASE Reconcile \/ UNCHANGED vars
  BY <1>3 DEF Reconcile, ReconcileOpen, ReconcileRead, ReconcileCommit, ReconcileEnd, vars
<1>4. CASE FlushRead \/ FlushReadFails \/ FlushProject \/ FlushCrash
  BY <1>4 DEF FlushRead, FlushReadFails, FlushProject, FlushCrash
<1>5. ASSUME NEW f \in Events, Queue(f) PROVE twice' = twice
  BY <1>5 DEF Queue
<1> QED BY <1>1, <1>2, <1>3, <1>4, <1>5 DEF Next, Flush

(* Only a flush that could not read the file, or whose batch has the event *)
(* twice, writes it a second time.                                         *)
THEOREM DuplicatesHaveCause == Spec => DuplicateNeedsCause
<1>1. IInv /\ [Next]_vars => [\A e \in twice' \ twice : e \in blind \/ TwiceInBatch(e)]_vars
  BY StepTwice
<1> QED BY <1>1, Invariance, PTL DEF Spec, DuplicateNeedsCause
-----------------------------------------------------------------------------
(* The refinement of the journal.  What has a row or is about to get one   *)
(* was emitted or has been written to the file, so an event that emit()    *)
(* is called for is nowhere yet.                                           *)
RowInv ==
    /\ rows \subseteq log \cup glued \cup emitted
    /\ fpc = "project" => Line(pending, batch) \subseteq log \cup glued

LEMMA InitRowInv == Init => RowInv
BY DEF Init, RowInv

(* Nothing is taken out of the file or the table.                          *)
LEMMA FilesGrow ==
  ASSUME IInv, [Next]_vars
  PROVE  log \subseteq log' /\ glued \subseteq glued' /\ rows \subseteq rows'
<1> USE DEF fileVars, emitVars, reconVars, flushVars, EmitEnd
<1>1. ASSUME NEW lines, AppendMany(lines) PROVE log \subseteq log' /\ glued \subseteq glued'
  BY <1>1, AppendEffect DEF Becomes
<1>2. ASSUME NEW lines, AppendManyFails(lines) PROVE log \subseteq log' /\ glued \subseteq glued'
  BY <1>2, AppendFailsEffect DEF IInv, Shape, FlagTypeOK, Becomes
<1>3. ASSUME NEW a \in Emitters, EmitStep(a)
      PROVE  log \subseteq log' /\ glued \subseteq glued' /\ rows \subseteq rows'
  BY <1>1, <1>2, <1>3 DEF EmitStep, Emit, EmitAppend, EmitAppendFails, EmitProject,
     EmitProjectFails, EmitCrash
<1>4. CASE Reconcile
  BY <1>4 DEF Reconcile, ReconcileOpen, ReconcileRead, ReconcileCommit, ReconcileEnd
<1>5. CASE Flush
  BY <1>1, <1>2, <1>5 DEF Flush, FlushRead, FlushReadFails, FlushAppend, FlushAppendFails,
     FlushProject, FlushCrash
<1>6. ASSUME NEW e \in Events, Queue(e) PROVE UNCHANGED <<log, glued, rows>>
  BY <1>6 DEF Queue
<1> QED BY <1>3, <1>4, <1>5, <1>6 DEF Next, vars

LEMMA StepRowInv == IInv /\ RowInv /\ [Next]_vars => RowInv'
<1> SUFFICES ASSUME IInv, RowInv, [Next]_vars PROVE RowInv'
  OBVIOUS
<1> USE DEF fileVars, emitVars, reconVars, flushVars, EmitEnd
<1>0. log \subseteq log' /\ glued \subseteq glued' /\ rows \subseteq rows'
  BY FilesGrow
<1>1. ASSUME NEW a \in Emitters, EmitStep(a) PROVE RowInv'
  <2>1. emitted \subseteq emitted' /\ UNCHANGED <<fpc, pending, batch>>
    BY <1>1 DEF EmitStep, Emit, EmitAppend, EmitAppendFails, EmitProject, EmitProjectFails,
       EmitCrash
  <2>2. rows' \subseteq rows \cup emitted
    BY <1>1 DEF EmitStep, Emit, EmitAppend, EmitAppendFails, EmitProject, EmitProjectFails,
       EmitCrash, IInv, EmitInv
  <2> QED BY <1>0, <2>1, <2>2 DEF RowInv
<1>2. CASE Reconcile
  <2>1. rows' \subseteq rows \cup log /\ UNCHANGED <<log, glued, emitted, fpc, pending, batch>>
    BY <1>2 DEF Reconcile, ReconcileOpen, ReconcileRead, ReconcileCommit, ReconcileEnd, IInv,
       ReconInv
  <2> QED BY <2>1 DEF RowInv
<1>3. CASE FlushAppend
  <2>1. Line(pending, batch) \subseteq log' \cup glued'
    <3>1. PICK read \in SUBSET DOMAIN NewEvents :
               /\ Becomes(NewEvents, read)
               /\ glued' = glued \cup Line(NewEvents, DOMAIN NewEvents \ read)
      BY <1>3, AppendEffect DEF FlushAppend
    <3>2. /\ log' = log \cup Line(pending, read) /\ read \subseteq batch
          /\ glued' = glued \cup Line(pending, batch \ read)
      BY <3>1, BatchLines
    <3> QED BY <3>2 DEF Line
  <2>2. UNCHANGED <<rows, emitted, pending, batch>>
    BY <1>3 DEF FlushAppend
  <2> QED BY <1>0, <2>1, <2>2 DEF RowInv
<1>4. CASE FlushProject
  <2>1. rows' \subseteq rows \cup Line(pending, batch) /\ UNCHANGED <<log, glued, emitted>>
    BY <1>4 DEF FlushProject
  <2> QED BY <1>4, <2>1 DEF RowInv, FlushProject
<1>5. CASE FlushRead \/ FlushReadFails \/ FlushAppendFails \/ FlushCrash
  <2>1. fpc' # "project" /\ UNCHANGED <<rows, emitted>>
    BY <1>5 DEF FlushRead, FlushReadFails, FlushAppendFails, FlushCrash
  <2> QED BY <1>0, <2>1 DEF RowInv
<1>6. ASSUME NEW e \in Events, Queue(e) PROVE RowInv'
  <2>1. \A i \in batch : i \in DOMAIN pending /\ pending'[i] = pending[i]
    BY <1>6, QueueEffect DEF IInv, Shape, FlushTypeOK
  <2>2. Line(pending, batch)' = Line(pending, batch)
    BY <1>6, <2>1 DEF Queue, Line
  <2> QED BY <1>6, <2>2 DEF Queue, RowInv
<1>7. CASE UNCHANGED vars
  BY <1>7 DEF vars, RowInv
<1> QED BY <1>1, <1>2, <1>3, <1>4, <1>5, <1>6, <1>7 DEF Next, Flush

LEMMA JournalInitRefined == Init => Promise!JournalInit
BY DEF Init, Promise!JournalInit

LEMMA JournalStepRefined ==
  IInv /\ RowInv /\ [Next]_vars => [Promise!JournalNext]_(Promise!journalVars)
<1> SUFFICES ASSUME IInv, RowInv, [Next]_vars
             PROVE  [Promise!JournalNext]_(Promise!journalVars)
  OBVIOUS
<1> USE DEF fileVars, emitVars, reconVars, flushVars
<1>0. /\ \A a \in Emitters : pc[a] # "idle" => ev[a] \in Events \cap emitted
      /\ \A a \in Emitters : jsonlOk[a] => ev[a] \in log \cup glued
      /\ torn \in BOOLEAN /\ Line(pending, batch) \subseteq Queued /\ emitted \cap Queued = {}
      /\ scanned \subseteq log
      /\ \A a \in Emitters : pc[a] = "append" => ev[a] \notin log
  BY Entries DEF IInv, Shape, EmitTypeOK, FlagTypeOK, FlushTypeOK, EmitInv, ReconInv, BatchInv
<1>1. ASSUME NEW a \in Emitters, NEW e \in Events, Emit(a, e) PROVE Promise!Submit(e)
  BY <1>1 DEF Emit, RowInv, Promise!Submit
<1>2. ASSUME NEW a \in Emitters, EmitAppend(a)
      PROVE  Promise!Keep(ev[a], {}) \/ Promise!Lose(ev[a])
  <2>1. \/ log' = log \cup {ev[a]} /\ glued' = glued
        \/ log' = log /\ glued' = glued \cup {ev[a]}
    BY <1>0, <1>2, EmitOneLine DEF EmitAppend
  <2>2. ev[a] \in emitted /\ UNCHANGED <<rows, emitted, acked>>
    BY <1>0, <1>2 DEF EmitAppend
  <2> QED BY <2>1, <2>2 DEF Promise!Lose, Promise!Keep
<1>3. ASSUME NEW a \in Emitters, EmitAppendFails(a)
      PROVE  Promise!Keep(ev[a], {}) \/ UNCHANGED Promise!journalVars
  <2>1. glued' = glued /\ (log' = log \cup {ev[a]} \/ log' = log)
    BY <1>0, <1>3, EmitLineFails DEF EmitAppendFails
  <2>2. ev[a] \in emitted /\ UNCHANGED <<rows, emitted, acked>>
    BY <1>0, <1>3 DEF EmitAppendFails
  <2> QED BY <2>1, <2>2 DEF Promise!Keep, Promise!journalVars
<1>4. ASSUME NEW a \in Emitters, EmitProject(a) PROVE Promise!Keep(ev[a], {ev[a]})
  <2>1. rows' \cup log' = (rows \cup log) \cup {ev[a]} /\ UNCHANGED <<emitted, glued>>
    BY <1>4 DEF EmitProject, EmitEnd
  <2> QED BY <1>0, <1>4, <2>1 DEF EmitProject, Promise!Keep
<1>5. ASSUME NEW a \in Emitters, EmitProjectFails(a)
      PROVE  Promise!Acknowledge(ev[a]) \/ UNCHANGED Promise!journalVars
  BY <1>0, <1>5 DEF EmitProjectFails, EmitEnd, Promise!Acknowledge, Promise!journalVars
<1>6. ASSUME NEW a \in Emitters, EmitCrash(a) PROVE UNCHANGED Promise!journalVars
  BY <1>6 DEF EmitCrash, EmitEnd, Promise!journalVars
<1>7. CASE Reconcile
  <2>1. rows' \cup log' = rows \cup log /\ UNCHANGED <<emitted, glued, acked>>
    BY <1>0, <1>7 DEF Reconcile, ReconcileOpen, ReconcileRead, ReconcileCommit, ReconcileEnd
  <2> QED BY <2>1 DEF Promise!journalVars
<1>8. ASSUME NEW e \in Events, Queue(e) PROVE UNCHANGED Promise!journalVars
  BY <1>8 DEF Queue, Promise!journalVars
<1>9. ASSUME FlushAppend \/ FlushAppendFails PROVE Promise!Import
  <2> DEFINE Grown == /\ log \subseteq log' /\ log' \subseteq log \cup Queued
                      /\ glued \subseteq glued' /\ glued' \subseteq glued \cup Queued
  <2>0. ASSUME NEW read \in SUBSET DOMAIN NewEvents, Becomes(NewEvents, read)
        PROVE  /\ log \subseteq log' /\ log' \subseteq log \cup Queued
               /\ Line(NewEvents, DOMAIN NewEvents \ read) \subseteq Queued
    <3>1. /\ log' = log \cup Line(pending, read) /\ read \subseteq batch
          /\ Line(NewEvents, DOMAIN NewEvents \ read) = Line(pending, batch \ read)
      BY <2>0, BatchLines
    <3>2. Line(pending, read) \subseteq Queued /\ Line(pending, batch \ read) \subseteq Queued
      BY <3>1, Entries DEF IInv, Shape, FlushTypeOK
    <3> QED BY <3>1, <3>2
  <2>1. Grown
    <3>1. ASSUME FlushAppend PROVE Grown
      BY <2>0, <3>1, AppendEffect DEF FlushAppend
    <3>2. ASSUME FlushAppendFails PROVE Grown
      BY <1>0, <2>0, <3>2, AppendFailsEffect DEF FlushAppendFails
    <3> QED BY <1>9, <3>1, <3>2
  <2>2. UNCHANGED <<rows, emitted, acked>>
    BY <1>9 DEF FlushAppend, FlushAppendFails
  <2> QED BY <1>0, <2>1, <2>2 DEF Promise!Import
<1>10. ASSUME FlushProject PROVE Promise!Import
  <2>1. rows' \subseteq rows \cup Line(pending, batch) /\ rows \subseteq rows'
        /\ UNCHANGED <<log, glued, emitted, acked>>
    BY <1>10 DEF FlushProject
  <2> QED BY <1>0, <2>1 DEF Promise!Import
<1>11. CASE FlushRead \/ FlushReadFails \/ FlushCrash
  BY <1>11 DEF FlushRead, FlushReadFails, FlushCrash, Promise!journalVars
<1>12. CASE UNCHANGED vars
  BY <1>12 DEF vars, Promise!journalVars
<1> QED
  BY <1>0, <1>1, <1>2, <1>3, <1>4, <1>5, <1>6, <1>7, <1>8, <1>9, <1>10, <1>11, <1>12
  DEF Next, EmitStep, Flush, Promise!JournalNext, EmitAppend, EmitAppendFails, EmitProject,
      EmitProjectFails

(* File and table together implement the journal.                          *)
THEOREM JournalImplemented == Spec => ImplementsJournal
<1>1. Spec => []RowInv
  BY InitRowInv, StepRowInv, Invariance, PTL DEF Spec
<1> QED BY <1>1, JournalInitRefined, JournalStepRefined, Invariance, PTL
        DEF Spec, ImplementsJournal, Promise!JournalSpec
=============================================================================
