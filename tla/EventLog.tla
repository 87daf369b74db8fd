------------------------------- MODULE EventLog -------------------------------
(***************************************************************************)
(* The event store of a brain (_events.py): events.jsonl, an append-only   *)
(* file, and the events table, a projection of it.  emit() writes both,    *)
(* one after the other; reconcile_jsonl_to_sqlite, which every opening of  *)
(* the brain runs, replays the file into the table; a RetainOrchestrator   *)
(* writes a batch of queued events to both and is meant not to write again *)
(* what is in the file.                                                    *)
(*                                                                         *)
(* An event stands for its identity: the event_id of an emitted event, the *)
(* ts|type|source key of a queued one.  Appends hold the file lock, so     *)
(* they do not interleave; but one that fails half way (disk full, power   *)
(* lost) leaves the file without a final newline, and the first line of    *)
(* the next append is glued to the fragment, unreadable.                   *)
(***************************************************************************)
EXTENDS Integers, FiniteSets, Sequences

CONSTANTS Events,         \* events the behaviours may emit or queue
          Emitters,       \* concurrent callers of emit()
          Nil,            \* no event
          MaxQueue        \* bound on the entries of the queue

ASSUME EventLogAssumption == Nil \notin Events /\ MaxQueue \in Nat

VARIABLES
    log, torn,            \* events.jsonl: readable events / no final newline
    rows,                 \* events with a row in system.db
    pc, ev, jsonlOk,      \* per emitter: where it is, its event, jsonl_ok
    emitted, acked,       \* history: emit() called / returned, not raised
    glued,                \* history: appended to a torn file
    rpc, scanned, due,    \* reconcile: where it is, what it read;
                          \*   history: what was readable when it opened the file
    fpc, pending,         \* RetainOrchestrator.flush: where it is, self._pending
    batch,                \* new_events: positions in the queue
    twice, blind          \* history: on two readable lines / batch written
                          \*   although the file could not be read

fileVars  == <<log, torn, glued, twice>>
emitVars  == <<pc, ev, jsonlOk, emitted, acked>>
reconVars == <<rpc, scanned, due>>
flushVars == <<fpc, pending, batch, blind>>
vars == <<fileVars, rows, emitVars, reconVars, flushVars>>

Init ==
    /\ log = {} /\ torn = FALSE /\ glued = {} /\ twice = {}
    /\ rows = {}
    /\ pc = [a \in Emitters |-> "idle"]
    /\ ev = [a \in Emitters |-> Nil]
    /\ jsonlOk = [a \in Emitters |-> FALSE]
    /\ emitted = {} /\ acked = {}
    /\ rpc = "idle" /\ scanned = {} /\ due = {}
    /\ fpc = "idle" /\ pending = <<>> /\ batch = {} /\ blind = {}
-----------------------------------------------------------------------------
(* _locked_append_many: lines is a function from positions to events, and  *)
(* read the positions whose lines end up readable.                         *)
Line(lines, at) == {lines[i] : i \in at}

Becomes(lines, read) ==
    /\ log' = log \cup Line(lines, read)
    /\ twice' = twice \cup Line(lines, {i \in read :
                   lines[i] \in log \/ \E j \in read \ {i} : lines[j] = lines[i]})

\* The lines that a torn file leaves readable: all but the first.
Unglued(at) == IF torn THEN {i \in at : \E j \in at : j < i} ELSE at

AppendMany(lines) ==
    /\ Becomes(lines, Unglued(DOMAIN lines))
    /\ glued' = glued \cup Line(lines, DOMAIN lines \ Unglued(DOMAIN lines))
    /\ torn' = FALSE

\* The write fails before its first byte, or within the line at cut.
AppendManyFails(lines) ==
    \/ UNCHANGED fileVars
    \/ \E cut \in DOMAIN lines :
         /\ Becomes(lines, Unglued({i \in DOMAIN lines : i < cut}))
         /\ torn' = TRUE
         /\ UNCHANGED glued
-----------------------------------------------------------------------------
(* The events of the queue.                                                *)
Queued == Line(pending, DOMAIN pending)

(* emit: the file first, then the table.  Every call has a fresh event_id. *)
Emit(a, e) ==
    /\ pc[a] = "idle" /\ e \notin emitted \cup Queued \cup log \cup glued
    /\ emitted' = emitted \cup {e}
    /\ pc' = [pc EXCEPT ![a] = "append"]
    /\ ev' = [ev EXCEPT ![a] = e]
    /\ UNCHANGED <<fileVars, rows, jsonlOk, acked, reconVars, flushVars>>

EmitAppend(a) ==
    /\ pc[a] = "append"
    /\ AppendMany(<<ev[a]>>)
    /\ pc' = [pc EXCEPT ![a] = "project"]
    /\ jsonlOk' = [jsonlOk EXCEPT ![a] = TRUE]
    /\ UNCHANGED <<rows, ev, emitted, acked, reconVars, flushVars>>

EmitAppendFails(a) ==
    /\ pc[a] = "append"
    /\ AppendManyFails(<<ev[a]>>)
    /\ pc' = [pc EXCEPT ![a] = "project"]
    /\ UNCHANGED <<rows, ev, jsonlOk, emitted, acked, reconVars, flushVars>>

EmitEnd(a) ==
    /\ pc' = [pc EXCEPT ![a] = "idle"]
    /\ ev' = [ev EXCEPT ![a] = Nil]
    /\ jsonlOk' = [jsonlOk EXCEPT ![a] = FALSE]
    /\ UNCHANGED <<fileVars, emitted, reconVars, flushVars>>

EmitProject(a) ==
    /\ pc[a] = "project"
    /\ rows' = rows \cup {ev[a]}
    /\ acked' = acked \cup {ev[a]}
    /\ EmitEnd(a)

\* MUTANT: the error of the table is logged and nothing is raised.
EmitProjectFailsUnraised(a) ==
    /\ pc[a] = "project"
    /\ acked' = acked \cup {ev[a]}
    /\ EmitEnd(a) /\ UNCHANGED rows

\* EventPersistenceError is raised if the file has failed too.
EmitProjectFails(a) ==
    /\ pc[a] = "project"
    /\ acked' = IF jsonlOk[a] THEN acked \cup {ev[a]} ELSE acked
    /\ EmitEnd(a) /\ UNCHANGED rows

EmitCrash(a) ==
    /\ pc[a] # "idle"
    /\ EmitEnd(a) /\ UNCHANGED <<rows, acked>>
-----------------------------------------------------------------------------
(* reconcile_jsonl_to_sqlite: the file is opened, read to its end while    *)
(* appends go on, and its readable lines are inserted in one transaction.  *)
ReconcileOpen ==
    /\ rpc = "idle"
    /\ rpc' = "read" /\ due' = log /\ scanned' = {}
    /\ UNCHANGED <<fileVars, rows, emitVars, flushVars>>

ReconcileRead ==
    /\ rpc = "read"
    /\ rpc' = "commit" /\ scanned' = log
    /\ UNCHANGED <<fileVars, rows, emitVars, due, flushVars>>

\* MUTANT: nothing is replayed unless the file has more events than the table.
ReconcileDrift ==
    /\ rpc = "commit"
    /\ rows' = IF Cardinality(scanned) > Cardinality(rows) THEN rows \cup scanned ELSE rows
    /\ rpc' = "done"
    /\ UNCHANGED <<fileVars, emitVars, scanned, due, flushVars>>

\* MUTANT: the table is rebuilt from the file.
ReconcileRebuild ==
    /\ rpc = "commit"
    /\ rows' = scanned
    /\ rpc' = "done"
    /\ UNCHANGED <<fileVars, emitVars, scanned, due, flushVars>>

ReconcileCommit ==
    /\ rpc = "commit"
    /\ rows' = rows \cup scanned
    /\ rpc' = "done" /\ scanned' = {}
    /\ UNCHANGED <<fileVars, emitVars, due, flushVars>>

\* It returns; or a database error or a crash ends it before the commit.
ReconcileEnd ==
    /\ rpc # "idle"
    /\ rpc' = "idle" /\ scanned' = {} /\ due' = {}
    /\ UNCHANGED <<fileVars, rows, emitVars, flushVars>>
-----------------------------------------------------------------------------
(* RetainOrchestrator.  A producer that is restarted queues again what it  *)
(* cannot know to be persisted; queue() tests nothing, so that an event    *)
(* may be in the list more than once, and the list grows under a flush.    *)
Queue(e) ==
    /\ e \notin emitted /\ Len(pending) < MaxQueue
    /\ pending' = Append(pending, e)
    /\ UNCHANGED <<fileVars, rows, emitVars, reconVars, fpc, batch, blind>>

\* MUTANT: the delta is computed for the result only, and all is written.
WholeQueue == DOMAIN pending

(* Phase 1: the delta, against the file and not within the list.  A file   *)
(* that cannot be read counts as empty.                                    *)
Delta == {i \in DOMAIN pending : pending[i] \notin log}

NewEvents == [i \in batch |-> pending[i]]

\* MUTANT: no early return when there is nothing new.
FlushReadOn ==
    /\ fpc = "idle" /\ pending # <<>>
    /\ batch' = Delta
    /\ fpc' = "append"
    /\ UNCHANGED <<fileVars, rows, emitVars, reconVars, pending, blind>>

FlushRead ==
    /\ fpc = "idle" /\ pending # <<>>
    /\ batch' = Delta
    /\ IF Delta = {} THEN pending' = <<>> /\ fpc' = "idle"
                     ELSE UNCHANGED pending /\ fpc' = "append"
    /\ UNCHANGED <<fileVars, rows, emitVars, reconVars, blind>>

FlushReadFails ==
    /\ fpc = "idle" /\ pending # <<>>
    /\ batch' = DOMAIN pending /\ blind' = blind \cup Queued
    /\ fpc' = "append"
    /\ UNCHANGED <<fileVars, rows, emitVars, reconVars, pending>>

(* Phase 2: one locked append, then the table.                             *)
FlushAppend ==
    /\ fpc = "append"
    /\ AppendMany(NewEvents)
    /\ fpc' = "project"
    /\ UNCHANGED <<rows, emitVars, reconVars, pending, batch, blind>>

\* The queue is cleared as well when the append fails.
FlushAppendFails ==
    /\ fpc = "append"
    /\ AppendManyFails(NewEvents)
    /\ fpc' = "idle" /\ pending' = <<>> /\ batch' = {}
    /\ UNCHANGED <<rows, emitVars, reconVars, blind>>

FlushProject ==
    /\ fpc = "project"
    /\ rows' \in {rows, rows \cup Line(pending, batch)}
    /\ fpc' = "idle" /\ pending' = <<>> /\ batch' = {}
    /\ UNCHANGED <<fileVars, emitVars, reconVars, blind>>

FlushCrash ==
    /\ pending # <<>>
    /\ fpc' = "idle" /\ pending' = <<>> /\ batch' = {}
    /\ UNCHANGED <<fileVars, rows, emitVars, reconVars, blind>>
-----------------------------------------------------------------------------
EmitStep(a) ==
    \/ \E e \in Events : Emit(a, e)
    \/ EmitAppend(a) \/ EmitAppendFails(a)
    \/ EmitProject(a) \/ EmitProjectFails(a) \/ EmitCrash(a)

Reconcile == ReconcileOpen \/ ReconcileRead \/ ReconcileCommit \/ ReconcileEnd

Flush ==
    \/ FlushRead \/ FlushReadFails \/ FlushAppend \/ FlushAppendFails
    \/ FlushProject \/ FlushCrash

Next ==
    \/ \E a \in Emitters : EmitStep(a)
    \/ Reconcile
    \/ \E e \in Events : Queue(e)
    \/ Flush

Spec == Init /\ [][Next]_vars
-----------------------------------------------------------------------------
(* The shape of every variable; a flush has something to write whenever it *)
(* gets past phase 1, and an emitter an event exactly while it is at work. *)
FileTypeOK ==
    /\ log \in SUBSET Events /\ rows \in SUBSET Events
    /\ glued \in SUBSET Events /\ twice \in SUBSET Events
EmitTypeOK ==
    /\ pc \in [Emitters -> {"idle", "append", "project"}]
    /\ ev \in [Emitters -> Events \cup {Nil}]
    /\ emitted \in SUBSET Events /\ acked \in SUBSET Events
    /\ \A a \in Emitters : pc[a] = "idle" <=> ev[a] = Nil
ReconTypeOK ==
    /\ rpc \in {"idle", "read", "commit", "done"}
    /\ scanned \in SUBSET Events /\ due \in SUBSET Events
FlushTypeOK ==
    /\ fpc \in {"idle", "append", "project"}
    /\ pending \in Seq(Events) /\ batch \in SUBSET DOMAIN pending
    /\ blind \in SUBSET Events
    /\ fpc = "idle" <=> batch = {}
FlagTypeOK == torn \in BOOLEAN /\ jsonlOk \in [Emitters -> BOOLEAN]
TypeOK == FileTypeOK /\ EmitTypeOK /\ ReconTypeOK /\ FlushTypeOK /\ FlagTypeOK

(* An event whose emit() returned is in the table or readable in the file, *)
(* whichever of the two writes failed and whoever crashed since; the one   *)
(* exception is an event glued to the fragment of a failed append.         *)
LossNeedsTornTail == acked \subseteq rows \cup log \cup glued

(* A reconcile that commits has healed the lag: each line that was         *)
(* readable when it opened the file has its row, although emits and        *)
(* flushes went on meanwhile and rows without a line may outnumber lines   *)
(* without a row.                                                          *)
ReconcileHeals == rpc = "done" => due \subseteq rows

(* A line is written a second time, through any crash, retry and           *)
(* concurrent emit, only by a flush that could not read the file and went  *)
(* on as if it were empty, or by one whose own batch has the event twice   *)
(* because it was queued twice since the last flush.                       *)
TwiceInBatch(e) == \E i, j \in batch : i # j /\ pending[i] = e /\ pending[j] = e
DuplicateNeedsCause == [][\A e \in twice' \ twice : e \in blind \/ TwiceInBatch(e)]_vars

(* Phase 1 "identif[ies] which queued events are already persisted so      *)
(* interrupted writes never duplicate data" (_events.py:770): an event     *)
(* that is queued once for each flush is on at most one line.              *)
RetryNeverDuplicates == [][\A e \in twice' \ twice : TwiceInBatch(e)]_vars

(* File and table together implement the journal: an event that either of  *)
(* them holds is never lost again, whatever fails, crashes, is flushed or  *)
(* is replayed afterwards; it got there because it was emitted or queued;  *)
(* and emit() returns without raising only for such an event, or for one   *)
(* glued to a torn line.                                                   *)
Promise == INSTANCE Journal WITH durable <- rows \cup log, lost <- glued
ImplementsJournal == Promise!JournalSpec
=============================================================================
