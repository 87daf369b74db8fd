------------------------------- MODULE CloudPush -------------------------------
(***************************************************************************)
(* The two pushers of the events table, each with a watermark of its own   *)
(* and no lock around reading it, posting and writing it back:             *)
(* push_pending_events (cloud/push.py), which goes by event_id in batches, *)
(* and the daemon's POST /sync (daemon.py), which goes by row id, one      *)
(* batch per request, every request in a thread of its own.                *)
(*                                                                         *)
(* An event is the rank of its event_id.  Rows are committed in any order  *)
(* of rank: two processes commit in another order than they mint, a ULID   *)
(* is random within its millisecond, and reconcile inserts events that are *)
(* older than what the table has.  A row's id is its place in the table.   *)
(* Both endpoints are external and store an event once however often it    *)
(* comes.                                                                  *)
(***************************************************************************)
EXTENDS Integers, Sequences, FiniteSets

CONSTANTS MaxEvents,      \* bound: events of a behaviour
          Before,         \* of them, the first are there and pushed at the start
          Foreign,        \* events of another tenant
          Pushers,        \* callers of push_pending_events
          Chunk,          \* chunk_size
          MaxRetries,     \* max_retries
          Syncers,        \* threads of the daemon, one per /sync request
          SyncLimit       \* SYNC_BATCH_LIMIT

ASSUME CloudPushAssumption ==
    /\ MaxEvents \in Nat /\ Before \in 0..MaxEvents /\ Foreign \subseteq Before + 1..MaxEvents
    /\ Chunk \in Nat \ {0} /\ MaxRetries \in Nat /\ SyncLimit \in Nat \ {0}

VARIABLES
    table,                \* the events table, in row order
    mark,                 \* sync_state.last_push_event_id; 0 is none
    held,                 \* events /events/push has stored
    pc, last, batch, tries,   \* per pusher: its place, last_id, its batch, failed attempts
    file,                 \* the number .sync_cron_watermark holds; 0 if absent or unreadable
    tmp,                  \* the number its .tmp file holds; 0 if empty
    shown,                \* events the /sync endpoint has stored
    at, from, to, fd,     \* per syncer: its place, the watermark it read, its
                          \*   last row, and the file its open handle writes to
    fetched, late,        \* history: the largest event pushed so far; events
                          \*   committed below it
    spliced               \* history: a numeral was written over a longer one

pushVars == <<mark, held, pc, last, batch, tries>>
syncVars == <<file, tmp, shown, at, from, to, fd, spliced>>
vars     == <<table, pushVars, syncVars, fetched, late>>

Events  == 1..MaxEvents
Missing == -1
Rows    == {table[i] : i \in 1..Len(table)}
Own     == Rows \ Foreign

LargestOf(S) == CHOOSE x \in S : \A y \in S : y <= x

Init ==
    /\ table = [i \in 1..Before |-> i]
    /\ mark = Before /\ held = 1..Before
    /\ pc = [p \in Pushers |-> "off"] /\ last = [p \in Pushers |-> 0]
    /\ batch = [p \in Pushers |-> {}] /\ tries = [p \in Pushers |-> 0]
    /\ file = Before /\ tmp = Missing /\ shown = 1..Before
    /\ at = [s \in Syncers |-> "off"] /\ from = [s \in Syncers |-> 0]
    /\ to = [s \in Syncers |-> 0] /\ fd = [s \in Syncers |-> "none"]
    /\ fetched = Before /\ late = {} /\ spliced = FALSE

\* An emit, or a reconcile, commits a row.
Commit(e) ==
    /\ e \notin Rows
    /\ table' = Append(table, e)
    /\ late' = IF e < fetched THEN late \cup {e} ELSE late
    /\ UNCHANGED <<pushVars, syncVars, fetched>>
-----------------------------------------------------------------------------
(* push_pending_events.  The run is allowed and its watermark is read.     *)
Begin(p) ==
    /\ pc[p] = "off"
    /\ pc' = [pc EXCEPT ![p] = "fetch"]
    /\ last' = [last EXCEPT ![p] = mark]
    /\ UNCHANGED <<table, mark, held, batch, tries, syncVars, fetched, late>>

\* The run returns, or raises and is made to return.
Leave(p) ==
    /\ pc' = [pc EXCEPT ![p] = "off"]
    /\ last' = [last EXCEPT ![p] = 0]
    /\ batch' = [batch EXCEPT ![p] = {}]
    /\ tries' = [tries EXCEPT ![p] = 0]

\* _fetch_events_since: the first rows of the tenant above last_id.
Above(p) == {e \in Own : e > last[p]}
FirstOf(T) == {e \in T : Cardinality({f \in T : f < e}) < Chunk}

\* MUTANT: ORDER BY event_id is gone.
FetchUnordered(p) ==
    /\ pc[p] = "fetch" /\ Above(p) # {}
    /\ \E S \in SUBSET Above(p) :
        /\ S = Above(p) \/ Cardinality(S) = Chunk
        /\ batch' = [batch EXCEPT ![p] = S]
    /\ fetched' = IF LargestOf(batch'[p]) > fetched THEN LargestOf(batch'[p]) ELSE fetched
    /\ pc' = [pc EXCEPT ![p] = "post"]
    /\ tries' = [tries EXCEPT ![p] = 0]
    /\ UNCHANGED <<table, mark, held, last, syncVars, late>>

Fetch(p) ==
    /\ pc[p] = "fetch" /\ Above(p) # {}
    /\ batch' = [batch EXCEPT ![p] = FirstOf(Above(p))]
    /\ fetched' = IF LargestOf(batch'[p]) > fetched THEN LargestOf(batch'[p]) ELSE fetched
    /\ pc' = [pc EXCEPT ![p] = "post"]
    /\ tries' = [tries EXCEPT ![p] = 0]
    /\ UNCHANGED <<table, mark, held, last, syncVars, late>>

\* Nothing is left: the run returns "ok".
Done(p) ==
    /\ pc[p] = "fetch" /\ Above(p) = {}
    /\ Leave(p)
    /\ UNCHANGED <<table, mark, held, syncVars, fetched, late>>

\* MUTANT: a 2xx is taken for an acceptance of the whole batch.
PartialTrusted(p) ==
    /\ pc[p] = "post"
    /\ \E S \in SUBSET batch[p] : held' = held \cup S
    /\ pc' = [pc EXCEPT ![p] = "mark"]
    /\ UNCHANGED <<table, mark, last, batch, tries, syncVars, fetched, late>>

(* _post_batch and what its answer means.  A 2xx that leaves nothing out.  *)
Accepted(p) ==
    /\ pc[p] = "post"
    /\ held' = held \cup batch[p]
    /\ pc' = [pc EXCEPT ![p] = "mark"]
    /\ UNCHANGED <<table, mark, last, batch, tries, syncVars, fetched, late>>

\* A 2xx that rejects some, or a 4xx: the run is over.
Refused(p) ==
    /\ pc[p] = "post"
    /\ \E S \in SUBSET batch[p] : held' = held \cup S
    /\ Leave(p)
    /\ UNCHANGED <<table, mark, syncVars, fetched, late>>

\* A 5xx, a network error, or a 2xx that is no JSON: the batch may be stored.
Lost(p) ==
    /\ pc[p] = "post"
    /\ \E S \in {{}, batch[p]} : held' = held \cup S
    /\ IF tries[p] < MaxRetries
       THEN tries' = [tries EXCEPT ![p] = @ + 1] /\ UNCHANGED <<pc, last, batch>>
       ELSE Leave(p)
    /\ UNCHANGED <<table, mark, syncVars, fetched, late>>

\* _write_watermark, whatever another run has written meanwhile.
WriteWatermark(p) ==
    /\ pc[p] = "mark"
    /\ mark' = LargestOf(batch[p])
    /\ last' = [last EXCEPT ![p] = LargestOf(batch[p])]
    /\ batch' = [batch EXCEPT ![p] = {}]
    /\ pc' = [pc EXCEPT ![p] = "fetch"]
    /\ UNCHANGED <<table, held, tries, syncVars, fetched, late>>

\* The database refuses a statement, or the process ends.
Abort(p) ==
    /\ pc[p] # "off"
    /\ Leave(p)
    /\ UNCHANGED <<table, mark, held, syncVars, fetched, late>>

Push(p) == Fetch(p) \/ Done(p) \/ Accepted(p) \/ Refused(p) \/ Lost(p) \/ WriteWatermark(p)
-----------------------------------------------------------------------------
(* POST /sync.  The watermark file is read before the brain lock is taken. *)
ReadFile(s) ==
    /\ at[s] = "off"
    /\ from' = [from EXCEPT ![s] = file]
    /\ at' = [at EXCEPT ![s] = "select"]
    /\ UNCHANGED <<table, pushVars, file, tmp, shown, to, fd, fetched, late, spliced>>

SyncDone(s) ==
    /\ at' = [at EXCEPT ![s] = "off"] /\ from' = [from EXCEPT ![s] = 0]
    /\ to' = [to EXCEPT ![s] = 0]

\* MUTANT: the limit is taken for the number of rows.
SelectByLimit(s) ==
    /\ at[s] = "select"
    /\ IF from[s] >= Len(table)
       THEN SyncDone(s)
       ELSE /\ to' = [to EXCEPT ![s] = from[s] + SyncLimit]
            /\ at' = [at EXCEPT ![s] = "post"]
            /\ UNCHANGED from
    /\ UNCHANGED <<table, pushVars, file, tmp, shown, fd, fetched, late, spliced>>

\* The rows above it, up to the limit; with none, a heartbeat is all.
Select(s) ==
    /\ at[s] = "select"
    /\ IF from[s] >= Len(table)
       THEN SyncDone(s)
       ELSE /\ to' = [to EXCEPT ![s] = IF from[s] + SyncLimit < Len(table)
                                       THEN from[s] + SyncLimit ELSE Len(table)]
            /\ at' = [at EXCEPT ![s] = "post"]
            /\ UNCHANGED from
    /\ UNCHANGED <<table, pushVars, file, tmp, shown, fd, fetched, late, spliced>>

Payload(s) == {table[i] : i \in from[s] + 1..to[s]}

\* Any 2xx is taken for the whole batch, and here it is.
Posted(s) ==
    /\ at[s] = "post"
    /\ shown' = shown \cup Payload(s)
    /\ at' = [at EXCEPT ![s] = "open"]
    /\ UNCHANGED <<table, pushVars, file, tmp, from, to, fd, fetched, late, spliced>>

\* MUTANT: a lost answer is taken for a 2xx.
NotPostedTrusted(s) ==
    /\ at[s] = "post"
    /\ \E S \in {{}, Payload(s)} : shown' = shown \cup S
    /\ at' = [at EXCEPT ![s] = "open"]
    /\ UNCHANGED <<table, pushVars, file, tmp, from, to, fd, fetched, late, spliced>>

NotPosted(s) ==
    /\ at[s] = "post"
    /\ \E S \in {{}, Payload(s)} : shown' = shown \cup S
    /\ SyncDone(s)
    /\ UNCHANGED <<table, pushVars, file, tmp, fd, fetched, late, spliced>>

(* write_text of the .tmp file: opened and emptied, then written at once.  *)
(* A handle follows its file through a rename by another request.          *)
OpenTmp(s) ==
    /\ at[s] = "open"
    /\ tmp' = 0
    /\ fd' = [fd EXCEPT ![s] = "tmp"]
    /\ at' = [at EXCEPT ![s] = "write"]
    /\ UNCHANGED <<table, pushVars, file, shown, from, to, fetched, late, spliced>>

(* int(str(n)) is n, but a numeral written over a longer one keeps the     *)
(* last digits of that: the power of ten that they take is at most old.    *)
Width(n) == CHOOSE w \in 1..n + 1 : n < 10 ^ w /\ (w = 1 \/ n >= 10 ^ (w - 1))
Longer(old, n) == Width(old) > Width(n)

Overwritten(old, n) ==
    IF Longer(old, n)
    THEN {n * rest + (old % rest) : rest \in {r \in 1..old : r = 10 ^ (Width(old) - Width(n))}}
    ELSE {n}

WriteTmp(s) ==
    /\ at[s] = "write"
    /\ IF fd[s] = "tmp"  THEN tmp'  \in Overwritten(tmp, to[s])  ELSE UNCHANGED tmp
    /\ IF fd[s] = "file" THEN file' \in Overwritten(file, to[s]) ELSE UNCHANGED file
    /\ spliced' = \/ spliced
                  \/ fd[s] = "tmp" /\ Longer(tmp, to[s])
                  \/ fd[s] = "file" /\ Longer(file, to[s])
    /\ fd' = [fd EXCEPT ![s] = "none"]
    /\ at' = [at EXCEPT ![s] = "replace"]
    /\ UNCHANGED <<table, pushVars, shown, from, to, fetched, late>>

\* os.replace; if another request has replaced it already, this one fails.
Replace(s) ==
    /\ at[s] = "replace"
    /\ IF tmp = Missing THEN UNCHANGED <<file, fd>>
       ELSE /\ file' = tmp
            /\ fd' = [x \in Syncers |-> IF fd[x] = "tmp" THEN "file"
                                        ELSE IF fd[x] = "file" THEN "gone" ELSE fd[x]]
    /\ tmp' = Missing
    /\ SyncDone(s)
    /\ UNCHANGED <<table, pushVars, shown, fetched, late, spliced>>

\* The daemon ends; the files stay.
Shutdown ==
    /\ \E s \in Syncers : at[s] # "off"
    /\ at' = [s \in Syncers |-> "off"] /\ from' = [s \in Syncers |-> 0]
    /\ to' = [s \in Syncers |-> 0] /\ fd' = [s \in Syncers |-> "none"]
    /\ UNCHANGED <<table, pushVars, file, tmp, shown, fetched, late, spliced>>

Sync(s) == Select(s) \/ Posted(s) \/ NotPosted(s) \/ OpenTmp(s) \/ WriteTmp(s) \/ Replace(s)

Next ==
    \/ \E e \in Events : Commit(e)
    \/ \E p \in Pushers : Begin(p) \/ Push(p) \/ Abort(p)
    \/ \E s \in Syncers : ReadFile(s) \/ Sync(s)
    \/ Shutdown

Spec == Init /\ [][Next]_vars
-----------------------------------------------------------------------------
(* The shape of every variable.                                            *)
PushTypeOK ==
    /\ mark \in 0..MaxEvents /\ held \subseteq Own
    /\ pc \in [Pushers -> {"off", "fetch", "post", "mark"}]
    /\ last \in [Pushers -> 0..MaxEvents] /\ batch \in [Pushers -> SUBSET Own]
    /\ tries \in [Pushers -> 0..MaxRetries]
    /\ \A p \in Pushers : pc[p] \in {"post", "mark"} => batch[p] # {}
SyncTypeOK ==
    /\ file \in Nat /\ tmp \in Nat \cup {Missing} /\ shown \subseteq Rows
    /\ at \in [Syncers -> {"off", "select", "post", "open", "write", "replace"}]
    /\ from \in [Syncers -> Nat] /\ to \in [Syncers -> 0..Len(table)]
    /\ fd \in [Syncers -> {"none", "tmp", "file", "gone"}] /\ spliced \in BOOLEAN
TypeOK ==
    /\ table \in Seq(Events) /\ fetched \in 0..MaxEvents /\ late \subseteq Rows
    /\ \A i, j \in 1..Len(table) : table[i] = table[j] => i = j
    /\ PushTypeOK /\ SyncTypeOK

(* The watermark of /events/push vouches for what is below it: whatever    *)
(* the answers, the crashes and the other run that writes it, an event of  *)
(* this tenant at or below it is stored, unless it was committed after a   *)
(* larger one had been fetched.                                            *)
WatermarkSafe == \A e \in Own \ late : e <= mark => e \in held

(* "ok" means nothing is pending: when a run finds no more rows, every     *)
(* event of the tenant in the table is stored, save the late ones.         *)
OkMeansPushed ==
    [][\A p \in Pushers : Done(p) => Own \ late \subseteq held]_vars

(* A run gets on: an accepted batch takes it to rows above all it has seen *)
(* and what comes later, so that it ends when the rows do.                 *)
RunAdvances ==
    [][\A p \in Pushers :
         pc[p] = "mark" /\ pc'[p] = "fetch" => last'[p] > last[p] /\ batch[p] \cap Above(p)' = {}]_vars

(* The watermark of /sync vouches for every row below it, although two     *)
(* requests read, post and write it, and its .tmp file, at the same time,  *)
(* as long as none has written its numeral over a longer one.              *)
WatermarkVouches == \A i \in 1..Len(table) : i <= file => table[i] \in shown
SyncSkipsNothing == ~spliced => WatermarkVouches

(* "Push new events past the watermark" (daemon.py:791): a row that the    *)
(* watermark is past has been pushed.                                      *)
SyncPushesPastWatermark == WatermarkVouches
=============================================================================
