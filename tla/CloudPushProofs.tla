---------------------------- MODULE CloudPushProofs ----------------------------
(***************************************************************************)
(* Proofs about CloudPush.  Its two halves share the table alone and are   *)
(* taken one by one: PushInv carries what push_pending_events promises,    *)
(* SyncInv what the daemon's /sync does.                                   *)
(***************************************************************************)
EXTENDS CloudPush, FiniteSetTheorems, WellFoundedInduction, TLAPS

\* The table, and what the history variables say of it.
TableInv ==
    /\ table \in Seq(Events) /\ late \subseteq Rows
    /\ \A i, j \in 1..Len(table) : table[i] = table[j] => i = j
    /\ fetched \in Rows \cup {0}

\* All the tenant's events up to n are in S, the late ones apart.
AllIn(n, S) == \A e \in Own \ late : e <= n => e \in S

\* The watermark and every run's last_id vouch for what is below them, and
\* a batch leaves nothing out between the last_id and its largest event.
PushInv ==
    /\ PushTypeOK
    /\ AllIn(mark, held) /\ mark <= fetched
    /\ \A p \in Pushers :
        /\ AllIn(last[p], held) /\ last[p] <= fetched
        /\ pc[p] \in {"post", "mark"} =>
             /\ \A e \in batch[p] : last[p] < e /\ e <= fetched
             /\ AllIn(LargestOf(batch[p]), held \cup batch[p])
        /\ pc[p] = "mark" => batch[p] \subseteq held

IInvPush == TableInv /\ PushInv

-----------------------------------------------------------------------------
(* A set of naturals that is not empty has a smallest element.             *)
LEMMA Smallest ==
    ASSUME NEW S \in SUBSET Nat, S # {}
    PROVE  \E x \in S : \A y \in S : x <= y
<1>1. \E x \in S : \A y \in S : ~(<<y, x>> \in OpToRel(<, Nat))
  BY NatLessThanWellFounded, WFMin
<1>2. PICK x \in S : \A y \in S : ~(<<y, x>> \in OpToRel(<, Nat))
  BY <1>1
<1>3. ASSUME NEW y \in S PROVE x <= y
  <2>1. <<y, x>> \in Nat \X Nat /\ <<y, x>>[1] = y /\ <<y, x>>[2] = x
    OBVIOUS
  <2>2. ~(y < x)
    BY <1>2, <2>1 DEF OpToRel
  <2> QED BY <2>2
<1> QED BY <1>2, <1>3

(* A set of events that is not empty has a largest one.                    *)
LEMMA Largest ==
    ASSUME NEW S \in SUBSET Events, S # {}
    PROVE  LargestOf(S) \in S /\ \A y \in S : y <= LargestOf(S)
<1> USE CloudPushAssumption DEF Events
<1> DEFINE T == {MaxEvents - y : y \in S}
<1>0. \A y \in S : y \in Nat /\ y <= MaxEvents /\ MaxEvents - y \in Nat
  OBVIOUS
<1>1. T \in SUBSET Nat /\ T # {}
  BY <1>0
<1>2. PICK t \in T : \A u \in T : t <= u
  <2> HIDE DEF T
  <2> QED BY <1>1, Smallest
<1>3. PICK x \in S : t = MaxEvents - x
  BY <1>2
<1>4. \A y \in S : y <= x
  <2> SUFFICES ASSUME NEW y \in S PROVE y <= x
    OBVIOUS
  <2>1. MaxEvents - x <= MaxEvents - y
    BY <1>2, <1>3
  <2> QED BY <2>1
<1>5. \E z \in S : \A y \in S : y <= z
  BY <1>4
<1> QED BY <1>5 DEF LargestOf

(* What LIMIT takes: some of the rows, the lowest, one at least.           *)
LEMMA FirstFacts ==
    ASSUME NEW T \in SUBSET Events, T # {}
    PROVE  /\ FirstOf(T) \subseteq T /\ FirstOf(T) # {}
           /\ \A g \in FirstOf(T), e \in T : e <= g => e \in FirstOf(T)
<1> USE CloudPushAssumption DEF Events
<1> DEFINE Below(e) == {f \in T : f < e}
<1>1. \A e \in T : IsFiniteSet(Below(e))
  <2>1. IsFiniteSet(1..MaxEvents)
    BY FS_Interval
  <2> SUFFICES ASSUME NEW e \in T PROVE IsFiniteSet(Below(e))
    OBVIOUS
  <2>2. Below(e) \in SUBSET (1..MaxEvents)
    OBVIOUS
  <2> HIDE DEF Below
  <2> QED BY <2>1, <2>2, FS_Subset
<1>2. FirstOf(T) = {e \in T : Cardinality(Below(e)) < Chunk}
  BY DEF FirstOf
<1>3. PICK m \in T : \A y \in T : m <= y
  BY Smallest
<1>0. \A y \in T : y \in Nat
  OBVIOUS
<1>4. \A y : y \notin Below(m)
  <2> SUFFICES ASSUME NEW y \in T, y < m PROVE FALSE
    OBVIOUS
  <2> QED BY <1>0, <1>3
<1>5. m \in FirstOf(T)
  <2>1. Cardinality(Below(m)) = 0
    <3>1. Below(m) = {}
      BY <1>4
    <3> QED BY <3>1, FS_EmptySet
  <2> HIDE DEF Below
  <2> QED BY <1>2, <2>1
<1>6. ASSUME NEW g \in FirstOf(T), NEW e \in T, e <= g PROVE e \in FirstOf(T)
  <2>1. g \in T /\ Cardinality(Below(g)) < Chunk
    BY <1>2
  <2>2. Below(e) \in SUBSET Below(g)
    <3> SUFFICES ASSUME NEW y \in T, y < e PROVE y < g
      OBVIOUS
    <3> QED BY <1>0, <1>6, <2>1
  <2>3. IsFiniteSet(Below(g)) /\ IsFiniteSet(Below(e))
    BY <1>1, <2>1
  <2> HIDE DEF Below
  <2>4. Cardinality(Below(e)) <= Cardinality(Below(g))
    BY <2>2, <2>3, FS_Subset
  <2>5. Cardinality(Below(e)) \in Nat /\ Cardinality(Below(g)) \in Nat
    BY <2>3, FS_CardinalityType
  <2>6. Cardinality(Below(e)) < Chunk
    BY <2>1, <2>4, <2>5
  <2> QED BY <1>2, <2>6
<1> QED BY <1>2, <1>5, <1>6

-----------------------------------------------------------------------------
LEMMA RowsAreEvents == TableInv => Rows \subseteq Events /\ Own \subseteq Events
  BY DEF TableInv, Rows, Own

(* What a commit does to the rows, and to what is said of all of them.     *)
LEMMA CommitFacts ==
    ASSUME TableInv, NEW e \in Events, Commit(e)
    PROVE  /\ TableInv' /\ Rows' = Rows \cup {e} /\ Own' \subseteq Own \cup {e} /\ Own \subseteq Own'
           /\ late \subseteq late' /\ (e < fetched => e \in late') /\ e # fetched
<1> USE CloudPushAssumption
<1>0. table \in Seq(Events) /\ Len(table) \in Nat /\ table' = Append(table, e) /\ e \notin Rows
  BY DEF TableInv, Commit
<1>1. /\ table' \in Seq(Events) /\ Len(table') = Len(table) + 1 /\ table'[Len(table) + 1] = e
      /\ \A i \in 1..Len(table) : table'[i] = table[i]
  BY <1>0
<1>2. Rows' = Rows \cup {e}
  BY <1>0, <1>1 DEF Rows
<1>3. \A i, j \in 1..Len(table') : table'[i] = table'[j] => i = j
  <2> SUFFICES ASSUME NEW i \in 1..Len(table'), NEW j \in 1..Len(table'), table'[i] = table'[j]
               PROVE  i = j
    OBVIOUS
  <2>1. CASE i \in 1..Len(table) /\ j \in 1..Len(table)
    BY <1>1, <2>1 DEF TableInv
  <2>2. CASE i = Len(table) + 1 \/ j = Len(table) + 1
    BY <1>0, <1>1, <2>2 DEF Rows
  <2> QED BY <1>0, <1>1, <2>1, <2>2
<1>4. /\ fetched' = fetched /\ late \subseteq late' /\ late' \subseteq late \cup {e}
      /\ (e < fetched => e \in late')
  BY DEF Commit
<1>5. e # fetched
  <2>1. e # 0
    BY DEF Events
  <2> QED BY <1>0, <2>1 DEF TableInv
<1>6. TableInv'
  BY <1>1, <1>2, <1>3, <1>4 DEF TableInv
<1> QED BY <1>2, <1>4, <1>5, <1>6 DEF Own

(* A fetch takes the tenant's first rows above last_id: none is left out   *)
(* below the largest of them.                                              *)
LEMMA FetchFacts ==
    ASSUME TableInv, PushTypeOK, NEW p \in Pushers, Above(p) # {}
    PROVE  LET B == FirstOf(Above(p)) IN
           /\ B \subseteq Own /\ B # {} /\ LargestOf(B) \in B
           /\ \A e \in B : last[p] < e /\ e <= LargestOf(B)
           /\ \A e \in Own : last[p] < e /\ e <= LargestOf(B) => e \in B
<1>0. Own \subseteq Events
  BY RowsAreEvents
<1>1. Above(p) \in SUBSET Events /\ Above(p) \subseteq Own /\ \A e \in Above(p) : e > last[p]
  BY <1>0 DEF Above
<1> DEFINE B == FirstOf(Above(p))
<1>2. /\ B \subseteq Above(p) /\ B # {}
      /\ \A g \in B, e \in Above(p) : e <= g => e \in B
  BY <1>1, FirstFacts
<1> HIDE DEF B
<1>3. LargestOf(B) \in B /\ \A e \in B : e <= LargestOf(B)
  BY <1>1, <1>2, Largest
<1>4. \A e \in B : last[p] < e
  BY <1>0, <1>1, <1>2 DEF PushTypeOK, Events
<1>5. \A e \in Own : last[p] < e /\ e <= LargestOf(B) => e \in Above(p)
  BY <1>0 DEF Above, PushTypeOK, Events
<1>6. \A e \in Own : last[p] < e /\ e <= LargestOf(B) => e \in B
  BY <1>2, <1>3, <1>5
<1>7. B \subseteq Own
  BY <1>1, <1>2
<1> QED BY <1>2, <1>3, <1>4, <1>6, <1>7 DEF B

LEMMA PushInit == Init => IInvPush
<1> SUFFICES ASSUME Init PROVE IInvPush
  OBVIOUS
<1> USE CloudPushAssumption
<1>1. /\ table = [i \in 1..Before |-> i] /\ mark = Before /\ held = 1..Before
      /\ pc = [p \in Pushers |-> "off"] /\ last = [p \in Pushers |-> 0]
      /\ batch = [p \in Pushers |-> {}] /\ tries = [p \in Pushers |-> 0]
      /\ fetched = Before /\ late = {}
  BY DEF Init
<1>2. /\ Len(table) = Before /\ \A i \in 1..Before : table[i] = i
      /\ table \in Seq(Events)
  BY <1>1 DEF Events
<1>3. Rows = 1..Before
  BY <1>2 DEF Rows
<1>4. Own = 1..Before
  BY <1>3 DEF Own
<1>5. fetched \in Rows \cup {0}
  BY <1>1, <1>3
<1>6. TableInv
  BY <1>1, <1>2, <1>5 DEF TableInv
<1>7. PushInv
  BY <1>1, <1>4 DEF PushInv, PushTypeOK, AllIn
<1> QED BY <1>6, <1>7 DEF IInvPush

LEMMA TableStep == TableInv /\ PushTypeOK /\ [Next]_vars => TableInv'
<1> SUFFICES ASSUME TableInv, PushTypeOK, [Next]_vars PROVE TableInv'
  OBVIOUS
<1>1. ASSUME NEW e \in Events, Commit(e) PROVE TableInv'
  BY <1>1, CommitFacts
<1>2. ASSUME UNCHANGED <<table, fetched, late>> PROVE TableInv'
  BY <1>2 DEF TableInv, Rows
<1>3. ASSUME NEW p \in Pushers, Fetch(p) PROVE TableInv'
  <2>1. LargestOf(FirstOf(Above(p))) \in Rows
    BY <1>3, FetchFacts DEF Fetch, Own
  <2>2. batch'[p] = FirstOf(Above(p))
    BY <1>3 DEF Fetch, PushTypeOK
  <2>3. fetched' \in Rows \cup {0}
    BY <1>3, <2>1, <2>2 DEF Fetch, TableInv
  <2>4. UNCHANGED <<table, late>>
    BY <1>3 DEF Fetch
  <2> QED BY <2>3, <2>4 DEF TableInv, Rows
<1>4. ASSUME NEW p \in Pushers, Begin(p) \/ Push(p) \/ Abort(p) PROVE TableInv'
  BY <1>2, <1>3, <1>4 DEF Begin, Push, Abort, Leave, Done, Accepted, Refused, Lost, WriteWatermark
<1>5. ASSUME NEW s \in Syncers, ReadFile(s) \/ Sync(s) PROVE TableInv'
  BY <1>2, <1>5 DEF ReadFile, Sync, SyncDone, Select, Posted, NotPosted, OpenTmp, WriteTmp, Replace
<1>6. CASE Shutdown
  BY <1>2, <1>6 DEF Shutdown
<1>7. CASE UNCHANGED vars
  BY <1>2, <1>7 DEF vars
<1> QED BY <1>1, <1>4, <1>5, <1>6, <1>7 DEF Next

-----------------------------------------------------------------------------
\* What PushInv says of one run.
RunInv(p) ==
    /\ AllIn(last[p], held) /\ last[p] <= fetched
    /\ pc[p] \in {"post", "mark"} =>
         /\ \A e \in batch[p] : last[p] < e /\ e <= fetched
         /\ AllIn(LargestOf(batch[p]), held \cup batch[p])
    /\ pc[p] = "mark" => batch[p] \subseteq held

(* Every event a run holds, and every watermark, is a number.              *)
LEMMA Numbers ==
    ASSUME TableInv, PushInv
    PROVE  /\ fetched \in Int /\ mark \in Int
           /\ \A p \in Pushers : /\ last[p] \in Int /\ batch[p] \subseteq Own /\ batch[p] \subseteq Events
                                 /\ batch[p] \subseteq Int
<1>1. PushTypeOK /\ MaxEvents \in Nat
  BY CloudPushAssumption DEF PushInv
<1>2. Own \subseteq Events /\ Rows \subseteq Events /\ Events \subseteq Int
  BY <1>1, RowsAreEvents DEF Events
<1>3. fetched \in Int
  BY <1>2 DEF TableInv
<1>4. mark \in Int /\ \A p \in Pushers : last[p] \in Int /\ batch[p] \subseteq Own
  BY <1>1 DEF PushTypeOK
<1> QED BY <1>2, <1>3, <1>4

LEMMA PushInvRuns ==
    PushInv <=> PushTypeOK /\ AllIn(mark, held) /\ mark <= fetched /\ \A p \in Pushers : RunInv(p)
  BY DEF PushInv, RunInv

(* A row committed below the largest that was fetched is late; one above   *)
(* it is above all that any run or the watermark vouches for.              *)
LEMMA CommitPush ==
    ASSUME TableInv, PushInv, NEW e \in Events, Commit(e)
    PROVE  PushInv'
<1> USE CloudPushAssumption
<1>0. UNCHANGED pushVars /\ fetched' = fetched
  BY DEF Commit
<1>1. /\ Own' \subseteq Own \cup {e} /\ Own \subseteq Own' /\ late \subseteq late'
      /\ (e < fetched => e \in late') /\ e # fetched
  BY CommitFacts
<1>2. fetched \in Nat /\ e \in Nat
  BY RowsAreEvents DEF TableInv, Events
<1>3. \A n \in Int : \A S : n <= fetched /\ AllIn(n, S) => AllIn(n, S)'
  <2> SUFFICES ASSUME NEW n \in Int, NEW S, n <= fetched, \A x \in Own \ late : x <= n => x \in S,
                      NEW x \in Own' \ late', x <= n
               PROVE  x \in S
    BY DEF AllIn
  <2>1. CASE x = e
    BY <1>1, <1>2, <2>1
  <2>2. CASE x \in Own
    BY <1>1, <2>2
  <2> QED BY <1>1, <2>1, <2>2
<1>4. PushTypeOK'
  BY <1>0, <1>1 DEF PushInv, PushTypeOK, pushVars
<1>5. AllIn(mark, held)' /\ mark' <= fetched'
  BY <1>0, <1>3 DEF PushInv, PushTypeOK, pushVars, AllIn
<1>6. ASSUME NEW p \in Pushers PROVE RunInv(p)'
  <2>1. last[p] \in Int /\ last[p] <= fetched /\ AllIn(last[p], held)
    BY Numbers DEF PushInv
  <2>2. AllIn(last[p], held)'
    BY <1>0, <1>3, <2>1 DEF pushVars, AllIn
  <2>3. ASSUME pc[p] \in {"post", "mark"} PROVE AllIn(LargestOf(batch[p]), held \cup batch[p])'
    <3>1. batch[p] \subseteq Events /\ batch[p] # {}
      BY <2>3, RowsAreEvents DEF PushInv, PushTypeOK
    <3>2. LargestOf(batch[p]) \in batch[p]
      BY <3>1, Largest
    <3>3. LargestOf(batch[p]) \in Int /\ LargestOf(batch[p]) <= fetched
      BY <2>3, <3>2, Numbers DEF PushInv
    <3>4. AllIn(LargestOf(batch[p]), held \cup batch[p])
      BY <2>3 DEF PushInv
    <3> DEFINE n == LargestOf(batch[p])
               S == held \cup batch[p]
    <3>5. n' = n /\ S' = S
      BY <1>0 DEF pushVars
    <3>6. n \in Int /\ n <= fetched /\ AllIn(n, S)
      BY <3>3, <3>4
    <3> HIDE DEF n, S
    <3>7. AllIn(n, S)'
      BY <1>3, <3>5, <3>6 DEF AllIn
    <3> QED BY <3>7 DEF n, S
  <2> QED BY <1>0, <2>1, <2>2, <2>3 DEF PushInv, RunInv, pushVars
<1> QED BY <1>4, <1>5, <1>6, PushInvRuns DEF PushInv, RunInv

(* A step of a run changes what is said of that run alone: what is stored  *)
(* only grows, and what was fetched too.                                   *)
LEMMA OtherRuns ==
    ASSUME PushInv, UNCHANGED <<table, late>>, held \subseteq held', fetched <= fetched', TableInv, TableInv',
           NEW p \in Pushers, NEW q \in Pushers,
           pc'[q] = pc[q], last'[q] = last[q], batch'[q] = batch[q]
    PROVE  RunInv(q)'
<1>0. fetched \in Int /\ fetched' \in Int /\ last[q] \in Int /\ batch[q] \subseteq Int
  <2>1. fetched' \in Rows \cup {0} /\ Rows \subseteq Int
    BY RowsAreEvents, CloudPushAssumption DEF TableInv, Rows, Events
  <2> QED BY <2>1, Numbers
<1>1. Own' = Own
  BY DEF Own, Rows
<1>2. AllIn(last[q], held)'
  BY <1>1 DEF PushInv, AllIn
<1>3. last'[q] <= fetched'
  <2>1. last[q] <= fetched
    BY DEF PushInv
  <2> QED BY <1>0, <2>1
<1>4. ASSUME pc[q] \in {"post", "mark"}
      PROVE  /\ \A e \in batch[q] : last[q] < e /\ e <= fetched'
             /\ AllIn(LargestOf(batch[q]), held \cup batch[q])'
  <2>1. \A e \in batch[q] : last[q] < e /\ e <= fetched'
    <3>1. \A e \in batch[q] : last[q] < e /\ e <= fetched
      BY <1>4 DEF PushInv
    <3> QED BY <1>0, <3>1
  <2>2. AllIn(LargestOf(batch[q]), held \cup batch[q])
    BY <1>4 DEF PushInv
  <2> QED BY <1>1, <2>1, <2>2 DEF AllIn
<1> QED BY <1>2, <1>3, <1>4 DEF PushInv, RunInv

(* A run that is over vouches for nothing.                                 *)
LEMMA LeaveRun ==
    ASSUME PushInv, TableInv, NEW p \in Pushers, Leave(p), UNCHANGED <<table, late, fetched>>
    PROVE  RunInv(p)'
<1>1. pc'[p] = "off" /\ last'[p] = 0
  BY DEF Leave, PushInv, PushTypeOK
<1>2. \A e \in Own : e \in Int /\ e > 0
  BY RowsAreEvents, CloudPushAssumption DEF Events
<1>3. Own' = Own /\ fetched \in Int /\ 0 <= fetched
  BY RowsAreEvents, CloudPushAssumption DEF Own, Rows, Events, TableInv
<1> QED BY <1>1, <1>2, <1>3 DEF RunInv, AllIn

LEMMA PushStep == TableInv /\ PushInv /\ [Next]_vars => PushInv'
<1> SUFFICES ASSUME TableInv, PushInv, [Next]_vars PROVE PushInv'
  OBVIOUS
<1> USE CloudPushAssumption
<1>t. TableInv'
  BY TableStep DEF PushInv
<1>1. ASSUME NEW e \in Events, Commit(e) PROVE PushInv'
  BY <1>1, CommitPush
<1>2. ASSUME UNCHANGED <<table, pushVars, fetched, late>> PROVE PushInv'
  <2>1. UNCHANGED <<mark, held, pc, last, batch, tries, table, fetched, late>>
    BY <1>2 DEF pushVars
  <2>2. Own' = Own
    BY <2>1 DEF Own, Rows
  <2>3. PushTypeOK'
    BY <2>1, <2>2 DEF PushInv, PushTypeOK
  <2>4. \A p \in Pushers : RunInv(p)'
    BY <2>1, <2>2 DEF PushInv, RunInv, AllIn
  <2>5. AllIn(mark, held)' /\ mark' <= fetched'
    BY <2>1, <2>2 DEF PushInv, AllIn
  <2> QED BY <2>3, <2>4, <2>5 DEF PushInv, RunInv
\* A step of p keeps the invariant if it keeps what is said of p and of the watermark.
<1>3. ASSUME NEW p \in Pushers, UNCHANGED <<table, late>>, held \subseteq held', fetched <= fetched',
             \A q \in Pushers \ {p} : pc'[q] = pc[q] /\ last'[q] = last[q] /\ batch'[q] = batch[q],
             PushTypeOK', mark' = mark, RunInv(p)'
      PROVE  PushInv'
  <2>1. \A q \in Pushers : RunInv(q)'
    BY <1>t, <1>3, OtherRuns
  <2>2. Own' = Own
    BY <1>3 DEF Own, Rows
  <2>3. AllIn(mark, held)'
    BY <1>3, <2>2 DEF PushInv, AllIn
  <2>4. mark' <= fetched'
    <3>1. mark <= fetched /\ mark \in Int /\ fetched \in Int
      BY Numbers DEF PushInv
    <3>2. fetched' \in Int
      BY <1>t, <1>3, RowsAreEvents DEF TableInv, Rows, Events
    <3> QED BY <1>3, <3>1, <3>2
  <2> QED BY <1>3, <2>1, <2>3, <2>4 DEF PushInv, RunInv
<1>4. ASSUME NEW p \in Pushers, Begin(p) PROVE PushInv'
  <2>1. pc'[p] = "fetch" /\ last'[p] = mark /\ UNCHANGED <<table, late, held, fetched, mark>>
    BY <1>4 DEF Begin, PushInv, PushTypeOK
  <2>2. RunInv(p)'
    BY <2>1 DEF RunInv, PushInv, AllIn, Own, Rows
  <2>3. PushTypeOK'
    BY <1>4 DEF Begin, PushInv, PushTypeOK, Own, Rows
  <2>4. \A q \in Pushers \ {p} : pc'[q] = pc[q] /\ last'[q] = last[q] /\ batch'[q] = batch[q]
    BY <1>4 DEF Begin, PushInv, PushTypeOK
  <2>5. fetched <= fetched'
    BY <2>1, Numbers
  <2> QED BY <1>3, <2>1, <2>2, <2>3, <2>4, <2>5
\* A run that ends, whatever of its batch was stored.
<1>5. ASSUME NEW p \in Pushers, Leave(p), UNCHANGED <<table, mark, fetched, late>>,
             held \subseteq held', held' \subseteq held \cup batch[p]
      PROVE  PushInv'
  <2>1. RunInv(p)'
    BY <1>5, LeaveRun
  <2>2. PushTypeOK'
    BY <1>5 DEF Leave, PushInv, PushTypeOK, Own, Rows
  <2>3. \A q \in Pushers \ {p} : pc'[q] = pc[q] /\ last'[q] = last[q] /\ batch'[q] = batch[q]
    BY <1>5 DEF Leave, PushInv, PushTypeOK
  <2>4. fetched <= fetched'
    BY <1>5, Numbers
  <2> QED BY <1>3, <1>5, <2>1, <2>2, <2>3, <2>4
<1>6. ASSUME NEW p \in Pushers, Done(p) \/ Abort(p) \/ Refused(p) PROVE PushInv'
  BY <1>5, <1>6 DEF Done, Abort, Refused
<1>7. ASSUME NEW p \in Pushers, Fetch(p) PROVE PushInv'
  <2> DEFINE B == FirstOf(Above(p))
  <2>1. /\ B \subseteq Own /\ B # {} /\ LargestOf(B) \in B
        /\ \A e \in B : last[p] < e /\ e <= LargestOf(B)
        /\ \A e \in Own : last[p] < e /\ e <= LargestOf(B) => e \in B
    BY <1>7, FetchFacts DEF Fetch, PushInv
  <2>2. pc'[p] = "post" /\ batch'[p] = B /\ last' = last /\ UNCHANGED <<table, mark, held, late>>
    BY <1>7 DEF Fetch, PushInv, PushTypeOK
  <2>3. fetched' = IF LargestOf(B) > fetched THEN LargestOf(B) ELSE fetched
    BY <1>7, <2>2 DEF Fetch
  <2>4. PushTypeOK'
    BY <1>7, <2>1 DEF Fetch, PushInv, PushTypeOK, Own, Rows
  <2>5. \A q \in Pushers \ {p} : pc'[q] = pc[q] /\ last'[q] = last[q] /\ batch'[q] = batch[q]
    BY <1>7 DEF Fetch, PushInv, PushTypeOK
  <2> HIDE DEF B
  <2>6. B \subseteq Int /\ LargestOf(B) \in Int /\ fetched \in Int /\ last[p] \in Int /\ Own \subseteq Int
    BY <2>1, Numbers, RowsAreEvents DEF Events
  <2>7. fetched <= fetched' /\ LargestOf(B) <= fetched' /\ fetched' \in Int
    BY <2>3, <2>6
  <2>8. last[p] <= fetched /\ AllIn(last[p], held)
    BY DEF PushInv
  <2>9. last'[p] <= fetched' /\ \A e \in B : e <= fetched'
    BY <2>1, <2>2, <2>6, <2>7, <2>8
  <2>10. AllIn(LargestOf(B), held \cup B)
    BY <2>1, <2>6, <2>8 DEF AllIn
  <2>11. RunInv(p)'
    <3>1. Own' = Own
      BY <2>2 DEF Own, Rows
    <3> QED BY <2>1, <2>2, <2>8, <2>9, <2>10, <3>1 DEF RunInv, AllIn
  <2> QED BY <1>3, <2>2, <2>4, <2>5, <2>7, <2>11
<1>8. ASSUME NEW p \in Pushers, Accepted(p) PROVE PushInv'
  <2>1. pc[p] = "post" /\ pc'[p] = "mark" /\ UNCHANGED <<table, late, last, batch, fetched, mark>> /\ held' = held \cup batch[p]
    BY <1>8 DEF Accepted, PushInv, PushTypeOK
  <2>2. RunInv(p)'
    BY <2>1 DEF RunInv, PushInv, AllIn, Own, Rows
  <2>3. PushTypeOK'
    BY <1>8 DEF Accepted, PushInv, PushTypeOK, Own, Rows
  <2>4. \A q \in Pushers \ {p} : pc'[q] = pc[q] /\ last'[q] = last[q] /\ batch'[q] = batch[q]
    BY <1>8 DEF Accepted, PushInv, PushTypeOK
  <2>5. fetched <= fetched'
    BY <2>1, Numbers
  <2> QED BY <1>3, <2>1, <2>2, <2>3, <2>4, <2>5
<1>9. ASSUME NEW p \in Pushers, Lost(p) PROVE PushInv'
  <2>1. held \subseteq held' /\ held' \subseteq held \cup batch[p] /\ UNCHANGED <<table, mark, fetched, late>>
    BY <1>9 DEF Lost
  <2>2. CASE tries[p] < MaxRetries
    <3>1. UNCHANGED <<pc, last, batch>> /\ tries' = [tries EXCEPT ![p] = @ + 1]
      BY <1>9, <2>2 DEF Lost
    <3>2. PushTypeOK'
      BY <2>1, <2>2, <3>1 DEF PushInv, PushTypeOK, Own, Rows
    <3>3. RunInv(p)'
      BY <1>9, <2>1, <3>1 DEF Lost, RunInv, PushInv, AllIn, Own, Rows
    <3>4. fetched <= fetched'
      BY <2>1, Numbers
    <3> QED BY <1>3, <2>1, <3>1, <3>2, <3>3, <3>4
  <2>3. CASE ~(tries[p] < MaxRetries)
    BY <1>5, <1>9, <2>1, <2>3 DEF Lost
  <2> QED BY <2>2, <2>3
\* What is written is vouched for: all below it was stored before, or with the batch.
<1>10. ASSUME NEW p \in Pushers, WriteWatermark(p) PROVE PushInv'
  <2> DEFINE m == LargestOf(batch[p])
  <2>1. /\ pc[p] = "mark" /\ pc'[p] = "fetch" /\ mark' = m /\ last'[p] = m
        /\ UNCHANGED <<table, held, late, fetched>>
    BY <1>10 DEF WriteWatermark, PushInv, PushTypeOK
  <2>2. batch[p] # {} /\ batch[p] \subseteq Own /\ batch[p] \subseteq Events
    BY <2>1, Numbers DEF PushInv, PushTypeOK
  <2>3. m \in batch[p]
    BY <2>2, Largest
  <2>4. AllIn(m, held) /\ m <= fetched
    <3>1. AllIn(m, held \cup batch[p]) /\ batch[p] \subseteq held /\ \A e \in batch[p] : e <= fetched
      BY <2>1 DEF PushInv
    <3> QED BY <2>3, <3>1 DEF AllIn
  <2>5. m \in 0..MaxEvents
    BY <2>2, <2>3 DEF Events
  <2>6. PushTypeOK'
    <3>1. /\ last' = [last EXCEPT ![p] = m] /\ batch' = [batch EXCEPT ![p] = {}]
          /\ pc' = [pc EXCEPT ![p] = "fetch"] /\ UNCHANGED tries
      BY <1>10 DEF WriteWatermark
    <3>2. Own' = Own
      BY <2>1 DEF Own, Rows
    <3> HIDE DEF m
    <3> QED BY <2>1, <2>5, <3>1, <3>2 DEF PushInv, PushTypeOK
  <2>7. \A q \in Pushers \ {p} : pc'[q] = pc[q] /\ last'[q] = last[q] /\ batch'[q] = batch[q]
    BY <1>10 DEF WriteWatermark, PushInv, PushTypeOK
  <2> HIDE DEF m
  <2>8. Own' = Own
    BY <2>1 DEF Own, Rows
  <2>9. RunInv(p)' /\ AllIn(mark, held)' /\ mark' <= fetched'
    BY <2>1, <2>4, <2>8 DEF RunInv, AllIn
  <2>10. \A q \in Pushers : RunInv(q)'
    <3>1. fetched <= fetched' /\ held \subseteq held'
      BY <2>1, Numbers
    <3> QED BY <1>t, <2>1, <2>7, <2>9, <3>1, OtherRuns
  <2> QED BY <2>6, <2>9, <2>10 DEF PushInv, RunInv
<1>11. ASSUME NEW s \in Syncers, ReadFile(s) \/ Sync(s) PROVE PushInv'
  BY <1>2, <1>11 DEF ReadFile, Sync, SyncDone, Select, Posted, NotPosted, OpenTmp, WriteTmp, Replace
<1>12. CASE Shutdown
  BY <1>2, <1>12 DEF Shutdown
<1>13. CASE UNCHANGED vars
  BY <1>2, <1>13 DEF vars
<1> QED BY <1>1, <1>4, <1>6, <1>7, <1>8, <1>9, <1>10, <1>11, <1>12, <1>13 DEF Next, Push

(* PushInv holds in every reachable state.                                 *)
THEOREM PushInvariance == Spec => []IInvPush
<1>1. Init => IInvPush
  BY PushInit
<1>2. IInvPush /\ [Next]_vars => IInvPush'
  BY TableStep, PushStep DEF IInvPush, PushInv
<1> QED BY <1>1, <1>2, PTL DEF Spec

(* The watermark of /events/push vouches for every event of the tenant at  *)
(* or below it, whatever the answers, the crashes and the other run        *)
(* (push.py:338-360).                                                      *)
THEOREM WatermarkIsSafe == Spec => []WatermarkSafe
<1>1. IInvPush => WatermarkSafe
  BY DEF IInvPush, PushInv, AllIn, WatermarkSafe
<1> QED BY <1>1, PushInvariance, PTL

(* A run that returns "ok" leaves nothing pending but what was committed   *)
(* late (push.py:313-316).                                                 *)
THEOREM OkIsPushed == Spec => OkMeansPushed
<1>1. IInvPush /\ [Next]_vars => [\A p \in Pushers : Done(p) => Own \ late \subseteq held]_vars
  <2> SUFFICES ASSUME IInvPush, NEW p \in Pushers, Done(p), NEW e \in Own \ late PROVE e \in held
    OBVIOUS
  <2>1. last[p] \in Int /\ e \in Int
    BY Numbers, RowsAreEvents, CloudPushAssumption DEF IInvPush, Events
  <2>2. e <= last[p]
    BY <2>1 DEF Done, Above
  <2> QED BY <2>2 DEF IInvPush, PushInv, AllIn
<1> QED BY <1>1, PushInvariance, PTL DEF Spec, OkMeansPushed

(* Every accepted batch takes its run forward, past all of the batch       *)
(* (push.py:359), so that no batch is posted twice by a run that goes on.  *)
THEOREM RunGoesOn == Spec => RunAdvances
<1>1. IInvPush /\ [Next]_vars =>
      [\A p \in Pushers :
         pc[p] = "mark" /\ pc'[p] = "fetch" => last'[p] > last[p] /\ batch[p] \cap Above(p)' = {}]_vars
  <2> SUFFICES ASSUME IInvPush, [Next]_vars, NEW p \in Pushers, pc[p] = "mark", pc'[p] = "fetch"
               PROVE  last'[p] > last[p] /\ batch[p] \cap Above(p)' = {}
    OBVIOUS
  <2> USE DEF IInvPush, PushInv, PushTypeOK
  <2>1. ~ \E e \in Events : Commit(e)
    BY DEF Commit, pushVars
  <2>2. ~ (Shutdown \/ \E s \in Syncers : ReadFile(s) \/ Sync(s))
    BY DEF Shutdown, ReadFile, Sync, SyncDone, Select, Posted, NotPosted, OpenTmp, WriteTmp, Replace, pushVars
  <2>3. \A q \in Pushers : ~ (Begin(q) \/ Abort(q) \/ Fetch(q) \/ Done(q) \/ Accepted(q) \/ Refused(q) \/ Lost(q))
    BY DEF Begin, Abort, Fetch, Done, Accepted, Refused, Lost, Leave
  <2>4. WriteWatermark(p)
    <3>1. PICK q \in Pushers : WriteWatermark(q)
      BY <2>1, <2>2, <2>3 DEF Next, Push, vars, pushVars
    <3>2. q = p
      BY <3>1 DEF WriteWatermark
    <3> QED BY <3>1, <3>2
  <2> DEFINE m == LargestOf(batch[p])
  <2>5. last'[p] = m
    BY <2>4 DEF WriteWatermark
  <2>6. batch[p] # {} /\ batch[p] \subseteq Events /\ batch[p] \subseteq Int /\ last[p] \in Int
    BY Numbers
  <2>7. m \in batch[p] /\ \A e \in batch[p] : e <= m
    BY <2>6, Largest
  <2>8. m > last[p]
    BY <2>6, <2>7
  <2> HIDE DEF m
  <2>9. \A e \in batch[p] : ~(e > last'[p])
    BY <2>5, <2>6, <2>7
  <2> QED BY <2>5, <2>8, <2>9 DEF Above
<1> QED BY <1>1, PushInvariance, PTL DEF Spec, RunAdvances

-----------------------------------------------------------------------------
(* The other half.  Once a numeral has been written over a longer one, the *)
(* file may hold any number: what it vouches for holds up to then.         *)

\* The /sync endpoint has the first n rows.
Shown(n) == \A i \in 1..Len(table) : i <= n => table[i] \in shown

\* Whatever a request, a file or its .tmp holds is a row below which all
\* was posted; a request writes its own last row only once it was.
SyncInv ==
    /\ SyncTypeOK /\ file <= Len(table) /\ Shown(file)
    /\ tmp <= Len(table) /\ Shown(tmp)
    /\ \A s \in Syncers :
        /\ from[s] <= Len(table) /\ Shown(from[s])
        /\ at[s] \in {"open", "write", "replace"} => Shown(to[s])
        /\ fd[s] = "tmp" => tmp # Missing

(* The table has no more rows than there are events.                       *)
LEMMA TableBound == TableInv => Len(table) \in 0..MaxEvents
<1> SUFFICES ASSUME TableInv PROVE Len(table) \in 0..MaxEvents
  OBVIOUS
<1> USE CloudPushAssumption
<1> DEFINE N == 1..Len(table)
<1>1. Len(table) \in Nat /\ table \in [N -> Events] /\ \A i, j \in N : table[i] = table[j] => i = j
  BY DEF TableInv
<1>2. IsFiniteSet(Events) /\ Cardinality(Events) = MaxEvents
  BY FS_Interval DEF Events
<1>3. Cardinality(N) = Len(table)
  <2>1. \A n \in Nat : Cardinality(1..n) = IF 1 > n THEN 0 ELSE n - 1 + 1
    BY FS_Interval
  <2> QED BY <1>1, <2>1
<1> HIDE DEF N
<1>4. table \in Injection(N, Events)
  BY <1>1 DEF Injection, IsInjective
<1>5. Cardinality(N) <= Cardinality(Events)
  BY <1>2, <1>4, FS_Injection
<1> QED BY <1>1, <1>2, <1>3, <1>5

(* Over a numeral that is not longer a numeral is written whole; over a    *)
(* longer one it makes some number.                                        *)
LEMMA WrittenWhole == ASSUME NEW old, NEW n, ~Longer(old, n) PROVE Overwritten(old, n) = {n}
BY DEF Overwritten

LEMMA WrittenNumber ==
    ASSUME NEW old \in Nat, NEW n \in Nat
    PROVE  Overwritten(old, n) \subseteq Nat
<1>1. ASSUME NEW k \in 1..old PROVE n * k + (old % k) \in Nat
  OBVIOUS
<1> QED BY <1>1 DEF Overwritten

LEMMA PayloadRows == ASSUME TableInv, SyncTypeOK, NEW s \in Syncers PROVE Payload(s) \subseteq Rows
<1>1. from[s] \in Nat /\ to[s] \in Nat /\ to[s] <= Len(table) /\ Len(table) \in Nat
  BY DEF SyncTypeOK, TableInv
<1>2. from[s] + 1..to[s] \subseteq 1..Len(table)
  BY <1>1
<1> QED BY <1>2 DEF Payload, Rows

(* A request that ends holds nothing.                                      *)
LEMMA RequestEnds ==
    ASSUME TableInv, SyncInv, NEW s \in Syncers, SyncDone(s), UNCHANGED <<table, file, tmp, fd, spliced>>,
           shown \subseteq shown', shown' \subseteq Rows
    PROVE  SyncInv'
<1>1. Len(table) \in Nat
  BY DEF TableInv
<1>2. at' = [at EXCEPT ![s] = "off"] /\ from' = [from EXCEPT ![s] = 0] /\ to' = [to EXCEPT ![s] = 0]
  BY DEF SyncDone
<1>3. SyncTypeOK'
  BY <1>1, <1>2 DEF SyncInv, SyncTypeOK, Rows
<1>4. \A n : Shown(n) => Shown(n)'
  BY DEF Shown
<1>5. file' <= Len(table)' /\ Shown(file)' /\ tmp' <= Len(table)' /\ Shown(tmp)'
  BY <1>4 DEF SyncInv, Shown
<1>6. ASSUME NEW x \in Syncers
      PROVE  /\ from'[x] <= Len(table)' /\ Shown(from[x])'
             /\ at'[x] \in {"open", "write", "replace"} => Shown(to[x])'
             /\ fd'[x] = "tmp" => tmp' # Missing
  <2>1. CASE x = s
    BY <1>1, <1>2, <2>1 DEF SyncInv, SyncTypeOK, Shown
  <2>2. CASE x # s
    BY <1>2, <1>4, <2>2 DEF SyncInv, SyncTypeOK, Shown
  <2> QED BY <2>1, <2>2
<1> QED BY <1>3, <1>5, <1>6 DEF SyncInv

LEMMA SyncInit == Init => SyncInv
<1> SUFFICES ASSUME Init PROVE SyncInv
  OBVIOUS
<1> USE CloudPushAssumption
<1>1. Len(table) = Before /\ \A i \in 1..Before : table[i] = i
  BY DEF Init
<1>2. Rows = 1..Before
  BY <1>1 DEF Rows
<1>3. /\ file = Before /\ tmp = Missing /\ shown = 1..Before /\ spliced = FALSE
      /\ at = [s \in Syncers |-> "off"] /\ from = [s \in Syncers |-> 0]
      /\ to = [s \in Syncers |-> 0] /\ fd = [s \in Syncers |-> "none"]
  BY DEF Init
<1>4. SyncTypeOK
  <2>1. file \in Nat /\ tmp \in Nat \cup {Missing} /\ shown \subseteq Rows
    BY <1>2, <1>3
  <2>2. spliced \in BOOLEAN
    BY <1>3, Zenon
  <2>3. to \in [Syncers -> 0..Len(table)]
    BY <1>1, <1>3
  <2> QED BY <1>3, <2>1, <2>2, <2>3 DEF SyncTypeOK
<1>5. file <= Len(table) /\ Shown(file) /\ tmp <= Len(table) /\ Shown(tmp)
  BY <1>1, <1>3 DEF Shown, Missing
<1>6. \A s \in Syncers : /\ from[s] <= Len(table) /\ Shown(from[s])
                        /\ at[s] \notin {"open", "write", "replace"} /\ fd[s] # "tmp"
  BY <1>1, <1>3 DEF Shown
<1> QED BY <1>4, <1>5, <1>6 DEF SyncInv

(* What stays true when the table grows and the endpoint stores more.      *)
LEMMA ShownGrows ==
    ASSUME TableInv, \E e : table' = Append(table, e) \/ table' = table, shown \subseteq shown'
    PROVE  /\ Len(table) <= Len(table)' /\ Len(table) \in Nat /\ Len(table)' \in Nat
           /\ Rows \subseteq Rows'
           /\ \A n \in Int : n <= Len(table) /\ Shown(n) => \A i \in 1..Len(table)' : i <= n => table'[i] \in shown'
<1>1. PICK e : table' = Append(table, e) \/ table' = table
  OBVIOUS
<1>2. table \in Seq(Events) /\ Len(table) \in Nat
  BY DEF TableInv
<1>3. /\ Len(table)' \in Nat /\ Len(table) <= Len(table)'
      /\ \A i \in 1..Len(table) : table'[i] = table[i]
  BY <1>1, <1>2
<1> QED BY <1>2, <1>3 DEF Shown, Rows

LEMMA SyncStep == ~spliced' /\ TableInv /\ TableInv' /\ SyncInv /\ [Next]_vars => SyncInv'
<1> SUFFICES ASSUME ~spliced', TableInv, TableInv', SyncInv, [Next]_vars PROVE SyncInv'
  OBVIOUS
<1> USE CloudPushAssumption
<1>0. Len(table) \in 0..MaxEvents /\ Len(table) \in Nat
  BY TableBound
<1>1. ASSUME NEW e \in Events, Commit(e) PROVE SyncInv'
  <2>1. table' = Append(table, e) /\ UNCHANGED syncVars
    BY <1>1 DEF Commit
  <2>2. shown \subseteq shown'
    BY <2>1 DEF syncVars
  <2>3. /\ Len(table) <= Len(table)' /\ Len(table)' \in Nat /\ Rows \subseteq Rows'
        /\ \A n \in Int : n <= Len(table) /\ Shown(n) => \A i \in 1..Len(table)' : i <= n => table'[i] \in shown'
    BY <2>1, <2>2, ShownGrows
  <2>4. SyncTypeOK'
    BY <1>0, <2>1, <2>3 DEF SyncInv, SyncTypeOK, syncVars
  <2>5. file' <= Len(table)' /\ Shown(file)' /\ tmp' <= Len(table)' /\ Shown(tmp)'
    BY <1>0, <2>1, <2>3 DEF SyncInv, SyncTypeOK, syncVars, Shown, Missing
  <2>6. ASSUME NEW s \in Syncers
        PROVE  /\ from'[s] <= Len(table)' /\ Shown(from[s])'
               /\ at'[s] \in {"open", "write", "replace"} => Shown(to[s])'
               /\ fd'[s] = "tmp" => tmp' # Missing
    BY <1>0, <2>1, <2>3 DEF SyncInv, SyncTypeOK, syncVars, Shown
  <2> QED BY <2>4, <2>5, <2>6 DEF SyncInv
<1>2. ASSUME UNCHANGED <<table, syncVars>> PROVE SyncInv'
  BY <1>2 DEF SyncInv, SyncTypeOK, syncVars, Shown, Rows
<1>3. ASSUME NEW s \in Syncers, ReadFile(s) PROVE SyncInv'
  BY <1>3 DEF ReadFile, SyncInv, SyncTypeOK, Shown, Rows
<1>4. ASSUME NEW s \in Syncers, Select(s) PROVE SyncInv'
  <2>1. UNCHANGED <<table, file, tmp, shown, fd, spliced>>
    BY <1>4 DEF Select
  <2>2. CASE from[s] >= Len(table)
    <3>1. SyncDone(s) /\ shown \subseteq shown' /\ shown' \subseteq Rows
      BY <1>4, <2>1, <2>2 DEF Select, SyncInv, SyncTypeOK
    <3> QED BY <2>1, <3>1, RequestEnds
  <2>3. CASE ~(from[s] >= Len(table))
    <3>1. PICK n \in 0..Len(table) : to' = [to EXCEPT ![s] = n]
      <4>1. from[s] \in Nat
        BY DEF SyncInv, SyncTypeOK
      <4>2. (IF from[s] + SyncLimit < Len(table) THEN from[s] + SyncLimit ELSE Len(table)) \in 0..Len(table)
        BY <1>0, <4>1
      <4> QED BY <1>4, <2>3, <4>2 DEF Select
    <3>2. at' = [at EXCEPT ![s] = "post"] /\ UNCHANGED from
      BY <1>4, <2>3 DEF Select
    <3> QED BY <2>1, <3>1, <3>2 DEF SyncInv, SyncTypeOK, Shown, Rows
  <2> QED BY <2>2, <2>3
\* The payload runs from the watermark that was read to the last row.
<1>5. ASSUME NEW s \in Syncers, Posted(s) PROVE SyncInv'
  <2>1. /\ shown' = shown \cup Payload(s) /\ at' = [at EXCEPT ![s] = "open"]
        /\ UNCHANGED <<table, file, tmp, from, to, fd, spliced>>
    BY <1>5 DEF Posted
  <2>2. Payload(s) \subseteq Rows
    BY PayloadRows DEF SyncInv
  <2>3. Shown(to[s])'
    <3> SUFFICES ASSUME NEW i \in 1..Len(table), i <= to[s] PROVE table[i] \in shown'
      BY <2>1 DEF Shown
    <3>1. from[s] \in Int /\ to[s] \in Int
      BY DEF SyncInv, SyncTypeOK
    <3>2. CASE i <= from[s]
      BY <2>1, <3>2 DEF SyncInv, Shown
    <3>3. CASE ~(i <= from[s])
      BY <2>1, <3>1, <3>3 DEF Payload
    <3> QED BY <3>2, <3>3
  <2>4. SyncTypeOK'
    BY <2>1, <2>2 DEF SyncInv, SyncTypeOK, Rows
  <2>5. \A n : Shown(n) => Shown(n)'
    BY <2>1 DEF Shown
  <2>6. ASSUME NEW x \in Syncers
        PROVE  /\ from'[x] <= Len(table)' /\ Shown(from[x])'
               /\ at'[x] \in {"open", "write", "replace"} => Shown(to[x])'
               /\ fd'[x] = "tmp" => tmp' # Missing
    BY <2>1, <2>3, <2>5 DEF SyncInv, SyncTypeOK, Shown
  <2> QED BY <2>1, <2>4, <2>5, <2>6 DEF SyncInv, Shown
<1>6. ASSUME NEW s \in Syncers, NotPosted(s) PROVE SyncInv'
  <2>1. /\ shown \subseteq shown' /\ shown' \subseteq shown \cup Payload(s) /\ SyncDone(s)
        /\ UNCHANGED <<table, file, tmp, fd, spliced>>
    BY <1>6 DEF NotPosted
  <2>2. Payload(s) \subseteq Rows
    BY PayloadRows DEF SyncInv
  <2>3. shown' \subseteq Rows
    BY <2>1, <2>2 DEF SyncInv, SyncTypeOK
  <2> QED BY <2>1, <2>3, RequestEnds
<1>7. ASSUME NEW s \in Syncers, OpenTmp(s) PROVE SyncInv'
  <2>1. /\ tmp' = 0 /\ fd' = [fd EXCEPT ![s] = "tmp"] /\ at[s] = "open" /\ at' = [at EXCEPT ![s] = "write"]
        /\ UNCHANGED <<table, file, shown, from, to, spliced>>
    BY <1>7 DEF OpenTmp
  <2>2. SyncTypeOK'
    BY <2>1 DEF SyncInv, SyncTypeOK, Rows
  <2>3. file' <= Len(table)' /\ Shown(file)' /\ tmp' <= Len(table)' /\ Shown(tmp)' /\ tmp' # Missing
    BY <1>0, <2>1 DEF SyncInv, Shown, Missing
  <2>4. ASSUME NEW x \in Syncers
        PROVE  /\ from'[x] <= Len(table)' /\ Shown(from[x])'
               /\ at'[x] \in {"open", "write", "replace"} => Shown(to[x])'
    BY <2>1 DEF SyncInv, SyncTypeOK, Shown
  <2> QED BY <2>2, <2>3, <2>4 DEF SyncInv
<1>8. ASSUME NEW s \in Syncers, WriteTmp(s) PROVE SyncInv'
  <2>1. /\ at[s] = "write" /\ fd' = [fd EXCEPT ![s] = "none"] /\ at' = [at EXCEPT ![s] = "replace"]
        /\ UNCHANGED <<table, shown, from, to>>
    BY <1>8 DEF WriteTmp
  <2>2. to[s] \in 0..Len(table) /\ to[s] \in 0..MaxEvents /\ Shown(to[s])
    BY <1>0, <2>1 DEF SyncInv, SyncTypeOK
  <2>3. fd[s] = "tmp" => ~Longer(tmp, to[s])
    BY <1>8 DEF WriteTmp
  <2>4. fd[s] = "file" => ~Longer(file, to[s])
    BY <1>8 DEF WriteTmp
  <2>5. tmp' = IF fd[s] = "tmp" THEN to[s] ELSE tmp
    BY <1>8, <2>2, <2>3, WrittenWhole DEF WriteTmp
  <2>6. file' = IF fd[s] = "file" THEN to[s] ELSE file
    BY <1>8, <2>2, <2>4, WrittenWhole DEF WriteTmp
  <2>10. spliced' \in BOOLEAN
    <3>1. spliced' = (spliced \/ (fd[s] = "tmp" /\ Longer(tmp, to[s]))
                              \/ (fd[s] = "file" /\ Longer(file, to[s])))
      BY <1>8, Zenon DEF WriteTmp
    <3> QED BY <3>1
  <2>7. SyncTypeOK'
    BY <2>1, <2>2, <2>5, <2>6, <2>10 DEF SyncInv, SyncTypeOK, Rows
  <2>8. file' <= Len(table)' /\ Shown(file)' /\ tmp' <= Len(table)' /\ Shown(tmp)' /\ (tmp' = Missing => tmp = Missing)
    BY <2>1, <2>2, <2>5, <2>6 DEF SyncInv, Shown, Missing
  <2>9. ASSUME NEW x \in Syncers
        PROVE  /\ from'[x] <= Len(table)' /\ Shown(from[x])'
               /\ at'[x] \in {"open", "write", "replace"} => Shown(to[x])'
               /\ fd'[x] = "tmp" => tmp' # Missing
    BY <2>1, <2>8 DEF SyncInv, SyncTypeOK, Shown
  <2> QED BY <2>7, <2>8, <2>9 DEF SyncInv
<1>9. ASSUME NEW s \in Syncers, Replace(s) PROVE SyncInv'
  <2>1. tmp' = Missing /\ SyncDone(s) /\ UNCHANGED <<table, shown, spliced>>
    BY <1>9 DEF Replace
  <2>2. CASE tmp = Missing
    <3>1. UNCHANGED <<file, fd, tmp>> /\ shown' \subseteq Rows /\ shown \subseteq shown'
      BY <1>9, <2>1, <2>2 DEF Replace, SyncInv, SyncTypeOK
    <3> QED BY <2>1, <3>1, RequestEnds
  <2>3. CASE tmp # Missing
    <3>1. /\ file' = tmp
          /\ fd' = [x \in Syncers |-> IF fd[x] = "tmp" THEN "file" ELSE IF fd[x] = "file" THEN "gone" ELSE fd[x]]
      BY <1>9, <2>3 DEF Replace
    <3>2. tmp \in Nat
      BY <2>3 DEF SyncInv, SyncTypeOK
    <3>3. \A x \in Syncers : fd'[x] # "tmp" /\ fd'[x] \in {"none", "tmp", "file", "gone"}
      BY <3>1 DEF SyncInv, SyncTypeOK
    <3>4. SyncTypeOK'
      BY <2>1, <3>1, <3>2, <3>3 DEF SyncInv, SyncTypeOK, SyncDone, Rows, Missing
    <3>5. file' <= Len(table)' /\ Shown(file)' /\ tmp' <= Len(table)' /\ Shown(tmp)'
      BY <1>0, <2>1, <3>1 DEF SyncInv, Shown, Missing
    <3>6. ASSUME NEW x \in Syncers
          PROVE  /\ from'[x] <= Len(table)' /\ Shown(from[x])'
                 /\ at'[x] \in {"open", "write", "replace"} => Shown(to[x])'
      BY <1>0, <2>1 DEF SyncDone, SyncInv, SyncTypeOK, Shown
    <3> QED BY <3>3, <3>4, <3>5, <3>6 DEF SyncInv
  <2> QED BY <2>2, <2>3
<1>10. CASE Shutdown
  BY <1>0, <1>10 DEF Shutdown, SyncInv, SyncTypeOK, Shown, Rows
<1>11. ASSUME NEW p \in Pushers, Begin(p) \/ Push(p) \/ Abort(p) PROVE SyncInv'
  BY <1>2, <1>11 DEF Begin, Push, Abort, Fetch, Done, Accepted, Refused, Lost, WriteWatermark
<1>12. CASE UNCHANGED vars
  BY <1>2, <1>12 DEF vars
<1> QED BY <1>1, <1>3, <1>4, <1>5, <1>6, <1>7, <1>8, <1>9, <1>10, <1>11, <1>12 DEF Next, Sync

(* The shape of what /sync keeps, whatever numbers its file holds.         *)
SyncShape == SyncTypeOK /\ \A s \in Syncers : fd[s] = "tmp" => tmp # Missing

LEMMA EndShape ==
    ASSUME TableInv, SyncShape, NEW s \in Syncers, SyncDone(s),
           UNCHANGED <<table, file, tmp, fd, spliced>>, shown' \subseteq Rows
    PROVE  SyncShape'
<1>1. Len(table) \in Nat
  BY DEF TableInv
<1>2. at' = [at EXCEPT ![s] = "off"] /\ from' = [from EXCEPT ![s] = 0] /\ to' = [to EXCEPT ![s] = 0]
  BY DEF SyncDone
<1> QED BY <1>1, <1>2 DEF SyncShape, SyncTypeOK, Rows

LEMMA ShapeStep == TableInv /\ TableInv' /\ SyncShape /\ [Next]_vars => SyncShape'
<1> SUFFICES ASSUME TableInv, TableInv', SyncShape, [Next]_vars PROVE SyncShape'
  OBVIOUS
<1> USE CloudPushAssumption
<1>0. Len(table) \in Nat
  BY TableBound
<1>1. ASSUME NEW e \in Events, Commit(e) PROVE SyncShape'
  <2>1. table' = Append(table, e) /\ UNCHANGED syncVars
    BY <1>1 DEF Commit
  <2>2. Len(table) <= Len(table)' /\ Len(table)' \in Nat /\ Rows \subseteq Rows'
    <3>1. shown \subseteq shown'
      BY <2>1 DEF syncVars
    <3> QED BY <2>1, <3>1, ShownGrows
  <2> QED BY <1>0, <2>1, <2>2 DEF SyncShape, SyncTypeOK, syncVars
<1>2. ASSUME UNCHANGED <<table, syncVars>> PROVE SyncShape'
  BY <1>2 DEF SyncShape, SyncTypeOK, syncVars, Rows
<1>3. ASSUME NEW s \in Syncers, ReadFile(s) PROVE SyncShape'
  BY <1>3 DEF ReadFile, SyncShape, SyncTypeOK, Rows
<1>4. ASSUME NEW s \in Syncers, Select(s) PROVE SyncShape'
  <2>1. UNCHANGED <<table, file, tmp, shown, fd, spliced>>
    BY <1>4 DEF Select
  <2>2. CASE from[s] >= Len(table)
    <3>1. SyncDone(s) /\ UNCHANGED table
      BY <1>4, <2>2 DEF Select
    <3> QED BY <2>1, <3>1, EndShape DEF SyncShape, SyncTypeOK
  <2>3. CASE ~(from[s] >= Len(table))
    <3>1. from[s] \in Nat
      BY DEF SyncShape, SyncTypeOK
    <3>2. (IF from[s] + SyncLimit < Len(table) THEN from[s] + SyncLimit ELSE Len(table)) \in 0..Len(table)
      BY <1>0, <3>1
    <3>3. PICK n \in 0..Len(table) : to' = [to EXCEPT ![s] = n]
      BY <1>4, <2>3, <3>2 DEF Select
    <3>4. at' = [at EXCEPT ![s] = "post"] /\ UNCHANGED from
      BY <1>4, <2>3 DEF Select
    <3> QED BY <2>1, <3>3, <3>4 DEF SyncShape, SyncTypeOK, Rows
  <2> QED BY <2>2, <2>3
<1>5. ASSUME NEW s \in Syncers, Posted(s) \/ NotPosted(s) PROVE SyncShape'
  <2>1. Payload(s) \subseteq Rows
    BY PayloadRows DEF SyncShape
  <2>2. shown' \subseteq Rows
    BY <1>5, <2>1 DEF Posted, NotPosted, SyncShape, SyncTypeOK
  <2>3. CASE Posted(s)
    BY <2>2, <2>3 DEF Posted, SyncShape, SyncTypeOK, Rows
  <2>4. CASE NotPosted(s)
    BY <2>2, <2>4, EndShape DEF NotPosted
  <2> QED BY <1>5, <2>3, <2>4
<1>6. ASSUME NEW s \in Syncers, OpenTmp(s) PROVE SyncShape'
  BY <1>6 DEF OpenTmp, SyncShape, SyncTypeOK, Rows, Missing
<1>7. ASSUME NEW s \in Syncers, WriteTmp(s) PROVE SyncShape'
  <2>1. /\ fd' = [fd EXCEPT ![s] = "none"] /\ at' = [at EXCEPT ![s] = "replace"]
        /\ UNCHANGED <<table, shown, from, to>>
    BY <1>7 DEF WriteTmp
  <2>2. to[s] \in Nat /\ file \in Nat /\ (fd[s] = "tmp" => tmp \in Nat)
    BY <1>0 DEF SyncShape, SyncTypeOK
  <2>3. tmp' = tmp \/ tmp' \in Nat
    BY <1>7, <2>2, WrittenNumber DEF WriteTmp
  <2>4. file' \in Nat
    BY <1>7, <2>2, WrittenNumber DEF WriteTmp
  <2>5. spliced' \in BOOLEAN
    <3>1. spliced' = (spliced \/ (fd[s] = "tmp" /\ Longer(tmp, to[s]))
                              \/ (fd[s] = "file" /\ Longer(file, to[s])))
      BY <1>7, Zenon DEF WriteTmp
    <3> QED BY <3>1
  <2>6. SyncTypeOK'
    BY <2>1, <2>3, <2>4, <2>5 DEF SyncShape, SyncTypeOK, Rows
  <2>7. tmp' = Missing => tmp = Missing
    BY <2>3 DEF Missing
  <2> QED BY <2>1, <2>6, <2>7 DEF SyncShape, SyncTypeOK
<1>8. ASSUME NEW s \in Syncers, Replace(s) PROVE SyncShape'
  <2>1. tmp' = Missing /\ SyncDone(s) /\ UNCHANGED <<table, shown, spliced>>
    BY <1>8 DEF Replace
  <2>2. CASE tmp = Missing
    BY <1>0, <1>8, <2>1, <2>2 DEF Replace, SyncDone, SyncShape, SyncTypeOK, Rows
  <2>3. CASE tmp # Missing
    <3>1. /\ file' = tmp
          /\ fd' = [x \in Syncers |-> IF fd[x] = "tmp" THEN "file" ELSE IF fd[x] = "file" THEN "gone" ELSE fd[x]]
      BY <1>8, <2>3 DEF Replace
    <3>2. \A x \in Syncers : fd'[x] # "tmp" /\ fd'[x] \in {"none", "tmp", "file", "gone"}
      BY <3>1 DEF SyncShape, SyncTypeOK
    <3> QED BY <1>0, <2>1, <2>3, <3>1, <3>2 DEF SyncDone, SyncShape, SyncTypeOK, Rows
  <2> QED BY <2>2, <2>3
<1>9. CASE Shutdown
  BY <1>0, <1>9 DEF Shutdown, SyncShape, SyncTypeOK, Rows
<1>10. ASSUME NEW p \in Pushers, Begin(p) \/ Push(p) \/ Abort(p) PROVE SyncShape'
  BY <1>2, <1>10 DEF Begin, Push, Abort, Fetch, Done, Accepted, Refused, Lost, WriteWatermark
<1>11. CASE UNCHANGED vars
  BY <1>2, <1>11 DEF vars
<1> QED BY <1>1, <1>3, <1>4, <1>5, <1>6, <1>7, <1>8, <1>9, <1>10, <1>11 DEF Next, Sync

(* A splice is remembered.                                                 *)
LEMMA SplicedStays == [Next]_vars /\ spliced => spliced'
BY DEF Next, vars, syncVars, Commit, Begin, Push, Fetch, Done, Accepted, Refused, Lost, WriteWatermark,
   Abort, ReadFile, Sync, Select, Posted, NotPosted, OpenTmp, WriteTmp, Replace, Shutdown

(* Both halves, that of /sync up to the first splice.                      *)
WholeInv == IInvPush /\ SyncShape /\ (~spliced => SyncInv)

THEOREM WholeInvariance == Spec => []WholeInv
<1>1. Init => WholeInv
  BY PushInit, SyncInit DEF WholeInv, SyncShape, SyncInv
<1>2. WholeInv /\ [Next]_vars => WholeInv'
  BY TableStep, PushStep, ShapeStep, SyncStep, SplicedStays DEF WholeInv, IInvPush, PushInv
<1> QED BY <1>1, <1>2, PTL DEF Spec

(* Every variable keeps its shape, whatever the width of the numerals.     *)
THEOREM TypeCorrect == Spec => []TypeOK
<1>1. WholeInv => TypeOK
  <2> SUFFICES ASSUME WholeInv PROVE TypeOK
    OBVIOUS
  <2>1. fetched \in 0..MaxEvents
    BY CloudPushAssumption, RowsAreEvents DEF WholeInv, IInvPush, TableInv, Events
  <2> QED BY <2>1 DEF WholeInv, IInvPush, TableInv, PushInv, SyncShape, TypeOK
<1> QED BY <1>1, WholeInvariance, PTL

(* Up to the first numeral written over a longer one, the watermark of     *)
(* /sync skips no row, whatever two requests do to the file and its .tmp   *)
(* at the same time (daemon.py:811-921).                                   *)
THEOREM SyncIsSafe == Spec => []SyncSkipsNothing
<1>1. WholeInv => SyncSkipsNothing
  BY DEF WholeInv, SyncInv, Shown, SyncSkipsNothing, WatermarkVouches
<1> QED BY <1>1, WholeInvariance, PTL
=============================================================================
