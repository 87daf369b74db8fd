------------------------------ MODULE JobLedger ------------------------------
(***************************************************************************)
(* What the background queue promises, with the threads, the claims and    *)
(* the pool taken away: a job is accepted unless one of its key is open;   *)
(* the work of an open job is begun at most once; and a job is closed with *)
(* a verdict that says what became of the work.  A job may stay open for   *)
(* ever: the ledger promises that work is never repeated, not that it is   *)
(* done.                                                                   *)
(***************************************************************************)
CONSTANTS Jobs, Keys

VARIABLES key,            \* the key of each job accepted so far
          open,           \* jobs without a verdict
          called,         \* jobs whose work was begun
          returned,       \*   and came to a good end
          spoiled,        \* jobs whose success could not be written down
          done, failed    \* the verdicts

ledgerVars == <<key, open, called, returned, spoiled, done, failed>>

LedgerInit ==
    /\ key = <<>>
    /\ open = {} /\ done = {} /\ failed = {}
    /\ called = {} /\ returned = {} /\ spoiled = {}

Submit(i, k) ==
    /\ i \notin DOMAIN key
    /\ \A j \in open : key[j] # k
    /\ key' = [j \in DOMAIN key \cup {i} |-> IF j = i THEN k ELSE key[j]]
    /\ open' = open \cup {i}
    /\ UNCHANGED <<called, returned, spoiled, done, failed>>

Call(i) ==
    /\ i \in open \ called
    /\ called' = called \cup {i}
    /\ UNCHANGED <<key, open, returned, spoiled, done, failed>>

Return(i) ==
    /\ i \in (open \cap called) \ returned
    /\ returned' = returned \cup {i}
    /\ UNCHANGED <<key, open, called, spoiled, done, failed>>

Spoil(i) ==
    /\ i \in open \cap returned
    /\ spoiled' = spoiled \cup {i}
    /\ UNCHANGED <<key, open, called, returned, done, failed>>

Succeed(i) ==
    /\ i \in open \cap returned
    /\ open' = open \ {i} /\ done' = done \cup {i}
    /\ UNCHANGED <<key, called, returned, spoiled, failed>>

Fail(i) ==
    /\ i \in open /\ (i \in returned => i \in spoiled)
    /\ open' = open \ {i} /\ failed' = failed \cup {i}
    /\ UNCHANGED <<key, called, returned, spoiled, done>>

LedgerNext ==
    \E i \in Jobs :
        \/ \E k \in Keys : Submit(i, k)
        \/ Call(i) \/ Return(i) \/ Spoil(i) \/ Succeed(i) \/ Fail(i)

LedgerSpec == LedgerInit /\ [][LedgerNext]_ledgerVars
=============================================================================
