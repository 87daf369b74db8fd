----------------------------- MODULE MCWorkerPool -----------------------------
(* Small instances of WorkerPool for TLC: two threads, and two keys of     *)
(* which one has no handler until it is registered.                        *)
EXTENDS WorkerPool

CONSTANTS w1, w2, k1, k2

WorkersMC == {w1, w2}
KeysMC    == {k1, k2}
HandledMC == {k1}
=============================================================================
