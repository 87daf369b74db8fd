----------------------------- MODULE MCSyncQueue -----------------------------
(* Instances of SyncQueue for TLC: the oldest row is one the endpoint      *)
(* always answers with an unlisted 4xx.                                    *)
EXTENDS SyncQueue

CONSTANT t1

MCOversized == {1}
=============================================================================
