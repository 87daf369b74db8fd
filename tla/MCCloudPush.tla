----------------------------- MODULE MCCloudPush -----------------------------
(* An instance of CloudPush for TLC: two runs of push_pending_events and   *)
(* two /sync requests on a brain that gets from one-digit to two-digit     *)
(* rows.                                                                   *)
EXTENDS CloudPush, TLC

CONSTANTS p1, p2, s1, s2

TwoPushers == {p1, p2}
TwoSyncers == {s1, s2}
Nobody     == {}
AnyOrder   == Permutations(TwoPushers) \cup Permutations(TwoSyncers)
SyncersAlike == Permutations(TwoSyncers)

(* The runs and the requests meet nowhere but in the table, which neither  *)
(* writes.  So it is enough to look at behaviours in which only the ones   *)
(* or only the others have left their first state.                         *)
RunsRest     == mark = Before /\ held = 1..Before /\ \A p \in Pushers : pc[p] = "off"
RequestsRest ==
    /\ file = Before /\ tmp = Missing /\ shown = 1..Before
    /\ \A s \in Syncers : at[s] = "off"
ApartSpec == Init /\ [][Next /\ (RunsRest' \/ RequestsRest')]_vars
==============================================================================
