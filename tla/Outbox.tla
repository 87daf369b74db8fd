------------------------------- MODULE Outbox -------------------------------
(***************************************************************************)
(* What the write-through queue promises, with the queue, the threads and  *)
(* the retries taken away: a correction is submitted, the cloud answers it *)
(* any number of times, and it is settled (never sent again) only once the *)
(* cloud has stored it or has refused it for good.                         *)
(***************************************************************************)
EXTENDS Naturals

CONSTANT Items            \* the corrections a brain may submit

VARIABLES submitted,      \* written to the outbox
          stored,         \* the cloud holds it
          refused,        \* the cloud answered that it will never take it
          settled         \* the outbox is done with it

outboxVars == <<submitted, stored, refused, settled>>

OutboxInit ==
    /\ submitted = {}
    /\ stored = {}
    /\ refused = {}
    /\ settled = {}

Submit(i) ==
    /\ i \notin submitted
    /\ submitted' = submitted \cup {i}
    /\ UNCHANGED <<stored, refused, settled>>

\* A second delivery of the same item leaves the cloud as it is: ingest
\* deduplicates on the event id.
Store(i) ==
    /\ i \in submitted
    /\ stored' = stored \cup {i}
    /\ UNCHANGED <<submitted, refused, settled>>

Refuse(i) ==
    /\ i \in submitted
    /\ refused' = refused \cup {i}
    /\ UNCHANGED <<submitted, stored, settled>>

Settle(i) ==
    /\ i \in stored \cup refused
    /\ settled' = settled \cup {i}
    /\ UNCHANGED <<submitted, stored, refused>>

OutboxNext ==
    \E i \in Items : Submit(i) \/ Store(i) \/ Refuse(i) \/ Settle(i)

OutboxSpec == OutboxInit /\ [][OutboxNext]_outboxVars
=============================================================================
