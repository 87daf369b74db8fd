------------------------------- MODULE Journal -------------------------------
(***************************************************************************)
(* What the event store promises, with the file, the table, their order    *)
(* and their repair taken away: an event that is emitted becomes durable   *)
(* at most after it was emitted, what is durable stays so, and the caller  *)
(* is told of success only when its event is durable, or was lost in the   *)
(* one way the store cannot notice.  Queued events come in by the batch,   *)
(* and nobody is told of them.                                             *)
(***************************************************************************)
CONSTANT Events

VARIABLES emitted,        \* a caller asked for it to be recorded
          durable,        \* a later reader of the brain finds it
          lost,           \* written, but where no reader can tell it apart
          acked           \* the caller was told that it is recorded

journalVars == <<emitted, durable, lost, acked>>

JournalInit ==
    emitted = {} /\ durable = {} /\ lost = {} /\ acked = {}

Submit(e) ==
    /\ e \notin emitted \cup durable \cup lost
    /\ emitted' = emitted \cup {e}
    /\ UNCHANGED <<durable, lost, acked>>

\* Kept and acknowledged may be one step or two.
Keep(e, told) ==
    /\ e \in emitted
    /\ durable' = durable \cup {e}
    /\ acked' = acked \cup told
    /\ UNCHANGED <<emitted, lost>>

Lose(e) ==
    /\ e \in emitted
    /\ lost' = lost \cup {e}
    /\ UNCHANGED <<emitted, durable, acked>>

Acknowledge(e) ==
    /\ e \in durable \cup lost
    /\ acked' = acked \cup {e}
    /\ UNCHANGED <<emitted, durable, lost>>

Import ==
    /\ durable \subseteq durable' /\ lost \subseteq lost'
    /\ emitted \cap ((durable' \cup lost') \ (durable \cup lost)) = {}
    /\ UNCHANGED <<emitted, acked>>

JournalNext ==
    \/ Import
    \/ \E e \in Events :
         \/ Submit(e) \/ Lose(e) \/ Acknowledge(e)
         \/ \E told \in SUBSET {e} : Keep(e, told)

JournalSpec == JournalInit /\ [][JournalNext]_journalVars
=============================================================================
