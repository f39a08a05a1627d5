-------------------------------- MODULE Sink --------------------------------
(***************************************************************************)
(* What the log replication expects of a sink: it takes logs in the order  *)
(* of their ids, makes them safe in its own time and order, and answers    *)
(* with a checkpoint that covers no log it has taken and not made safe.    *)
(* The checkpoint may go back.                                             *)
(***************************************************************************)
EXTENDS Integers

VARIABLES
    taken,   \* the logs taken since the sink was made
    safe,    \* the logs that cannot be lost any more
    acked    \* the committed checkpoint, -1 at first

sinkVars == <<taken, safe, acked>>

SinkInit == taken = {} /\ safe = {} /\ acked = -1

Covers(c, l) == l <= c

TakeLog ==
    /\ \E l \in taken' : /\ taken' = taken \cup {l}
                         /\ \A k \in taken : Covers(l, k)
    /\ UNCHANGED <<safe, acked>>

MakeSafe ==
    /\ safe \subseteq safe' /\ safe' \subseteq safe \cup taken
    /\ UNCHANGED <<taken, acked>>

Acknowledge ==
    /\ acked' = -1 \/ \E l \in taken : Covers(l, acked')
    /\ \A l \in taken : Covers(acked', l) => l \in safe
    /\ UNCHANGED <<taken, safe>>

\* The process that owns the sink dies, or makes a new one.
Remake == taken' = {} /\ acked' = -1 /\ UNCHANGED safe

SinkNext == TakeLog \/ MakeSafe \/ Acknowledge \/ Remake

SinkSpec == SinkInit /\ [][SinkNext]_sinkVars
=============================================================================
