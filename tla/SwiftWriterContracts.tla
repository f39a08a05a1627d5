------------------------ MODULE SwiftWriterContracts ------------------------
(***************************************************************************)
(* What the writer promises to the log replication above it, and what it   *)
(* assumes of the brokers below it.                                        *)
(***************************************************************************)
EXTENDS SwiftWriter

\* The writer is the sink that the log replication expects: messages are
\* taken in order, those that are committed (or that clearBuffer gave up)
\* are safe, and whatever getCommittedCheckpointId answers covers only safe
\* ones, through resends, session changes and a full pool.
TheSink == INSTANCE Sink WITH
              taken <- DOMAIN written,
              safe <- {m \in DOMAIN written : Kept(m)},
              acked <- published
ImplementsSink == TheSink!SinkSpec

\* The brokers that SwiftWriter assumes keep what PartitionLog promises, which
\* MessageBrain implements.
PL(p) == INSTANCE PartitionLog WITH
            log <- [i \in 0 .. Len(log[p]) - 1 |-> [ts |-> i, msg |-> log[p][i + 1]]],
            begin <- 0,
            committed <- committed[p] - 1
BrokerIsPartitionLog ==
    /\ \A p \in Partitions : PL(p)!LogInit
    /\ [][\A p \in Partitions : [PL(p)!LogNext]_<<log[p], committed[p]>>]_<<log, committed>>
=============================================================================
