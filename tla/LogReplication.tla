--------------------------- MODULE LogReplication ---------------------------
(***************************************************************************)
(* The log replication of suez (drc): a LogReplicationPipeline reads the   *)
(* logs of a source topic that the index has made visible, writes each of  *)
(* them to every sink, and keeps in a worker state the id up to which all  *)
(* sinks have committed, from which a new worker goes on.                  *)
(*                                                                         *)
(* A log is its id, the timestamp of the message, and ids are distinct.    *)
(* The sinks are what Sink promises (SinksKeepContract below), which the   *)
(* swift writer implements when its topic has one partition.               *)
(***************************************************************************)
EXTENDS Integers

CONSTANTS
    Logs,          \* the ids of the logs in the source
    Rewritten,     \* those the LogRewriter does not ignore
    Sinks,         \* numbers, in the order of the sinks' names
    HasFields,     \* by sink, the logs that have its hash fields
    StartOffset,   \* start_offset of the configuration
    MaxPerLoop,    \* MAX_REPLICATE_DOC_COUNT_PER_LOOP
    EndVisible,    \* bound: how far the index gets
    MaxFaults      \* bound: crashes and failing calls

ASSUME ReplicationConstants ==
    /\ Logs \subseteq Nat /\ Rewritten \subseteq Logs
    /\ Sinks \subseteq Nat /\ \E last \in Sinks : \A s \in Sinks : s <= last
    /\ HasFields \in [Sinks -> SUBSET Logs]
    /\ StartOffset \in Int
    /\ MaxPerLoop \in Nat \ {0} /\ EndVisible \in Nat /\ MaxFaults \in Nat

VARIABLES
    visible,     \* getVisibleLogId: the index has built what is before it
    stored,      \* the checkpoint in the worker state, -1 when there is none
    \* LogReplicationPipeline
    pc,          \* "down": there is no pipeline; else the next step of run
    persisted,   \* _checkpoint
    consumed,    \* _consumedLogId
    pos,         \* the next id the reader looks for
    end, count,  \* end and processedCount of replicateLogRange
    cur, todo,   \* the log replicateLog writes, and the sinks it has to visit
    \* the sinks
    taken, durable, acked,
    faults

sinkVars == <<taken, durable, acked>>
rangeVars == <<end, count, cur, todo>>
vars == <<visible, stored, pc, persisted, consumed, pos, rangeVars, sinkVars, faults>>

Larger(x, y) == IF x > y THEN x ELSE y

Init ==
    /\ visible = 0 /\ stored = -1 /\ pc = "down"
    /\ persisted = -1 /\ consumed = -1 /\ pos = 0
    /\ end = 0 /\ count = 0 /\ cur = 0 /\ todo = {}
    /\ taken = [s \in Sinks |-> {}] /\ durable = taken
    /\ acked = [s \in Sinks |-> -1]
    /\ faults = 0

Fault == faults < MaxFaults /\ faults' = faults + 1

(***************************************************************************)
(* start, and the steps of run                                             *)
(***************************************************************************)

\* A worker makes the pipeline, with a new reader, and recovers.  A start
\* that fails is tried again.
start ==
    /\ pc = "down"
    /\ pc' = "run"
    /\ persisted' = stored
    /\ consumed' = Larger(Larger(stored, StartOffset - 1), -1)
    /\ pos' = 0
    /\ UNCHANGED <<visible, stored, rangeVars, sinkVars, faults>>

\* Variant of the end of the range for a visible id that is built already.
RangeEndBefore == visible - 1

\* The visible id is that of the first log that is not built: the range
\* to replicate ends before it.
RangeEnd == visible

\* Where the reader is after the seek, which is left out at the very start.
SeekPos == IF consumed + 1 > 0 THEN consumed + 1 ELSE pos

\* The part of run and replicateLogRange before the loop: the range, the
\* seek, the snapshot.
run ==
    /\ pc = "run"
    /\ \/ /\ consumed + 1 < RangeEnd
          /\ end' = RangeEnd /\ count' = 0
          /\ pos' = SeekPos
          /\ pc' = "read"
          /\ UNCHANGED faults
       \/ /\ consumed + 1 >= RangeEnd
          /\ pc' = "update"
          /\ UNCHANGED <<pos, end, count, faults>>
       \/ /\ consumed + 1 < RangeEnd     \* seek or createSnapshot fails
          /\ Fault
          /\ pos' \in {pos, SeekPos}
          /\ pc' = "update"
          /\ UNCHANGED <<end, count>>
    /\ UNCHANGED <<visible, stored, persisted, consumed, cur, todo, sinkVars>>

\* The reader returns the first log from its position on.
NextLog(l) == /\ l \in Logs /\ l >= pos
              /\ \A k \in Logs : k >= pos => l <= k

\* One turn of the loop up to the call of replicateLog.  A log at or after
\* the end may be there already, and is read and dropped.
read ==
    /\ pc = "read"
    /\ \/ /\ count >= MaxPerLoop
          /\ pc' = "update"
          /\ UNCHANGED <<consumed, pos, count, cur, todo, faults>>
       \/ /\ count < MaxPerLoop
          /\ \A l \in Logs : NextLog(l) => l >= end
          /\ pc' = "update"
          /\ \/ UNCHANGED pos
             \/ \E l \in Logs : NextLog(l) /\ pos' = l + 1
          /\ UNCHANGED <<consumed, count, cur, todo, faults>>
       \/ /\ count < MaxPerLoop          \* the read or the rewrite fails
          /\ Fault
          /\ pc' = "update"
          /\ \/ UNCHANGED pos
             \/ \E l \in Logs : NextLog(l) /\ pos' = l + 1
          /\ UNCHANGED <<consumed, count, cur, todo>>
       \/ \E l \in Logs :
          /\ count < MaxPerLoop
          /\ NextLog(l) /\ l < end /\ consumed <= l
          /\ pos' = l + 1
          /\ IF l \in Rewritten
             THEN /\ pc' = "write" /\ cur' = l /\ todo' = Sinks
                  /\ UNCHANGED <<consumed, count>>
             ELSE /\ consumed' = l /\ count' = count + 1
                  /\ UNCHANGED <<pc, cur, todo>>
          /\ UNCHANGED faults
    /\ UNCHANGED <<visible, stored, persisted, end, sinkVars>>

\* Variant of a failing write after which the log counts as consumed.
writeFailsConsumed ==
    /\ Fault
    /\ pc' = "update" /\ todo' = {}
    /\ consumed' = cur
    /\ UNCHANGED <<count, taken>>

\* LogWriter::write fails: the log is left, also by the sinks after this one.
writeFails ==
    /\ Fault
    /\ pc' = "update" /\ todo' = {}
    /\ UNCHANGED <<consumed, count, taken>>

\* LogWriter::write ignores a log without the sink's hash fields.
writeDone(s) ==
    /\ taken' = [taken EXCEPT ![s] = IF cur \in HasFields[s] THEN @ \cup {cur} ELSE @]
    /\ todo' = todo \ {s}
    /\ IF todo = {s}
       THEN pc' = "read" /\ consumed' = cur /\ count' = count + 1
       ELSE UNCHANGED <<pc, consumed, count>>
    /\ UNCHANGED faults

\* replicateLog, one sink after the other.
replicateLog ==
    /\ pc = "write"
    /\ \E s \in todo :
          /\ \A t \in todo : s <= t
          /\ \/ writeDone(s)
             \/ cur \in HasFields[s] /\ writeFails
    /\ UNCHANGED <<visible, stored, persisted, pos, end, cur, durable, acked>>

\* Variants of updatePersistedLogId: the last answer wins, the least one does.
updatePersistedLogIdAlways(id) == persisted' = id
updatePersistedLogIdLess(id) == persisted' = IF id < persisted THEN id ELSE persisted

updatePersistedLogId(id) == persisted' = Larger(persisted, id)

\* Variant of updateCheckpoint that takes the sink that is farthest.
updateCheckpointFarthest ==
    /\ pc = "update"
    /\ \E s \in Sinks : /\ \A t \in Sinks : acked[t] <= acked[s]
                        /\ updatePersistedLogId(acked[s])
    /\ pc' = "save"
    /\ UNCHANGED <<visible, stored, consumed, pos, rangeVars, sinkVars, faults>>

updateCheckpoint ==
    /\ pc = "update"
    /\ \E s \in Sinks : /\ \A t \in Sinks : acked[s] <= acked[t]
                        /\ updatePersistedLogId(acked[s])
    /\ pc' = "save"
    /\ UNCHANGED <<visible, stored, consumed, pos, rangeVars, sinkVars, faults>>

\* Variant of the save that writes what is replicated, not what is safe.
saveConsumed ==
    /\ pc = "save"
    /\ stored' = consumed
    /\ pc' = "run"
    /\ UNCHANGED <<visible, persisted, consumed, pos, rangeVars, sinkVars, faults>>

saveCheckpoint ==
    /\ pc = "save"
    /\ stored' = persisted
    /\ pc' = "run"
    /\ UNCHANGED <<visible, persisted, consumed, pos, rangeVars, sinkVars, faults>>

\* WriteLimitedWorkerState writes once in an interval; a write may fail.
skipSave ==
    /\ pc = "save"
    /\ pc' = "run"
    /\ UNCHANGED <<visible, stored, persisted, consumed, pos, rangeVars, sinkVars, faults>>

\* The worker stops or dies anywhere, and its sinks with what they hold.
crash ==
    /\ pc # "down"
    /\ Fault
    /\ pc' = "down"
    /\ taken' = [s \in Sinks |-> {}]
    /\ acked' = [s \in Sinks |-> -1]
    /\ UNCHANGED <<visible, stored, persisted, consumed, pos, rangeVars, durable>>

(***************************************************************************)
(* The index and the sinks                                                 *)
(***************************************************************************)
Build ==
    /\ visible' \in visible + 1 .. EndVisible
    /\ UNCHANGED <<stored, pc, persisted, consumed, pos, rangeVars, sinkVars, faults>>

pipelineVars == <<visible, stored, pc, persisted, consumed, pos, rangeVars, faults>>

MakeSafe(s) ==
    /\ \E l \in taken[s] \ durable[s] : durable' = [durable EXCEPT ![s] = @ \cup {l}]
    /\ UNCHANGED <<pipelineVars, taken, acked>>

\* Variant of the answer that covers what is not safe yet.
AcknowledgeAll(s) ==
    /\ \E l \in taken[s] : acked' = [acked EXCEPT ![s] = l]
    /\ UNCHANGED <<pipelineVars, taken, durable>>

\* The answer is the last log that is safe, or just before one that is not.
Acknowledge(s) ==
    /\ \E l \in taken[s] : \E c \in {l - 1, l} :
          /\ \A k \in taken[s] : k <= c => k \in durable[s]
          /\ acked' = [acked EXCEPT ![s] = c]
    /\ UNCHANGED <<pipelineVars, taken, durable>>

Pipeline ==
    start \/ run \/ read \/ replicateLog \/ updateCheckpoint \/ saveCheckpoint \/ skipSave

Next ==
    \/ Pipeline \/ crash \/ Build
    \/ \E s \in Sinks : MakeSafe(s) \/ Acknowledge(s)

Spec == Init /\ [][Next]_vars

\* The work loop of LogReplicator runs the pipeline, or makes it again; the
\* checkpoint is written once the interval has passed; a sink makes safe
\* what it has.  Faults are bounded by MaxFaults.
FairSpec ==
    /\ Spec
    /\ WF_vars(Pipeline) /\ SF_vars(saveCheckpoint)
    /\ \A s \in Sinks : WF_vars(MakeSafe(s))

(***************************************************************************)
(* Properties                                                              *)
(***************************************************************************)

\* The logs that have to get to sink s.
Wanted(s) == {l \in Rewritten \cap HasFields[s] : l >= StartOffset}

\* The types of the pipeline's fields.
TypeOK ==
    /\ visible \in Nat /\ stored \in Int /\ persisted \in Int
    /\ consumed \in Int /\ pos \in Nat /\ end \in Nat /\ count \in Nat
    /\ pc \in {"down", "run", "read", "write", "update", "save"}
    /\ cur \in Nat /\ todo \subseteq Sinks /\ (pc = "write" => todo # {})
    /\ taken \in [Sinks -> SUBSET Logs] /\ durable \in [Sinks -> SUBSET Logs]
    /\ acked \in [Sinks -> Int]
    /\ faults \in Nat

\* Every log up to c is safe in every sink that has to have it.
CompleteUpTo(c) == \A s \in Sinks : \A l \in Wanted(s) : l <= c => l \in durable[s]

\* saveCheckpoint stores an id from which a new worker may go on: all logs
\* up to it are safe in all sinks, whatever failed, crashed or was written
\* twice before.
StoredIsComplete == CompleteUpTo(stored)

\* replicateLogRange passes over no log: those up to _consumedLogId are in
\* the hands of their sinks.
NothingSkipped ==
    pc # "down" =>
        \A s \in Sinks : \A l \in Wanted(s) : l <= consumed => l \in taken[s] \cup durable[s]

\* "_consumedLogId >= _persistedLogId", also when a log has been written to
\* some of the sinks only.
ConsumedCoversPersisted == pc # "down" => consumed >= persisted

\* A worker that starts again finds a checkpoint that never went back.
StoredNeverGoesBack == [][stored' >= stored]_stored

\* The sinks this module assumes keep the contract that the swift writer
\* implements when its topic has one partition: replicateLog hands them the
\* logs in order, also when it writes one of them again.
TheSink(s) == INSTANCE Sink WITH
                 taken <- taken[s], safe <- durable[s], acked <- acked[s]
SinksKeepContract ==
    /\ \A s \in Sinks : TheSink(s)!SinkInit
    /\ [][\A s \in Sinks : [TheSink(s)!SinkNext]_<<taken[s], durable[s], acked[s]>>]_sinkVars

\* Every log the index has made visible gets to its sinks at last.
EventuallyReplicated ==
    <>[](\A s \in Sinks : \A l \in Wanted(s) : l < visible => l \in durable[s])

\* What EventuallyCheckpointed of the swift writer says of each sink.
SinksCatchUp == \A s \in Sinks : <>[](\A l \in taken[s] : l <= acked[s])

\* With sinks that catch up, the stored checkpoint reaches every log which no
\* sink is short of: for each sink, it or a later one is a visible log that
\* the sink has to have.
EventuallyStored ==
    SinksCatchUp =>
        <>[](\A l \in Logs :
                (\A s \in Sinks : \E k \in Wanted(s) : l <= k /\ k < visible)
                   => l <= stored)
=============================================================================
