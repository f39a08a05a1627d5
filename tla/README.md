# A TLA+ verification of havenask's log and what depends on it

havenask is a search engine; its indexes are built and kept fresh from *swift*,
a distributed message log in the same tree. Everything written to a table passes
through a swift partition first, and the index nodes recover by reading the
partition again. This project models the storage of one partition, its clients
(reader and writer), the parking of read requests in the broker, the election of
the worker that leads, and the replication of a table's log to other topics.
Paths below are relative to `src/aios/apps/facility/swift/` unless they begin
with `aios/`, which stands for `src/aios/`.

The tree has some 1.37 million lines. The parts modelled here are a few
thousand of them: those in which threads, processes and failures meet over the
state a table's data depends on. The rest is listed under *Inventory*, *Not
modelled* and in `PROJECT.json`, and no run says anything about it.

## Inventory

| part | state | operations | what is hard | promise |
|---|---|---|---|---|
| memory queue (`broker/storage/MessageGroup.cpp`, `MessageDeque.*`, `TimestampAllocator.cpp`) | queue of messages, committed index and id | add, recycle by reader, by fraction, by size, create a view, look up by id and by time | recycling runs in rpc threads beside the commit thread | nothing leaves memory before it is on dfs; a committed view shows committed messages only |
| committer (`broker/storage_dfs/MessageCommitter.cpp`) | written and committed id, buffers, open files | write, commit, close, open | each dfs call may fail, and a failed one may have taken effect | what is called committed is on dfs |
| file pairs (`broker/storage_dfs/FileManager.cpp`, `common/FilePair.cpp`) | ordered list of data/meta pairs | list at load, create, find by id and time, expire | empty and reused pairs, a crash between two calls | every committed id that is not expired is found |
| partition (`broker/storage/MessageBrain.cpp`) | the three above, the session | load, commit, recycle, expire, read, seek, unload | locks are released between the steps of one request | one log with consecutive ids |
| dfs reader (`broker/storage_dfs/FsMessageReader.cpp`, `BlockMessageReader.cpp`) | none of its own | read, check an id, seek | files grow and expire meanwhile | the same messages as in memory |
| client reader (`client/SwiftSinglePartitionReader.cpp`) | next id, next timestamp, session | post, handle response, seek | lost responses, reloads that reuse ids | each message once, in order |
| client writer (`client/SingleSwiftWriter.cpp`, `MessageWriteBuffer.cpp`) | send queue, cursor, accepted ranges | write, send, handle response | responses lost after acceptance, session change | checkpoints only over committed messages |
| long polling (`broker/service/LongPollingRequestHandler.cpp`) | parked requests | park, wake, time out | message arrives while a request is being parked | no parked request misses a message |
| commit manager (`broker/storage/CommitManager.cpp`) | committed id per range of readers | update, align | ranges that overlap or are missing | memory-prefer topics drop only what was read |
| mirrors (`broker/replication/PartitionReplicator.cpp`) | own and mirror version, committed ids | bootstrap, catch up, answer who may write | knowledge of the other side is late | one writer |
| swift admin (`admin/`) | topics, workers, assignments | heartbeats, decisions | late heartbeats, restarts | one broker per partition |
| leader election (`aios/worker_framework/src/worker_base/LeaderElector.cpp`) | lease on zookeeper | campaign, hold, release | clocks and slow calls | one leader |
| suez tables (`aios/suez/table/`) | target and current state, role, published version | load, switch role, commit, publish | role changes in the middle of a load | readers only move to published versions |
| log replication (`aios/suez/drc/`) | consumed and persisted log id | replicate, checkpoint, recover | restarts between write and checkpoint | at least once, in order |
| index versions (`aios/storage/indexlib/framework/`) | versions, segments, locator | commit, merge, clean | cleanup beside commit | a version in use keeps its files |
| catalog (`aios/catalog/`) | versioned snapshot | update, status update | concurrent updates | no lost update |

Build service, the query engine (navi, sql, ha3), cluster management (carbon,
hippo, cm2) and the libraries (autil, fslib, network, kmonitor) are listed in
`PROJECT.json` with the reason they are left out.

## Modules

**The storage of a partition**

* `PartitionLog`: what a partition promises, with no memory queue and no
  files. A log of messages by id, the first id that can be read and a committed
  id; `Append`, `Commit`, `Restart` (a crash keeps at least what is committed),
  `Expire`. Expired messages cannot be read, but may still be stored, and a
  restart before they are gone makes them readable again, as they were.
* `MessageBrain`: the storage of a partition in `TOPIC_MODE_NORMAL`.
  `first`, `last`, `mem`, `committedIndex`, `lastCommittedId` are `MessageDeque`;
  `committedId`, `writedId`, `outFile`, `buf` are `MessageCommitter`; `cpc` and
  `target` are the progress of the thread in `commitMessage()`; `files` is
  `_filePairVec` together with what dfs has: `end` is where the broker believes a
  pair ends, `tail` where its meta file does. The first `obsolete` of them are
  `_obsoleteFilePairVec`: expired, out of the list, and still on dfs, because a
  reader holds them or their removal failed. A pass of `DelExpiredFile` takes pairs
  out of the list and removes pairs that are out of it, now or in an earlier
  pass; a crash or an unload in between leaves files that the next load lists
  again. Actions are `AddMessage`, `Recycle`
  (by reader and by size, both limited by `MessageDeque::recycle`), `RecycleFast`,
  the steps of a commit round (`CommitMessage`, `WriteMessage`, `OpenFileFail`,
  `CommitFile`, `CommitFileFail`, `FinishWrite`, `SetCommittedId`),
  `DelExpiredFile`, `Unload`, `Unloaded`, `Crash`, `Load` and the clock, `Tick`.
* `PartitionReader` composes the storage with one client reader and one
  outstanding request. `pc` walks through `doGetMessage` and
  `getMinMessageIdByTime`, one action per lock section, and every storage action
  can happen in between. `expiredTo` remembers what has expired at some time:
  `NothingSkipped` and `SeekFindsFirst` speak of messages that never did, as a
  reader that was told of the loss has gone on when a reload brings them back.

**Parked read requests**

* `LongPolling`: requests that found nothing wait in the partition
  (`_pollingQueue`). `pc` says where a reader's request is: in the read pool's
  queue, read and found empty, parked, or answered. Between the read and the
  parking (`process`, `addLongPolling`) writes are accepted (`addMessage`), in whole or
  in part, and announced (`doAfterSendMessage`, `requestPoll`), in any order, or they
  leave no work item (`leaveSilent`): the callback does nothing for a write that was
  accepted in part, and the pool may refuse the item. A read may end before the
  end of the log, as one that is served from a file does at the end of the file,
  and is then parked all the same (`ReadTo`). `stealNeedActivePolling` has the early return by
  `_pollingMinStartId` and the compressed payloads of `FilterUtil`, as sets of
  bits. Timeouts, `unLoadBrokerPartition` with its wait for the last reference,
  and the four steps of `TransporterImpl::stop` are actions of their own.

**The client writer**

* `SwiftWriter`: the asynchronous writer in safe mode. A partition has a
  `MessageWriteBuffer` (write queue, messages to merge, send queue, cursor,
  accepted ids); one send loop handles responses, posts requests and then looks
  at the partitions one after the other to publish a checkpoint. The client
  writes and clears the buffer at any point. Rpc calls time out, and the request
  of such a call may still arrive. Brokers are what `PartitionLog` says.
* `Sink`: what log replication expects of the other end: logs are taken in
  order, made safe in any order, and the checkpoint covers no log that is taken
  and not safe.

**Log replication**

* `LogReplication`: `LogReplicationPipeline` with its work loop, log by log and
  sink by sink: recovery from the stored checkpoint, ranges of visible logs with
  the seek that begins them, rewrites, writes, the checkpoint over all sinks and
  its storing, with failing calls and crashes between any two steps. The sinks
  are what `Sink` says.

**Leader election**

* `LeaderElector`: each worker's lock thread (`tryLock`, one action per
  ZooKeeper call), its check thread (`checkLeader`, with the read of the state and
  the demotion in two steps), `start` and `stop`, the lease file, the lock node and
  the leader info file, with failed and half-done calls, lost sessions and
  crashes. Each worker has its own clock.

`MCStorage`, `MCReader`, `MCLongPolling`, `MCWriter`, `MCReplication` and `MCLeader`
give these constants for TLC. `SwiftWriterContracts` states the two refinements of the
writer. `MessageBrainProofs` and `PartitionLogProofs` (the storage, the second building
on the first), `SwiftWriterProofs` (on top of `SwiftWriterBrokerProofs` and
`SwiftWriterClientProofs`, the lemmas about the two sides), `LongPollingProofs`,
`LogReplicationProofs` and `LeaderElectorProofs` hold the theorems.

The modules compose along two contracts:

    MessageBrain --implements--> PartitionLog <--relies on-- SwiftWriter
    SwiftWriter  --implements--> Sink         <--relies on-- LogReplication

The left sides are `ImplementsPartitionLog` (run `storage`) and `ImplementsSink` (run
`writer`, one partition: with two, see the finding `writer_race`). The right sides are
`BrokerIsPartitionLog` (run `writer`) and `SinksKeepContract` (run `replication`). All
four are also proved, under the conditions in the table below. The right sides
say that the brokers and sinks assumed do nothing their contract forbids. That
they may do all it allows is by inspection: a broker of `SwiftWriter` commits any
prefix and restarts with any that has what is committed (expiry is left out, as
no writer sees it). `EventuallyCheckpointed` (run `writer_live`) is what `EventuallyStored` of
the replication assumes of its sinks (`SinksCatchUp`).

Definitions marked *Variant* are not part of the specifications: each is a
plausible mistake in one operation, and the run it belongs to finds the property
violated when it stands in for that operation.

Left open on purpose (any choice is allowed): when `needCommitFile` and
`needCloseFile` hold, how many messages a recycling pass takes up to its limit,
how many messages fit one response, when files expire, when a parked request is
due. A message is a payload no two messages share and a timestamp. Message sizes
and bytes are not modelled.

## Runs

| run | configuration | states | shows |
|---|---|---|---|
| `storage` | `MCStorage.cfg` | 213,746 | recycling, commits, failed flushes, expiry, crashes: nothing leaves memory early, the committed index is right, committed means on dfs, memory and dfs agree, a reused pair is empty, the storage implements `PartitionLog`, the committed id never goes back, accepted messages are committed in the end, an unload ends |
| `reader` | `MCReader.cfg` | 329,019 | reads of what is not committed (the default): in order and none twice, with a crash that loses messages already handed out, a reload and a lost request; a reader that keeps asking gets past every committed message, also over a change of session |
| `reader_seek` | `MCReaderSeek.cfg` | 3,533,552 | committed reads, with a crash and a reload: no message that never expired is skipped; a seek goes to the first message that is not older than its time, and never looks into an empty file |
| `reader_uncommitted` | `MCReaderUncommitted.cfg` | violation | finding 1 |
| `polling` | `MCLongPolling.cfg` | 341,785 | a parked request for which an announced message came after its read is about to be woken; a request is parked a bounded number of times; stop leaves none behind; every request is answered |
| `writer` | `MCWriter.cfg` | 1,635,590 | nothing leaves the buffer before it is committed, accepted ids match the log, the log is in order, the writer is a `Sink` |
| `writer_live` | `MCWriterLive.cfg` | 114,714 | two partitions: each one's checkpoint covers committed messages only, a buffer that refuses has a conversion to finish, and the published checkpoint reaches every message |
| `writer_race` | `MCWriterRace.cfg` | violation | finding 2 |
| `writer_stuck` | `MCWriterStuck.cfg` | violation | finding 3 |
| `replication` | `MCReplication.cfg` | 481,138 | the stored checkpoint is complete and never goes back, no log is passed over, every visible log gets to its sinks, the checkpoint follows |
| `replication_first` | `MCReplicationFirst.cfg` | violation | finding 4 |
| `leader` | `MCLeader.cfg` | 3,096,614 | one leader, the leader info names it, no running lease is taken, a leader that renews stays leader, and after the last fault there is one again within `Outage` |

### Bounds

* Storage: four messages in batches of up to two give files of several
  messages, two or more pairs, and a queue that is recycled while a commit round
  is under way; two loads give one crash or unload with a reload; one failed dfs
  call gives a failed flush whose messages are partly on dfs, and then a crash; a
  clock of one tick gives messages that share a tick and messages that do not.
* Reader: three messages, one per write request, a memory queue of three and
  requests of up to two messages (three in `reader_seek`), so one answer can come
  from memory and the next from a file. No failed dfs call; `storage` covers those. `reader` has no seek and
  a clock that moves only with a load, because its liveness needs the time;
  `reader_seek` has one seek and no lost request. `NothingSkipped` is not checked
  of reads that are not committed: a reader's position there may be one of
  messages that a crash took back, and finding 1 is about the seek that follows.
  `DeliveredInOrder` is not checked of committed reads, where it is false (see the
  observations).
* Polling: two readers whose filters overlap in one payload, four payloads on
  two bits, so that a write can wake a request whose filter does not want it;
  partitions that begin empty or with a message; two messages, in one write,
  that may be accepted in part, or in two; two rounds through the queue (ten in
  the code). One reader was also checked with three messages and a partition
  that begins with two (225,487 states), and the safety properties are proved.
* Writer: three messages, two faults and a `clearBuffer` in one partition; two
  messages and a fault in two. A batch of two and a conversion threshold of one
  give requests with some, all and none of the messages.
* Replication: four logs with gaps between their ids, one that the rewriter
  ignores and one that a sink ignores, ranges of two logs, three faults.
* Leader: two workers, one with a progress key; a lease of ten units, delays
  and skew of one; one fault, which may come at any time of the first lease,
  during a renewal, or during the campaign after it; 25 units cover the outage
  after it.

These bounds reach each case named here, not every combination of them.

**Deadlock** is not checked: the histories are bounded and end, a partition that
has left a broker need not come back, a stopped broker stays stopped, and at the
end of the clock the workers wait.

### Fairness and timing

* *Storage.* The commit thread is a loop thread
  (`broker/service/TopicPartitionSupervisor.cpp:122`), so its steps are weakly fair.
  Committing what is buffered is strongly fair: dfs calls fail now and then but
  not for ever, and the commit interval forces a commit of buffered messages.
* *Reader.* The broker finishes what it works on and the client's fill loop
  keeps posting; nothing is assumed about lost requests. No fairness is assumed
  of writers, recycling, expiry, crashes or loads.
* *Polling.* The threads of both pools take what is queued, the loop thread of
  `LongPollingRequestHandler` gets to every request that is due, and an unload or a
  stop that has begun goes on. Neither writes nor new requests need come.
* *Writer.* The send loop goes on, and it posts when it again and again could
  (strong fairness: a turn of the loop may find that it is too early); brokers
  serve what arrives and commit what they have. Faults are bounded.
* *Replication.* The work loop goes on; a checkpoint is stored when there is
  again and again one to store (strong fairness: the interval of
  `WriteLimitedWorkerState` lets some pass); sinks make safe what they have.
* *Leader.* There is no fairness; `OutageIsBounded` is an invariant over the
  clock. Nothing in the code bounds how long a thread may be held up, so `Tick`
  states what the lease relies on (`Timely`): a loop ends within `LockDelay` of
  reading the clock, the check thread is at most `CheckDelay` late, and clocks differ
  by at most `MaxSkew`. The properties hold when `LockDelay + CheckDelay + MaxSkew <=
  Lease / 2` (`Punctual`).
* *Clocks of brokers.* `Load` takes the clock to have passed every timestamp
  given before. A broker whose clock is behind the one before it is outside the
  model.

## Findings

1. **A seek goes behind messages** (`reader_uncommitted`). With
   `readNotCommittedMsg` (the default, `config/PartitionConfig.cpp:58`), when memory's
   oldest message is younger than the timestamp,
   `MessageBrain::getMinMessageIdByTime` (`broker/storage/MessageBrain.cpp:1165-1178`)
   asks the files and returns their answer. If that message is not on dfs yet, the
   files answer `ERROR_BROKER_TIMESTAMP_TOO_LATEST`, and the client
   (`client/SwiftSinglePartitionReader.cpp:503`) goes to `maxmsgid + 1`. The comment at
   `broker/storage_dfs/FileManager.cpp:351` says "if even the oldest message's
   timestamp > given timestamp, we will return the oldest message.", and
   `broker/storage/test/MessageGroupTest.cpp:512` expects id 0 for time 0. The trace
   has a partition before its first commit; from reading the code the same holds
   after `tryRecycleFast`, whose test at `broker/storage/MessageGroup.cpp:170` lets the
   last committed message go. With committed reads (`reader_seek`) the property
   holds within the bounds.
2. **The published checkpoint covers a message that is not sent** (`writer_race`).
   `SwiftWriterImpl::sendRequest` (`client/SwiftWriterImpl.cpp:508-531`) looks at the
   partitions one after the other while `write` adds to them. In the trace, which
   numbers messages from 1, messages 1 and 2 are committed, message 3 is written to
   a partition already seen, as empty, and message 4 to one not yet seen: the
   least checkpoint is 3, and is published with message 3 not sent.
   `client/test/SwiftWriterImplTest.cpp:392-395`, which numbers them from 0, writes its
   third message, number 2, and expects the checkpoint to stay at 1 while it is
   not sent. The next turn publishes a safe
   checkpoint again; each partition's own checkpoint is always safe
   (`PartCheckpointIsSafe`), and so is the published one of a single partition
   (both proved).
3. **A buffer that stays closed** (`writer_stuck`). `MessageWriteBuffer::clear`
   (`client/MessageWriteBuffer.cpp:321-346`) empties the queue to merge and leaves
   `_canAdd` false when a full block pool had closed the buffer; only a conversion
   would open it (410, 423), and one without messages returns before (414-417).
   `client/test/SwiftWriterImplTest.cpp:302-309` expects a write after `clearBuffer`
   to be accepted. Without `clearBuffer` it does not happen (`RefusalsEnd`).
4. **A log is passed over** (`replication_first`). `replicateLogRange` seeks only when
   the range begins after 0 (`aios/suez/drc/LogReplicationPipeline.cpp:310`). With no
   checkpoint and the default start offset, a log that was read and dropped
   because it was not visible yet is not read again until a log after it is
   consumed, and then it never is.
   `aios/suez/drc/test/LogReplicationPipelineTest.cpp:139-162` expects such a log to be
   replicated by a later range. The theorems about completeness assume a positive
   start offset.

Observations made while modelling, without a run of their own:

* *Leader.* Outside `Punctual` there can be two leaders without a failed call:
  `doHoldLeader` writes the lease and sets the flag without looking at the clock or
  the lease file again (`aios/worker_framework/src/worker_base/LeaderElector.cpp:247-264`),
  so a lock thread held up for longer than its lease overwrites the lease of the
  next leader. The module with `LockDelay` above `Lease` shows it.
* *Polling, requests that wait with a message to get.* `NoWakeUpIsLost` is about
  messages after the `maxmsgid` of the read, in a write that was announced. In
  three other cases the request waits for the next announced write or its
  timeout. A partition without messages answers with `maxmsgid` at its default, 0,
  and `_pollingMaxMsgId` begins at 0, so that message 0, when it arrives between the
  read and the parking, passes the comparison at
  `broker/service/LongPollingRequestHandler.cpp:172` unseen. A read that ends at the end
  of a file without a match (`broker/storage_dfs/BlockMessageReader.cpp:101-107`) is
  parked with the rest of the log unread (`broker/service/ReadWorkItem.cpp:72-77`),
  and what it has not read is not after its `maxmsgid`. A write that fills the
  memory is accepted in part with an error (`broker/storage/MessageGroup.cpp:332-367`),
  and the callback announces writes without error only
  (`broker/service/LongPollingRequestHandler.cpp:222`); nor is a write announced whose
  work item the pool refuses. TLC has a trace for each when the property is
  stated without the exception.
* *Reader, a message handed out twice.* `MessageCommitter` moves the end of a file
  (`broker/storage_dfs/MessageCommitter.cpp:269`) before the committed id is published to
  the memory queue (`broker/storage/MessageBrain.cpp:529`). With committed reads, a file
  can therefore give a reader a message that the queue does not show yet; its
  next request has an id behind the queue's last committed one, and the seek by
  timestamp that answers it goes back to the id after that one, so that the
  message comes again. TLC finds it with requests of three messages.
* *Expired files.* With a reload between the two steps of expiry, messages that
  readers were told are lost are in the partition again, and the oldest message
  id goes back.
* *Polling, merged messages.* Only by reading: a merged message passes a filter
  up to `mergedTo` (`filter/MessageFilter.h:112`), while `compressFilterRegion` covers `to`
  only (`util/FilterUtil.cpp:55`), so such a message need not wake a request that
  would get it.
* *Writer.* The checkpoint can go back: `_minCheckpointIdInMerge` is still that of
  the last conversion when nothing is in merge any more
  (`client/MessageWriteBuffer.cpp:419`). `Sink` allows it, and
  `aios/suez/drc/Checkpoint.cpp:35-38` keeps the larger one.

## Proofs

Every theorem holds for all values of the constants its module's assumption
allows; the proofs use no bound of the runs. Each rests on an inductive
invariant that TLC checked first and that includes the types of the variables.

| module | theorems | assumption |
|---|---|---|
| `MessageBrainProofs` | `TypeCorrect`, `NothingRecycledEarly`, `CommittedIndexCorrect` | `StorageAssumption` |
| | `CommittedDurable`, `CommittedKept` | and at least two reserved file pairs |
| `PartitionLogProofs` | `MemoryAndDiskAgree`, `ReusedPairEmpty`, `StorageIsPartitionLog` | the same |
| `SwiftWriterProofs` | `WriterLosesNothing`, `UncommittedIdsAreRight`, `LogsAreInOrder`, `PartCheckpointsAreSafe`, `BrokersArePartitionLogs` | `WriterConstants` |
| | `RefusalsEnd` | and no `clearBuffer` |
| | `WriterIsASink`, `OnePartitionCheckpointIsSafe` | and one partition |
| `LongPollingProofs` | `WakeUpsAreKept`, `StopAnswersAll`, `PollingIsBounded` | `LongPollingConstants` |
| `LogReplicationProofs` | `ConsumedIsNotBehind`, `StoredIsMonotone`, `SinksImplementSink` | `ReplicationConstants` |
| | `StoredCheckpointIsComplete`, `NoLogIsSkipped` | and `StartOffset > 0` |
| `LeaderElectorProofs` | `AtMostOneLeader`, `LeaderInfoIsRight`, `NoLeaseStolen` | `ElectorAssumption` and `Punctual` |

* **Storage.** `UncommittedInMemory` is not inductive: whether recycling stops in
  time depends on `lastCommittedId`, which lags behind `committedId`, which lags
  behind `writedId`. `IInv` orders these ids and the ends of the queue (`Ids`), ties
  the open file to the last pair and allows only the last pair to be empty
  (`Files`), keeps the reserved pairs in the list when pairs leave it
  (`ObsoleteOK`), and adds the types and `CommittedIndexAgrees`, because
  `tryRecycleFast` chooses what to drop from a view. Durability adds `Durable`: pairs are ordered,
  overlap or touch, end no later than their meta files, and every id up to the
  committed one has a pair that is where `getFilePairById` looks. Two reserved pairs
  are needed: with one, expiry can delete the only pair that has messages while
  the newest is still empty. The default is `INT32_MAX` (`config/ConfigDefine.h:233`).
* **Contents of the storage.** That memory and files agree on the ids they share
  is not inductive: after a failed flush a meta file lists messages the broker
  does not count, and a later load counts them when the pair that was to replace
  them has none. `Contents` therefore compares the queue with every message a load
  could ever show (`MayShow`), and says what the commit buffer and the name of an
  empty last pair hold. In the refinement, `AddMessage` appends, `CommitFile`
  commits, `Crash` and `Unloaded` restart with what the pairs then list, those
  that have expired and are not removed yet included, `DelExpiredFile` expires, and
  every other step (recycling, a failed flush, opening a pair, a load) changes
  nothing of `StoredLog`. `UpLog` and `DownLog` say what that log is pair by pair,
  `BeginOK` where the part of it begins that can be read, `Growing` that its
  timestamps grow.
* **Writer.** `NothingLost` depends on what an answer still on its way will take out
  of the send queue. `WriterInv` says, partition by partition, what is known in
  between: the three queues are one ordered sequence of the partition's messages
  (`QueueOK`); the accepted ids belong to the session of the writer and mean nothing
  in a later one (`CursorOK`); a request, also one that has timed out, brings
  messages whose predecessors are in it, committed, or in the log of its session
  (`RequestOK`), which is why a broker that accepts it keeps the order; an answer
  names ids that were the messages behind the cursor, and those it calls
  committed still are, even after a reload (`AnswerOK`), unless `clearBuffer` has
  told the writer to ignore it. Each action has a lemma for its own partition,
  and one lemma (`UntouchedStays`) covers the others. `LogSteps` then gives the
  refinement of `PartitionLog` by each broker, and `LoopOK` (a loop over one partition
  has seen nothing before it publishes) that of `Sink`.
* **Polling.** A wake-up depends on what is known of a message before its reader
  is parked. `PollInv` says of each message that it was announced, will be, is
  silent, or is not after what any request that waits knew of (`Known`); that a
  request which found nothing starts no later than behind what it knew of
  (`EmptyKnows`); that a write's bits cover its messages
  (`SentKnows`); and that `_pollingMinStartId` is not past a parked request
  (`MinCovers`), without which the early return would pass over the queue.
  `WantedHasBit` shows that a filter and the payloads it lets through share a bit,
  and `BitFits` that the bit exists, for every range and width.
* **Replication.** The checkpoint is complete because the sinks' answers are, and
  because no log up to `consumed` is missing from a sink; for that
  `ReplicationInv` says where the reader is (`ReaderInPlace`) and that no sink is ahead
  by more than the log being written (`SinksInPlace`). With a start offset that is
  not positive, the reader may have passed logs before the first one is
  consumed; the two then only say that the reader is behind them, which is
  enough for the order of the logs but not for their completeness (`NothingLost`).
  `SinksImplementSink` is the refinement, step by step.
* **Leader.** That a worker is leader says nothing of the file another one looks
  at. `WorkerInv` ties them: a leader's lease is in the file and its clock is before
  half of it, and each step of the lock thread that relies on an earlier finding
  has that finding still true, or the lock lost.

Only model-checked: everything about the reader (`DeliveredInOrder`,
`SeekFindsFirst`, `NothingSkipped`, `NoSeekInEmptyFile`), `OutageIsBounded` and
`LeaderIsStable`, for which no inductive invariant is written yet, and all liveness
(temporal reasoning under fairness is out of the prover's reach).

## Not modelled

* Storage: the two calls that truncate a pair that is used again. `openFile`
  truncates the data file and then the meta file
  (`broker/storage_dfs/MessageCommitter.cpp:326-360`), which is one step of the model:
  a crash in between, or a failure of the second call, leaves a meta file whose
  messages have no data. These are messages that no client was told are
  committed, but a load would count them.
* Storage, further: memory-only, memory-prefer and persist modes, security-mode answers
  to writers, sealed topics, seal errors and fast recovery with inline versions,
  two brokers that hold one partition at the same time, filters and merged
  messages, the block cache, unreadable files at load, topic version changes.
* Polling: the hold queue of partitions without long polling, committed reads
  (whose parked requests are not woken by commits in `TOPIC_MODE_NORMAL`), and a
  full read pool: `requestPoll` blocks on it
  (`broker/service/TransporterImpl.cpp:248`), also in a read thread.
* Writer: synchronous writes, merged messages, the mode without safety, sealed
  topics and the switch to another physical topic, write versions, messages that
  share a checkpoint id.
* Replication: what a rewriter makes of a log, two logs with one timestamp, a
  visible id that goes back.
* Leader: the preemptive strategy with lock versions, the handlers called on a
  change of role, the text of the files.
* Whole components: commit manager, mirrors, the multi-partition reader, swift
  admin, suez tables and their version publication, indexlib versions, catalog,
  build service, the query engine, cluster management. Many of these could be
  modelled in the same way; they are not yet.

Places in that code which deserve a model, because a test hardly reaches them:
a short write repeated from its start (`broker/storage_dfs/MessageCommitter.cpp:443`),
an empty message in place of one that cannot be read
(`broker/storage_dfs/FsMessageReader.cpp:338`), an old broker that still writes
(`broker/storage_dfs/FileManager.cpp:116`), recycling that rounds down to nothing
(`broker/storage/MessageGroup.cpp:165`), commits moved over other ranges
(`broker/storage/CommitManager.cpp:145`), two mirrors that both may write
(`broker/replication/PartitionReplicator.cpp:185`), cleanup beside a commit
(`aios/storage/indexlib/framework/VersionCleaner.cpp:122`), the order of role handlers
(`aios/worker_framework/src/worker_base/LeaderElector.cpp:279`).

## Plan

1. Fencing: inline versions and seals, an old broker beside a new one.
2. Commit manager and the memory-prefer mode.
3. Mirrors with late knowledge of each other.
4. The suez table's role and version publication, on top of `LeaderElector`.
5. Index version commit and cleanup; swift admin.
6. Proofs: the reader, on top of `MemoryAndDiskAgree`; `LeaderIsStable` and
   `OutageIsBounded`.
