---------------------------- MODULE MessageBrain ----------------------------
(***************************************************************************)
(* The storage of one swift broker partition in TOPIC_MODE_NORMAL          *)
(* (MessageBrain): the memory queue (MessageGroup, MessageDeque), the      *)
(* committer that moves messages from the queue to dfs (MessageCommitter), *)
(* the list of file pairs (FileManager, FilePair), and the loading and     *)
(* unloading of the partition, crashes included.                           *)
(*                                                                         *)
(* The threads that meet here are the rpc threads that add messages, the   *)
(* commit thread, the threads that recycle memory and delete expired       *)
(* files, and the environment, which fails dfs calls and kills the broker. *)
(*                                                                         *)
(* A message is its payload (val, a number no two messages share) and the  *)
(* timestamp the broker gave it.  Message ids are the positions of the     *)
(* functions that hold messages: the memory queue holds ids first..last, a *)
(* file ids begin..tail-1.                                                 *)
(***************************************************************************)
EXTENDS Integers, Sequences

CONSTANTS
    ReadNotCommitted,   \* topic option: readers also see uncommitted messages
    ReservedFileCount,  \* how many files expiry leaves (at least 1)
    MemCapacity,        \* messages the memory queue has blocks for
    MaxBatch,           \* bound: messages in one write request
    MaxMsgs,            \* bound: messages accepted in all
    MaxTime,            \* bound: the clock
    MaxFails,           \* bound: failed dfs calls
    MaxLoads            \* bound: how often the partition is loaded

ASSUME StorageAssumption ==
    /\ ReadNotCommitted \in BOOLEAN
    /\ ReservedFileCount \in Nat \ {0}
    /\ MemCapacity \in Nat \ {0}
    /\ MaxBatch \in Nat \ {0}
    /\ MaxMsgs \in Nat
    /\ MaxTime \in Nat
    /\ MaxFails \in Nat
    /\ MaxLoads \in Nat

VARIABLES
    phase,              \* "down", "running" or "stopping" (being unloaded)
    session,            \* _sessionId: which load of the partition this is
    now,                \* the broker's clock
    accepted,           \* messages accepted by all loads (gives each its val)
    lastTs,             \* the last timestamp given to a message by any load
    fails,              \* failed dfs calls so far
    \* MessageDeque
    first, last, mem,   \* _msgQueue: messages first..last
    committedIndex,     \* _committedIndex
    lastCommittedId,    \* _lastCommittedId
    \* MessageCommitter and the thread that runs commitMessage()
    cpc,                \* "idle", "write" or "publish"
    target,             \* lastMsgId, read when commitMessage() started
    committedId,        \* _committedId
    writedId,           \* _writedId
    outFile,            \* _dataOutputFile and _metaOutputFile: "open" or "closed"
    buf,                \* _dataBuffer and _meta: messages committedId+1..writedId
    \* FileManager and dfs
    files,              \* the file pairs, with the dfs contents of each: the first
    obsolete            \* obsolete ones are in _obsoleteFilePairVec, the others
                        \* are the list, _filePairVec

envVars == <<session, now, accepted, lastTs>>
dequeVars == <<first, last, mem, committedIndex, lastCommittedId>>
committerVars == <<cpc, target, committedId, writedId, outFile, buf>>
fileVars == <<files, obsolete>>
vars == <<phase, envVars, fails, dequeVars, committerVars, fileVars>>

-----------------------------------------------------------------------------
Maximum(a, b) == IF a >= b THEN a ELSE b
Minimum(a, b) == IF a <= b THEN a ELSE b

NoMsgs == [i \in {} |-> i]

\* Ids of f from..to, with those f does not have taken from g.
Extend(f, g, from, to) == [i \in from..to |-> IF i \in DOMAIN f THEN f[i] ELSE g[i]]

(***************************************************************************)
(* The memory queue                                                        *)
(***************************************************************************)
MemSize == last - first + 1
MemEmpty == first > last
LastReceivedMsgId == IF MemEmpty THEN -1 ELSE last
LastReceivedMsgTimestamp == IF MemEmpty THEN now ELSE mem[last].ts

\* Variant of NextMsgTimestamp that trusts the clock.
NextMsgTimestampByClock(lastMsgTimestamp) == now

\* TimestampAllocator::getNextMsgTimestamp
NextMsgTimestamp(lastMsgTimestamp) == Maximum(now, lastMsgTimestamp + 1)

\* MessageDeque::createView: a view holds the first ViewSize messages.
ViewSize(readNotCommitted) == IF readNotCommitted THEN MemSize ELSE committedIndex

\* Variant of DropFront that forgets the committed index.
DropFrontKeepIndex(n) ==
    /\ first' = first + n
    /\ mem' = [i \in (first + n)..last |-> mem[i]]
    /\ UNCHANGED <<last, lastCommittedId, committedIndex>>

\* MessageDeque::popFront and stealBlock: n messages leave at the front.
DropFront(n) ==
    /\ first' = first + n
    /\ mem' = [i \in (first + n)..last |-> mem[i]]
    /\ committedIndex' = committedIndex - n
    /\ UNCHANGED <<last, lastCommittedId>>

\* MessageDeque::setCommittedMsgId: the index moves over the messages up to id.
SetCommittedMsgId(id) ==
    /\ lastCommittedId' = id
    /\ committedIndex' = IF MemEmpty THEN committedIndex
                         ELSE Maximum(committedIndex, Minimum(MemSize, id - first + 1))
    /\ UNCHANGED <<first, last, mem>>

(***************************************************************************)
(* Writing a request of n messages.  A request the blocks have no room for *)
(* is cut short (ERROR_BROKER_BUSY), which is a request of fewer messages. *)
(* Message i of the request gets the id after the last one and a timestamp *)
(* after the last one, also when the clock stands still.                   *)
(***************************************************************************)
AddMessage(n) ==
    LET id == LastReceivedMsgId + 1
        ts == NextMsgTimestamp(LastReceivedMsgTimestamp)
    IN  /\ phase = "running"
        /\ MemSize + n <= MemCapacity
        /\ accepted + n <= MaxMsgs
        /\ first' = IF MemEmpty THEN id ELSE first
        /\ last' = LastReceivedMsgId + n
        /\ mem' = Extend(mem,
                         [i \in id..(id + n - 1) |-> [val |-> accepted + 1 + i - id,
                                                      ts |-> ts + i - id]],
                         first', last')
        /\ accepted' = accepted + n
        /\ lastTs' = ts + n - 1
        /\ UNCHANGED <<phase, session, now, fails, committedIndex, lastCommittedId,
                       committerVars, fileVars>>

Tick ==
    /\ now < MaxTime
    /\ now' = now + 1
    /\ UNCHANGED <<phase, session, accepted, lastTs, fails, dequeVars, committerVars, fileVars>>

(***************************************************************************)
(* Recycling memory: MessageBrain::recycleBuffer, called before a write    *)
(* that needs blocks and by a timer.  It is given up unless canRecycle().  *)
(***************************************************************************)
CanRecycle == ViewSize(ReadNotCommitted) > 0 /\ first < lastCommittedId

\* Variant of RecycleLimit that does not ask whether messages are committed.
RecycleLimitLast == last - 1

\* The last id MessageDeque::recycle may pop.
RecycleLimit == lastCommittedId - 1

\* MessageDeque::recycle: by the slowest reader's timestamp, or by size.  How
\* many messages match is left open; it never empties the queue.
Recycle(n) ==
    /\ phase = "running"
    /\ CanRecycle
    /\ n < MemSize
    /\ first + n - 1 <= RecycleLimit
    /\ DropFront(n)
    /\ UNCHANGED <<phase, envVars, fails, committerVars, fileVars>>

\* MessageGroup::tryRecycleFast: whole blocks of messages go at once, fewer
\* than the view has, the last of them committed.
RecycleFast(n) ==
    /\ phase = "running"
    /\ CanRecycle
    /\ n < ViewSize(ReadNotCommitted)
    /\ first + n - 1 <= lastCommittedId
    /\ DropFront(n)
    /\ UNCHANGED <<phase, envVars, fails, committerVars, fileVars>>

(***************************************************************************)
(* The file pairs.  begin is the id in the name of a pair and ts the       *)
(* timestamp in it; onDfs says that its meta file exists; the meta file    *)
(* holds ids begin..tail-1; end is FilePair::_endMessageId, what the       *)
(* loaded partition believes.  After a failed flush tail is larger than    *)
(* end.  Message data reaches dfs before its meta does, so what the meta   *)
(* file lists can be read.                                                 *)
(***************************************************************************)
LastFile == files[Len(files)]

\* The list.  It has a pair whenever there is one: expiry leaves at least one.
Listed == (obsolete + 1)..Len(files)
FirstListed == files[obsolete + 1]

\* FileManager::getFilePairById for an id at or behind the first pair's begin:
\* the last pair that begins at or before it.
FileOf(fs, id) == CHOOSE i \in 1..Len(fs) :
                     /\ fs[i].begin <= id
                     /\ i < Len(fs) => fs[i + 1].begin > id

\* The id is on dfs, as far as the loaded partition knows.
OnDisk(id) == \E i \in Listed :
                 /\ files[i].begin <= id /\ id < files[i].end
                 /\ i < Len(files) => files[i + 1].begin > id

DiskMsg(fs, id) == fs[FileOf(fs, id)].msgs[id]

\* Variant of NewFilePair that names the pair by the clock.
NewFilePairByClock(id, ts, opened) ==
    [begin |-> id, ts |-> now, onDfs |-> opened, tail |-> id, end |-> id, msgs |-> NoMsgs]

\* FileManager::createNewFilePair and openFileForWrite: a pair that begins
\* with the message is used again and truncated.  The data file is truncated
\* first and the meta file in a second call; here it is one step, so that a
\* meta file that still lists messages whose data is gone is not modelled.
NewFilePair(id, ts, opened) ==
    [begin |-> id, ts |-> ts, onDfs |-> opened, tail |-> id, end |-> id, msgs |-> NoMsgs]

OpenFile(id, ts, opened) ==
    IF files # <<>> /\ LastFile.begin = id
    THEN IF opened THEN [files EXCEPT ![Len(files)] = NewFilePair(id, LastFile.ts, TRUE)] ELSE files
    ELSE Append(files, NewFilePair(id, ts, opened))

\* What the first k buffered messages make of the file being written.
Flushed(k) == [LastFile EXCEPT !.tail = committedId + 1 + k,
                               !.msgs = Extend(@, buf, LastFile.begin, committedId + k)]

(***************************************************************************)
(* The committer.  MessageBrain::commitMessage runs in one thread at a     *)
(* time: it writes messages writedId+1..target to the buffers (write),     *)
(* commits and closes files as maybeCommit decides, and publishes the new  *)
(* committed id to the memory queue.  When needCommitFile and              *)
(* needCloseFile hold depends on sizes and intervals and is left open.     *)
(***************************************************************************)

\* Variant of NeedCommitMessage that is content with buffered messages.
NeedWriteMessage == LastReceivedMsgId # writedId

NeedCommitMessage == LastReceivedMsgId # committedId

CommitMessage ==
    /\ phase # "down" /\ cpc = "idle"
    /\ NeedCommitMessage
    /\ cpc' = "write"
    /\ target' = LastReceivedMsgId
    /\ UNCHANGED <<phase, envVars, fails, dequeVars, committedId, writedId, outFile, buf, fileVars>>

\* write(msg): opens a file when none is open, then buffers the message.
WriteMessage ==
    LET id == writedId + 1 IN
    /\ cpc = "write" /\ writedId < target
    /\ id \in first..last
    /\ files' = IF outFile = "open" THEN files ELSE OpenFile(id, mem[id].ts, TRUE)
    /\ outFile' = "open"
    /\ writedId' = id
    /\ buf' = Extend(buf, mem, committedId + 1, id)
    /\ UNCHANGED <<phase, envVars, fails, dequeVars, cpc, target, committedId, obsolete>>

\* openFile fails: the pair stays in the list, the round is over.
OpenFileFail ==
    /\ cpc = "write" /\ writedId < target /\ outFile = "closed"
    /\ writedId + 1 \in first..last
    /\ fails < MaxFails
    /\ fails' = fails + 1
    /\ files' = OpenFile(writedId + 1, mem[writedId + 1].ts, FALSE)
    /\ cpc' = "publish"
    /\ UNCHANGED <<phase, envVars, dequeVars, target, committedId, writedId, outFile, buf,
                   obsolete>>

\* Variant of DroppedWritedId that forgets to write dropped messages again.
KeptWritedId == writedId

\* closeFile: whatever is buffered is dropped and will be written again.
DroppedWritedId == committedId

\* commitFile succeeds; close when needCloseFile; err when the commit was
\* slow or the close failed, which also closes the file and ends the round.
CommitFile(close, err) ==
    /\ cpc = "write" /\ outFile = "open"
    /\ committedId < writedId \/ close
    /\ err => close
    /\ files' = IF committedId < writedId
                THEN [files EXCEPT ![Len(files)] = [Flushed(writedId - committedId)
                                                       EXCEPT !.end = writedId + 1]]
                ELSE files
    /\ committedId' = writedId
    /\ buf' = NoMsgs
    /\ outFile' = IF close THEN "closed" ELSE "open"
    /\ cpc' = IF err THEN "publish" ELSE "write"
    /\ UNCHANGED <<phase, envVars, fails, dequeVars, target, writedId, obsolete>>

\* A write or flush fails.  Data is flushed before meta, and a failed meta
\* write or flush may still have put k messages on dfs.  The file is closed.
CommitFileFail(k) ==
    /\ cpc = "write" /\ outFile = "open"
    /\ committedId < writedId
    /\ k <= writedId - committedId
    /\ fails < MaxFails
    /\ fails' = fails + 1
    /\ files' = [files EXCEPT ![Len(files)] = Flushed(k)]
    /\ writedId' = DroppedWritedId
    /\ buf' = NoMsgs
    /\ outFile' = "closed"
    /\ cpc' = "publish"
    /\ UNCHANGED <<phase, envVars, dequeVars, target, committedId, obsolete>>

FinishWrite ==
    /\ cpc = "write" /\ writedId >= target
    /\ cpc' = "publish"
    /\ UNCHANGED <<phase, envVars, fails, dequeVars, target, committedId, writedId,
                   outFile, buf, fileVars>>

\* Runs after every batch of messages and once more at the end of the round.
SetCommittedId ==
    /\ cpc \in {"write", "publish"}
    /\ cpc' = IF cpc = "publish" THEN "idle" ELSE "write"
    /\ SetCommittedMsgId(committedId)
    /\ UNCHANGED <<phase, envVars, fails, target, committedId, writedId, outFile, buf, fileVars>>

\* Variant of ObsoleteFilePos that keeps only the file being written.
ObsoleteFilePosAll == Len(files) - obsolete - 1

\* FileManager::getObsoleteFilePos: how many pairs may leave the list.
ObsoleteFilePos == Len(files) - obsolete - ReservedFileCount

\* FileManager::deleteObsoleteFile: n expired pairs leave the list at its
\* front, and ReservedFileCount pairs stay; then doDeleteObsoleteFile removes
\* pairs that left, now or earlier, from dfs.  A pair that is read, or that
\* dfs fails to remove, is kept and tried again, and so are the ones behind
\* it: each is referred to by the one before (FilePair::_next).  So k pairs
\* go, from the front.  Whether a pair is old enough is left open.
DelExpiredFile(n, k) ==
    /\ phase = "running"
    /\ n = 0 \/ n <= ObsoleteFilePos
    /\ k <= obsolete + n
    /\ files' = SubSeq(files, k + 1, Len(files))
    /\ obsolete' = obsolete + n - k
    /\ UNCHANGED <<phase, envVars, fails, dequeVars, committerVars>>

(***************************************************************************)
(* Loading and unloading                                                   *)
(***************************************************************************)
Unload ==
    /\ phase = "running"
    /\ phase' = "stopping"
    /\ UNCHANGED <<envVars, fails, dequeVars, committerVars, fileVars>>

\* The volatile state of a partition that is not loaded.  With the FileManager
\* goes the knowledge which pairs have left the list: the next load lists
\* whatever is on dfs.
Forget ==
    /\ phase' = "down"
    /\ first' = 0 /\ last' = -1 /\ mem' = NoMsgs
    /\ committedIndex' = 0 /\ lastCommittedId' = -1
    /\ cpc' = "idle" /\ target' = -1
    /\ writedId' = committedId
    /\ outFile' = "closed" /\ buf' = NoMsgs
    /\ obsolete' = 0
    /\ UNCHANGED <<envVars, fails, committedId>>

\* ~MessageBrain: commitAllMessage() has committed everything.
Unloaded ==
    /\ phase = "stopping" /\ cpc = "idle"
    /\ LastReceivedMsgId <= committedId
    /\ Forget
    /\ UNCHANGED files

\* The broker dies, or the partition is unloaded by force; a commit under way
\* may have put k of the buffered messages on dfs.
Crash(k) ==
    /\ phase # "down"
    /\ k <= writedId - committedId
    /\ files' = IF k > 0 THEN [files EXCEPT ![Len(files)] = Flushed(k)] ELSE files
    /\ Forget

\* Variant of Kept that takes a pair with one message for an empty one.
KeptIfTwo ==
    IF \A i \in 1..Len(files) : files[i].tail <= files[i].begin + 1 \/ ~files[i].onDfs THEN 0
    ELSE CHOOSE i \in 1..Len(files) :
            /\ files[i].tail > files[i].begin + 1 /\ files[i].onDfs
            /\ \A j \in (i + 1)..Len(files) : files[j].tail <= files[j].begin + 1 \/ ~files[j].onDfs

\* FileManager::init: pairs without a meta file are not listed, and
\* adjustFilePairVec removes the pairs at the end that are empty.
Kept == IF \A i \in 1..Len(files) : files[i].tail = files[i].begin \/ ~files[i].onDfs THEN 0
        ELSE CHOOSE i \in 1..Len(files) :
                /\ files[i].tail > files[i].begin /\ files[i].onDfs
                /\ \A j \in (i + 1)..Len(files) : files[j].tail = files[j].begin \/ ~files[j].onDfs

\* FilePair::updateEndMessageId: a pair ends where its meta file does, or
\* where the next pair begins.
RecoveredFiles ==
    [i \in 1..Kept |->
        [files[i] EXCEPT !.end = IF i = Kept THEN files[i].tail
                                 ELSE Minimum(files[i].tail, files[i + 1].begin)]]

\* Variant of RecoveredId that goes by the end the last load believed.
RecoveredIdByEnd ==
    IF Kept = 0 THEN -1
    ELSE IF files[Kept].end > files[Kept].begin THEN files[Kept].end - 1
    ELSE files[Kept].tail - 1

RecoveredId == IF Kept = 0 THEN -1 ELSE files[Kept].tail - 1

\* MessageBrain::init: the committer starts at the last message on dfs and
\* the memory queue with that one message.  Loading takes longer than the
\* timestamps run ahead of the clock, so the clock has passed them.
Load ==
    /\ phase = "down"
    /\ session < MaxLoads
    /\ phase' = "running"
    /\ session' = session + 1
    /\ now' = Maximum(now, lastTs + 1)
    /\ files' = RecoveredFiles
    /\ committedId' = RecoveredId
    /\ writedId' = RecoveredId
    /\ first' = IF Kept = 0 THEN 0 ELSE RecoveredId
    /\ last' = RecoveredId
    /\ mem' = IF Kept = 0 THEN NoMsgs
              ELSE [i \in RecoveredId..RecoveredId |-> files[Kept].msgs[i]]
    /\ lastCommittedId' = RecoveredId
    /\ committedIndex' = IF Kept = 0 THEN 0 ELSE 1
    /\ UNCHANGED <<accepted, lastTs, fails, cpc, target, outFile, buf, obsolete>>

-----------------------------------------------------------------------------
Init ==
    /\ phase = "down"
    /\ session = 0 /\ now = 0 /\ accepted = 0 /\ lastTs = -1 /\ fails = 0
    /\ first = 0 /\ last = -1 /\ mem = NoMsgs
    /\ committedIndex = 0 /\ lastCommittedId = -1
    /\ cpc = "idle" /\ target = -1
    /\ committedId = -1 /\ writedId = -1
    /\ outFile = "closed" /\ buf = NoMsgs
    /\ files = <<>> /\ obsolete = 0

CommitThread ==
    \/ CommitMessage
    \/ WriteMessage
    \/ OpenFileFail
    \/ \E close, err \in BOOLEAN : CommitFile(close, err)
    \/ \E k \in 0..MaxMsgs : CommitFileFail(k)
    \/ FinishWrite
    \/ SetCommittedId

Next ==
    \/ Tick
    \/ \E n \in 1..MaxBatch : AddMessage(n)
    \/ \E n \in 1..MemCapacity : Recycle(n)
    \/ \E n \in 1..MemCapacity : RecycleFast(n)
    \/ CommitThread
    \/ \E n, k \in 0..MaxMsgs : DelExpiredFile(n, k)
    \/ Unload
    \/ Unloaded
    \/ \E k \in 0..MaxMsgs : Crash(k)
    \/ Load

Spec == Init /\ [][Next]_vars

(***************************************************************************)
(* Fairness.  The commit thread is a loop thread of the broker, so its     *)
(* steps are not put off for ever (WF).  A dfs call may fail now and then  *)
(* but not for ever, and maxCommitInterval forces a commit of what is      *)
(* buffered, so a commit that is possible again and again succeeds (SF).   *)
(***************************************************************************)
Fairness ==
    /\ WF_vars(CommitMessage)
    /\ WF_vars(WriteMessage)
    /\ WF_vars(FinishWrite)
    /\ WF_vars(cpc = "publish" /\ SetCommittedId)
    /\ SF_vars(committedId < writedId /\ CommitFile(FALSE, FALSE))
    /\ WF_vars(Unloaded)

FairSpec == Spec /\ Fairness

-----------------------------------------------------------------------------
(***************************************************************************)
(* Properties                                                              *)
(***************************************************************************)
Msg == [val : Nat, ts : Int]

\* The state is of its type: ids and counters are integers, the queue and the
\* buffer hold messages for exactly the ids they should.
TypeOK ==
    /\ phase \in {"down", "running", "stopping"}
    /\ session \in Nat /\ now \in Nat /\ accepted \in Nat /\ lastTs \in Int /\ fails \in Nat
    /\ first \in Nat /\ last \in Int
    /\ mem \in [first..last -> Msg]
    /\ committedIndex \in Nat /\ lastCommittedId \in Int
    /\ cpc \in {"idle", "write", "publish"}
    /\ target \in Int /\ committedId \in Int /\ writedId \in Int
    /\ outFile \in {"open", "closed"}
    /\ buf \in [(committedId + 1)..writedId -> Msg]
    /\ \A i \in 1..Len(files) : files[i].msgs \in [files[i].begin..(files[i].tail - 1) -> Msg]
    /\ obsolete \in 0..Len(files)

\* No message is recycled before the committer has it on dfs: the memory
\* queue still holds every id the committer has not committed, the next one
\* getMemoryMessage(writedId + 1) will be asked for included, and the queue
\* never shrinks below what the committer has seen.  It is what stands between
\* recycleBuffer, which runs in any rpc thread, and the commit thread.
UncommittedInMemory ==
    phase # "down" =>
        /\ (committedId + 1)..last \subseteq DOMAIN mem
        /\ LastReceivedMsgId = last
        /\ committedId <= writedId /\ writedId <= last

\* A view of committed messages is exactly the committed messages of the
\* queue: _committedIndex, moved by setCommittedMsgId, popFront and stealBlock,
\* counts the messages whose id is at most _lastCommittedId.
CommittedIndexAgrees ==
    committedIndex = IF lastCommittedId < first THEN 0 ELSE lastCommittedId - first + 1

\* What the committer calls committed (what setCommittedId publishes, and
\* writers in security mode are told) is on dfs and can be read there: every
\* id from the oldest listed pair to the committed one lies in a listed pair that
\* holds it, also after failed flushes, reopened files, expiry and reloads.
CommittedIsDurable ==
    /\ lastCommittedId <= committedId
    /\ committedId >= 0 =>
          /\ Listed # {} /\ FirstListed.begin <= committedId
          /\ \A id \in FirstListed.begin..committedId :
                OnDisk(id) /\ id < files[FileOf(files, id)].tail

\* The committed id never goes back: not when a flush fails and the file is
\* opened again, and not when the broker dies and the next load asks dfs for
\* the last message.
CommittedNeverLost == [][committedId' >= committedId]_vars

\* The assertions of FileManager::createNewFilePair: when the committer opens a
\* file for a message and the last pair already begins with that message
\* (after a failed commit), the pair has no committed message and its name
\* has the timestamp of the message.
ReusedPairIsEmpty ==
    cpc = "write" /\ writedId < target /\ outFile = "closed"
        /\ files # <<>> /\ LastFile.begin = writedId + 1
    => LastFile.end = writedId + 1 /\ LastFile.ts = mem[writedId + 1].ts

\* A reader that moves between memory and dfs sees one partition: an id that
\* is in both places is the same message.
MemDiskAgree ==
    \A id \in DOMAIN mem : OnDisk(id) => DiskMsg(files, id) = mem[id]

\* The messages the partition has: committed ones are those on dfs, also in
\* pairs that left the list, the others those in memory; a partition that is
\* down has what the next load will find.
StoredLog ==
    IF phase = "down"
    THEN IF Kept = 0 THEN NoMsgs
         ELSE [id \in files[1].begin..RecoveredId |-> DiskMsg(RecoveredFiles, id)]
    ELSE LET lo == IF files = <<>> THEN committedId + 1
                   ELSE Minimum(files[1].begin, committedId + 1)
         IN  [id \in lo..last |-> IF id <= committedId THEN DiskMsg(files, id) ELSE mem[id]]

\* The first id that can be read, when there is a message.
VisibleBegin ==
    IF phase = "down" THEN IF Kept = 0 THEN 0 ELSE files[1].begin
    ELSE IF Listed = {} THEN committedId + 1
    ELSE Minimum(FirstListed.begin, committedId + 1)

VisibleCommitted == IF phase = "down" THEN RecoveredId ELSE committedId

PL == INSTANCE PartitionLog
      WITH log <- StoredLog, begin <- VisibleBegin, committed <- VisibleCommitted

\* The storage implements the abstract log: ids are given once and without
\* gaps, timestamps grow with ids, a committed message survives every crash
\* and stays what it was, only expiry removes messages from the front, and
\* expired messages are readable again only after a restart, as they were.
ImplementsPartitionLog == PL!LogSpec

\* A message that was accepted is committed in the end, unless the partition
\* goes down first, however commits, recycling and dfs failures interleave.
EventuallyCommitted ==
    \A id \in 0..(MaxMsgs - 1) :
        (phase # "down" /\ last = id) ~> (phase = "down" \/ lastCommittedId >= id)

\* An orderly unload ends: commitAllMessage() runs out of messages to commit.
UnloadEnds == (phase = "stopping") ~> (phase = "down")
=============================================================================
