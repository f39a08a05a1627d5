--------------------------- MODULE PartitionReader ---------------------------
(***************************************************************************)
(* Reading a partition: a client's SwiftSinglePartitionReader, with one    *)
(* request outstanding, and the broker's getMessage and                    *)
(* getMinMessageIdByTime, which look at the memory queue and at the files  *)
(* in turns and take and release the locks of both in between.  The        *)
(* storage (MessageBrain) runs on between those steps: messages arrive,    *)
(* are committed, recycled and expired, and the broker may crash.          *)
(*                                                                         *)
(* The reader reads every message (no filter), in requests of up to        *)
(* ReadCount messages; how many fit the byte limit is left open.           *)
(***************************************************************************)
EXTENDS MessageBrain

CONSTANTS
    ReadCount,      \* messages one request asks for
    MaxSeeks,       \* bound: how often the application seeks
    MaxLost         \* bound: requests that are lost or answered BUSY

ASSUME ReaderAssumption ==
    /\ ReadCount \in Nat \ {0}
    /\ MaxSeeks \in Nat
    /\ MaxLost \in Nat

VARIABLES
    nextMsgId,      \* _nextMsgId
    nextTimestamp,  \* _nextTimestamp, -1 when not known
    readerSession,  \* _sessionId of the reader, -1 when not known
    got,            \* payloads handed to the application since its last seek
    seekTs,         \* the timestamp of the last seek, -1 when there was none
    seeks, lost,    \* how many seeks and lost requests there were
    pc,             \* where the broker is in the outstanding request
    op,             \* "get" or "seek" (getMinMessageIdByTime)
    startId,        \* startid of the request, or the id a seek found
    startTs,        \* starttimestamp of the request, -1 when it has none
    maxMsgId,       \* maxmsgid of the response so far
    maxTs,          \* maxtimestamp of the response so far
    reply,          \* the response, when pc = "reply"
    expiredTo       \* history: ids below it have expired at some time

positionVars == <<nextMsgId, nextTimestamp, readerSession, got, seekTs>>
requestVars == <<pc, op, startId, startTs, maxMsgId, maxTs, reply>>
readerVars == <<positionVars, seeks, lost, requestVars>>
storageVars == <<vars, expiredTo>>
allVars == <<storageVars, readerVars>>

-----------------------------------------------------------------------------
(***************************************************************************)
(* What the memory queue and the files tell a reader                       *)
(***************************************************************************)
ViewLast == first + ViewSize(ReadNotCommitted) - 1
ViewIds == first..ViewLast
ViewEmpty == ViewIds = {}

\* MessageDeque::View::getLastMsgTimestamp
ViewLastTs == IF ~ViewEmpty THEN mem[ViewLast].ts
              ELSE IF MemEmpty THEN now ELSE mem[first].ts - 1

\* Variant of ViewNextTs that is one too late.
ViewNextTsLate == ViewLastTs + 2

\* MessageDeque::View::getNextMsgTimestampAfterLast
ViewNextTs == IF ViewLast = last THEN NextMsgTimestamp(ViewLastTs) ELSE ViewLastTs + 1

Least(S) == CHOOSE i \in S : \A j \in S : i <= j

\* MessageGroup::messageIdValid: does message id - 1 exist and is it older
\* than t?  "unknown" when memory cannot tell.
ValidInMemory(id, t) ==
    IF t = -1 \/ id = 0 THEN "valid"
    ELSE IF ViewEmpty THEN "invalid"
    ELSE IF id - 1 \in ViewIds THEN (IF mem[id - 1].ts < t THEN "valid" ELSE "invalid")
    ELSE IF id = first /\ mem[first].ts = t THEN "valid"
    ELSE "unknown"

\* FsMessageReader::messageIdValid: both messages are on dfs and t lies
\* between them.
ValidOnDisk(id, t) ==
    /\ OnDisk(id - 1) /\ OnDisk(id)
    /\ DiskMsg(files, id - 1).ts < t /\ DiskMsg(files, id).ts >= t

\* Variant of FilePairByTime that does not step back to the pair before.
FilePairFromTime(t) ==
    LET later == {i \in Listed : files[i].ts >= t}
    IN  IF later = {} THEN Len(files) ELSE Least(later)

\* FileManager::getFilePairByTime, 0 when there is no pair.
FilePairByTime(t) ==
    LET later == {i \in Listed : files[i].ts >= t}
    IN  IF later = {} THEN Len(files)
        ELSE IF files[Least(later)].ts = t \/ Least(later) = obsolete + 1 THEN Least(later)
        ELSE Least(later) - 1

\* FsMessageReader::getMinMessageIdByTime: the possible results.  A file that
\* is still empty leaves the result unset: any id (one that begins with id 0
\* is told apart by its end and answered with an error; NoSeekInEmptyFile shows
\* that neither happens).
TooLatest == -1
DiskSeek(t) ==
    LET i == FilePairByTime(t)
        f == files[i]
        found == {id \in f.begin..(f.end - 1) : f.msgs[id].ts >= t}
    IN  IF i = 0 THEN {TooLatest}
        ELSE IF f.ts >= t THEN {f.begin}
        ELSE IF f.end = f.begin THEN 0..MaxMsgs
        ELSE IF found # {} THEN {Least(found)}
        ELSE IF i < Len(files) THEN {files[i + 1].begin}
        ELSE {TooLatest}

DiskSeekTs(id) == IF OnDisk(id) THEN DiskMsg(files, id).ts ELSE LastFile.ts

-----------------------------------------------------------------------------
(***************************************************************************)
(* The client                                                              *)
(***************************************************************************)
NoReply == [ec |-> "none", msgs |-> <<>>, next |-> -1, nextTs |-> -1, session |-> 0]

Reply(ec, msgs, next, nextTs) ==
    /\ pc' = "reply"
    /\ reply' = [ec |-> ec, msgs |-> msgs, next |-> next, nextTs |-> nextTs,
                 session |-> session]

Idle ==
    /\ pc' = "idle" /\ op' = "get" /\ startId' = 0 /\ startTs' = -1
    /\ maxMsgId' = -1 /\ maxTs' = -1 /\ reply' = NoReply

\* tryFillBuffer posts a request; the broker has a look at its session.
PostGetMessageRequest ==
    /\ pc = "idle" /\ phase = "running"
    /\ op' = "get" /\ startId' = nextMsgId /\ startTs' = nextTimestamp
    /\ IF readerSession \notin {-1, session}
       THEN Reply("session_changed", <<>>, -1, -1)
       ELSE pc' = "check" /\ reply' = NoReply
    /\ UNCHANGED <<positionVars, seeks, lost, maxMsgId, maxTs, storageVars>>

\* seekByTimestamp.  A response that is still under way is waited for and
\* ignored, which is a lost request before the seek.
SeekByTimestamp(t) ==
    /\ pc = "idle" /\ phase = "running"
    /\ seeks < MaxSeeks
    /\ seeks' = seeks + 1
    /\ pc' = "seekmem" /\ op' = "seek" /\ startTs' = t
    /\ UNCHANGED <<positionVars, lost, startId, maxMsgId, maxTs, reply, storageVars>>

\* Variant of NextIdOf that reads the last message once more.
NextIdIsLast ==
    IF reply.msgs # <<>> THEN reply.next - 1 ELSE maxMsgId + 1

\* handleGetMessageResponse: where to read on.
NextIdOf ==
    IF reply.msgs # <<>> \/ nextMsgId <= maxMsgId THEN reply.next ELSE maxMsgId + 1

\* Variant of SessionOf that holds on to the first session.
FirstSession == IF readerSession = -1 THEN reply.session ELSE readerSession

SessionOf == reply.session

HandleGetMessageResponse ==
    /\ pc = "reply" /\ op = "get"
    /\ readerSession' = IF reply.ec = "error" THEN readerSession ELSE SessionOf
    /\ nextMsgId' = IF reply.ec \in {"none", "lost"} THEN NextIdOf ELSE nextMsgId
    /\ nextTimestamp' = IF reply.ec \in {"none", "lost", "no_data"} THEN reply.nextTs
                        ELSE nextTimestamp
    /\ got' = got \o reply.msgs
    /\ Idle
    /\ UNCHANGED <<seekTs, seeks, lost, storageVars>>

\* Where the response of getMinMessageIdByTime sends the reader.
SoughtId == CASE reply.ec = "none" -> reply.next
              [] reply.ec = "no_data" -> 0
              [] reply.ec = "too_latest" -> maxMsgId + 1

\* doSeekByTimestamp with the response of getMinMessageIdByTime.
HandleSeekResponse ==
    /\ pc = "reply" /\ op = "seek"
    /\ nextMsgId' = SoughtId
    /\ nextTimestamp' = CASE reply.ec = "none" -> reply.nextTs
                          [] reply.ec = "no_data" -> -1
                          [] reply.ec = "too_latest" -> Maximum(maxTs + 1, startTs)
    /\ seekTs' = startTs
    /\ got' = <<>>
    /\ Idle
    /\ UNCHANGED <<readerSession, seeks, lost, storageVars>>

\* The request or its response is lost, or the broker says BUSY.
LoseRequest ==
    /\ pc # "idle"
    /\ lost < MaxLost
    /\ lost' = lost + 1
    /\ Idle
    /\ UNCHANGED <<positionVars, seeks, storageVars>>

-----------------------------------------------------------------------------
(***************************************************************************)
(* The broker: doGetMessage, one step per lock section                     *)
(***************************************************************************)
\* messageIdValidInMemory
CheckInMemory ==
    /\ pc = "check"
    /\ pc' = IF ValidInMemory(startId, startTs) = "valid" THEN "getmem" ELSE "validmem"
    /\ UNCHANGED <<positionVars, seeks, lost, op, startId, startTs, maxMsgId, maxTs, reply, storageVars>>

\* MessageGroup::getMessage, asked first ("getmem") and after the id was
\* checked or sought ("get").
GetMemoryMessage ==
    /\ pc \in {"getmem", "get"}
    /\ IF ViewEmpty
       THEN /\ IF pc = "getmem" THEN pc' = "validmem" /\ UNCHANGED reply
               ELSE Reply("no_data", <<>>, 0, ViewLastTs)
            /\ UNCHANGED <<maxMsgId, maxTs>>
       ELSE /\ maxMsgId' = ViewLast /\ maxTs' = ViewLastTs
            /\ IF startId < first
               THEN pc' = (IF pc = "getmem" THEN "validmem" ELSE "getfs") /\ UNCHANGED reply
               ELSE \E n \in 1..ReadCount :
                      LET end == Minimum(startId + n - 1, ViewLast)
                      IN  Reply("none",
                                [i \in 1..(end - startId + 1) |-> mem[startId + i - 1].val],
                                IF end < ViewLast THEN end + 1 ELSE ViewLast + 1,
                                IF end < ViewLast THEN mem[end + 1].ts ELSE ViewNextTs)
    /\ UNCHANGED <<positionVars, seeks, lost, op, startId, startTs, storageVars>>

\* messageIdValid, first in memory ...
CheckInMemoryAgain ==
    /\ pc = "validmem"
    /\ pc' = CASE ValidInMemory(startId, startTs) = "valid" -> "get"
               [] ValidInMemory(startId, startTs) = "invalid" -> "seekmem"
               [] OTHER -> "validfs"
    /\ UNCHANGED <<positionVars, seeks, lost, op, startId, startTs, maxMsgId, maxTs, reply, storageVars>>

\* ... and then in the files.
CheckOnDisk ==
    /\ pc = "validfs"
    /\ pc' = IF ValidOnDisk(startId, startTs) THEN "get" ELSE "seekmem"
    /\ UNCHANGED <<positionVars, seeks, lost, op, startId, startTs, maxMsgId, maxTs, reply, storageVars>>

\* What a seek that found id does next: the client's seek answers, a request
\* for messages goes on with that id.
Found(id, ts) ==
    IF op = "seek" THEN Reply("none", <<>>, id, ts) /\ UNCHANGED startId
    ELSE pc' = "get" /\ startId' = id /\ UNCHANGED reply

\* ERROR_BROKER_TIMESTAMP_TOO_LATEST: msgid, set to the message looked at
\* last, is counted up.
NotFound(lastId) ==
    IF op = "seek" THEN Reply("too_latest", <<>>, -1, -1) /\ UNCHANGED startId
    ELSE pc' = "get" /\ startId' = lastId + 1 /\ UNCHANGED reply

\* Variant of MayBeOnDisk that also looks for what is too late for memory.
MayBeOnDiskOrLate(found) ==
    found = {} \/ (Least(found) = first /\ mem[first].ts > startTs)

\* isMinInMemory && memoryTime > timestamp: an older message may be on dfs.
MayBeOnDisk(found) == found # {} /\ Least(found) = first /\ mem[first].ts > startTs

\* MessageGroup::getMinMessageIdByTime
SeekInMemory ==
    LET found == {id \in ViewIds : mem[id].ts >= startTs} IN
    /\ pc = "seekmem"
    /\ IF ViewEmpty
       THEN /\ IF op = "seek" THEN Reply("no_data", <<>>, 0, -1)
               ELSE pc' = "nodata" /\ UNCHANGED reply
            /\ UNCHANGED <<startId, maxMsgId, maxTs>>
       ELSE /\ maxMsgId' = ViewLast /\ maxTs' = ViewLastTs
            /\ IF MayBeOnDisk(found)
               THEN pc' = "seekfs" /\ startId' = first /\ UNCHANGED reply
               ELSE IF found = {} THEN NotFound(ViewLast)
               ELSE Found(Least(found), mem[Least(found)].ts)
    /\ UNCHANGED <<positionVars, seeks, lost, op, startTs, storageVars>>

\* The seek of a request for messages met no data: getLastAvailableMsgTimestamp
\* looks at the queue once more.
ReplyNoData ==
    /\ pc = "nodata"
    /\ Reply("no_data", <<>>, 0, ViewLastTs)
    /\ UNCHANGED <<positionVars, seeks, lost, op, startId, startTs, maxMsgId, maxTs, storageVars>>

\* FsMessageReader::getMinMessageIdByTime
SeekOnDisk ==
    /\ pc = "seekfs"
    /\ \E id \in DiskSeek(startTs) :
          IF id = TooLatest THEN NotFound(startId) ELSE Found(id, DiskSeekTs(id))
    /\ UNCHANGED <<positionVars, seeks, lost, op, startTs, maxMsgId, maxTs, storageVars>>

\* FsMessageReader::getMessage and BlockMessageReader::fillMessage
GetFileMessage ==
    /\ pc = "getfs"
    /\ CASE Listed = {} -> Reply("error", <<>>, -1, -1)
         [] Listed # {} /\ FirstListed.begin > startId ->
              Reply("lost", <<>>, FirstListed.begin, FirstListed.ts)
         [] Listed # {} /\ FirstListed.begin <= startId ->
              LET f == files[FileOf(files, startId)] IN
              IF startId >= f.end THEN Reply("error", <<>>, -1, -1)
              ELSE \E n \in 1..ReadCount :
                     LET end == Minimum(startId + n - 1, f.end - 1)
                     IN  Reply("none",
                               [i \in 1..(end - startId + 1) |-> f.msgs[startId + i - 1].val],
                               end + 1,
                               IF end + 1 < f.end THEN f.msgs[end + 1].ts ELSE f.msgs[end].ts + 1)
    /\ UNCHANGED <<positionVars, seeks, lost, op, startId, startTs, maxMsgId, maxTs, storageVars>>

-----------------------------------------------------------------------------
ReaderInit ==
    /\ Init
    /\ nextMsgId = 0 /\ nextTimestamp = -1 /\ readerSession = -1
    /\ got = <<>> /\ seekTs = -1 /\ seeks = 0 /\ lost = 0
    /\ pc = "idle" /\ op = "get" /\ startId = 0 /\ startTs = -1
    /\ maxMsgId = -1 /\ maxTs = -1 /\ reply = NoReply
    /\ expiredTo = 0

\* A storage step.  The broker process takes the requests it works on with it.
StorageStep ==
    /\ Next
    /\ expiredTo' = Maximum(expiredTo, VisibleBegin')
    /\ IF phase # "down" /\ phase' = "down" /\ pc \notin {"idle", "reply"}
       THEN Idle ELSE UNCHANGED requestVars
    /\ UNCHANGED <<positionVars, seeks, lost>>

BrokerStep ==
    \/ CheckInMemory
    \/ GetMemoryMessage
    \/ CheckInMemoryAgain
    \/ CheckOnDisk
    \/ SeekInMemory
    \/ ReplyNoData
    \/ SeekOnDisk
    \/ GetFileMessage

ReaderNext ==
    \/ StorageStep
    \/ PostGetMessageRequest
    \/ \E t \in 0..(MaxTime + 2) : SeekByTimestamp(t)
    \/ HandleGetMessageResponse
    \/ HandleSeekResponse
    \/ LoseRequest
    \/ BrokerStep

ReaderSpec == ReaderInit /\ [][ReaderNext]_allVars

(***************************************************************************)
(* Fairness.  The broker finishes what it works on, the client's fill      *)
(* thread keeps posting requests and handles their responses.              *)
(***************************************************************************)
ReaderFairSpec ==
    /\ ReaderSpec
    /\ WF_allVars(PostGetMessageRequest)
    /\ WF_allVars(BrokerStep)
    /\ WF_allVars(HandleGetMessageResponse)

-----------------------------------------------------------------------------
\* With readNotCommittedMsg a reader is handed messages in the order they were
\* written and none of them twice, whether they come from memory or from dfs,
\* across crashes of the broker and retries of lost requests.
DeliveredInOrder == \A i, j \in 1..Len(got) : i < j => got[i] < got[j]

\* The messages that can be read and have never expired.  A message that did
\* is readable again when the partition is loaded before its pair is removed
\* from dfs, but a reader that was told it is lost has gone on.
Unexpired ==
    LET log == StoredLog
    IN  [id \in {i \in DOMAIN log : i >= expiredTo} |-> log[id]]

\* Nothing is skipped: a message that can be read, never expired and lies
\* before the reader's position has been handed to the application, unless it
\* is older than the time the application went to.
NothingSkipped ==
    phase # "down" =>
        LET log == Unexpired
        IN  \A id \in DOMAIN log :
                id < nextMsgId /\ log[id].ts >= seekTs =>
                    \E i \in 1..Len(got) : got[i] = log[id].val

\* A seek goes to the first message that is not older than the timestamp, the
\* oldest one when all of them are younger: no such message that never expired
\* lies before the id getMinMessageIdByTime gives to the client, nor before
\* the one doGetMessage reads on from.
SeekFindsFirst ==
    LET log == Unexpired
        sought == IF pc = "get" THEN startId ELSE SoughtId
    IN  /\ phase # "down" /\ startTs # -1
        /\ pc = "get" \/ (pc = "reply" /\ op = "seek")
        => \A id \in DOMAIN log : log[id].ts >= startTs => id >= sought

\* FsMessageReader never looks for a timestamp in a file without messages,
\* where getMinMessageIdByTime would answer with an id it never set.
NoSeekInEmptyFile ==
    pc = "seekfs" /\ FilePairByTime(startTs) # 0 =>
        LET f == files[FilePairByTime(startTs)] IN f.ts >= startTs \/ f.end > f.begin

\* A reader that keeps asking gets past every committed message, in the session
\* of the broker that has it, unless the partition leaves this broker: no
\* answer of the broker, an error or a seek that leads back to where the reader
\* stood, keeps it where it is.
ReaderCatchesUp ==
    \A id \in 0..(MaxMsgs - 1) :
        (phase = "running" /\ lastCommittedId >= id) ~>
            ((nextMsgId > id /\ readerSession = session) \/ phase # "running")
=============================================================================
