---------------------------- MODULE LongPolling ----------------------------
(***************************************************************************)
(* Read requests that find nothing are parked in the partition             *)
(* (BrokerPartition::_pollingQueue) until a message arrives, time passes,  *)
(* the partition is unloaded or the broker stops.  Requests are read by    *)
(* the threads of _readThreadPool, messages are added by rpc threads, and  *)
(* each accepted write leaves a RequestPollingWorkItem for the threads of  *)
(* _clearPollingThreadPool, which wakes the requests.                      *)
(*                                                                         *)
(* A reader has one request at a time, with a filter on the payload.  The  *)
(* partition is in TOPIC_MODE_NORMAL with readNotCommittedMsg, its log     *)
(* only grows, and an answer has room for all messages.  A read may end    *)
(* before the end of the log when the messages come from a file, and a     *)
(* write may be accepted in part.  The read pool's queue has room for the  *)
(* requests of all readers.                                                *)
(***************************************************************************)
EXTENDS Integers, Sequences, FiniteSets

CONSTANTS Readers,     \* clients that read
          NoReader,    \* the maker of a work item that is not a read thread
          From, To,    \* the payloads of the partition
          Bits,        \* width of a compressed payload, 64 in the code
          filter,      \* [Readers -> [from, to]]
          InitLogs,    \* what a partition may have when it is loaded
          Batches,     \* what a write request may carry: payloads
          MaxRetry,    \* DEFAULT_MAX_LONG_POLLING_RETRY_TIMES
          MaxMsgs,     \* bound on the log
          MaxRefused   \* work items are refused while fewer messages are silent

ASSUME LongPollingConstants ==
    /\ NoReader \notin Readers
    /\ From \in Nat /\ To \in Nat /\ From <= To
    /\ Bits \in Nat \ {0}
    /\ MaxRetry \in Nat /\ MaxMsgs \in Nat /\ MaxRefused \in Nat
    /\ \A r \in Readers : /\ filter[r].from \in Nat /\ filter[r].to \in Nat
                          /\ filter[r].from <= filter[r].to
                          /\ filter[r].from <= To /\ From <= filter[r].to
    /\ \A b \in Batches : b \in Seq(From .. To) /\ b # <<>>
    /\ \A l \in InitLogs : l \in Seq(From .. To) /\ Len(l) <= MaxMsgs

VARIABLES log,       \* payloads of the messages; message i has log[i + 1]
          sent,      \* writes accepted whose response is not finished
          items,     \* calls of requestPoll to come
          pc,        \* where the request of a reader is
          startId,   \* request->startid(), and the next id of the client
          maxBefore, \* response->maxmsgid()
          times,     \* closure->_longPollingEnqueueTimes
          pollingMinStartId, pollingMaxMsgId,
          status,    \* of the partition: running, stopping, gone
          phase,     \* how far TransporterImpl::stop has come
          silent     \* messages whose write left no work item

partVars == <<log, sent>>
reqVars == <<startId, maxBefore, times>>
vars == <<log, sent, items, pc, startId, maxBefore, times,
          pollingMinStartId, pollingMaxMsgId, status, phase, silent>>

LastMsgId == Len(log) - 1
Max2(a, b) == IF a > b THEN a ELSE b

Precision == (To - From + 1 + Bits - 1) \div Bits

\* FilterUtil::compressPayload, as the number of the one bit that is set
compressPayload(p) == (p - From) \div Precision

\* FilterUtil::compressFilterRegion, as the set of the bits that are set
compressFilterRegion(r) ==
    LET from == IF filter[r].from < From THEN From ELSE filter[r].from
        to == IF filter[r].to > To THEN To ELSE filter[r].to
    IN compressPayload(from) .. compressPayload(to)

\* MessageFilter::filter for a message that is not merged, without a mask
Wanted(r, m) == filter[r].from <= log[m + 1] /\ log[m + 1] <= filter[r].to

\* numeric_limits::max
NoStart == MaxMsgs + 1

Parked == {r \in Readers : pc[r] = "parked"}

\* Variant: the least start id is reset and not found again
MinStartForgotten(S) == NoStart

\* the least start id of the requests that stay, as the loops of the steal
\* functions find it
MinStart(S) ==
    IF S = {} THEN NoStart
    ELSE CHOOSE n \in {startId[r] : r \in S} : \A r \in S : n <= startId[r]

Init ==
    /\ log \in InitLogs /\ sent = {} /\ items = {} /\ silent = {}
    /\ pc = [r \in Readers |-> "idle"]
    /\ startId = [r \in Readers |-> 0]
    /\ maxBefore = [r \in Readers |-> 0]
    /\ times = [r \in Readers |-> 0]
    /\ pollingMinStartId = NoStart
    /\ pollingMaxMsgId = 0
    /\ status = "running" /\ phase = "up"

----------------------------------------------------------------------------
(* Reading *)

\* TransporterImpl::getMessage: the request goes to the read pool.  A
\* request that is refused is answered at once.
getMessage(r) ==
    /\ pc[r] = "idle" /\ phase = "up" /\ status = "running"
    /\ pc' = [pc EXCEPT ![r] = "queued"]
    /\ maxBefore' = [maxBefore EXCEPT ![r] = 0]
    /\ times' = [times EXCEPT ![r] = 0]
    /\ UNCHANGED <<partVars, items, startId, pollingMinStartId,
                   pollingMaxMsgId, status, phase, silent>>

\* Variant: once too often
needLongPollingOnceMore(r) == times[r] <= MaxRetry

needLongPolling(r) == times[r] < MaxRetry

\* How far a read that starts at b may come: to the end when it reads
\* memory, which always has the last message.  A read of a file ends at the
\* end of its pair, or before a block that cannot be read now, which is no
\* error even when it is the first one.
ReadTo(b) == IF b < LastMsgId THEN b .. Len(log) ELSE {Len(log)}

\* Where a read starts: parking moves the request's startid, which then
\* no longer fits its starttimestamp, so that a request with a timestamp is
\* read again from where it came in with, an id that is not later.
ReadFrom(r) == IF times[r] = 0 THEN {startId[r]} ELSE 0 .. startId[r]

\* ReadWorkItem::process up to addLongPollingRequest.  A read that fails
\* (BUSY) is answered, and the client asks again.  A partition without
\* messages answers NO_DATA and leaves maxmsgid alone; an answer that is
\* only empty is not held back when the request carries a checkpoint.
process(r) ==
    /\ pc[r] = "queued"
    /\ \E b \in ReadFrom(r) :
         \/ /\ pc' = [pc EXCEPT ![r] = "idle"]
            /\ startId' = [startId EXCEPT ![r] = b]
            /\ UNCHANGED maxBefore
         \/ \E n \in ReadTo(b), checkpoint \in BOOLEAN :
              LET found == {m \in b .. n - 1 : Wanted(r, m)}
                  noData == log = <<>> \/ (found = {} /\ ~checkpoint)
              IN /\ pc' = [pc EXCEPT ![r] = IF noData /\ needLongPolling(r)
                                            THEN "empty" ELSE "idle"]
                 /\ startId' = [startId EXCEPT ![r] = n]
                 /\ maxBefore' = IF log = <<>> THEN maxBefore
                                 ELSE [maxBefore EXCEPT ![r] = LastMsgId]
    /\ UNCHANGED <<partVars, items, times, pollingMinStartId,
                   pollingMaxMsgId, status, phase, silent>>

\* getExpireTime finds that the request is too old to be parked.
skipHold(r) ==
    /\ pc[r] = "empty"
    /\ pc' = [pc EXCEPT ![r] = "idle"]
    /\ UNCHANGED <<partVars, items, reqVars, pollingMinStartId,
                   pollingMaxMsgId, status, phase, silent>>

\* addLongPollingRequest: park the request; when messages were announced
\* since it was read, the read thread goes on to call requestPoll.
addLongPolling(r) ==
    /\ pc[r] = "empty"
    /\ pc' = [pc EXCEPT ![r] = "parked"]
    /\ times' = [times EXCEPT ![r] = @ + 1]
    /\ pollingMinStartId' = IF startId[r] < pollingMinStartId
                            THEN startId[r] ELSE pollingMinStartId
    /\ items' = IF maxBefore[r] < pollingMaxMsgId
                THEN items \cup {[by |-> r, n |-> times'[r],
                                  bits |-> {}, max |-> -1]}
                ELSE items
    /\ UNCHANGED <<partVars, startId, maxBefore, pollingMaxMsgId, status,
                   phase, silent>>

----------------------------------------------------------------------------
(* Writing *)

\* TransporterImpl::sendMessage up to MessageGroup::addMessage, which accepts
\* the first k messages of b; it answers BUSY when there are more.
addMessage(b, k) ==
    /\ phase = "up" /\ status = "running"
    /\ Len(log) + k <= MaxMsgs
    /\ log' = log \o SubSeq(b, 1, k)
    /\ sent' = sent \cup
               {[first |-> Len(log), last |-> Len(log) + k - 1,
                 bits |-> {compressPayload(b[i]) : i \in 1 .. k},
                 ok |-> k = Len(b)]}
    /\ UNCHANGED <<items, pc, reqVars, pollingMinStartId, pollingMaxMsgId,
                   status, phase, silent>>

\* doneRunForProductRequest reads maxmsgid, and the callback pushes the
\* work item, for a write without error.
doAfterSendMessage(s) ==
    /\ s \in sent /\ phase \in {"up", "stopping", "joined"}
    /\ s.ok
    /\ sent' = sent \ {s}
    /\ items' = items \cup {[by |-> NoReader, n |-> s.first,
                             bits |-> s.bits, max |-> LastMsgId]}
    /\ UNCHANGED <<log, pc, reqVars, pollingMinStartId, pollingMaxMsgId,
                   status, phase, silent>>

\* The callback of a write that was accepted in part does nothing, and
\* pushWorkItem fails when the pool's queue is full or the pool has stopped.
leaveSilent(s) ==
    /\ s \in sent
    /\ s.ok /\ phase = "up" => Cardinality(silent) < MaxRefused
    /\ sent' = sent \ {s}
    /\ silent' = silent \cup (s.first .. s.last)
    /\ UNCHANGED <<log, items, pc, reqVars, pollingMinStartId,
                   pollingMaxMsgId, status, phase>>

----------------------------------------------------------------------------
(* Waking *)

\* BrokerPartition::stealNeedActivePolling, and what becomes of the
\* requests it takes
stealNeedActivePolling(i, where) ==
    LET newMax == Max2(pollingMaxMsgId, i.max)
        stolen == {r \in Parked :
                     /\ startId[r] <= newMax
                     /\ i.bits = {} \/ i.bits \cap compressFilterRegion(r) # {}}
    IN /\ pollingMaxMsgId' = newMax
       /\ IF i.max # -1 /\ i.max < pollingMinStartId
          THEN UNCHANGED <<pollingMinStartId, pc>>
          ELSE /\ pollingMinStartId' = MinStart(Parked \ stolen)
               /\ pc' = [r \in Readers |-> IF r \in stolen THEN where ELSE pc[r]]

\* TransporterImpl::requestPoll.  While the broker stops the call may be
\* dropped, and the read pool may refuse what was stolen, so that the
\* requests are answered as they are.
requestPoll(i) ==
    /\ i \in items
    /\ items' = items \ {i}
    /\ \/ /\ phase \in {"up", "stopping"}
          /\ stealNeedActivePolling(i, "queued")
       \/ /\ phase # "up"
          /\ stealNeedActivePolling(i, "idle")
       \/ /\ phase # "up"
          /\ UNCHANGED <<pc, pollingMinStartId, pollingMaxMsgId>>
    /\ UNCHANGED <<partVars, reqVars, status, phase, silent>>

\* LongPollingRequestHandler::checkTimeout: the requests in S are due, or
\* the clock went back and S is all of them.
checkTimeout(S) ==
    /\ status = "running" /\ phase \in {"up", "stopping", "joined"}
    /\ S # {}
    /\ pc' = [r \in Readers |-> IF r \in S THEN "idle" ELSE pc[r]]
    /\ pollingMinStartId' = MinStart(Parked \ S)
    /\ UNCHANGED <<partVars, items, reqVars, pollingMaxMsgId, status, phase,
                   silent>>

----------------------------------------------------------------------------
(* Unloading and stopping *)

\* unLoadBrokerPartition takes the partition out of the map
unLoadBrokerPartition ==
    /\ status = "running" /\ status' = "stopping"
    /\ UNCHANGED <<partVars, items, pc, reqVars, pollingMinStartId,
                   pollingMaxMsgId, phase, silent>>

\* Variant: a parked request has a reference to its partition
UnreferencedByParked ==
    /\ \A r \in Readers : pc[r] = "idle"
    /\ items = {} /\ sent = {}

\* Nobody else has a reference to the partition (use_count() > 1).  Parked
\* requests are in the partition and have none.
Unreferenced ==
    /\ \A r \in Readers : pc[r] \in {"idle", "parked"}
    /\ items = {} /\ sent = {}

\* brokerPartition.reset() destroys the queue and so answers its requests
resetPartition ==
    /\ status = "stopping" /\ Unreferenced
    /\ status' = "gone"
    /\ pc' = [r \in Readers |-> "idle"]
    /\ UNCHANGED <<partVars, items, reqVars, pollingMinStartId,
                   pollingMaxMsgId, phase, silent>>

\* TransporterImpl::stop sets the flag and closes the read pool
stop ==
    /\ phase = "up" /\ phase' = "stopping"
    /\ UNCHANGED <<partVars, items, pc, reqVars, pollingMinStartId,
                   pollingMaxMsgId, status, silent>>

\* Variant: the queue is empty, but the threads are not waited for
ReadPoolEmpty == \A r \in Readers : pc[r] # "queued"

\* the read pool's queue is empty and its threads have ended
ReadPoolIdle == /\ \A r \in Readers : pc[r] \in {"idle", "parked"}
                /\ \A i \in items : i.by = NoReader
stopReadPool ==
    /\ phase = "stopping" /\ ReadPoolIdle
    /\ phase' = "joined"
    /\ UNCHANGED <<partVars, items, pc, reqVars, pollingMinStartId,
                   pollingMaxMsgId, status, silent>>

\* LongPollingRequestHandler::stop
stopHandler ==
    /\ phase = "joined" /\ items = {}
    /\ phase' = "drained"
    /\ UNCHANGED <<partVars, items, pc, reqVars, pollingMinStartId,
                   pollingMaxMsgId, status, silent>>

\* releaseLongPolling: stealAllPolling of every partition in the map
releaseLongPolling ==
    /\ phase = "drained" /\ phase' = "released"
    /\ IF status = "running"
       THEN /\ pc' = [r \in Readers |-> IF pc[r] = "parked" THEN "idle" ELSE pc[r]]
            /\ pollingMinStartId' = NoStart
       ELSE UNCHANGED <<pc, pollingMinStartId>>
    /\ UNCHANGED <<partVars, items, reqVars, pollingMaxMsgId, status, silent>>

----------------------------------------------------------------------------
Next ==
    \/ \E r \in Readers : \/ getMessage(r) \/ process(r)
                          \/ skipHold(r) \/ addLongPolling(r)
    \/ \E b \in Batches : \E k \in DOMAIN b : addMessage(b, k)
    \/ \E s \in sent : doAfterSendMessage(s) \/ leaveSilent(s)
    \/ \E i \in items : requestPoll(i)
    \/ \E S \in SUBSET Parked : checkTimeout(S)
    \/ unLoadBrokerPartition \/ resetPartition
    \/ stop \/ stopReadPool \/ stopHandler \/ releaseLongPolling

Spec == Init /\ [][Next]_vars

\* The pools' threads take what is queued, the handler's loop thread looks
\* for requests that are due, and unload and stop go on once begun.  Writes
\* and new requests need not come.
Fairness ==
    /\ \A r \in Readers :
         /\ WF_vars(process(r))
         /\ WF_vars(skipHold(r) \/ addLongPolling(r))
         /\ WF_vars(\E S \in SUBSET Parked : r \in S /\ checkTimeout(S))
    /\ WF_vars(\E s \in sent : doAfterSendMessage(s) \/ leaveSilent(s))
    /\ WF_vars(\E i \in items : requestPoll(i))
    /\ WF_vars(resetPartition)
    /\ WF_vars(stopReadPool \/ stopHandler \/ releaseLongPolling)

FairSpec == Spec /\ Fairness

----------------------------------------------------------------------------
(* Properties *)

Sent == [first : 0 .. MaxMsgs, last : 0 .. MaxMsgs,
         bits : SUBSET (0 .. Bits - 1), ok : BOOLEAN]
Items == [by : Readers \cup {NoReader}, n : 0 .. MaxMsgs + MaxRetry,
          bits : SUBSET (0 .. Bits - 1), max : -1 .. MaxMsgs]

\* Types, with at most MaxRetry rounds of a request through the queue
\* (_longPollingEnqueueTimes).
TypeOK ==
    /\ log \in Seq(From .. To) /\ Len(log) <= MaxMsgs
    /\ sent \subseteq Sent /\ items \subseteq Items
    /\ pc \in [Readers -> {"idle", "queued", "empty", "parked"}]
    /\ startId \in [Readers -> 0 .. MaxMsgs]
    /\ maxBefore \in [Readers -> 0 .. MaxMsgs]
    /\ times \in [Readers -> 0 .. MaxRetry]
    /\ pollingMinStartId \in 0 .. NoStart
    /\ pollingMaxMsgId \in 0 .. MaxMsgs
    /\ status \in {"running", "stopping", "gone"}
    /\ phase \in {"up", "stopping", "joined", "drained", "released"}
    /\ silent \subseteq 0 .. MaxMsgs

\* the write that brought message m has not been announced yet, or its
\* work item is still to be run
Announcing(m) ==
    \/ \E s \in sent : m \in s.first .. s.last
    \/ \E i \in items : compressPayload(log[m + 1]) \in i.bits /\ m <= i.max

\* No wake-up is lost: when a parked request wants a message that is later
\* than what its read knew of (maxmsgid of the answer), something that takes
\* the request out of the queue is on its way (stealNeedActivePolling by a
\* work item or by the thread that parked it), whenever the message arrived
\* between the read and the parking.  Not covered, because the code does not
\* wake for them, and left to the next announced write or the timeout:
\* messages up to maxmsgid, which a read that ended inside the log did not
\* reach, and message 0, since the answer of a partition without messages
\* has maxmsgid 0; and messages of a write that left no work item, accepted
\* in part or refused by the pool.
NoWakeUpIsLost ==
    phase = "up" =>
        \A r \in Parked : \A m \in maxBefore[r] + 1 .. LastMsgId :
            Wanted(r, m) /\ m \notin silent =>
                \/ Announcing(m)
                \/ startId[r] <= pollingMaxMsgId /\ \E i \in items : i.bits = {}

\* TransporterImpl::stop leaves no request behind ("release the request held
\* by broker partition before rpc destory"): none is parked after the
\* partitions were asked to release theirs.
StopLeavesNoRequest ==
    phase = "released" /\ status = "running" => \A r \in Readers : pc[r] = "idle"

\* Every request is answered in the end: it is not parked for ever, nor does
\* it go between the two pools for ever, and unloading the partition does
\* not wait for it.
EveryRequestIsAnswered == \A r \in Readers : pc[r] # "idle" ~> pc[r] = "idle"
=============================================================================
