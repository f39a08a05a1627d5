---------------------------- MODULE SwiftWriter ----------------------------
(***************************************************************************)
(* The asynchronous swift writer in its default, safe mode (safeMode on,   *)
(* mergeMsg off).  SwiftWriterImpl spreads the messages of one writing     *)
(* thread over partitions; each partition has a SingleSwiftWriter with a   *)
(* MessageWriteBuffer; one send loop posts requests, handles responses and *)
(* publishes the committed checkpoint.                                     *)
(*                                                                         *)
(* A message is its checkpoint id; the client numbers its messages 1, 2,   *)
(* ...  The broker is what PartitionLog promises (SwiftWriterContracts): a *)
(* log of which a prefix is committed, and a session that changes when the *)
(* partition is loaded again.  Rpc calls time out, and the request of such *)
(* a call may still arrive.                                                *)
(***************************************************************************)
EXTENDS Integers, Sequences, FiniteSets

CONSTANTS
    Partitions,       \* the partition ids of the topic, numbers
    InitSessions,     \* sessions the admin may have told the client of
    BatchSize,        \* messages of oneRequestSendByteCount
    ConvertThreshold, \* FILL_CONVERT_MESSAGE_THRESHOLD
    MaxMsgs,          \* bound: messages the client writes
    MaxClears,        \* bound: calls of clearBuffer
    MaxFaults         \* bound: timeouts, reloads, refusals, a full pool

ASSUME WriterConstants ==
    /\ Partitions \subseteq Nat /\ IsFiniteSet(Partitions)
    /\ InitSessions \subseteq Int
    /\ BatchSize \in Nat \ {0}
    /\ ConvertThreshold \in Nat
    /\ MaxMsgs \in Nat /\ MaxClears \in Nat /\ MaxFaults \in Nat

VARIABLES
    written,      \* history: the partition of every message written
    cleared,      \* history: the messages clearBuffer dropped
    clears,       \* calls of clearBuffer so far
    writers,      \* the partitions that have a SingleSwiftWriter
    \* MessageWriteBuffer, by partition
    writeQueue, toMerge, sendQueue,
    minInMerge,   \* _minCheckpointIdInMerge, -1 when nothing is in merge
    canAdd,
    cursor,       \* _unsendCursor
    uncommitted,  \* _uncommittedMsgs: one id per accepted message
    ignoreUpdate,
    \* SingleSwiftWriter, by partition
    session, checkpoint,
    call,         \* the rpc call: request on its way, being served, answered
    \* SwiftWriterImpl
    loop,         \* where the send loop is, and the checkpoints it has seen
    published,    \* _checkpointId
    \* brokers and network, by partition
    bsession, log, committed,
    late,         \* requests of calls that timed out
    faults

clientVars == <<written, cleared, clears, writers>>
queueVars  == <<writeQueue, toMerge, sendQueue, minInMerge, canAdd>>
sentVars   == <<cursor, uncommitted, ignoreUpdate, session>>
brokerVars == <<bsession, log, committed, late>>
vars == <<clientVars, queueVars, sentVars, checkpoint, call, loop, published,
          brokerVars, faults>>

None == -1
Invalid == -2                  \* INVALID_CHECK_POINT_ID
Idle == [at |-> "idle"]
Lost == [at |-> "done", ec |-> "LOST"]

MinOf(S) == CHOOSE x \in S : \A y \in S : x <= y
Take(q, n) == SubSeq(q, 1, n)
Drop(q, n) == SubSeq(q, n + 1, Len(q))
Elements(q) == {q[i] : i \in DOMAIN q}

Init ==
    /\ written = <<>> /\ cleared = {} /\ clears = 0
    /\ writers = {}
    /\ writeQueue = [p \in Partitions |-> <<>>]
    /\ toMerge = writeQueue /\ sendQueue = writeQueue
    /\ uncommitted = writeQueue /\ log = writeQueue
    /\ minInMerge = [p \in Partitions |-> None]
    /\ canAdd = [p \in Partitions |-> TRUE]
    /\ cursor = [p \in Partitions |-> 0] /\ committed = cursor
    /\ ignoreUpdate = [p \in Partitions |-> FALSE]
    /\ session \in [Partitions -> InitSessions]
    /\ checkpoint = [p \in Partitions |-> Invalid]
    /\ call = [p \in Partitions |-> Idle]
    /\ loop = Idle
    /\ published = None
    /\ bsession = [p \in Partitions |-> 1]
    /\ late = [p \in Partitions |-> {}]
    /\ faults = 0

Fault == faults < MaxFaults /\ faults' = faults + 1

(***************************************************************************)
(* The writing thread                                                      *)
(***************************************************************************)

\* addWriteMessage: refused while a conversion has to be finished first.
addWriteMessage(p, m) ==
    /\ canAdd[p]
    /\ writeQueue' = [writeQueue EXCEPT ![p] = Append(@, m)]
    /\ UNCHANGED <<toMerge, sendQueue, minInMerge, canAdd>>

\* A first message for a partition makes its SingleSwiftWriter, for which
\* the send loop has to have released the map.
write(p) ==
    LET m == Len(written) + 1
    IN  /\ m <= MaxMsgs
        /\ p \in writers \/ loop = Idle
        /\ addWriteMessage(p, m)
        /\ written' = Append(written, p)
        /\ writers' = writers \cup {p}
        /\ UNCHANGED <<cleared, clears, sentVars, checkpoint, call, loop,
                       published, brokerVars, faults>>

Queued(p) ==
    Elements(sendQueue[p]) \cup Elements(toMerge[p]) \cup Elements(writeQueue[p])

\* SwiftWriterImpl::clearBuffer does this for every partition in turn.
clearBuffer(p) ==
    /\ clears < MaxClears /\ clears' = clears + 1
    /\ Queued(p) # {}
    /\ cleared' = cleared \cup Queued(p)
    /\ writeQueue' = [writeQueue EXCEPT ![p] = <<>>]
    /\ toMerge' = [toMerge EXCEPT ![p] = <<>>]
    /\ sendQueue' = [sendQueue EXCEPT ![p] = <<>>]
    /\ minInMerge' = [minInMerge EXCEPT ![p] = None]
    /\ cursor' = [cursor EXCEPT ![p] = 0]
    /\ uncommitted' = [uncommitted EXCEPT ![p] = <<>>]
    /\ ignoreUpdate' = [ignoreUpdate EXCEPT ![p] = TRUE]
    /\ UNCHANGED <<written, writers, canAdd, session, checkpoint, call, loop,
                   published, brokerVars, faults>>

(***************************************************************************)
(* MessageWriteBuffer                                                      *)
(***************************************************************************)

\* Variant of convertMessage that leaves the buffer closed when it goes on.
convertMessageClosed(p) ==
    LET goesOn == toMerge[p] # <<>>
        src == IF goesOn THEN toMerge[p] ELSE writeQueue[p]
    IN  IF src = <<>> THEN UNCHANGED <<queueVars, faults>>
        ELSE \E n \in 0 .. Len(src) :
            /\ IF n = Len(src) THEN UNCHANGED faults ELSE Fault
            /\ sendQueue' = [sendQueue EXCEPT ![p] = @ \o Take(src, n)]
            /\ toMerge' = [toMerge EXCEPT ![p] = Drop(src, n)]
            /\ writeQueue' = [writeQueue EXCEPT ![p] = IF goesOn THEN @ ELSE <<>>]
            /\ minInMerge' = [minInMerge EXCEPT ![p] =
                 IF n = Len(src) THEN None ELSE IF goesOn THEN @ ELSE Head(src)]
            /\ canAdd' = [canAdd EXCEPT ![p] = ~goesOn /\ n = Len(src)]

\* convertMessage: finish the last conversion, or start one with all of the
\* write queue.  The block pool, which the partitions share, may have room
\* for the first n messages only; a later call goes on from there.
convertMessage(p) ==
    LET goesOn == toMerge[p] # <<>>
        src == IF goesOn THEN toMerge[p] ELSE writeQueue[p]
    IN  IF src = <<>> THEN UNCHANGED <<queueVars, faults>>
        ELSE \E n \in 0 .. Len(src) :
            /\ IF n = Len(src) THEN UNCHANGED faults ELSE Fault
            /\ sendQueue' = [sendQueue EXCEPT ![p] = @ \o Take(src, n)]
            /\ toMerge' = [toMerge EXCEPT ![p] = Drop(src, n)]
            /\ writeQueue' = [writeQueue EXCEPT ![p] = IF goesOn THEN @ ELSE <<>>]
            /\ minInMerge' = [minInMerge EXCEPT ![p] =
                 IF n = Len(src) THEN None ELSE IF goesOn THEN @ ELSE Head(src)]
            /\ canAdd' = [canAdd EXCEPT ![p] = n = Len(src)]

\* MergeMessageWorkItem: a thread of the merge pool converts.
mergeWork(p) ==
    /\ writeQueue[p] # <<>> \/ toMerge[p] # <<>>
    /\ convertMessage(p)
    /\ UNCHANGED <<clientVars, sentVars, checkpoint, call, loop, published,
                   brokerVars>>

latestCheckPointId(p) ==
    IF sendQueue[p] # <<>> THEN Head(sendQueue[p])
    ELSE IF minInMerge[p] # None THEN minInMerge[p]
    ELSE IF writeQueue[p] # <<>> THEN Head(writeQueue[p])
    ELSE None

\* Variants of the count: every accepted id, one id too many.
AcceptedCount(ids, committedId) == Len(ids)
CommittedCountOneMore(ids, committedId) ==
    Cardinality({i \in DOMAIN ids : \A j \in 1 .. i : ids[j] <= committedId + 1})

\* updateCommitBuffer: how many of the accepted ids, from the first, are
\* committed.
CommittedCount(ids, committedId) ==
    Cardinality({i \in DOMAIN ids : \A j \in 1 .. i : ids[j] <= committedId})

\* updateBuffer: r.count messages were accepted, as ids from r.begin on.
updateBuffer(p, r) ==
    LET ids == uncommitted[p] \o [i \in 1 .. r.count |-> r.begin + i - 1]
        n == CommittedCount(ids, r.committedId)
        k == MinOf({n, Len(sendQueue[p])})
    IN  /\ sendQueue' = [sendQueue EXCEPT ![p] = Drop(@, k)]
        /\ uncommitted' = [uncommitted EXCEPT ![p] = Drop(ids, n)]
        /\ cursor' = [cursor EXCEPT ![p] = @ + r.count - k]
        /\ checkpoint' = [checkpoint EXCEPT ![p] =
                            IF k > 0 THEN sendQueue[p][k] ELSE @]
        /\ UNCHANGED <<writeQueue, toMerge, minInMerge, canAdd, ignoreUpdate>>

\* Variants of the reset that leave the accepted ids, or everything.
resetCursorOnly(p) ==
    /\ cursor' = [cursor EXCEPT ![p] = 0]
    /\ UNCHANGED <<queueVars, uncommitted, ignoreUpdate, checkpoint>>
resetNothing(p) == UNCHANGED <<queueVars, cursor, uncommitted, ignoreUpdate, checkpoint>>

resetUnsendCursor(p) ==
    /\ cursor' = [cursor EXCEPT ![p] = 0]
    /\ uncommitted' = [uncommitted EXCEPT ![p] = <<>>]
    /\ UNCHANGED <<queueVars, ignoreUpdate, checkpoint>>

(***************************************************************************)
(* The send loop: for each partition that has a writer, handle what has    *)
(* been answered, post a request, look at the checkpoint.                  *)
(***************************************************************************)
LoopAt(step, p) == loop # Idle /\ loop.at = step /\ loop.part = p
Goto(step) == loop' = [loop EXCEPT !.at = step]

sendRequest ==
    /\ loop = Idle
    /\ writers # {}
    /\ loop' = [at |-> "handle", part |-> MinOf(writers), min |-> None, max |-> None]
    /\ UNCHANGED <<clientVars, queueVars, sentVars, checkpoint, call, published,
                   brokerVars, faults>>

takeSession(p, r) == session' = [session EXCEPT ![p] = r.session]

handleSendMessageResponse(p) ==
    LET r == call[p]
    IN  /\ r.at = "done"
        /\ \/ /\ r.ec = "LOST"
              /\ UNCHANGED <<queueVars, sentVars, checkpoint>>
           \/ /\ r.ec = "SESSION_CHANGED"
              /\ resetUnsendCursor(p)
              /\ takeSession(p, r)
           \/ /\ r.ec \in {"NOT_FOUND", "ERROR"}
              /\ resetUnsendCursor(p)
              /\ UNCHANGED session
           \/ /\ r.ec \in {"NONE", "BUSY"}
              /\ IF session[p] = None THEN takeSession(p, r) ELSE UNCHANGED session
              /\ IF r.begin = None \/ ignoreUpdate[p]
                 THEN UNCHANGED <<queueVars, cursor, uncommitted, ignoreUpdate, checkpoint>>
                 ELSE updateBuffer(p, r)
        /\ call' = [call EXCEPT ![p] = Idle]

\* The first half of SingleSwiftWriter::sendRequest.
handleStep(p) ==
    /\ LoopAt("handle", p)
    /\ \/ /\ call[p].at \in {"sent", "added"}     \* the last request is not done
          /\ Goto("scan")
          /\ UNCHANGED <<queueVars, sentVars, checkpoint, call>>
       \/ /\ call[p].at = "idle"
          /\ Goto("post")
          /\ UNCHANGED <<queueVars, sentVars, checkpoint, call>>
       \/ /\ handleSendMessageResponse(p)
          /\ Goto("post")
    /\ UNCHANGED <<clientVars, published, brokerVars, faults>>

UnsendCount(p) ==
    Len(writeQueue[p]) + Len(sendQueue[p]) + Len(toMerge[p]) - cursor[p]

\* fillRequest: the messages from the cursor on, after a conversion when few
\* are left in the send queue.
fillRequest(p) ==
    /\ IF Len(sendQueue[p]) - cursor[p] <= ConvertThreshold
       THEN convertMessage(p)
       ELSE UNCHANGED <<queueVars, faults>>
    /\ call' = [call EXCEPT ![p] =
         [at |-> "sent", session |-> session[p],
          msgs |-> LET rest == Drop(sendQueue'[p], cursor[p])
                   IN  Take(rest, MinOf({BatchSize, Len(rest)}))]]
    /\ ignoreUpdate' = [ignoreUpdate EXCEPT ![p] = FALSE]

\* Variant of the post that never asks for the committed id alone.
postMessagesOnly(p) ==
    /\ LoopAt("post", p)
    /\ UnsendCount(p) > 0
    /\ fillRequest(p)
    /\ Goto("scan")
    /\ UNCHANGED <<clientVars, cursor, uncommitted, session, checkpoint, published,
                   brokerVars>>

\* The second half: when it is time, a request is posted, an empty one when
\* everything is sent and only the committed id is asked for.
postSendMessageRequest(p) ==
    /\ LoopAt("post", p)
    /\ UnsendCount(p) > 0 \/ cursor[p] > 0
    /\ fillRequest(p)
    /\ Goto("scan")
    /\ UNCHANGED <<clientVars, cursor, uncommitted, session, checkpoint, published,
                   brokerVars>>

\* It is too early for a request, there is nothing to ask for, or no broker
\* address is known.
skipPost(p) ==
    /\ LoopAt("post", p)
    /\ Goto("scan")
    /\ UNCHANGED <<clientVars, queueVars, sentVars, checkpoint, call, published,
                   brokerVars, faults>>

\* Variant of the checkpoint that takes the first message left for done.
PartCheckpointFirst(p) ==
    LET first == latestCheckPointId(p)
    IN  IF first # None THEN first ELSE checkpoint[p]

\* SingleSwiftWriter::getCommittedCheckpointId
PartCheckpoint(p) ==
    LET first == latestCheckPointId(p)
    IN  IF first # None THEN first - 1 ELSE checkpoint[p]

NotLess(x, y) == IF x > y THEN x ELSE y

\* What the loop knows after partition p: the least checkpoint of those with
\* messages left (None: there is none), the largest of the others.
Seen(p) ==
    LET cp == PartCheckpoint(p)
    IN  IF cp = Invalid THEN loop
        ELSE IF latestCheckPointId(p) # None
             THEN [loop EXCEPT !.min = IF @ = None THEN cp ELSE MinOf({@, cp})]
             ELSE [loop EXCEPT !.max = NotLess(@, cp)]

\* The checkpoint of p is looked at; after the last partition the result is
\* published.
scanStep(p) ==
    LET rest == {q \in writers : q > p}
        seen == Seen(p)
    IN  /\ LoopAt("scan", p)
        /\ checkpoint' = [checkpoint EXCEPT ![p] = PartCheckpoint(p)]
        /\ IF rest # {}
           THEN /\ loop' = [seen EXCEPT !.at = "handle", !.part = MinOf(rest)]
                /\ UNCHANGED published
           ELSE /\ loop' = Idle
                /\ published' = IF seen.min # None THEN seen.min ELSE seen.max
        /\ UNCHANGED <<clientVars, queueVars, sentVars, call, brokerVars, faults>>

(***************************************************************************)
(* Brokers and network                                                     *)
(***************************************************************************)
writerVars == <<clientVars, queueVars, sentVars, checkpoint, loop, published>>

sessionChanged(p, r) == r.session # None /\ r.session # bsession[p]

Answer(p, r) == call' = [call EXCEPT ![p] = r]

\* TransporterImpl::sendMessage up to MessageGroup::addMessage: the session
\* is checked, then a prefix of the messages is accepted, all of them unless
\* memory is full (BUSY) or one cannot be encoded (ERROR).
sendMessage(p) ==
    LET r == call[p]
    IN  /\ r.at = "sent"
        /\ \/ /\ sessionChanged(p, r)
              /\ Answer(p, [at |-> "done", ec |-> "SESSION_CHANGED", session |-> bsession[p]])
              /\ UNCHANGED <<log, faults>>
           \/ /\ ~sessionChanged(p, r)
              /\ \E k \in 0 .. Len(r.msgs), ec \in {"NONE", "BUSY", "ERROR"} :
                    /\ ec = "NONE" <=> k = Len(r.msgs)
                    /\ IF ec = "NONE" THEN UNCHANGED faults ELSE Fault
                    /\ log' = [log EXCEPT ![p] = @ \o Take(r.msgs, k)]
                    /\ Answer(p, [at |-> "added", ec |-> ec,
                                  begin |-> Len(log[p]), count |-> k])
           \/ /\ Fault                     \* too many writes, or not loaded
              /\ \/ ~sessionChanged(p, r) /\ Answer(p, [at |-> "done", ec |-> "BUSY",
                       begin |-> None, count |-> 0, session |-> bsession[p]])
                 \/ Answer(p, [at |-> "done", ec |-> "NOT_FOUND"])
              /\ UNCHANGED log
        /\ UNCHANGED <<writerVars, bsession, committed, late>>

\* doneRunForProductRequest: the committed id is read after the messages
\* were added.
doneRunForProductRequest(p) ==
    LET r == call[p]
    IN  /\ r.at = "added"
        /\ Answer(p, [at |-> "done", ec |-> r.ec, begin |-> r.begin, count |-> r.count,
                      committedId |-> committed[p] - 1, session |-> bsession[p]])
        /\ UNCHANGED <<writerVars, brokerVars, faults>>

\* The call times out.  A request that is still on its way may be lost, or
\* arrive when the writer has given up.
Timeout(p) ==
    LET r == call[p]
    IN  /\ r.at # "idle" /\ r # Lost
        /\ Fault
        /\ Answer(p, Lost)
        /\ \/ UNCHANGED late
           \/ r.at = "sent" /\ late' = [late EXCEPT ![p] = @ \cup {r}]
        /\ UNCHANGED <<writerVars, bsession, log, committed>>

ArriveLate(p) ==
    \E r \in late[p] :
        /\ late' = [late EXCEPT ![p] = @ \ {r}]
        /\ ~sessionChanged(p, r)
        /\ \E k \in 1 .. Len(r.msgs) : log' = [log EXCEPT ![p] = @ \o Take(r.msgs, k)]
        /\ UNCHANGED <<writerVars, call, bsession, committed, faults>>

Commit(p) ==
    /\ \E n \in committed[p] + 1 .. Len(log[p]) : committed' = [committed EXCEPT ![p] = n]
    /\ UNCHANGED <<writerVars, call, bsession, log, late, faults>>

\* Variant of the reload that can lose a committed message.
ReloadShort(p) ==
    /\ Fault
    /\ \E n \in NotLess(0, committed[p] - 1) .. Len(log[p]) :
          /\ log' = [log EXCEPT ![p] = Take(@, n)]
          /\ committed' = [committed EXCEPT ![p] = n]
    /\ bsession' = [bsession EXCEPT ![p] = @ + 1]
    /\ IF call[p].at = "added" THEN Answer(p, Lost) ELSE UNCHANGED call
    /\ UNCHANGED <<writerVars, late>>

\* The broker dies or the partition moves: messages that were not committed
\* may be lost, the session changes, and a call being served gets no answer.
Reload(p) ==
    /\ Fault
    /\ \E n \in committed[p] .. Len(log[p]) :
          /\ log' = [log EXCEPT ![p] = Take(@, n)]
          /\ committed' = [committed EXCEPT ![p] = n]
    /\ bsession' = [bsession EXCEPT ![p] = @ + 1]
    /\ IF call[p].at = "added" THEN Answer(p, Lost) ELSE UNCHANGED call
    /\ UNCHANGED <<writerVars, late>>

Client == \E p \in Partitions : write(p) \/ clearBuffer(p) \/ mergeWork(p)

SendLoop ==
    \/ sendRequest
    \/ \E p \in Partitions :
          handleStep(p) \/ postSendMessageRequest(p) \/ skipPost(p) \/ scanStep(p)

Broker ==
    \E p \in Partitions :
        sendMessage(p) \/ doneRunForProductRequest(p) \/ Timeout(p)
          \/ ArriveLate(p) \/ Commit(p) \/ Reload(p)

Next == Client \/ SendLoop \/ Broker

Spec == Init /\ [][Next]_vars

\* The send loop runs every sendRequestLoopInterval and posts when enough
\* time has passed, brokers serve what arrives and commit what they have.
\* Faults are bounded by MaxFaults; nothing is assumed of the client.
FairSpec ==
    /\ Spec
    /\ WF_vars(sendRequest)
    /\ \A p \in Partitions :
          /\ WF_vars(handleStep(p)) /\ WF_vars(skipPost(p)) /\ WF_vars(scanStep(p))
          /\ SF_vars(postSendMessageRequest(p))
          /\ WF_vars(sendMessage(p)) /\ WF_vars(doneRunForProductRequest(p))
          /\ WF_vars(Commit(p))

(***************************************************************************)
(* Properties                                                              *)
(***************************************************************************)
\* The message is in the committed part of its partition's log.
Durable(m) ==
    LET p == written[m] IN \E i \in 1 .. committed[p] : log[p][i] = m

Kept(m) == m \in cleared \/ Durable(m)

\* Safe mode promises that a message stays in the buffer until it is
\* committed: whatever the order of responses, timeouts, resends, session
\* changes and a concurrent clearBuffer, updateBuffer pops only messages
\* that the broker cannot lose any more.
NothingLost ==
    \A m \in DOMAIN written : m \in Queued(written[m]) \/ Kept(m)

\* _unsendCursor counts the messages of _uncommittedMsgs, is not past the
\* send queue, and while the session lasts each of their ids is the id of
\* that message in the log: only then may committed ids be counted off
\* against the send queue.
UncommittedMatchLog ==
    \A p \in Partitions :
        /\ cursor[p] = Len(uncommitted[p]) /\ cursor[p] <= Len(sendQueue[p])
        /\ session[p] = bsession[p] =>
              \A i \in 1 .. cursor[p] :
                 /\ uncommitted[p][i] < Len(log[p])
                 /\ log[p][uncommitted[p][i] + 1] = sendQueue[p][i]

\* A partition's log has the messages in the order of writing, repetitions
\* aside: after a resend from the cursor, or from the first message again,
\* no message comes before an older one of its partition.
InOrder ==
    \A p \in Partitions : \A j \in DOMAIN log[p] :
        \A m \in 1 .. log[p][j] - 1 :
            written[m] = p /\ m \notin cleared => \E i \in 1 .. j - 1 : log[p][i] = m

\* The checkpoint of one partition covers only messages that are committed.
PartCheckpointIsSafe ==
    \A m \in DOMAIN written : m <= checkpoint[written[m]] => Kept(m)

\* getCommittedCheckpointId of the writer covers only messages that are
\* committed: a client that restarts after it misses nothing.
CheckpointIsSafe == \A m \in DOMAIN written : m <= published => Kept(m)

\* A buffer that refuses messages has a conversion to finish ("wait for
\* merge" in addWriteMessage), so that it accepts some again later.
RefusesOnlyInMerge == \A p \in Partitions : canAdd[p] \/ toMerge[p] # <<>>

\* Every message written is committed at last, the writer finds that out by
\* asking with empty requests, and its checkpoint reaches the message.
EventuallyCheckpointed ==
    <>[](\A m \in DOMAIN written : m \in cleared \/ (Durable(m) /\ m <= published))
=============================================================================
