------------------------- MODULE LongPollingProofs -------------------------
(***************************************************************************)
(* No wake-up is lost and no request is left behind, for any readers,      *)
(* filters, writes and number of bits.                                     *)
(***************************************************************************)
EXTENDS LongPolling, WellFoundedInduction, TLAPS

Types ==
    /\ log \in Seq(From .. To)
    /\ pc \in [Readers -> {"idle", "queued", "empty", "parked"}]
    /\ startId \in [Readers -> Nat]
    /\ maxBefore \in [Readers -> Nat]
    /\ times \in [Readers -> Nat]
    /\ pollingMinStartId \in Nat
    /\ pollingMaxMsgId \in Nat

\* a write that is not announced knows its messages' bits
SentKnows ==
    \A s \in sent :
        /\ s.first \in Nat /\ s.last \in Nat /\ s.last <= LastMsgId
        /\ s.bits # {}
        /\ \A m \in s.first .. s.last : compressPayload(log[m + 1]) \in s.bits

\* a poll without bits is one that looks at all requests
ItemsInPlace == \A i \in items : /\ i.max \in Int
                                 /\ i.bits = {} <=> i.max = -1

\* _pollingMinStartId is not behind the queue
MinCovers == \A r \in Parked : pollingMinStartId <= startId[r]

\* a request that found nothing starts no later than after what it knows of
EmptyKnows ==
    \A r \in Readers :
        pc[r] \in {"empty", "parked"} => startId[r] <= maxBefore[r] + 1

\* a message has been announced, will be, or was there when all who wait
\* were read
Known ==
    phase = "up" =>
        \A m \in 1 .. LastMsgId : m \notin silent =>
            \/ m <= pollingMaxMsgId
            \/ Announcing(m)
            \/ \A r \in Readers : pc[r] \in {"empty", "parked"} => m <= maxBefore[r]

\* what the parts of stop have left behind
StopInPlace ==
    /\ phase \in {"joined", "drained", "released"} => ReadPoolIdle
    /\ phase \in {"drained", "released"} => items = {}
    /\ StopLeavesNoRequest

PollInv ==
    /\ Types /\ SentKnows /\ ItemsInPlace /\ MinCovers /\ EmptyKnows
    /\ Known /\ NoWakeUpIsLost /\ StopInPlace

----------------------------------------------------------------------------
\* Every set of natural numbers that is not empty has a least one.
LEMMA LeastExists ==
    ASSUME NEW T, T \subseteq Nat, T # {}
    PROVE  \E x \in T : \A y \in T : x <= y
<1> DEFINE R == OpToRel(<, Nat)
<1>1. IsWellFoundedOn(R, Nat)
  BY NatLessThanWellFounded, Zenon
<1>2. \A x, y \in Nat : <<y, x>> \in R <=> y < x
  BY Zenon DEF OpToRel
<1> HIDE DEF R
<1>3. PICK x \in T : \A y \in T : ~ (<<y, x>> \in R)
  BY <1>1, WFMin, Zenon
<1>4. \A y \in T : x <= y
  <2> TAKE y \in T
  <2>1. x \in Nat /\ y \in Nat
    BY Zenon
  <2>2. ~ (y < x)
    BY <1>2, <1>3, <2>1, Zenon
  <2> QED
    BY <2>1, <2>2
<1> QED
  BY <1>4, Zenon

\* The least start id that the steal functions keep (MinStart) is not
\* behind any request that stays in the queue.
LEMMA MinStartIsLeast ==
    ASSUME NEW S \in SUBSET Readers, startId \in [Readers -> Nat]
    PROVE  /\ MinStart(S) \in Nat
           /\ \A r \in S : MinStart(S) <= startId[r]
<1>1. CASE S = {}
  BY <1>1, LongPollingConstants DEF MinStart, NoStart
<1>2. CASE S # {}
  <2> DEFINE T == {startId[r] : r \in S}
  <2>1. T \subseteq Nat /\ T # {}
    BY <1>2, Zenon
  <2>2. PICK n \in T : \A y \in T : n <= y
    BY <2>1, LeastExists, Zenon
  <2>3. \A r \in S : n <= startId[r]
    BY <2>2, Zenon
  <2>4. \E k \in T : \A r \in S : k <= startId[r]
    BY <2>2, <2>3, Zenon
  <2>5. MinStart(S) = CHOOSE k \in T : \A r \in S : k <= startId[r]
    BY <1>2, Zenon DEF MinStart
  <2> QED
    BY <2>1, <2>4, <2>5, Zenon
<1> QED
  BY <1>1, <1>2, Zenon

\* An element of a sequence over T is in T.
LEMMA SeqElement ==
    ASSUME NEW T, NEW s \in Seq(T), NEW k \in 1 .. Len(s) PROVE s[k] \in T
  OBVIOUS

\* What a log looks like after the first k messages of a write were added.
LEMMA AppendPart ==
    ASSUME NEW l \in Seq(From .. To), NEW b \in Seq(From .. To),
           NEW k \in 1 .. Len(b)
    PROVE  LET new == l \o SubSeq(b, 1, k)
           IN /\ new \in Seq(From .. To) /\ Len(new) = Len(l) + k
              /\ \A j \in 1 .. Len(l) : new[j] = l[j]
              /\ \A j \in 1 .. k : new[Len(l) + j] = b[j]
<1> DEFINE c == SubSeq(b, 1, k)
<1>0. PICK T : T = From .. To
  BY Zenon
<1>1. /\ l \in Seq(T) /\ b \in Seq(T)
      /\ Len(b) \in Nat /\ Len(l) \in Nat /\ k \in Nat
  BY <1>0
<1>2. c \in Seq(T) /\ Len(c) = k /\ \A j \in 1 .. k : c[j] = b[j]
  BY <1>1
<1> HIDE DEF c
<1>3. l \o c \in Seq(T) /\ Len(l \o c) = Len(l) + k
  BY <1>1, <1>2
<1>4. /\ \A j \in 1 .. Len(l) : (l \o c)[j] = l[j]
      /\ \A j \in 1 .. k : (l \o c)[Len(l) + j] = c[j]
  BY <1>1, <1>2
<1>5. \A j \in 1 .. k : (l \o c)[Len(l) + j] = b[j]
  BY <1>2, <1>4, Zenon
<1> QED
  BY <1>0, <1>3, <1>4, <1>5, Zenon DEF c

\* Division is monotone.
LEMMA DivMonotone ==
    ASSUME NEW a \in Nat, NEW b \in Nat, a <= b, NEW d \in Nat, d > 0
    PROVE  a \div d <= b \div d
<1> DEFINE p == a \div d
           q == b \div d
<1>1. p \in Nat /\ q \in Nat
  OBVIOUS
<1>2. d * p <= a
  OBVIOUS
<1>3. b < d * (q + 1)
  OBVIOUS
<1>4. ASSUME q + 1 <= p PROVE FALSE
  <2> HIDE DEF p, q
  <2>1. d * (q + 1) <= d * p
    BY <1>1, <1>4
  <2>2. d * (q + 1) \in Nat /\ d * p \in Nat
    BY <1>1
  <2> QED
    BY <1>2, <1>3, <2>1, <2>2
<1> QED
  BY <1>1, <1>4

\* A message that a request's filter lets through has a bit of the request's
\* compressed region: FilterUtil's two functions agree.
LEMMA WantedHasBit ==
    ASSUME NEW r \in Readers, NEW p \in From .. To,
           filter[r].from <= p, p <= filter[r].to
    PROVE  compressPayload(p) \in compressFilterRegion(r)
<1> DEFINE from == IF filter[r].from < From THEN From ELSE filter[r].from
           to == IF filter[r].to > To THEN To ELSE filter[r].to
<1>1. Precision \in Nat /\ Precision > 0
  BY LongPollingConstants DEF Precision
<1>2. /\ from - From \in Nat /\ p - From \in Nat /\ to - From \in Nat
      /\ from - From <= p - From /\ p - From <= to - From
  BY LongPollingConstants
<1>3. /\ compressPayload(from) <= compressPayload(p)
      /\ compressPayload(p) <= compressPayload(to)
  BY <1>1, <1>2, DivMonotone, Zenon DEF compressPayload
<1>4. compressPayload(p) \in Int
  BY <1>1, <1>2 DEF compressPayload
<1>5. compressFilterRegion(r) = compressPayload(from) .. compressPayload(to)
  BY Zenon DEF compressFilterRegion
<1> QED
  BY <1>3, <1>4, <1>5

----------------------------------------------------------------------------
\* A partition is loaded without requests and without writes.
LEMMA InvInit == Init => PollInv
<1> SUFFICES ASSUME Init PROVE PollInv
  BY Zenon
<1>1. Types
  BY LongPollingConstants DEF Init, Types, NoStart
<1>2. SentKnows /\ ItemsInPlace
  BY Zenon DEF Init, SentKnows, ItemsInPlace
<1>3. MinCovers /\ NoWakeUpIsLost /\ StopInPlace
  BY Zenon DEF Init, MinCovers, NoWakeUpIsLost, StopInPlace, StopLeavesNoRequest, Parked
<1>4. EmptyKnows
  BY Zenon DEF Init, EmptyKnows
<1>5. Known
  BY Zenon DEF Init, Known
<1> QED
  BY <1>1, <1>2, <1>3, <1>4, <1>5, Zenon DEF PollInv

\* A request that comes to the read pool is not parked.
LEMMA InvGetMessage ==
    ASSUME PollInv, NEW r \in Readers, getMessage(r) PROVE PollInv'
<1> USE DEF PollInv, getMessage, partVars
<1>1. Types'
  BY Zenon DEF Types
<1>2. SentKnows' /\ ItemsInPlace'
  BY Zenon DEF SentKnows, ItemsInPlace, LastMsgId
<1>3. \A q \in Parked' : q \in Parked /\ maxBefore'[q] = maxBefore[q]
  BY Zenon DEF Types, Parked
<1>4. MinCovers' /\ NoWakeUpIsLost'
  BY <1>3, Zenon DEF MinCovers, NoWakeUpIsLost, Announcing, Wanted, LastMsgId
<1>5. EmptyKnows'
  BY Zenon DEF EmptyKnows, Types
<1>6. Known'
  BY Zenon DEF Known, Announcing, LastMsgId, Types
<1>7. StopInPlace'
  BY Zenon DEF StopInPlace, StopLeavesNoRequest
<1> QED
  BY <1>1, <1>2, <1>4, <1>5, <1>6, <1>7, Zenon

\* What a read does to its request: it is answered, or found nothing and
\* knows of all messages of the partition.
LEMMA ReadStep ==
    ASSUME Types, NEW r \in Readers, process(r)
    PROVE  \E n \in 0 .. Max2(startId[r], Len(log)), to \in {"idle", "empty"} :
              /\ startId' = [startId EXCEPT ![r] = n]
              /\ pc' = [pc EXCEPT ![r] = to]
              /\ to = "empty" => n <= Len(log) /\ needLongPolling(r)
              /\ \/ maxBefore' = maxBefore /\ (to = "empty" => log = <<>>)
                 \/ /\ log # <<>>
                    /\ maxBefore' = [maxBefore EXCEPT ![r] = LastMsgId]
<1>0. startId[r] \in Nat /\ times[r] \in Nat /\ Len(log) \in Nat
  BY DEF Types
<1>1. PICK b \in ReadFrom(r) :
         \/ /\ pc' = [pc EXCEPT ![r] = "idle"]
            /\ startId' = [startId EXCEPT ![r] = b]
            /\ maxBefore' = maxBefore
         \/ \E n \in ReadTo(b), to \in {"empty", "idle"} :
              /\ to = "empty" => needLongPolling(r)
              /\ pc' = [pc EXCEPT ![r] = to]
              /\ startId' = [startId EXCEPT ![r] = n]
              /\ maxBefore' = IF log = <<>> THEN maxBefore
                              ELSE [maxBefore EXCEPT ![r] = LastMsgId]
  BY Zenon DEF process
<1>2. b \in Nat /\ b <= startId[r]
  BY <1>0 DEF ReadFrom
<1>3. b \in 0 .. Max2(startId[r], Len(log))
  BY <1>0, <1>2 DEF Max2
<1>4. \A n \in ReadTo(b) : n \in 0 .. Max2(startId[r], Len(log)) /\ n <= Len(log)
  BY <1>0, <1>2 DEF ReadTo, LastMsgId, Max2
<1> QED
  BY <1>1, <1>3, <1>4, Zenon

\* A request that was read knows of all messages of the partition.
LEMMA InvProcess ==
    ASSUME PollInv, NEW r \in Readers, process(r) PROVE PollInv'
<1> USE DEF PollInv
<1>1. PICK n \in 0 .. Max2(startId[r], Len(log)), to \in {"idle", "empty"} :
              /\ startId' = [startId EXCEPT ![r] = n]
              /\ pc' = [pc EXCEPT ![r] = to]
              /\ to = "empty" => n <= Len(log) /\ needLongPolling(r)
              /\ \/ maxBefore' = maxBefore /\ (to = "empty" => log = <<>>)
                 \/ /\ log # <<>>
                    /\ maxBefore' = [maxBefore EXCEPT ![r] = LastMsgId]
  BY ReadStep, Zenon
<1>2. /\ pc[r] = "queued"
      /\ UNCHANGED <<log, sent, items, times, pollingMinStartId,
                     pollingMaxMsgId, status, phase, silent>>
  BY Zenon DEF process, partVars
<1>3. n \in Nat /\ Len(log) \in Nat /\ (log = <<>> <=> Len(log) = 0)
  BY DEF Types, Max2
<1>4. log # <<>> => LastMsgId \in Nat /\ LastMsgId + 1 = Len(log)
  BY <1>3 DEF LastMsgId
<1>5. Types'
  BY <1>1, <1>2, <1>3, <1>4, Zenon DEF Types
<1>6. SentKnows' /\ ItemsInPlace'
  BY <1>2, Zenon DEF SentKnows, ItemsInPlace, LastMsgId
<1>7. /\ Parked' = Parked
      /\ \A q \in Readers : q # r => /\ startId'[q] = startId[q] /\ pc'[q] = pc[q]
                                    /\ maxBefore'[q] = maxBefore[q]
      /\ r \notin Parked /\ Parked \subseteq Readers
  BY <1>1, <1>2, Zenon DEF Types, Parked
<1>8. MinCovers'
  BY <1>2, <1>7, Zenon DEF MinCovers
<1>9. NoWakeUpIsLost'
  <2> SUFFICES ASSUME phase = "up", NEW q \in Parked,
                      NEW m \in maxBefore'[q] + 1 .. LastMsgId,
                      Wanted(q, m), m \notin silent
               PROVE  \/ Announcing(m)
                      \/ startId'[q] <= pollingMaxMsgId /\ \E i \in items : i.bits = {}
    BY <1>2, <1>7, Zenon DEF NoWakeUpIsLost, Announcing, Wanted, LastMsgId
  <2> QED
    BY <1>7, Zenon DEF NoWakeUpIsLost
<1>10. EmptyKnows'
  <2> SUFFICES ASSUME NEW q \in Readers, pc'[q] \in {"empty", "parked"}
               PROVE  startId'[q] <= maxBefore'[q] + 1
    BY Zenon DEF EmptyKnows
  <2>1. CASE q = r
    <3>1. to = "empty" /\ startId'[r] = n /\ maxBefore[r] \in Nat
      BY <1>1, <2>1, Zenon DEF Types
    <3>2. CASE log = <<>>
      <4>1. n = 0 /\ maxBefore' = maxBefore
        BY <1>1, <1>3, <3>1, <3>2
      <4> QED
        BY <2>1, <3>1, <4>1
    <3>3. CASE log # <<>>
      <4>1. maxBefore'[r] = LastMsgId /\ n <= Len(log)
        BY <1>1, <3>1, <3>3, Zenon DEF Types
      <4> QED
        BY <1>3, <1>4, <2>1, <3>1, <3>3, <4>1
    <3> QED
      BY <3>2, <3>3, Zenon
  <2>2. CASE q # r
    BY <1>7, <2>2, Zenon DEF EmptyKnows
  <2> QED
    BY <2>1, <2>2, Zenon
<1>11. Known'
  <2> SUFFICES ASSUME phase = "up", NEW m \in 1 .. LastMsgId, m \notin silent,
                      ~ (m <= pollingMaxMsgId), ~ Announcing(m),
                      NEW q \in Readers, pc'[q] \in {"empty", "parked"}
               PROVE  m <= maxBefore'[q]
    BY <1>2, Zenon DEF Known, Announcing, LastMsgId
  <2>1. CASE q = r
    <3>1. log # <<>> /\ m <= LastMsgId
      BY <1>3 DEF LastMsgId
    <3>2. to = "empty"
      BY <1>1, <2>1, Zenon DEF Types
    <3> QED
      BY <1>1, <2>1, <3>1, <3>2, Zenon DEF Types
  <2>2. CASE q # r
    BY <1>7, <2>2, Zenon DEF Known
  <2> QED
    BY <2>1, <2>2, Zenon
<1>12. StopInPlace'
  BY <1>1, <1>2, Zenon DEF StopInPlace, StopLeavesNoRequest, ReadPoolIdle
<1> QED
  BY <1>5, <1>6, <1>8, <1>9, <1>10, <1>11, <1>12, Zenon

\* A request that is too old is answered.
LEMMA InvSkipHold ==
    ASSUME PollInv, NEW r \in Readers, skipHold(r) PROVE PollInv'
<1> USE DEF PollInv, skipHold, partVars, reqVars
<1>1. Types'
  BY Zenon DEF Types
<1>2. SentKnows' /\ ItemsInPlace'
  BY Zenon DEF SentKnows, ItemsInPlace, LastMsgId
<1>3. Parked' \subseteq Parked
  BY Zenon DEF Types, Parked
<1>4. MinCovers' /\ NoWakeUpIsLost'
  BY <1>3, Zenon DEF MinCovers, NoWakeUpIsLost, Announcing, Wanted, LastMsgId
<1>5. EmptyKnows'
  BY Zenon DEF EmptyKnows, Types
<1>6. Known'
  BY Zenon DEF Known, Announcing, LastMsgId, Types
<1>7. StopInPlace'
  BY Zenon DEF StopInPlace, StopLeavesNoRequest, ReadPoolIdle, Types
<1> QED
  BY <1>1, <1>2, <1>4, <1>5, <1>6, <1>7, Zenon

\* A message that came after the read was announced, and then the thread
\* that parks the request sees it, or it is still to be announced.
LEMMA InvAddLongPolling ==
    ASSUME PollInv, NEW r \in Readers, addLongPolling(r) PROVE PollInv'
<1> USE DEF PollInv
<1> DEFINE poll == [by |-> r, n |-> times'[r], bits |-> {}, max |-> -1]
<1>a. poll.bits = {} /\ poll.max = -1 /\ poll.by = r
  BY Zenon
<1>b. items' = IF maxBefore[r] < pollingMaxMsgId THEN items \cup {poll} ELSE items
  BY Zenon DEF addLongPolling
<1> HIDE DEF poll
<1>0. /\ pc[r] = "empty" /\ pc' = [pc EXCEPT ![r] = "parked"]
      /\ pollingMinStartId' = IF startId[r] < pollingMinStartId
                              THEN startId[r] ELSE pollingMinStartId
      /\ items \subseteq items'
      /\ \A i \in items' \ items : i.bits = {} /\ i.max = -1 /\ i.by = r
      /\ maxBefore[r] < pollingMaxMsgId => \E i \in items' : i.bits = {}
      /\ UNCHANGED <<log, sent, startId, maxBefore, pollingMaxMsgId, status,
                     phase, silent>>
  BY <1>a, <1>b, Zenon DEF addLongPolling, partVars
<1>1. Types'
  BY <1>0 DEF Types, addLongPolling
<1>2. SentKnows'
  BY <1>0, Zenon DEF SentKnows, LastMsgId
<1>3. ItemsInPlace'
  BY <1>0 DEF ItemsInPlace
<1>4. Parked' = Parked \cup {r}
  BY <1>0, Zenon DEF Types, Parked
<1>5. MinCovers'
  BY <1>0, <1>4 DEF MinCovers, Types, Parked
<1>6. EmptyKnows'
  BY <1>0, Zenon DEF EmptyKnows, Types
<1>7. \A m : Announcing(m) => Announcing(m)'
  BY <1>0, Zenon DEF Announcing
<1>8. Known'
  BY <1>0, <1>7, Zenon DEF Known, LastMsgId, Types
<1>9. NoWakeUpIsLost'
  <2> SUFFICES ASSUME phase = "up", NEW q \in Parked',
                      NEW m \in maxBefore[q] + 1 .. LastMsgId,
                      Wanted(q, m), m \notin silent
               PROVE  \/ Announcing(m)'
                      \/ startId[q] <= pollingMaxMsgId /\ \E i \in items' : i.bits = {}
    BY <1>0, Zenon DEF NoWakeUpIsLost, Wanted, LastMsgId
  <2>1. CASE q \in Parked
    BY <1>0, <1>7, <2>1, Zenon DEF NoWakeUpIsLost
  <2>2. CASE q = r
    <3>1. startId[r] \in Nat /\ maxBefore[r] \in Nat /\ pollingMaxMsgId \in Nat
      BY Zenon DEF Types
    <3>2. LastMsgId \in Int
      BY DEF LastMsgId, Types
    <3>3. /\ m \in 1 .. LastMsgId /\ m >= maxBefore[r] + 1 /\ m \in Nat
          /\ ~ (m <= maxBefore[r])
      BY <2>2, <3>1, <3>2
    <3>4. m <= pollingMaxMsgId \/ Announcing(m)
      BY <1>0, <3>3, Zenon DEF Known
    <3>5. startId[r] <= maxBefore[r] + 1
      BY <1>0, Zenon DEF EmptyKnows
    <3>6. m <= pollingMaxMsgId => /\ maxBefore[r] < pollingMaxMsgId
                                  /\ startId[r] <= pollingMaxMsgId
      BY <3>1, <3>3, <3>5
    <3> QED
      BY <1>0, <1>7, <2>2, <3>4, <3>6, Zenon
  <2> QED
    BY <1>4, <2>1, <2>2, Zenon
<1>10. StopInPlace'
  BY <1>0, Zenon DEF StopInPlace, StopLeavesNoRequest, ReadPoolIdle
<1> QED
  BY <1>1, <1>2, <1>3, <1>5, <1>6, <1>8, <1>9, <1>10, Zenon

\* A write that was accepted is to be announced.
LEMMA InvAddMessage ==
    ASSUME PollInv, NEW b \in Batches, NEW k \in DOMAIN b, addMessage(b, k)
    PROVE  PollInv'
<1> USE DEF PollInv
<1> DEFINE w == [first |-> Len(log), last |-> Len(log) + k - 1,
                 bits |-> {compressPayload(b[i]) : i \in 1 .. k},
                 ok |-> k = Len(b)]
<1>0. /\ log' = log \o SubSeq(b, 1, k) /\ sent' = sent \cup {w} /\ phase = "up"
      /\ UNCHANGED <<items, pc, startId, maxBefore, times, pollingMinStartId,
                     pollingMaxMsgId, status, phase, silent>>
  BY Zenon DEF addMessage, reqVars
<1>1. /\ b \in Seq(From .. To) /\ Len(b) \in Nat /\ k \in 1 .. Len(b)
      /\ log \in Seq(From .. To) /\ Len(log) \in Nat
  BY LongPollingConstants DEF Types
<1>2. /\ log' \in Seq(From .. To) /\ Len(log') = Len(log) + k
      /\ \A m \in 0 .. LastMsgId : log'[m + 1] = log[m + 1]
      /\ \A m \in Len(log) .. LastMsgId' :
            m + 1 - Len(log) \in 1 .. k /\ log'[m + 1] = b[m + 1 - Len(log)]
  <2>1. /\ log' \in Seq(From .. To) /\ Len(log') = Len(log) + k
        /\ \A j \in 1 .. Len(log) : log'[j] = log[j]
        /\ \A j \in 1 .. k : log'[Len(log) + j] = b[j]
    <3> HIDE DEF PollInv, w
    <3>1. log' = log \o SubSeq(b, 1, k)
      BY <1>0, Zenon
    <3>2. log \in Seq(From .. To) /\ b \in Seq(From .. To) /\ k \in 1 .. Len(b)
      BY <1>1, Zenon
    <3> DEFINE new == log \o SubSeq(b, 1, k)
    <3>3. /\ new \in Seq(From .. To) /\ Len(new) = Len(log) + k
          /\ \A j \in 1 .. Len(log) : new[j] = log[j]
          /\ \A j \in 1 .. k : new[Len(log) + j] = b[j]
      <4>1. /\ new \in Seq(From .. To) /\ Len(new) = Len(log) + k
        BY <3>2, AppendPart, Zenon
      <4>2. \A j \in 1 .. Len(log) : new[j] = log[j]
        BY <3>2, AppendPart, Zenon
      <4>3. \A j \in 1 .. k : new[Len(log) + j] = b[j]
        BY <3>2, AppendPart, Zenon
      <4> QED
        BY <4>1, <4>2, <4>3, Zenon
    <3>4. log' = new
      BY <3>1, Zenon
    <3> HIDE DEF new
    <3> QED
      BY <3>3, <3>4, Zenon
  <2>2. \A m \in 0 .. LastMsgId : m + 1 \in 1 .. Len(log)
    BY <1>1 DEF LastMsgId
  <2>3. \A m \in Len(log) .. LastMsgId' :
           m + 1 - Len(log) \in 1 .. k /\ Len(log) + (m + 1 - Len(log)) = m + 1
    BY <1>1, <2>1 DEF LastMsgId
  <2>4. ASSUME NEW m \in Len(log) .. LastMsgId'
        PROVE  log'[m + 1] = b[m + 1 - Len(log)]
    <3>1. log'[Len(log) + (m + 1 - Len(log))] = b[m + 1 - Len(log)]
      BY <2>1, <2>3, Zenon
    <3> QED
      BY <2>3, <3>1, Zenon
  <2> QED
    BY <2>1, <2>2, <2>3, <2>4, Zenon
<1>3. w.first = Len(log) /\ w.last = LastMsgId'
  BY <1>0, <1>1, <1>2 DEF LastMsgId
<1>4. w.bits # {} /\ \A i \in 1 .. k : compressPayload(b[i]) \in w.bits
  <2>1. 1 \in 1 .. k
    BY <1>1
  <2>2. w.bits = {compressPayload(b[i]) : i \in 1 .. k}
    BY Zenon
  <2> HIDE DEF w
  <2>3. \A i \in 1 .. k : compressPayload(b[i]) \in w.bits
    BY <2>2, Zenon
  <2> QED
    BY <2>1, <2>3, Zenon
<1> HIDE DEF w
<1>5. Types'
  BY <1>0, <1>2, Zenon DEF Types
<1>6. SentKnows'
  <2> SUFFICES ASSUME NEW s \in sent'
               PROVE  /\ s.first \in Nat /\ s.last \in Nat /\ s.last <= LastMsgId'
                      /\ s.bits # {}
                      /\ \A m \in s.first .. s.last :
                            compressPayload(log'[m + 1]) \in s.bits
    BY Zenon DEF SentKnows, compressPayload
  <2>1. CASE s \in sent
    <3>1. /\ s.first \in Nat /\ s.last \in Nat /\ s.last <= LastMsgId /\ s.bits # {}
          /\ \A m \in s.first .. s.last : compressPayload(log[m + 1]) \in s.bits
      BY <2>1, Zenon DEF SentKnows
    <3>2. LastMsgId \in Int /\ LastMsgId' \in Int /\ LastMsgId <= LastMsgId'
      BY <1>1, <1>2 DEF LastMsgId
    <3>3. \A m \in s.first .. s.last : m \in 0 .. LastMsgId
      BY <3>1, <3>2
    <3> QED
      BY <1>2, <3>1, <3>2, <3>3
  <2>2. CASE s = w
    BY <1>1, <1>2, <1>3, <1>4, <2>2 DEF LastMsgId
  <2> QED
    BY <1>0, <2>1, <2>2, Zenon
<1>7. ItemsInPlace' /\ StopInPlace'
  BY <1>0, Zenon DEF ItemsInPlace, StopInPlace, StopLeavesNoRequest, ReadPoolIdle
<1>8. MinCovers' /\ Parked' = Parked
  BY <1>0, Zenon DEF MinCovers, Parked
<1>9. EmptyKnows'
  BY <1>0, Zenon DEF EmptyKnows
<1>10. \A m \in 0 .. LastMsgId : Announcing(m) => Announcing(m)'
  BY <1>0, <1>2, Zenon DEF Announcing, compressPayload
<1>11. \A m \in 0 .. LastMsgId' : m \notin 0 .. LastMsgId => Announcing(m)'
  <2> SUFFICES ASSUME NEW m \in 0 .. LastMsgId', m \notin 0 .. LastMsgId
               PROVE  m \in w.first .. w.last
    BY <1>0, Zenon DEF Announcing
  <2> QED
    BY <1>1, <1>2, <1>3 DEF LastMsgId
<1>12. Known'
  <2> SUFFICES ASSUME NEW m \in 1 .. LastMsgId', m \notin silent
               PROVE  \/ m <= pollingMaxMsgId
                      \/ Announcing(m)'
                      \/ \A r \in Readers :
                            pc[r] \in {"empty", "parked"} => m <= maxBefore[r]
    BY <1>0, Zenon DEF Known
  <2>1. m \in 0 .. LastMsgId'
    OBVIOUS
  <2>2. m \in 0 .. LastMsgId => m \in 1 .. LastMsgId
    OBVIOUS
  <2> QED
    BY <1>0, <1>10, <1>11, <2>1, <2>2, Zenon DEF Known
<1>13. NoWakeUpIsLost'
  <2> SUFFICES ASSUME NEW r \in Parked, NEW m \in maxBefore[r] + 1 .. LastMsgId',
                      Wanted(r, m)', m \notin silent
               PROVE  \/ Announcing(m)'
                      \/ startId[r] <= pollingMaxMsgId /\ \E i \in items : i.bits = {}
    BY <1>0, <1>8, Zenon DEF NoWakeUpIsLost
  <2>1. m \in 0 .. LastMsgId'
    BY <1>1, <1>2 DEF Types, LastMsgId, Parked
  <2>2. CASE m \in 0 .. LastMsgId
    <3>1. Wanted(r, m)
      BY <1>2, <2>2, Zenon DEF Wanted
    <3>2. maxBefore[r] \in Nat /\ LastMsgId \in Int /\ LastMsgId' \in Int
      BY <1>1, <1>2 DEF LastMsgId, Types, Parked
    <3>3. m \in maxBefore[r] + 1 .. LastMsgId
      BY <2>2, <3>2
    <3> QED
      BY <1>0, <1>10, <2>2, <3>1, <3>3, Zenon DEF NoWakeUpIsLost
  <2> QED
    BY <1>11, <2>1, <2>2, Zenon
<1> QED
  BY <1>5, <1>6, <1>7, <1>8, <1>9, <1>12, <1>13, Zenon

\* The work item of a write has the bits of its messages, and all of their
\* ids are up to its maxmsgid.
LEMMA InvDoAfterSendMessage ==
    ASSUME PollInv, NEW s \in sent, doAfterSendMessage(s) PROVE PollInv'
<1> USE DEF PollInv
<1> DEFINE item == [by |-> NoReader, n |-> s.first, bits |-> s.bits,
                    max |-> LastMsgId]
<1>1. item.by = NoReader /\ item.bits = s.bits /\ item.max = LastMsgId
  BY Zenon
<1>2. /\ sent' = sent \ {s} /\ items' = items \cup {item}
      /\ phase \in {"up", "stopping", "joined"}
      /\ UNCHANGED <<log, pc, startId, maxBefore, times, pollingMinStartId,
                     pollingMaxMsgId, status, phase, silent>>
  BY Zenon DEF doAfterSendMessage, reqVars
<1> HIDE DEF item
<1>3. LastMsgId \in Int /\ LastMsgId # -1 /\ s.bits # {}
  <2>1. s.last \in Nat /\ s.last <= LastMsgId /\ s.bits # {}
    BY Zenon DEF SentKnows
  <2>2. LastMsgId \in Int
    BY DEF LastMsgId, Types
  <2> QED
    BY <2>1, <2>2
<1>4. Types' /\ SentKnows' /\ MinCovers' /\ EmptyKnows'
  BY <1>2, Zenon DEF Types, SentKnows, MinCovers, EmptyKnows, Parked, LastMsgId, compressPayload
<1>5. ItemsInPlace'
  BY <1>1, <1>2, <1>3, Zenon DEF ItemsInPlace
<1>6. \A m : Announcing(m) => Announcing(m)'
  <2> SUFFICES ASSUME NEW m, Announcing(m) PROVE Announcing(m)'
    BY Zenon
  <2>1. CASE m \in s.first .. s.last
    <3>1. compressPayload(log[m + 1]) \in item.bits /\ m <= item.max
      BY <1>1, <2>1 DEF SentKnows, LastMsgId, Types
    <3> QED
      BY <1>2, <3>1, Zenon DEF Announcing, compressPayload
  <2> QED
    BY <1>2, <2>1, Zenon DEF Announcing, compressPayload
<1>7. Known'
  BY <1>2, <1>6, Zenon DEF Known, LastMsgId
<1>8. NoWakeUpIsLost'
  BY <1>2, <1>6, Zenon DEF NoWakeUpIsLost, Parked, Wanted, LastMsgId
<1>9. StopInPlace'
  BY <1>1, <1>2, Zenon DEF StopInPlace, StopLeavesNoRequest, ReadPoolIdle
<1> QED
  BY <1>4, <1>5, <1>7, <1>8, <1>9, Zenon

\* The messages of a write that leaves no work item are known to be silent.
LEMMA InvLeaveSilent ==
    ASSUME PollInv, NEW s \in sent, leaveSilent(s) PROVE PollInv'
<1> USE DEF PollInv
<1>1. /\ sent' = sent \ {s} /\ silent' = silent \cup (s.first .. s.last)
      /\ UNCHANGED <<log, items, pc, startId, maxBefore, times,
                     pollingMinStartId, pollingMaxMsgId, status, phase>>
  BY Zenon DEF leaveSilent, reqVars
<1>2. /\ Types' /\ SentKnows' /\ ItemsInPlace' /\ MinCovers' /\ EmptyKnows'
  BY <1>1, Zenon DEF Types, SentKnows, ItemsInPlace, MinCovers, EmptyKnows, Parked,
              LastMsgId, compressPayload
<1>3. \A m : Announcing(m) /\ m \notin silent' => Announcing(m)'
  BY <1>1, Zenon DEF Announcing, compressPayload
<1>4. Known'
  BY <1>1, <1>3, Zenon DEF Known, LastMsgId
<1>5. NoWakeUpIsLost'
  BY <1>1, <1>3, Zenon DEF NoWakeUpIsLost, Parked, Wanted, LastMsgId
<1>6. StopInPlace'
  BY <1>1, Zenon DEF StopInPlace, StopLeavesNoRequest, ReadPoolIdle
<1> QED
  BY <1>2, <1>4, <1>5, <1>6, Zenon

\* A call of stealNeedActivePolling keeps pollingMinStartId right, and takes
\* every request that waits for one of its messages; where is where the
\* requests go.
LEMMA StealWakes ==
    ASSUME PollInv, NEW i \in items,
           NEW where \in {"idle", "queued"}, stealNeedActivePolling(i, where),
           UNCHANGED <<log, startId, maxBefore, times>>
    PROVE  /\ Types'
           /\ pollingMaxMsgId' >= pollingMaxMsgId /\ pollingMaxMsgId' >= i.max
           /\ Parked' \subseteq Parked
           /\ \A r \in Readers : pc'[r] = pc[r] \/ pc'[r] = where
           /\ \A r \in Parked' : pollingMinStartId' <= startId[r]
           /\ \A r \in Parked' : startId[r] <= pollingMaxMsgId => i.bits # {}
           /\ \A r \in Parked' : \A m \in maxBefore[r] + 1 .. LastMsgId :
                 Wanted(r, m) /\ m <= i.max => compressPayload(log[m + 1]) \notin i.bits
<1> DEFINE newMax == Max2(pollingMaxMsgId, i.max)
           hit(r) == i.bits = {} \/ i.bits \cap compressFilterRegion(r) # {}
           stolen == {r \in Parked : startId[r] <= newMax /\ hit(r)}
           early == i.max # -1 /\ i.max < pollingMinStartId
<1> USE DEF PollInv
<1>1. /\ pollingMaxMsgId \in Nat /\ i.max \in Int /\ pollingMinStartId \in Nat
      /\ startId \in [Readers -> Nat]
      /\ pc \in [Readers -> {"idle", "queued", "empty", "parked"}]
      /\ LastMsgId \in Int
  BY DEF Types, ItemsInPlace, LastMsgId
<1>2. newMax \in Nat /\ newMax >= pollingMaxMsgId /\ newMax >= i.max
  BY <1>1 DEF Max2
<1>3. /\ pollingMaxMsgId' = newMax
      /\ early => UNCHANGED <<pollingMinStartId, pc>>
      /\ ~early => /\ pollingMinStartId' = MinStart(Parked \ stolen)
                   /\ pc' = [r \in Readers |-> IF r \in stolen THEN where ELSE pc[r]]
  BY Zenon DEF stealNeedActivePolling
<1> HIDE DEF newMax, hit
<1>4. /\ Parked' \subseteq Parked
      /\ pc' \in [Readers -> {"idle", "queued", "empty", "parked"}]
      /\ \A r \in Readers : pc'[r] = pc[r] \/ pc'[r] = where
  BY <1>1, <1>3, Zenon DEF Parked
<1>5. ~early => Parked' = Parked \ stolen
  BY <1>1, <1>3, Zenon DEF Parked
<1>6. pollingMinStartId' \in Nat /\ \A r \in Parked' : pollingMinStartId' <= startId[r]
  <2>1. CASE early
    BY <1>1, <1>3, <1>4, <2>1, Zenon DEF MinCovers
  <2>2. CASE ~early
    <3>1. Parked \ stolen \in SUBSET Readers
      BY Zenon DEF Parked
    <3> QED
      BY <1>1, <1>3, <1>5, <2>2, <3>1, MinStartIsLeast, Zenon
  <2> QED
    BY <2>1, <2>2, Zenon
<1>7. ASSUME NEW r \in Parked', hit(r), startId[r] <= newMax PROVE early
  BY <1>4, <1>5, <1>7, Zenon
<1>8. ASSUME NEW r \in Parked', startId[r] <= pollingMaxMsgId PROVE i.bits # {}
  <2> SUFFICES ASSUME i.bits = {} PROVE FALSE
    BY Zenon
  <2>1. i.max = -1
    BY Zenon DEF ItemsInPlace
  <2>2. r \in Readers /\ startId[r] \in Nat
    BY <1>1, <1>4, Zenon DEF Parked
  <2>3. hit(r) /\ startId[r] <= newMax
    BY <1>1, <1>2, <1>8, <2>2 DEF hit
  <2> QED
    BY <1>7, <2>1, <2>3, Zenon
<1>9. ASSUME NEW r \in Parked', NEW m \in maxBefore[r] + 1 .. LastMsgId,
             Wanted(r, m), m <= i.max
      PROVE  compressPayload(log[m + 1]) \notin i.bits
  <2> SUFFICES ASSUME compressPayload(log[m + 1]) \in i.bits PROVE FALSE
    BY Zenon
  <2>0. maxBefore[r] \in Nat /\ startId[r] <= maxBefore[r] + 1
    BY <1>4, Zenon DEF Parked, EmptyKnows, Types
  <2>1. r \in Readers /\ r \in Parked /\ startId[r] \in Nat
    BY <1>1, <1>4, Zenon DEF Parked
  <2>2. m \in Nat /\ startId[r] <= m /\ m <= LastMsgId
    BY <1>1, <2>0, <2>1
  <2>3. log[m + 1] \in From .. To
    <3>1. log \in Seq(From .. To) /\ Len(log) \in Nat
      BY DEF Types
    <3>2. m + 1 \in 1 .. Len(log)
      BY <2>2, <3>1 DEF LastMsgId
    <3> QED
      BY <3>1, <3>2, SeqElement, Zenon
  <2>4. compressPayload(log[m + 1]) \in compressFilterRegion(r)
    BY <1>9, <2>1, <2>3, WantedHasBit, Zenon DEF Wanted
  <2>5. hit(r) /\ startId[r] <= newMax
    BY <1>1, <1>2, <1>9, <2>1, <2>2, <2>4 DEF hit
  <2>6. early
    BY <1>7, <2>5, Zenon
  <2>7. pollingMinStartId <= startId[r]
    BY <2>1, Zenon DEF MinCovers
  <2> QED
    BY <1>1, <1>9, <2>1, <2>2, <2>6, <2>7
<1>10. Types'
  BY <1>2, <1>3, <1>4, <1>6, Zenon DEF Types
<1> QED
  BY <1>2, <1>3, <1>4, <1>6, <1>8, <1>9, <1>10, Zenon

\* The request that a message of the work item would wake is awake when the
\* work item is gone.
LEMMA InvRequestPoll ==
    ASSUME PollInv, NEW i \in items, requestPoll(i) PROVE PollInv'
<1> USE DEF PollInv
<1>1. /\ items' = items \ {i}
      /\ UNCHANGED <<log, sent, startId, maxBefore, times, status, phase, silent>>
  BY Zenon DEF requestPoll, partVars, reqVars
<1>2. SentKnows' /\ ItemsInPlace'
  BY <1>1, Zenon DEF SentKnows, ItemsInPlace, LastMsgId, compressPayload
<1>3. phase # "up" => Known' /\ NoWakeUpIsLost'
  BY <1>1, Zenon DEF Known, NoWakeUpIsLost
<1>4. ASSUME NEW where \in {"idle", "queued"}, stealNeedActivePolling(i, where),
             where = "queued" => phase \in {"up", "stopping"}
      PROVE  PollInv'
  <2>1. /\ Types' /\ Parked' \subseteq Parked
        /\ \A r \in Readers : pc'[r] = pc[r] \/ pc'[r] = where
        /\ \A r \in Parked' : pollingMinStartId' <= startId[r]
        /\ pollingMaxMsgId' >= pollingMaxMsgId /\ pollingMaxMsgId' >= i.max
    BY <1>1, <1>4, StealWakes, Zenon
  <2>2. MinCovers' /\ EmptyKnows'
    BY <1>1, <1>4, <2>1, Zenon DEF MinCovers, EmptyKnows
  <2>3. Known'
    <3> SUFFICES ASSUME phase = "up", NEW m \in 1 .. LastMsgId, m \notin silent
                 PROVE  \/ m <= pollingMaxMsgId'
                        \/ Announcing(m)'
                        \/ \A r \in Readers : pc'[r] \in {"empty", "parked"} => m <= maxBefore[r]
      BY <1>1, Zenon DEF Known, LastMsgId
    <3>1. CASE m <= pollingMaxMsgId
      BY <2>1, <3>1 DEF Types, LastMsgId
    <3>2. CASE Announcing(m)
      <4>1. CASE m <= i.max
        BY <2>1, <4>1 DEF Types, LastMsgId, ItemsInPlace
      <4>2. CASE ~ (m <= i.max)
        BY <1>1, <3>2, <4>2, Zenon DEF Announcing, compressPayload
      <4> QED
        BY <4>1, <4>2, Zenon
    <3>3. CASE \A r \in Readers : pc[r] \in {"empty", "parked"} => m <= maxBefore[r]
      BY <1>4, <2>1, <3>3, Zenon
    <3> QED
      BY <3>1, <3>2, <3>3, Zenon DEF Known
  <2>4. NoWakeUpIsLost'
    <3> SUFFICES ASSUME phase = "up", NEW r \in Parked',
                        NEW m \in maxBefore[r] + 1 .. LastMsgId,
                        Wanted(r, m), m \notin silent
                 PROVE  \/ Announcing(m)'
                        \/ /\ startId[r] <= pollingMaxMsgId'
                           /\ \E j \in items' : j.bits = {}
      BY <1>1, Zenon DEF NoWakeUpIsLost, Wanted, LastMsgId
    <3>1. r \in Parked /\ startId[r] \in Nat
      BY <2>1, Zenon DEF Types, Parked
    <3>2. CASE Announcing(m)
      <4>1. compressPayload(log[m + 1]) \in i.bits => ~ (m <= i.max)
        BY <1>1, <1>4, StealWakes, Zenon
      <4> QED
        BY <1>1, <3>2, <4>1, Zenon DEF Announcing, compressPayload
    <3>3. CASE startId[r] <= pollingMaxMsgId /\ \E j \in items : j.bits = {}
      <4>1. i.bits # {}
        BY <1>1, <1>4, <3>3, StealWakes, Zenon
      <4>2. \E j \in items' : j.bits = {}
        BY <1>1, <3>3, <4>1, Zenon
      <4>3. startId[r] <= pollingMaxMsgId'
        BY <2>1, <3>1, <3>3 DEF Types
      <4> QED
        BY <4>2, <4>3, Zenon
    <3> QED
      BY <3>1, <3>2, <3>3, Zenon DEF NoWakeUpIsLost
  <2>5. StopInPlace'
    BY <1>1, <1>4, <2>1, Zenon DEF StopInPlace, StopLeavesNoRequest, ReadPoolIdle
  <2> QED
    BY <1>2, <2>1, <2>2, <2>3, <2>4, <2>5, Zenon
<1>5. ASSUME phase # "up", UNCHANGED <<pc, pollingMinStartId, pollingMaxMsgId>>
      PROVE  PollInv'
  <2>1. Types' /\ MinCovers' /\ EmptyKnows'
    BY <1>1, <1>5, Zenon DEF Types, MinCovers, EmptyKnows, Parked
  <2>2. StopInPlace'
    BY <1>1, <1>5, Zenon DEF StopInPlace, StopLeavesNoRequest, ReadPoolIdle
  <2> QED
    BY <1>2, <1>3, <1>5, <2>1, <2>2, Zenon
<1> QED
  BY <1>4, <1>5, Zenon DEF requestPoll

\* The requests that are due leave the queue, and the least start id is that
\* of the ones that stay.
LEMMA InvCheckTimeout ==
    ASSUME PollInv, NEW S \in SUBSET Parked, checkTimeout(S) PROVE PollInv'
<1> USE DEF PollInv
<1>1. /\ pc' = [r \in Readers |-> IF r \in S THEN "idle" ELSE pc[r]]
      /\ pollingMinStartId' = MinStart(Parked \ S)
      /\ phase \in {"up", "stopping", "joined"}
      /\ UNCHANGED <<log, sent, items, startId, maxBefore, times,
                     pollingMaxMsgId, status, phase, silent>>
  BY Zenon DEF checkTimeout, partVars, reqVars
<1>2. Parked' = Parked \ S /\ Parked \ S \in SUBSET Readers
  BY <1>1, Zenon DEF Parked, Types
<1>3. /\ pollingMinStartId' \in Nat
      /\ \A r \in Parked' : pollingMinStartId' <= startId[r]
  BY <1>1, <1>2, MinStartIsLeast, Zenon DEF Types
<1>4. Types' /\ MinCovers'
  BY <1>1, <1>3, Zenon DEF Types, MinCovers
<1>5. SentKnows' /\ ItemsInPlace'
  BY <1>1, Zenon DEF SentKnows, ItemsInPlace, LastMsgId, compressPayload
<1>6. EmptyKnows'
  BY <1>1, Zenon DEF EmptyKnows, Types
<1>7. \A m : Announcing(m)' <=> Announcing(m)
  BY <1>1, Zenon DEF Announcing, compressPayload
<1>8. Known'
  BY <1>1, <1>7, Zenon DEF Known, LastMsgId, Types
<1>9. NoWakeUpIsLost'
  BY <1>1, <1>2, <1>7, Zenon DEF NoWakeUpIsLost, Wanted, LastMsgId
<1>10. StopInPlace'
  BY <1>1, Zenon DEF StopInPlace, StopLeavesNoRequest, ReadPoolIdle
<1> QED
  BY <1>4, <1>5, <1>6, <1>8, <1>9, <1>10, Zenon

\* Steps that only change the partition's status or how far stop has come,
\* and answer all or none of the parked requests.
LEMMA InvLifeCycle ==
    ASSUME PollInv,
           \/ unLoadBrokerPartition \/ resetPartition \/ stop \/ stopReadPool
           \/ stopHandler \/ releaseLongPolling
    PROVE  PollInv'
<1> USE DEF PollInv
<1>1. /\ UNCHANGED <<log, sent, items, startId, maxBefore, times,
                     pollingMaxMsgId, silent>>
      /\ phase' = "up" => phase = "up"
      /\ pc' \in [Readers -> {"idle", "queued", "empty", "parked"}]
      /\ \A r \in Readers : pc'[r] = pc[r] \/ pc'[r] = "idle"
  BY Zenon DEF unLoadBrokerPartition, resetPartition, stop, stopReadPool, stopHandler,
         releaseLongPolling, partVars, reqVars, Types
<1>2. Parked' \subseteq Parked
  BY <1>1, Zenon DEF Parked
<1>3. /\ pollingMinStartId' \in Nat
      /\ pollingMinStartId' = pollingMinStartId \/ Parked' = {}
  <2>1. CASE releaseLongPolling
    <3>1. CASE status = "running"
      <4>1. \A r \in Readers : pc'[r] # "parked"
        BY <2>1, <3>1, Zenon DEF releaseLongPolling
      <4>2. pollingMinStartId' = NoStart
        BY <2>1, <3>1, Zenon DEF releaseLongPolling
      <4> QED
        BY <4>1, <4>2, LongPollingConstants DEF NoStart, Parked
    <3>2. CASE status # "running"
      BY <2>1, <3>2, Zenon DEF releaseLongPolling, Types
    <3> QED
      BY <3>1, <3>2, Zenon
  <2>2. CASE ~releaseLongPolling
    BY <2>2, Zenon DEF unLoadBrokerPartition, resetPartition, stop, stopReadPool,
                stopHandler, Types
  <2> QED
    BY <2>1, <2>2, Zenon
<1>4. Types' /\ MinCovers'
  BY <1>1, <1>2, <1>3, Zenon DEF Types, MinCovers
<1>5. SentKnows' /\ ItemsInPlace'
  BY <1>1, Zenon DEF SentKnows, ItemsInPlace, LastMsgId, compressPayload
<1>6. EmptyKnows'
  BY <1>1, Zenon DEF EmptyKnows
<1>7. \A m : Announcing(m)' <=> Announcing(m)
  BY <1>1, Zenon DEF Announcing, compressPayload
<1>8. Known'
  BY <1>1, <1>7, Zenon DEF Known, LastMsgId
<1>9. NoWakeUpIsLost'
  BY <1>1, <1>2, <1>7, Zenon DEF NoWakeUpIsLost, Wanted, LastMsgId
<1>10. StopInPlace'
  <2>1. CASE unLoadBrokerPartition \/ stop
    BY <2>1, Zenon DEF unLoadBrokerPartition, stop, StopInPlace, StopLeavesNoRequest,
                ReadPoolIdle
  <2>2. CASE resetPartition
    BY <2>2, Zenon DEF resetPartition, StopInPlace, StopLeavesNoRequest, ReadPoolIdle
  <2>3. CASE stopReadPool \/ stopHandler
    BY <2>3, Zenon DEF stopReadPool, stopHandler, StopInPlace, StopLeavesNoRequest,
                ReadPoolIdle
  <2>4. CASE releaseLongPolling
    <3>1. ReadPoolIdle /\ items = {} /\ phase' = "released" /\ status' = status
      BY <2>4, Zenon DEF releaseLongPolling, StopInPlace
    <3>2. ReadPoolIdle'
      BY <1>1, <3>1, Zenon DEF ReadPoolIdle
    <3>3. status = "running" => \A r \in Readers : pc'[r] = "idle"
      BY <2>4, <3>1, Zenon DEF releaseLongPolling, ReadPoolIdle
    <3> QED
      BY <1>1, <3>1, <3>2, <3>3, Zenon DEF StopInPlace, StopLeavesNoRequest
  <2> QED
    BY <2>1, <2>2, <2>3, <2>4, Zenon
<1> QED
  BY <1>4, <1>5, <1>6, <1>8, <1>9, <1>10, Zenon

\* A step that changes nothing.
LEMMA InvStutter == ASSUME PollInv, UNCHANGED vars PROVE PollInv'
  BY Zenon DEF PollInv, vars, Types, SentKnows, ItemsInPlace, MinCovers, EmptyKnows,
         Known, NoWakeUpIsLost, StopInPlace, StopLeavesNoRequest, ReadPoolIdle,
         Announcing, Wanted, LastMsgId, compressPayload, Parked

----------------------------------------------------------------------------
\* The inductive invariant holds: _pollingMinStartId is never past the start
\* of a parked request, and every message was announced, is to be announced
\* or was known to the read of every request that waits.
THEOREM PollingInvariant == Spec => []PollInv
<1>1. ASSUME PollInv, [Next]_vars PROVE PollInv'
  <2>1. CASE \E r \in Readers : getMessage(r) \/ process(r)
    BY <1>1, <2>1, InvGetMessage, InvProcess, Zenon
  <2>2. CASE \E r \in Readers : skipHold(r) \/ addLongPolling(r)
    BY <1>1, <2>2, InvSkipHold, InvAddLongPolling, Zenon
  <2>3. CASE \E b \in Batches : \E k \in DOMAIN b : addMessage(b, k)
    BY <1>1, <2>3, InvAddMessage, Zenon
  <2>4. CASE \E s \in sent : doAfterSendMessage(s) \/ leaveSilent(s)
    BY <1>1, <2>4, InvDoAfterSendMessage, InvLeaveSilent, Zenon
  <2>5. CASE \E i \in items : requestPoll(i)
    BY <1>1, <2>5, InvRequestPoll, Zenon
  <2>6. CASE \E S \in SUBSET Parked : checkTimeout(S)
    BY <1>1, <2>6, InvCheckTimeout, Zenon
  <2>7. CASE \/ unLoadBrokerPartition \/ resetPartition \/ stop \/ stopReadPool
             \/ stopHandler \/ releaseLongPolling
    BY <1>1, <2>7, InvLifeCycle, Zenon
  <2>8. CASE UNCHANGED vars
    BY <1>1, <2>8, InvStutter, Zenon
  <2> QED
    BY <1>1, <2>1, <2>2, <2>3, <2>4, <2>5, <2>6, <2>7, <2>8, Zenon DEF Next
<1> QED
  BY <1>1, InvInit, PTL DEF Spec

\* A request is woken for every message it wants that its read did not know
\* of and whose write left a work item: such a wake-up is not lost between
\* the read of a request and its parking, nor by the early return of
\* stealNeedActivePolling, nor by the compressed payloads, for all filters,
\* writes and widths.
THEOREM WakeUpsAreKept == Spec => []NoWakeUpIsLost
<1>1. PollInv => NoWakeUpIsLost
  BY Zenon DEF PollInv
<1> QED
  BY <1>1, PollingInvariant, PTL

\* The order of TransporterImpl::stop leaves no request in a partition that
\* is still in the map.
THEOREM StopAnswersAll == Spec => []StopLeavesNoRequest
<1>1. PollInv => StopLeavesNoRequest
  BY Zenon DEF PollInv, StopInPlace
<1> QED
  BY <1>1, PollingInvariant, PTL

----------------------------------------------------------------------------
\* FilterUtil::compressPayload sets a bit that the compressed payload has,
\* whatever the range of the partition.
LEMMA BitFits ==
    ASSUME NEW p \in From .. To PROVE compressPayload(p) \in 0 .. Bits - 1
<1>1. PICK N : N = To - From + 1
  BY Zenon
<1>2. N \in Nat \ {0} /\ Bits \in Nat \ {0} /\ p - From \in Nat /\ p - From < N
  BY <1>1, LongPollingConstants
<1>3. PICK d : d = Precision
  BY Zenon
<1>4. PICK x : x = p - From
  BY Zenon
<1>5. d = (N + Bits - 1) \div Bits
  BY <1>1, <1>2, <1>3, LongPollingConstants, Zenon DEF Precision
<1>6. d \in Nat /\ Bits * d >= N
  <2>1. (N + Bits - 1) \in Nat
    BY <1>2
  <2>2. d \in Nat
    BY <1>2, <1>5, <2>1
  <2>3. N + Bits - 1 < Bits * (d + 1)
    BY <1>2, <1>5, <2>1
  <2>4. Bits * (d + 1) = Bits * d + Bits /\ Bits * d \in Nat
    BY <1>2, <2>2
  <2> QED
    BY <1>2, <2>2, <2>3, <2>4
<1>7. d > 0
  BY <1>2, <1>6
<1>8. PICK q : q = x \div d
  BY Zenon
<1>9. q \in Nat /\ d * q <= x
  BY <1>2, <1>4, <1>6, <1>7, <1>8
<1>10. ASSUME q >= Bits PROVE FALSE
  <2>1. d * q >= d * Bits
    BY <1>2, <1>6, <1>9, <1>10
  <2>2. d * Bits = Bits * d /\ d * Bits \in Nat /\ d * q \in Nat /\ x \in Nat /\ x < N
    BY <1>2, <1>4, <1>6, <1>9
  <2> QED
    BY <1>2, <1>6, <1>9, <2>1, <2>2
<1>11. compressPayload(p) = q
  BY <1>3, <1>4, <1>8, Zenon DEF compressPayload
<1> QED
  BY <1>2, <1>9, <1>10, <1>11

\* A request that may be parked has a round left.
HasRound == \A r \in Readers : pc[r] = "empty" => times[r] < MaxRetry

\* The least start id that the steal functions keep is one of the queue.
LEMMA MinStartBound ==
    ASSUME NEW S \in SUBSET Readers, startId \in [Readers -> 0 .. MaxMsgs]
    PROVE  MinStart(S) \in 0 .. NoStart
<1>1. MaxMsgs \in Nat
  BY LongPollingConstants, Zenon
<1>2. CASE S = {}
  BY <1>1, <1>2 DEF MinStart, NoStart
<1>3. CASE S # {}
  <2> DEFINE T == {startId[r] : r \in S}
  <2>1. T \subseteq Nat /\ T # {} /\ T \subseteq 0 .. MaxMsgs
    BY <1>1, <1>3
  <2>2. PICK n \in T : \A y \in T : n <= y
    BY <2>1, LeastExists, Zenon
  <2>3. \E k \in T : \A r \in S : k <= startId[r]
    BY <2>2, Zenon
  <2>4. MinStart(S) = CHOOSE k \in T : \A r \in S : k <= startId[r]
    BY <1>3, Zenon DEF MinStart
  <2>5. MinStart(S) \in T
    BY <2>3, <2>4, Zenon
  <2> QED
    BY <1>1, <2>1, <2>5 DEF NoStart
<1> QED
  BY <1>2, <1>3, Zenon

\* The steps of a request keep the types.
LEMMA ReadTypes ==
    ASSUME TypeOK, HasRound, NEW r \in Readers,
           getMessage(r) \/ process(r) \/ skipHold(r) \/ addLongPolling(r)
    PROVE  TypeOK' /\ HasRound'
<1>0. MaxMsgs \in Nat /\ MaxRetry \in Nat /\ Len(log) \in 0 .. MaxMsgs /\ log \in Seq(From .. To)
  BY LongPollingConstants DEF TypeOK
<1>1. CASE getMessage(r)
  BY <1>0, <1>1 DEF getMessage, partVars, TypeOK, HasRound
<1>2. CASE process(r)
  <2>1. /\ UNCHANGED <<log, sent, items, times, pollingMinStartId,
                       pollingMaxMsgId, status, phase, silent>>
    BY <1>2, Zenon DEF process, partVars
  <2>a. Types
    <3>1. \A k \in 0 .. MaxMsgs : k \in Nat
      BY <1>0
    <3>2. \A k \in 0 .. NoStart : k \in Nat
      BY <1>0 DEF NoStart
    <3>3. \A k \in 0 .. MaxRetry : k \in Nat
      BY <1>0
    <3> QED
      BY <3>1, <3>2, <3>3, Zenon DEF Types, TypeOK
  <2>b. PICK n \in 0 .. Max2(startId[r], Len(log)), to \in {"idle", "empty"} :
              /\ startId' = [startId EXCEPT ![r] = n]
              /\ pc' = [pc EXCEPT ![r] = to]
              /\ to = "empty" => times[r] < MaxRetry
              /\ \/ maxBefore' = maxBefore
                 \/ /\ log # <<>>
                    /\ maxBefore' = [maxBefore EXCEPT ![r] = LastMsgId]
    BY <1>2, <2>a, ReadStep, Zenon DEF needLongPolling
  <2>c. n \in 0 .. MaxMsgs
    <3>1. startId[r] \in 0 .. MaxMsgs
      BY Zenon DEF TypeOK
    <3> QED
      BY <1>0, <3>1 DEF Max2
  <2>2. log # <<>> => LastMsgId \in 0 .. MaxMsgs
    BY <1>0 DEF LastMsgId
  <2>3. startId' \in [Readers -> 0 .. MaxMsgs] /\ maxBefore' \in [Readers -> 0 .. MaxMsgs]
    BY <2>b, <2>c, <2>2, Zenon DEF TypeOK
  <2>4. pc' \in [Readers -> {"idle", "queued", "empty", "parked"}] /\ HasRound'
    BY <2>1, <2>b, Zenon DEF TypeOK, HasRound
  <2> QED
    BY <2>1, <2>3, <2>4, Zenon DEF TypeOK
<1>3. CASE skipHold(r)
  BY <1>3, Zenon DEF skipHold, partVars, reqVars, TypeOK, HasRound
<1>4. CASE addLongPolling(r)
  <2>1. /\ UNCHANGED <<log, sent, startId, maxBefore, pollingMaxMsgId, status, phase, silent>>
        /\ pc[r] = "empty" /\ pc' = [pc EXCEPT ![r] = "parked"]
        /\ times' = [times EXCEPT ![r] = @ + 1]
    BY <1>4, Zenon DEF addLongPolling, partVars
  <2>2. times[r] \in 0 .. MaxRetry /\ times[r] < MaxRetry /\ times \in [Readers -> 0 .. MaxRetry]
    BY <2>1, Zenon DEF TypeOK, HasRound
  <2>3. times[r] + 1 \in 0 .. MaxRetry
    BY <1>0, <2>2
  <2>4. times' \in [Readers -> 0 .. MaxRetry] /\ times'[r] \in 0 .. MaxRetry
    BY <2>1, <2>2, <2>3, Zenon
  <2>5. pc' \in [Readers -> {"idle", "queued", "empty", "parked"}] /\ HasRound'
    BY <2>1, Zenon DEF TypeOK, HasRound
  <2>6. pollingMinStartId' \in 0 .. NoStart
    BY <1>0, <1>4 DEF addLongPolling, TypeOK, NoStart
  <2>7. items' \subseteq Items
    <3>1. times'[r] \in 0 .. MaxMsgs + MaxRetry
      BY <1>0, <2>4
    <3>2. [by |-> r, n |-> times'[r], bits |-> {}, max |-> -1] \in Items
      BY <1>0, <3>1 DEF Items
    <3> QED
      BY <1>4, <3>2, Zenon DEF addLongPolling, TypeOK
  <2> QED
    BY <2>1, <2>4, <2>5, <2>6, <2>7, Zenon DEF TypeOK
<1> QED
  BY <1>1, <1>2, <1>3, <1>4, Zenon

\* The steps of a write keep the types.
LEMMA WriteTypes ==
    ASSUME TypeOK, HasRound,
           \/ \E b \in Batches : \E k \in DOMAIN b : addMessage(b, k)
           \/ \E s \in sent : doAfterSendMessage(s) \/ leaveSilent(s)
    PROVE  TypeOK' /\ HasRound'
<1>0. MaxMsgs \in Nat /\ MaxRetry \in Nat /\ Len(log) \in 0 .. MaxMsgs /\ log \in Seq(From .. To)
  BY LongPollingConstants DEF TypeOK
<1>1. ASSUME NEW b \in Batches, NEW k \in DOMAIN b, addMessage(b, k)
      PROVE  TypeOK' /\ HasRound'
  <2>1. b \in Seq(From .. To) /\ k \in 1 .. Len(b) /\ Len(b) \in Nat /\ Len(log) + k <= MaxMsgs
    <3>1. b \in Seq(From .. To)
      BY <1>1, LongPollingConstants, Zenon
    <3>2. Len(log) + k <= MaxMsgs
      BY <1>1, Zenon DEF addMessage
    <3>3. Len(b) \in Nat /\ k \in 1 .. Len(b)
      BY <3>1
    <3> QED
      BY <3>1, <3>2, <3>3, Zenon
  <2>2. log' \in Seq(From .. To) /\ Len(log') = Len(log) + k
    <3>1. log' = log \o SubSeq(b, 1, k)
      BY <1>1, Zenon DEF addMessage
    <3> QED
      BY <1>0, <2>1, <3>1, AppendPart, Zenon
  <2>3. {compressPayload(b[i]) : i \in 1 .. k} \subseteq 0 .. Bits - 1
    <3>1. ASSUME NEW i \in 1 .. k PROVE compressPayload(b[i]) \in 0 .. Bits - 1
      <4>1. i \in 1 .. Len(b)
        BY <2>1
      <4>2. b[i] \in From .. To
        BY <2>1, <4>1, SeqElement, Zenon
      <4> QED
        BY <4>2, BitFits, Zenon
    <3> QED
      BY <3>1, Zenon
  <2>4. Len(log) \in 0 .. MaxMsgs /\ Len(log) + k - 1 \in 0 .. MaxMsgs
    BY <1>0, <2>1
  <2>5. [first |-> Len(log), last |-> Len(log) + k - 1,
         bits |-> {compressPayload(b[i]) : i \in 1 .. k},
         ok |-> k = Len(b)] \in Sent
    BY <2>3, <2>4, Zenon DEF Sent
  <2>6. sent' \subseteq Sent
    BY <1>1, <2>5, Zenon DEF addMessage, TypeOK
  <2> QED
    BY <1>1, <2>1, <2>2, <2>6, Zenon DEF addMessage, reqVars, TypeOK, HasRound
<1>2. ASSUME NEW s \in sent, doAfterSendMessage(s) PROVE TypeOK' /\ HasRound'
  <2>1. s \in Sent
    BY Zenon DEF TypeOK
  <2>2. s.first \in 0 .. MaxMsgs + MaxRetry /\ s.bits \in SUBSET (0 .. Bits - 1)
    BY <1>0, <2>1 DEF Sent
  <2>3. LastMsgId \in -1 .. MaxMsgs
    BY <1>0 DEF LastMsgId
  <2>4. [by |-> NoReader, n |-> s.first, bits |-> s.bits, max |-> LastMsgId] \in Items
    BY <2>2, <2>3, Zenon DEF Items
  <2>5. items' \subseteq Items
    BY <1>2, <2>4, Zenon DEF doAfterSendMessage, TypeOK
  <2> QED
    BY <1>2, <2>5, Zenon DEF doAfterSendMessage, reqVars, TypeOK, HasRound
<1>3. ASSUME NEW s \in sent, leaveSilent(s) PROVE TypeOK' /\ HasRound'
  <2>1. s.first \in 0 .. MaxMsgs /\ s.last \in 0 .. MaxMsgs
    BY Zenon DEF TypeOK, Sent
  <2>2. s.first .. s.last \subseteq 0 .. MaxMsgs
    BY <1>0, <2>1
  <2> QED
    BY <1>3, <2>2, Zenon DEF leaveSilent, reqVars, TypeOK, HasRound
<1> QED
  BY <1>1, <1>2, <1>3, Zenon

\* The steps that wake or answer requests keep the types.
LEMMA WakeTypes ==
    ASSUME TypeOK, HasRound,
           \/ \E i \in items : requestPoll(i)
           \/ \E S \in SUBSET Parked : checkTimeout(S)
    PROVE  TypeOK' /\ HasRound'
<1>0. MaxMsgs \in Nat /\ startId \in [Readers -> 0 .. MaxMsgs]
  BY LongPollingConstants, Zenon DEF TypeOK
<1>1. ASSUME NEW i \in items, NEW where \in {"queued", "idle"}, stealNeedActivePolling(i, where)
      PROVE  /\ pollingMaxMsgId' \in 0 .. MaxMsgs /\ pollingMinStartId' \in 0 .. NoStart
             /\ pc' \in [Readers -> {"idle", "queued", "empty", "parked"}]
             /\ \A r \in Readers : pc'[r] = "empty" => pc[r] = "empty"
  <2>1. i.max \in -1 .. MaxMsgs
    BY Zenon DEF TypeOK, Items
  <2>2. pollingMaxMsgId' \in 0 .. MaxMsgs
    BY <1>0, <1>1, <2>1 DEF stealNeedActivePolling, Max2, TypeOK
  <2>3. \A T : MinStart(Parked \ T) \in 0 .. NoStart
    BY <1>0, MinStartBound, Zenon DEF Parked
  <2>4. pollingMinStartId' \in 0 .. NoStart
    BY <1>1, <2>3, Zenon DEF stealNeedActivePolling, TypeOK
  <2>5. \/ pc' = pc
        \/ \E T : pc' = [r \in Readers |-> IF r \in T THEN where ELSE pc[r]]
    BY <1>1, Zenon DEF stealNeedActivePolling
  <2>6. /\ pc' \in [Readers -> {"idle", "queued", "empty", "parked"}]
        /\ \A r \in Readers : pc'[r] = "empty" => pc[r] = "empty"
    BY <1>1, <2>5, Zenon DEF TypeOK
  <2> QED
    BY <2>2, <2>4, <2>6, Zenon
<1>2. ASSUME NEW i \in items, requestPoll(i) PROVE TypeOK' /\ HasRound'
  <2>1. /\ pollingMaxMsgId' \in 0 .. MaxMsgs /\ pollingMinStartId' \in 0 .. NoStart
        /\ pc' \in [Readers -> {"idle", "queued", "empty", "parked"}]
        /\ \A r \in Readers : pc'[r] = "empty" => pc[r] = "empty"
    <3>1. CASE UNCHANGED <<pc, pollingMinStartId, pollingMaxMsgId>>
      BY <3>1, Zenon DEF TypeOK
    <3> QED
      BY <1>1, <1>2, <3>1, Zenon DEF requestPoll
  <2>2. /\ UNCHANGED <<log, sent, startId, maxBefore, times, status, phase, silent>>
        /\ items' \subseteq items
    BY <1>2, Zenon DEF requestPoll, partVars, reqVars
  <2> QED
    BY <2>1, <2>2, Zenon DEF TypeOK, HasRound
<1>3. ASSUME NEW S \in SUBSET Parked, checkTimeout(S) PROVE TypeOK' /\ HasRound'
  <2>1. pollingMinStartId' \in 0 .. NoStart
    BY <1>0, <1>3, MinStartBound, Zenon DEF checkTimeout, Parked
  <2>2. pc' = [r \in Readers |-> IF r \in S THEN "idle" ELSE pc[r]]
    BY <1>3, Zenon DEF checkTimeout
  <2> QED
    BY <1>3, <2>1, <2>2, Zenon DEF checkTimeout, partVars, reqVars, TypeOK, HasRound
<1> QED
  BY <1>2, <1>3, Zenon

\* The bounds hold: in particular no request is parked more than MaxRetry
\* times (needLongPolling is read before, and times counted after, the
\* request leaves the read pool), and every bit that a poll carries is one
\* that the compressed payload has.
THEOREM PollingIsBounded == Spec => []TypeOK
<1>1. Init => TypeOK /\ HasRound
  BY LongPollingConstants DEF Init, TypeOK, HasRound, NoStart
<1>2. ASSUME TypeOK, HasRound, [Next]_vars PROVE TypeOK' /\ HasRound'
  <2>1. CASE \/ unLoadBrokerPartition \/ resetPartition \/ stop \/ stopReadPool
             \/ stopHandler
    BY <1>2, <2>1, Zenon DEF unLoadBrokerPartition, resetPartition, stop, stopReadPool, stopHandler,
       partVars, reqVars, TypeOK, HasRound
  <2>2. CASE releaseLongPolling
    <3>1. NoStart \in 0 .. NoStart
      BY LongPollingConstants DEF NoStart
    <3> QED
      BY <1>2, <2>2, <3>1, Zenon DEF releaseLongPolling, partVars, reqVars, TypeOK, HasRound
  <2>3. CASE UNCHANGED vars
    BY <1>2, <2>3, Zenon DEF vars, TypeOK, HasRound
  <2> QED
    BY <1>2, <2>1, <2>2, <2>3, ReadTypes, WriteTypes, WakeTypes, Zenon DEF Next
<1> QED
  BY <1>1, <1>2, PTL DEF Spec
=============================================================================
