------------------------- MODULE SwiftWriterProofs --------------------------
(***************************************************************************)
(* The writer loses and reorders nothing, for any partitions, batch sizes, *)
(* initial sessions and numbers of messages, faults and clears; every      *)
(* broker is a partition log and, for one partition, the writer is a sink. *)
(***************************************************************************)
EXTENDS SwiftWriterClientProofs, SwiftWriterContracts, FiniteSetTheorems, WellFoundedInduction

-----------------------------------------------------------------------------
(***************************************************************************)
(* The inductive invariant                                                 *)
(***************************************************************************)
\* Every set of natural numbers that is not empty has a least one.
LEMMA LeastExists ==
    ASSUME NEW T, T \subseteq Nat, T # {}
    PROVE  \E x \in T : \A y \in T : x <= y
<1> DEFINE R == OpToRel(<, Nat)
<1>1. IsWellFoundedOn(R, Nat)
    BY NatLessThanWellFounded, Zenon
<1>2. \A x, y \in Nat : <<y, x>> \in R <=> y < x
    BY Zenon DEF OpToRel
<1> HIDE DEF R
<1>3. PICK x \in T : \A y \in T : ~(<<y, x>> \in R)
    BY <1>1, WFMin, Zenon
<1>4. ASSUME NEW y \in T PROVE x <= y
  <2>1. x \in Nat /\ y \in Nat
      BY Zenon
  <2>2. ~(y < x)
      BY <1>2, <1>3, <2>1, Zenon
  <2> QED
      BY <2>1, <2>2
<1> QED
    BY <1>4, Zenon

\* MinOf finds the least element.
LEMMA MinOfLeast ==
    ASSUME NEW T, T \subseteq Nat, T # {}
    PROVE  MinOf(T) \in T /\ \A y \in T : MinOf(T) <= y
    BY LeastExists, Zenon DEF MinOf

\* updateCommitBuffer counts a prefix of ids that are all committed.
LEMMA CommittedPrefix == CountsPrefix
<1> SUFFICES ASSUME NEW ids \in Seq(Nat), NEW c \in Int
             PROVE  /\ CommittedCount(ids, c) \in 0 .. Len(ids)
                    /\ \A i \in 1 .. CommittedCount(ids, c) : ids[i] <= c
    BY Zenon DEF CountsPrefix
<1> DEFINE S == {i \in DOMAIN ids : \A j \in 1 .. i : ids[j] <= c}
           T == {i \in 1 .. Len(ids) : ids[i] > c}
<1>0. /\ Len(ids) \in Nat /\ DOMAIN ids = 1 .. Len(ids)
      /\ \A i \in 1 .. Len(ids) : ids[i] \in Nat
    OBVIOUS
<1>1. \E n \in 0 .. Len(ids) : S = 1 .. n
  <2>1. CASE T = {}
    <3>1. \A i \in 1 .. Len(ids) : ids[i] <= c
        BY <1>0, <2>1
    <3>2. S = 1 .. Len(ids)
        BY <1>0, <3>1
    <3> QED
        BY <1>0, <3>2
  <2>2. CASE T # {}
    <3>0. T \subseteq Nat
        BY <1>0
    <3>1. PICK x \in T : \A y \in T : x <= y
      <4> HIDE DEF T
      <4> QED
          BY <2>2, <3>0, LeastExists, Zenon
    <3>2. x \in Nat /\ x \in 1 .. Len(ids) /\ x - 1 \in 0 .. Len(ids) /\ ids[x] > c
        BY <1>0
    <3>3. \A i \in 1 .. x - 1 : ids[i] <= c
        BY <1>0, <3>1, <3>2
    <3>4. S = 1 .. x - 1
      <4>1. ASSUME NEW i \in 1 .. x - 1 PROVE i \in S
          BY <1>0, <3>2, <3>3
      <4>2. ASSUME NEW i \in S PROVE i \in 1 .. x - 1
        <5>1. i \in 1 .. Len(ids) /\ ~(x \in 1 .. i)
            BY <1>0, <3>2
        <5> QED
            BY <1>0, <3>2, <5>1
      <4> QED
          BY <4>1, <4>2, Zenon
    <3> QED
        BY <3>2, <3>4, Zenon
  <2> QED
      BY <2>1, <2>2, Zenon
<1>2. PICK n \in 0 .. Len(ids) : S = 1 .. n
    BY <1>1, Zenon
<1>3. n \in Nat /\ Cardinality(1 .. n) = n
    BY <1>0, FS_Interval
<1>4. CommittedCount(ids, c) = n
    BY <1>2, <1>3, Zenon DEF CommittedCount
<1>5. ASSUME NEW i \in 1 .. n PROVE ids[i] <= c
  <2>1. i \in S /\ i \in 1 .. i
      BY <1>2, <1>3
  <2> QED
      BY <2>1, Zenon
<1> QED
    BY <1>4, <1>5, Zenon

\* No step breaks the invariant.
LEMMA NextInv == WriterInv /\ [Next]_vars => WriterInv'
    BY CommittedPrefix, StepKeeps, Zenon

\* The inductive invariant holds in every state of the writer.
THEOREM WriterInvariant == Spec => []WriterInv
    BY InitInv, NextInv, PTL DEF Spec

-----------------------------------------------------------------------------
(***************************************************************************)
(* The properties of the writer                                            *)
(***************************************************************************)
\* Messages, named as the properties name them.
LEMMA WrittenMessages ==
    ASSUME WriterInv
    PROVE  /\ DOMAIN written = 1 .. Total /\ Total \in Nat
           /\ \A m \in 1 .. Total : written[m] \in Partitions /\ Of(written[m], m)
           /\ \A m : Durable(m) <=> Committed(written[m], m)
    BY Zenon DEF WriterInv, Types, ClientTypes, Of, Durable, Committed

\* Safe mode: a message leaves the buffer only when it is committed, or with
\* clearBuffer, whatever is lost, late, resent or reloaded.
THEOREM WriterLosesNothing == Spec => []NothingLost
<1>1. ASSUME WriterInv PROVE NothingLost
  <2> SUFFICES ASSUME NEW m \in DOMAIN written PROVE m \in Queued(written[m]) \/ Kept(m)
      BY Zenon DEF NothingLost
  <2>1. PICK p \in Partitions : p = written[m] /\ Of(p, m) /\ m \in 1 .. Total
      BY <1>1, WrittenMessages, Zenon
  <2>2. InQueue(p, m) \/ m \in cleared \/ Committed(p, m)
      BY <1>1, <2>1, Zenon DEF WriterInv, PartInv, LostNothing
  <2>3. InQueue(p, m) => m \in Queued(p)
    <3>1. Types
        BY <1>1, Zenon DEF WriterInv
    <3> QED
        BY <3>1, Numbers DEF InQueue, Queued, Elements
  <2>4. Committed(p, m) => Durable(m)
      BY <1>1, <2>1, WrittenMessages, Zenon
  <2> QED
      BY <2>1, <2>2, <2>3, <2>4, Zenon DEF Kept
<1> QED
    BY <1>1, WriterInvariant, PTL

\* The ids of the accepted messages are their ids in the log of the session.
THEOREM UncommittedIdsAreRight == Spec => []UncommittedMatchLog
<1>1. WriterInv => UncommittedMatchLog
    BY Zenon DEF WriterInv, PartInv, CursorOK, UncommittedMatchLog
<1> QED
    BY <1>1, WriterInvariant, PTL

\* No log has a message before an older one of its partition.
THEOREM LogsAreInOrder == Spec => []InOrder
<1>1. ASSUME WriterInv PROVE InOrder
  <2> SUFFICES ASSUME NEW p \in Partitions, NEW j \in DOMAIN log[p],
                      NEW m \in 1 .. log[p][j] - 1, written[m] = p, m \notin cleared
               PROVE  \E i \in 1 .. j - 1 : log[p][i] = m
      BY Zenon DEF InOrder
  <2>1. Types /\ LogOK(p)
      BY <1>1, Zenon DEF WriterInv, PartInv
  <2>2. j \in 1 .. Len(log[p]) /\ Total \in Nat
      BY <2>1, Numbers
  <2>3. /\ Of(p, log[p][j])
        /\ \A k \in 1 .. Total :
              Of(p, k) /\ k < log[p][j] /\ k \notin cleared => \E i \in 1 .. j - 1 : log[p][i] = k
      BY <2>1, <2>2, Zenon DEF LogOK
  <2>4. log[p][j] \in 1 .. Total
      BY <2>3, Zenon DEF Of
  <2>5. m \in 1 .. Total /\ m < log[p][j]
      BY <2>2, <2>4
  <2> QED
      BY <2>3, <2>5, Zenon DEF Of
<1> QED
    BY <1>1, WriterInvariant, PTL

\* The checkpoint of a partition covers only committed messages.
THEOREM PartCheckpointsAreSafe == Spec => []PartCheckpointIsSafe
<1>1. ASSUME WriterInv PROVE PartCheckpointIsSafe
  <2> SUFFICES ASSUME NEW m \in DOMAIN written, m <= checkpoint[written[m]] PROVE Kept(m)
      BY Zenon DEF PartCheckpointIsSafe
  <2>1. PICK p \in Partitions : p = written[m] /\ Of(p, m) /\ m \in 1 .. Total
      BY <1>1, WrittenMessages, Zenon
  <2>2. m \in cleared \/ Committed(p, m)
      BY <1>1, <2>1, Zenon DEF WriterInv, PartInv, CheckpointOK
  <2> QED
      BY <1>1, <2>1, <2>2, WrittenMessages, Zenon DEF Kept
<1> QED
    BY <1>1, WriterInvariant, PTL

-----------------------------------------------------------------------------
(***************************************************************************)
(* A buffer that refuses messages                                          *)
(***************************************************************************)
\* Without clearBuffer, convertMessage closes the buffer only while messages
\* are left to convert.  (clearBuffer empties _toMergeQueue and leaves the
\* buffer closed.)
THEOREM RefusalsEnd ==
    ASSUME MaxClears = 0
    PROVE  Spec => []RefusesOnlyInMerge
<1> DEFINE Inv == RefusesOnlyInMerge /\ clears = 0
<1>1. Init => Inv
    BY Zenon DEF Init, RefusesOnlyInMerge
<1>2. ASSUME WriterInv, Inv, [Next]_vars PROVE Inv'
  <2>1. Types
      BY <1>2, Zenon DEF WriterInv
  <2>2. CASE UNCHANGED <<toMerge, canAdd, clears>>
      BY <1>2, <2>2, Zenon DEF RefusesOnlyInMerge
  <2>3. ASSUME NEW p \in Partitions, convertMessage(p), UNCHANGED clears PROVE Inv'
    <3> SUFFICES ASSUME NEW q \in Partitions PROVE canAdd'[q] \/ toMerge'[q] # <<>>
        BY <1>2, <2>3, Zenon DEF RefusesOnlyInMerge
    <3>1. canAdd[q] \/ toMerge[q] # <<>>
        BY <1>2, Zenon DEF RefusesOnlyInMerge
    <3>2. CASE q # p
      <4>1. toMerge'[q] = toMerge[q] /\ canAdd'[q] = canAdd[q]
          BY <2>1, <2>3, <3>2, ConvertMoves
      <4> QED
          BY <3>1, <4>1, Zenon
    <3>3. CASE q = p
      <4>1. CASE UNCHANGED <<writeQueue, toMerge, sendQueue, minInMerge, canAdd>>
          BY <3>1, <4>1, Zenon
      <4>2. CASE ~UNCHANGED <<writeQueue, toMerge, sendQueue, minInMerge, canAdd>>
        <5>1. PICK n \in Nat, src \in Seq(Nat) :
                 /\ n <= Len(src) /\ Len(toMerge'[p]) = Len(src) - n
                 /\ canAdd'[p] = (n = Len(src))
            BY <2>1, <2>3, <4>2, ConvertMoves
        <5>2. n # Len(src) => toMerge'[p] # <<>>
          <6>1. Len(src) \in Nat
              OBVIOUS
          <6>2. n # Len(src) => Len(toMerge'[p]) # 0
              BY <5>1, <6>1
          <6> QED
              BY <6>2, Zenon
        <5> QED
            BY <3>3, <5>1, <5>2, Zenon
      <4> QED
          BY <4>1, <4>2, Zenon
    <3> QED
        BY <3>2, <3>3, Zenon
  <2>4. CASE UNCHANGED vars
      BY <2>2, <2>4, Zenon DEF vars, clientVars, queueVars
  <2>5. ASSUME NEW p \in Partitions, write(p) \/ clearBuffer(p) \/ mergeWork(p) PROVE Inv'
    <3>1. CASE write(p)
        BY <2>2, <3>1, Zenon DEF write, addWriteMessage
    <3>2. CASE clearBuffer(p)
        BY <1>2, <3>2 DEF clearBuffer
    <3>3. CASE mergeWork(p)
        BY <2>3, <3>3, Zenon DEF mergeWork, clientVars
    <3> QED
        BY <2>5, <3>1, <3>2, <3>3, Zenon
  <2>6. CASE sendRequest
      BY <2>2, <2>6, Zenon DEF sendRequest, clientVars, queueVars
  <2>7. ASSUME NEW p \in Partitions,
               handleStep(p) \/ postSendMessageRequest(p) \/ skipPost(p) \/ scanStep(p)
        PROVE  Inv'
    <3>1. CASE handleStep(p)
      <4>1. UNCHANGED <<toMerge, canAdd, clears>>
          BY <3>1, Zenon DEF handleStep, handleSendMessageResponse, resetUnsendCursor, updateBuffer,
                      clientVars, queueVars
      <4> QED
          BY <2>2, <4>1, Zenon
    <3>2. CASE postSendMessageRequest(p)
      <4>1. (convertMessage(p) \/ UNCHANGED queueVars) /\ UNCHANGED clears
          BY <1>2, <3>2, PostTypes, Zenon DEF postSendMessageRequest, clientVars
      <4> QED
          BY <2>2, <2>3, <4>1, Zenon DEF queueVars
    <3>3. CASE skipPost(p) \/ scanStep(p)
        BY <2>2, <3>3, Zenon DEF skipPost, scanStep, clientVars, queueVars
    <3> QED
        BY <2>7, <3>1, <3>2, <3>3, Zenon
  <2>8. CASE Broker
    <3>1. UNCHANGED writerVars
        BY <2>8, Zenon DEF Broker, sendMessage, doneRunForProductRequest, Timeout, ArriveLate, Commit, Reload
    <3> QED
        BY <2>2, <3>1, Zenon DEF writerVars, clientVars, queueVars
  <2> QED
      BY <1>2, <2>4, <2>5, <2>6, <2>7, <2>8 DEF Next, Client, SendLoop
<1>3. Inv => RefusesOnlyInMerge
    BY Zenon
<1> QED
    BY <1>1, <1>2, <1>3, WriterInvariant, PTL DEF Spec

-----------------------------------------------------------------------------
(***************************************************************************)
(* The brokers as partition logs                                           *)
(***************************************************************************)
\* Whatever step is taken, a log grows at the end, commits, or is cut behind
\* a committed prefix.
Grows(p) ==
    /\ committed'[p] = committed[p] /\ Len(log[p]) <= Len(log'[p])
    /\ \A i \in 1 .. Len(log[p]) : log'[p][i] = log[p][i]
Commits(p) ==
    /\ log'[p] = log[p] /\ committed[p] < committed'[p] /\ committed'[p] <= Len(log[p])
Cut(p) ==
    /\ committed[p] <= committed'[p] /\ committed'[p] <= Len(log[p])
    /\ Len(log'[p]) = committed'[p]
    /\ \A i \in 1 .. committed'[p] : log'[p][i] = log[p][i]

\* Every step does one of the three to every log.
LEMMA LogSteps ==
    ASSUME WriterInv, [Next]_vars, NEW p \in Partitions
    PROVE  Grows(p) \/ Commits(p) \/ Cut(p)
<1>1. Types /\ log[p] \in Seq(Nat) /\ Len(log[p]) \in Nat /\ committed[p] \in Nat
    BY Numbers, Zenon DEF WriterInv
<1>2. ASSUME log'[p] = log[p], committed'[p] = committed[p] PROVE Grows(p)
    BY <1>1, <1>2 DEF Grows
<1>3. CASE UNCHANGED <<log, committed>>
    BY <1>2, <1>3, Zenon
<1>4. ASSUME NEW q \in Partitions, sendMessage(q) \/ doneRunForProductRequest(q) \/ Timeout(q)
                                     \/ ArriveLate(q) \/ Commit(q) \/ Reload(q)
      PROVE  Grows(p) \/ Commits(p) \/ Cut(p)
  <2>fun. log \in [Partitions -> Seq(Nat)] /\ committed \in [Partitions -> Nat]
      BY <1>1, Zenon DEF Types, BrokerTypes
  <2>1. ASSUME NEW r \in Requests, NEW k \in 0 .. Len(r.msgs), committed' = committed,
               log' = [log EXCEPT ![q] = @ \o Take(r.msgs, k)]
        PROVE  Grows(p)
    <3>1. CASE q # p
        BY <1>2, <2>fun, <2>1, <3>1, Zenon
    <3>2. CASE q = p
      <4>1. r.msgs \in Seq(Nat)
          BY Zenon DEF Requests
      <4>2. /\ Len(log[p] \o Take(r.msgs, k)) = Len(log[p]) + k
            /\ \A i \in 1 .. Len(log[p]) : (log[p] \o Take(r.msgs, k))[i] = log[p][i]
          BY <1>1, <4>1, JoinTake, Zenon
      <4>3. log'[p] = log[p] \o Take(r.msgs, k) /\ committed'[p] = committed[p]
          BY <2>fun, <2>1, <3>2, Zenon
      <4>4. k \in Nat
          BY <4>1
      <4>5. Len(log[p]) <= Len(log[p]) + k
          BY <1>1, <4>4
      <4> QED
          BY <4>2, <4>3, <4>5, Zenon DEF Grows
    <3> QED
        BY <3>1, <3>2, Zenon
  <2>2. CASE sendMessage(q)
    <3>1. /\ committed' = committed /\ call[q] \in Requests
          /\ \/ \E k \in 0 .. Len(call[q].msgs) : log' = [log EXCEPT ![q] = @ \o Take(call[q].msgs, k)]
             \/ log' = log
        BY <1>1, <2>2, SendMoves, Zenon
    <3> QED
        BY <1>3, <2>1, <3>1, Zenon
  <2>3. CASE doneRunForProductRequest(q) \/ Timeout(q)
      BY <1>3, <2>3, Zenon DEF doneRunForProductRequest, Timeout, brokerVars
  <2>4. CASE ArriveLate(q)
    <3>1. PICK r \in late[q] :
             \E k \in 1 .. Len(r.msgs) : log' = [log EXCEPT ![q] = @ \o Take(r.msgs, k)]
        BY <2>4, Zenon DEF ArriveLate
    <3>2. r \in Requests /\ committed' = committed
        BY <1>1, <2>4, Numbers, Zenon DEF ArriveLate
    <3>3. PICK k \in 1 .. Len(r.msgs) : log' = [log EXCEPT ![q] = @ \o Take(r.msgs, k)]
        BY <3>1, Zenon
    <3>4. k \in 0 .. Len(r.msgs)
        BY <3>2 DEF Requests
    <3> QED
        BY <2>1, <3>2, <3>3, <3>4, Zenon
  <2>5. CASE Commit(q)
    <3>1. PICK n \in committed[q] + 1 .. Len(log[q]) : committed' = [committed EXCEPT ![q] = n]
        BY <2>5, Zenon DEF Commit
    <3>2. log' = log
        BY <2>5, Zenon DEF Commit
    <3>3. CASE q # p
        BY <1>2, <2>fun, <3>1, <3>2, <3>3, Zenon
    <3>4. CASE q = p
      <4>1. committed'[p] = n
          BY <2>fun, <3>1, <3>4, Zenon
      <4>2. committed[p] < n /\ n <= Len(log[p])
          BY <1>1, <3>4
      <4> QED
          BY <3>2, <4>1, <4>2, Zenon DEF Commits
    <3> QED
        BY <3>3, <3>4, Zenon
  <2>6. CASE Reload(q)
    <3>1. PICK n \in committed[q] .. Len(log[q]) :
             log' = [log EXCEPT ![q] = Take(@, n)] /\ committed' = [committed EXCEPT ![q] = n]
        BY <2>6, Zenon DEF Reload
    <3>2. CASE q # p
        BY <1>2, <2>fun, <3>1, <3>2, Zenon
    <3>3. CASE q = p
      <4>1. committed'[p] = n /\ log'[p] = Take(log[p], n)
          BY <2>fun, <3>1, <3>3, Zenon
      <4>2. committed[p] <= n /\ n <= Len(log[p]) /\ n \in 0 .. Len(log[p])
          BY <1>1, <3>3
      <4>3. Len(Take(log[p], n)) = n /\ \A i \in 1 .. n : Take(log[p], n)[i] = log[p][i]
          BY <1>1, <4>2, TakeOf, Zenon
      <4> QED
          BY <4>1, <4>2, <4>3, Zenon DEF Cut
    <3> QED
        BY <3>2, <3>3, Zenon
  <2> QED
      BY <1>4, <2>2, <2>3, <2>4, <2>5, <2>6
<1>5. CASE UNCHANGED vars
    BY <1>3, <1>5, Zenon DEF vars, brokerVars
<1>6. CASE Client
    BY <1>3, <1>6, Zenon DEF Client, write, clearBuffer, mergeWork, brokerVars
<1>7. CASE SendLoop
    BY <1>3, <1>7, Zenon DEF SendLoop, sendRequest, handleStep, postSendMessageRequest, skipPost, scanStep, brokerVars
<1> QED
    BY <1>4, <1>5, <1>6, <1>7, Zenon DEF Next, Broker

\* The brokers this module assumes take only steps of PartitionLog, the
\* specification that the storage of a partition is proved to implement.
THEOREM BrokersArePartitionLogs == Spec => BrokerIsPartitionLog
<1> DEFINE View(l) == [i \in 0 .. Len(l) - 1 |-> [ts |-> i, msg |-> l[i + 1]]]
<1>1. Init => \A p \in Partitions : PL(p)!LogInit
  <2> SUFFICES ASSUME Init, NEW p \in Partitions PROVE PL(p)!LogInit
      BY Zenon
  <2>1. log[p] = <<>> /\ committed[p] = 0
      BY Zenon DEF Init
  <2>2. Len(log[p]) = 0 /\ 0 .. Len(log[p]) - 1 = {}
      BY <2>1
  <2>3. [i \in 0 .. Len(log[p]) - 1 |-> [ts |-> i, msg |-> log[p][i + 1]]] = [i \in {} |-> i]
      BY <2>2, Zenon
  <2>4. committed[p] - 1 = -1
      BY <2>1
  <2> QED
      BY <2>3, <2>4, Zenon DEF PL!LogInit
<1>2. ASSUME WriterInv, [Next]_vars
      PROVE  \A p \in Partitions : [PL(p)!LogNext]_<<log[p], committed[p]>>
  <2> SUFFICES ASSUME NEW p \in Partitions PROVE PL(p)!LogNext
      BY Zenon
  <2>1. /\ log[p] \in Seq(Nat) /\ Len(log[p]) \in Nat /\ committed[p] \in Nat /\ committed[p] <= Len(log[p])
      BY <1>2, Numbers, Zenon DEF WriterInv, PartInv, LogOK
  <2>2. WriterInv'
      BY <1>2, NextInv, Zenon
  <2>3. log'[p] \in Seq(Nat) /\ Len(log'[p]) \in Nat /\ committed'[p] \in Nat
      BY <2>2 DEF WriterInv, Types, BrokerTypes
  <2>4. PICK l, l1, c, c1 : l = log[p] /\ l1 = log'[p] /\ c = committed[p] /\ c1 = committed'[p]
      BY Zenon
  <2>5. CASE Grows(p)
    <3>1. /\ c1 = c /\ Len(l) <= Len(l1) /\ \A i \in 1 .. Len(l) : l1[i] = l[i]
          /\ Len(l) \in Nat /\ Len(l1) \in Nat /\ c \in Nat /\ c <= Len(l)
        BY <2>1, <2>3, <2>4, <2>5, Zenon DEF Grows
    <3>2. DOMAIN View(l) = 0 .. Len(l) - 1 /\ DOMAIN View(l1) = 0 .. Len(l1) - 1
        BY Zenon
    <3>3. /\ \A i \in 0 .. Len(l) - 1 : View(l)[i] = [ts |-> i, msg |-> l[i + 1]]
          /\ \A i \in 0 .. Len(l1) - 1 : View(l1)[i] = [ts |-> i, msg |-> l1[i + 1]]
        BY Zenon
    <3> HIDE DEF View
    <3>4. DOMAIN View(l) \subseteq DOMAIN View(l1)
        BY <3>1, <3>2
    <3>5. \A i \in DOMAIN View(l) : View(l1)[i] = View(l)[i]
      <4> SUFFICES ASSUME NEW i \in 0 .. Len(l) - 1 PROVE View(l1)[i] = View(l)[i]
          BY <3>2, Zenon
      <4>1. i + 1 \in 1 .. Len(l) /\ i \in 0 .. Len(l1) - 1
          BY <3>1
      <4>2. l1[i + 1] = l[i + 1]
          BY <3>1, <4>1, Zenon
      <4> QED
          BY <3>3, <4>1, <4>2, Zenon
    <3>6. \A i \in DOMAIN View(l1) \ DOMAIN View(l) :
             /\ i > c - 1
             /\ \A j \in DOMAIN View(l1) : j < i => View(l1)[j].ts < View(l1)[i].ts
             /\ i = 0 \/ i - 1 \in DOMAIN View(l1)
      <4> SUFFICES ASSUME NEW i \in 0 .. Len(l1) - 1, i \notin 0 .. Len(l) - 1
                   PROVE  /\ i > c - 1
                          /\ \A j \in 0 .. Len(l1) - 1 : j < i => View(l1)[j].ts < View(l1)[i].ts
                          /\ i = 0 \/ i - 1 \in 0 .. Len(l1) - 1
          BY <3>2, Zenon
      <4>1. i > c - 1
          BY <3>1
      <4>2. i = 0 \/ i - 1 \in 0 .. Len(l1) - 1
          BY <3>1
      <4>3. ASSUME NEW j \in 0 .. Len(l1) - 1 PROVE View(l1)[j].ts = j
        <5>1. View(l1)[j] = [ts |-> j, msg |-> l1[j + 1]]
            BY <3>3, Zenon
        <5> QED
            BY <5>1
      <4> QED
          BY <4>1, <4>2, <4>3, Zenon
    <3>7. PL(p)!Append
        BY <2>4, <3>1, <3>4, <3>5, <3>6, Zenon DEF PL!Append, View
    <3> QED
        BY <3>7, Zenon DEF PL!LogNext
  <2>6. CASE Commits(p)
    <3>1. committed'[p] - 1 \in 0 .. Len(log[p]) - 1 /\ committed'[p] - 1 > committed[p] - 1
        BY <2>1, <2>3, <2>6 DEF Commits
    <3>2. log'[p] = log[p]
        BY <2>6, Zenon DEF Commits
    <3>3. DOMAIN View(log[p]) = 0 .. Len(log[p]) - 1
        BY Zenon
    <3>4. PL(p)!Commit
        BY <3>1, <3>2, <3>3, Zenon DEF PL!Commit, View
    <3> QED
        BY <3>4, Zenon DEF PL!LogNext
  <2>7. CASE Cut(p)
    <3>1. /\ c <= c1 /\ c1 <= Len(l) /\ Len(l1) = c1 /\ \A i \in 1 .. c1 : l1[i] = l[i]
          /\ c \in Nat /\ c1 \in Nat /\ Len(l) \in Nat
        BY <2>1, <2>3, <2>4, <2>7, Zenon DEF Cut
    <3>2. DOMAIN View(l) = 0 .. Len(l) - 1
        BY Zenon
    <3>3. \A i \in 0 .. Len(l) - 1 : View(l)[i] = [ts |-> i, msg |-> l[i + 1]]
        BY Zenon
    <3>4. c1 - 1 \in (0 .. Len(l) - 1) \cup {c - 1} /\ c1 - 1 >= c - 1
        BY <3>1
    <3>5. View(l1) = [i \in {j \in DOMAIN View(l) : j <= c1 - 1} |-> View(l)[i]]
      <4> DEFINE D == {j \in DOMAIN View(l) : j <= c1 - 1}
      <4>1. D = 0 .. Len(l1) - 1
          BY <3>1, <3>2
      <4>2. ASSUME NEW i \in D PROVE View(l)[i] = [ts |-> i, msg |-> l1[i + 1]]
        <5>1. i \in 0 .. Len(l) - 1 /\ i + 1 \in 1 .. c1
            BY <3>1, <3>2
        <5> QED
            BY <3>1, <3>3, <5>1, Zenon
      <4>3. View(l1) = [i \in D |-> [ts |-> i, msg |-> l1[i + 1]]]
          BY <4>1, Zenon
      <4> HIDE DEF D
      <4>4. [i \in D |-> [ts |-> i, msg |-> l1[i + 1]]] = [i \in D |-> View(l)[i]]
          BY <4>2, Zenon
      <4> QED
          BY <4>3, <4>4, Zenon DEF D
    <3>6. PL(p)!Restart
      <4>a. 0 <= 0 /\ \A i \in DOMAIN View(l1) : 0 <= i
        <5>1. DOMAIN View(l1) = 0 .. Len(l1) - 1
            BY Zenon
        <5> HIDE DEF View
        <5> QED
            BY <3>1, <5>1
      <4>1. \E last \in DOMAIN View(l) \cup {c - 1} :
               /\ last >= c - 1 /\ c1 - 1 = last
               /\ View(l1) = [i \in {j \in DOMAIN View(l) : j <= last} |-> View(l)[i]]
          BY <3>2, <3>4, <3>5, Zenon
      <4> HIDE DEF View
      <4>2. \E last \in DOMAIN View(log[p]) \cup {committed[p] - 1} :
               /\ last >= committed[p] - 1 /\ committed'[p] - 1 = last
               /\ View(log'[p]) = [i \in {j \in DOMAIN View(log[p]) : j <= last} |-> View(log[p])[i]]
               /\ 0 <= 0
               /\ \A i \in DOMAIN View(log'[p]) : 0 <= i
          BY <2>4, <4>a, <4>1, Zenon
      <4> QED
          BY <4>2, Zenon DEF PL!Restart, View
    <3> QED
        BY <3>6, Zenon DEF PL!LogNext
  <2> QED
      BY <1>2, <2>5, <2>6, <2>7, LogSteps, Zenon
<1> QED
    BY <1>1, <1>2, WriterInvariant, PTL DEF Spec, BrokerIsPartitionLog

-----------------------------------------------------------------------------
(***************************************************************************)
(* The writer as the sink of the log replication                           *)
(***************************************************************************)
\* The send loop of a writer with one partition scans it and nothing else.
LoopOK ==
    /\ writers \subseteq Partitions /\ (writers # {} => Total >= 1)
    /\ loop # Idle =>
          /\ writers # {}
          /\ loop \in [at : {"handle", "post", "scan"}, part : Partitions, min : {None}, max : {None}]

\* No step makes the loop see a second partition.
LEMMA LoopStays ==
    ASSUME NEW p0, Partitions = {p0}, WriterInv, LoopOK, [Next]_vars
    PROVE  LoopOK'
<1> DEFINE Loops == [at : {"handle", "post", "scan"}, part : Partitions, min : {None}, max : {None}]
<1>1. Types /\ Total \in Nat
    BY Zenon DEF WriterInv, Types, ClientTypes
<1>2. ASSUME written' = written, writers' = writers, loop' = loop PROVE LoopOK'
    BY <1>2, Zenon DEF LoopOK, Total
<1>3. ASSUME written' = written, writers' = writers, loop' = Idle PROVE LoopOK'
    BY <1>3, Zenon DEF LoopOK, Total
<1>4. ASSUME written' = written, writers' = writers, writers # {}, loop' \in Loops PROVE LoopOK'
    BY <1>4, Zenon DEF LoopOK, Total
<1>5. ASSUME NEW s \in {"handle", "post", "scan"}, loop # Idle, Goto(s)
      PROVE  writers # {} /\ loop' \in Loops
    BY <1>5, Zenon DEF LoopOK, Goto
<1>6. CASE UNCHANGED vars
    BY <1>2, <1>6, Zenon DEF vars, clientVars
<1>7. ASSUME NEW p \in Partitions, write(p) PROVE LoopOK'
  <2>1. Total' = Total + 1
      BY <1>1, <1>7, WriteTypes, Zenon
  <2>2. writers' = writers \cup {p} /\ loop' = loop
      BY <1>7, Zenon DEF write
  <2>3. Total' >= 1
      BY <1>1, <2>1
  <2> QED
      BY <2>2, <2>3, Zenon DEF LoopOK
<1>8. ASSUME NEW p \in Partitions, clearBuffer(p) \/ mergeWork(p) PROVE LoopOK'
    BY <1>2, <1>8, Zenon DEF clearBuffer, mergeWork, clientVars
<1>9. CASE sendRequest
  <2>1. writers # {} /\ writers \subseteq Nat /\ writers \subseteq Partitions
      BY <1>9, WriterConstants, Zenon DEF sendRequest, LoopOK
  <2>2. MinOf(writers) \in Partitions
      BY <2>1, MinOfLeast, Zenon
  <2>3. loop' = [at |-> "handle", part |-> MinOf(writers), min |-> None, max |-> None]
      BY <1>9, Zenon DEF sendRequest
  <2>4. loop' \in Loops
      BY <2>2, <2>3, Zenon
  <2> QED
      BY <1>4, <1>9, <2>1, <2>4 DEF sendRequest, clientVars
<1>10. ASSUME NEW p \in Partitions, handleStep(p) \/ postSendMessageRequest(p) \/ skipPost(p)
       PROVE  LoopOK'
  <2>1. loop # Idle /\ (Goto("scan") \/ Goto("post")) /\ written' = written /\ writers' = writers
      BY <1>10, Zenon DEF handleStep, postSendMessageRequest, skipPost, LoopAt, clientVars
  <2> QED
      BY <1>4, <1>5, <2>1, Zenon
<1>11. ASSUME NEW p \in Partitions, scanStep(p) PROVE LoopOK'
  <2>1. p0 \in Nat /\ p = p0
      BY <1>11, WriterConstants, Zenon
  <2>2. {q \in writers : q > p} = {}
    <3>1. \A q \in writers : q = p0
        BY Zenon DEF LoopOK
    <3>2. ~(p0 > p)
        BY <2>1
    <3> QED
        BY <3>1, <3>2, Zenon
  <2> QED
      BY <1>3, <1>11, <2>2, Zenon DEF scanStep, clientVars
<1>12. CASE Broker
  <2>1. written' = written /\ writers' = writers /\ loop' = loop
      BY <1>12, Zenon DEF Broker, sendMessage, doneRunForProductRequest, Timeout, ArriveLate, Commit,
                   Reload, writerVars, clientVars
  <2> QED
      BY <1>2, <2>1, Zenon
<1> QED
    BY <1>6, <1>7, <1>8, <1>9, <1>10, <1>11, <1>12, Zenon DEF Next, Client, SendLoop

\* A message that is safe stays safe.
LEMMA KeptStays ==
    ASSUME WriterInv, [Next]_vars, SameMessages
    PROVE  \A m \in DOMAIN written : Kept(m) => Kept(m)'
<1> SUFFICES ASSUME NEW m \in DOMAIN written, Kept(m) PROVE Kept(m)'
    BY Zenon
<1>1. PICK p \in Partitions : p = written[m]
    BY WrittenMessages, Zenon
<1>2. written' = written /\ cleared \subseteq cleared'
    BY Zenon DEF SameMessages
<1>3. CASE m \in cleared
    BY <1>2, <1>3, Zenon DEF Kept
<1>4. CASE Durable(m)
  <2>1. committed[p] \in Nat /\ committed'[p] \in Nat /\ committed[p] <= Len(log[p]) /\ Len(log[p]) \in Nat
      BY NextInv, Numbers, Zenon DEF WriterInv, PartInv, LogOK, Types, BrokerTypes
  <2>2. PICK i \in 1 .. committed[p] : log[p][i] = m
      BY <1>1, <1>4, Zenon DEF Durable
  <2>3. committed[p] <= committed'[p] /\ log'[p][i] = log[p][i]
    <3>1. i \in 1 .. Len(log[p])
        BY <2>1
    <3>2. CASE Grows(p)
        BY <2>1, <3>1, <3>2 DEF Grows
    <3>3. CASE Commits(p)
        BY <2>1, <3>3 DEF Commits
    <3>4. CASE Cut(p)
        BY <2>1, <3>4 DEF Cut
    <3> QED
        BY <3>2, <3>3, <3>4, LogSteps, Zenon
  <2>4. i \in 1 .. committed'[p]
      BY <2>1, <2>3
  <2> QED
      BY <1>1, <1>2, <2>2, <2>3, <2>4, Zenon DEF Kept, Durable
<1> QED
    BY <1>3, <1>4, Zenon DEF Kept

\* A message just written is the last, and not safe.
LEMMA WriteTakes ==
    ASSUME WriterInv, NEW p \in Partitions, write(p)
    PROVE  TheSink!TakeLog
<1>1. Types /\ Total \in Nat /\ cleared \subseteq 1 .. Total
    BY Zenon DEF WriterInv, Types, ClientTypes
<1>2. PICK n : n = Total + 1
    BY Zenon
<1>3. /\ Types' /\ Total' = n /\ written'[n] = p
      /\ \A m \in 1 .. Total : written'[m] = written[m]
    BY <1>1, <1>2, WriteTypes, Zenon
<1>4. DOMAIN written = 1 .. Total /\ DOMAIN written' = 1 .. n
    BY <1>1, <1>3, Zenon DEF Types, ClientTypes
<1>5. cleared' = cleared /\ log' = log /\ committed' = committed /\ published' = published
    BY Zenon DEF write, brokerVars
<1>6. ASSUME NEW m \in 1 .. Total PROVE Kept(m)' <=> Kept(m)
    BY <1>3, <1>5, <1>6, Zenon DEF Kept, Durable
<1>7. ~Kept(n)'
  <2>1. n \notin cleared
      BY <1>1, <1>2
  <2>2. ASSUME NEW i \in 1 .. committed[p] PROVE log[p][i] # n
    <3>1. LogOK(p) /\ committed[p] \in Nat /\ Len(log[p]) \in Nat
        BY <1>1, Numbers, Zenon DEF WriterInv, PartInv
    <3>2. i \in 1 .. Len(log[p])
        BY <3>1 DEF LogOK
    <3>3. log[p][i] \in 1 .. Total
        BY <3>1, <3>2, Zenon DEF LogOK, Of
    <3> QED
        BY <1>1, <1>2, <3>3
  <2> QED
      BY <1>3, <1>5, <2>1, <2>2, Zenon DEF Kept, Durable
<1>8. 1 .. n = (1 .. Total) \cup {n} /\ n \in 1 .. n /\ \A k \in 1 .. Total : k <= n
    BY <1>1, <1>2
<1>9. {m \in DOMAIN written' : Kept(m)'} = {m \in DOMAIN written : Kept(m)}
    BY <1>4, <1>6, <1>7, <1>8, Zenon
<1> QED
    BY <1>4, <1>5, <1>8, <1>9, Zenon DEF TheSink!TakeLog, TheSink!Covers

\* With one partition, what the send loop publishes is the checkpoint of the
\* partition, or nothing.
LEMMA ScanAcknowledges ==
    ASSUME NEW p0, Partitions = {p0}, WriterInv, LoopOK, scanStep(p0)
    PROVE  TheSink!Acknowledge /\ published' \in Int /\ published' <= Total
<1>1. Types /\ PartInv(p0) /\ Total \in Nat
    BY Zenon DEF WriterInv, Types, ClientTypes
<1>2. PICK cp : cp = PartCheckpoint(p0)
    BY Zenon
<1>3. cp <= Total /\ \A m \in 1 .. Total : Of(p0, m) /\ m <= cp => m \in cleared \/ Committed(p0, m)
    BY <1>1, <1>2, CheckpointSafe, Zenon
<1>4. Total >= 1 /\ loop.min = None /\ loop.max = None /\ loop # Idle
      /\ loop \in [at : {"handle", "post", "scan"}, part : Partitions, min : {None}, max : {None}]
    BY Zenon DEF LoopOK, scanStep, LoopAt
<1>5. {q \in writers : q > p0} = {}
  <2>1. \A q \in writers : q = p0
      BY Zenon DEF LoopOK
  <2>2. ~(p0 > p0)
      BY WriterConstants
  <2> QED
      BY <2>1, <2>2, Zenon
<1>6. published' = IF Seen(p0).min # None THEN Seen(p0).min ELSE Seen(p0).max
    BY <1>5, Zenon DEF scanStep
<1>7. published' = None \/ published' = cp
  <2>1. CASE cp = Invalid
      BY <1>2, <1>4, <1>6, <2>1, Zenon DEF Seen
  <2>2. CASE cp # Invalid /\ latestCheckPointId(p0) # None
    <3>1. Seen(p0) = [loop EXCEPT !.min = IF @ = None THEN cp ELSE MinOf({@, cp})]
        BY <1>2, <2>2, Zenon DEF Seen
    <3>2. Seen(p0).min = cp /\ Seen(p0).max = None
        BY <1>4, <3>1, Zenon
    <3> QED
        BY <1>6, <3>2, Zenon
  <2>3. CASE cp # Invalid /\ latestCheckPointId(p0) = None
    <3>1. Seen(p0) = [loop EXCEPT !.max = NotLess(@, cp)]
        BY <1>2, <2>3, Zenon DEF Seen
    <3>2. Seen(p0).min = None /\ Seen(p0).max = NotLess(None, cp)
        BY <1>4, <3>1, Zenon
    <3> QED
        BY <1>6, <3>2, Zenon DEF NotLess
  <2> QED
      BY <2>1, <2>2, <2>3, Zenon
<1>8. /\ DOMAIN written = 1 .. Total
      /\ \A m \in 1 .. Total : Of(p0, m) /\ (m \in cleared \/ Committed(p0, m) => Kept(m))
  <2>1. ASSUME NEW m \in 1 .. Total PROVE written[m] = p0
      BY <2>1, WrittenMessages, Zenon
  <2> QED
      BY <2>1, WrittenMessages, Zenon DEF Of, Kept
<1>9. UNCHANGED <<written, cleared, log, committed>>
    BY Zenon DEF scanStep, clientVars, brokerVars
<1>10. {m \in DOMAIN written' : Kept(m)'} = {m \in DOMAIN written : Kept(m)}
    BY <1>9, Zenon DEF Kept, Durable
<1>11. published' = -1 \/ \E l \in DOMAIN written : published' <= l
  <2>1. Total \in DOMAIN written
      BY <1>1, <1>4, <1>8
  <2> QED
      BY <1>3, <1>7, <2>1, Zenon DEF None
<1>12. ASSUME NEW l \in DOMAIN written, l <= published' PROVE Kept(l)
  <2>1. l \in 1 .. Total
      BY <1>8, Zenon
  <2>2. published' # None
      BY <1>1, <1>12, <2>1 DEF None
  <2> QED
      BY <1>3, <1>7, <1>8, <1>12, <2>1, <2>2, Zenon
<1>13. TheSink!Acknowledge
    BY <1>9, <1>10, <1>11, <1>12, Zenon DEF TheSink!Acknowledge, TheSink!Covers
<1>14. cp \in Int
  <2>1. Types'
      BY ScanTypes, Zenon
  <2>2. checkpoint'[p0] = cp
      BY <1>1, <1>2, Zenon DEF scanStep, Types, SentTypes
  <2> QED
      BY <2>1, <2>2, Zenon DEF Types, SentTypes
<1> QED
    BY <1>1, <1>3, <1>7, <1>13, <1>14 DEF None

\* Every step of a writer of one partition is a step of the sink.
LEMMA SinkSteps ==
    ASSUME NEW p0, Partitions = {p0}, WriterInv, LoopOK, [Next]_vars
    PROVE  /\ TheSink!TakeLog \/ TheSink!MakeSafe \/ TheSink!Acknowledge
           /\ published' = published \/ (TheSink!Acknowledge /\ published' \in Int /\ published' <= Total)
<1>1. ASSUME SameMessages, published' = published PROVE TheSink!MakeSafe
  <2>1. written' = written
      BY <1>1, Zenon DEF SameMessages
  <2>2. {m \in DOMAIN written : Kept(m)} \subseteq {m \in DOMAIN written' : Kept(m)'}
      BY <1>1, <2>1, KeptStays, Zenon
  <2>3. {m \in DOMAIN written' : Kept(m)'} \subseteq DOMAIN written
      BY <2>1, Zenon
  <2> QED
      BY <1>1, <2>1, <2>2, <2>3, Zenon DEF TheSink!MakeSafe
<1>2. ASSUME UNCHANGED vars PROVE SameMessages /\ published' = published
    BY <1>2, Zenon DEF vars, clientVars, SameMessages
<1>3. ASSUME NEW p \in Partitions, write(p) PROVE TheSink!TakeLog /\ published' = published
    BY <1>3, WriteTakes, Zenon DEF write
<1>4. ASSUME NEW p \in Partitions, clearBuffer(p) \/ mergeWork(p)
      PROVE  SameMessages /\ published' = published
    BY <1>4, Zenon DEF clearBuffer, mergeWork, clientVars, SameMessages
<1>5. ASSUME sendRequest PROVE SameMessages /\ published' = published
    BY <1>5, Zenon DEF sendRequest, clientVars, SameMessages
<1>6. ASSUME NEW p \in Partitions, handleStep(p) \/ postSendMessageRequest(p) \/ skipPost(p)
      PROVE  SameMessages /\ published' = published
    BY <1>6, Zenon DEF handleStep, postSendMessageRequest, skipPost, clientVars, SameMessages
<1>7. ASSUME NEW p \in Partitions, scanStep(p)
      PROVE  TheSink!Acknowledge /\ published' \in Int /\ published' <= Total
    BY <1>7, ScanAcknowledges, Zenon
<1>8. ASSUME Broker PROVE SameMessages /\ published' = published
  <2>1. UNCHANGED <<written, cleared, published>>
      BY <1>8, Zenon DEF Broker, sendMessage, doneRunForProductRequest, Timeout, ArriveLate, Commit,
                  Reload, writerVars, clientVars
  <2> QED
      BY <2>1, Zenon DEF SameMessages
<1> QED
    BY <1>1, <1>2, <1>3, <1>4, <1>5, <1>6, <1>7, <1>8, Zenon DEF Next, Client, SendLoop

\* The loop starts idle.
LEMMA LoopStarts == Init => LoopOK
    BY Zenon DEF Init, LoopOK

\* A writer of one partition is the sink that the log replication expects.
\* With more partitions it is not: the checkpoint published then may cover a
\* message written to a partition that the scan had already passed.
THEOREM WriterIsASink ==
    ASSUME NEW p0, Partitions = {p0}
    PROVE  Spec => ImplementsSink
<1>1. Init => TheSink!SinkInit
  <2> SUFFICES ASSUME Init PROVE TheSink!SinkInit
      BY Zenon
  <2>1. DOMAIN written = {} /\ published = -1
      BY DEF Init, None
  <2>2. {m \in DOMAIN written : Kept(m)} = {}
      BY <2>1, Zenon
  <2> QED
      BY <2>1, <2>2, Zenon DEF TheSink!SinkInit
<1>2. ASSUME WriterInv, LoopOK, [Next]_vars PROVE [TheSink!SinkNext]_(TheSink!sinkVars)
    BY <1>2, SinkSteps, Zenon DEF TheSink!SinkNext
<1>3. WriterInv /\ LoopOK /\ [Next]_vars => LoopOK'
    BY LoopStays, Zenon
<1> QED
    BY <1>1, <1>2, <1>3, LoopStarts, WriterInvariant, PTL DEF Spec, ImplementsSink, TheSink!SinkSpec

\* The checkpoint that a writer of one partition publishes stays safe: a
\* message written later is past it, and what was safe stays so.
THEOREM OnePartitionCheckpointIsSafe ==
    ASSUME NEW p0, Partitions = {p0}
    PROVE  Spec => []CheckpointIsSafe
<1> DEFINE Inv == CheckpointIsSafe /\ published \in Int /\ published <= Total
<1>1. Init => Inv
  <2> SUFFICES ASSUME Init PROVE Inv
      BY Zenon
  <2>1. DOMAIN written = {} /\ published = -1
      BY DEF Init, None
  <2>2. Total \in Nat
      BY InitInv, Zenon DEF WriterInv, Types, ClientTypes
  <2> QED
      BY <2>1, <2>2 DEF CheckpointIsSafe
<1>2. ASSUME WriterInv, LoopOK, Inv, [Next]_vars PROVE Inv'
  <2> DEFINE Safe == {m \in DOMAIN written : Kept(m)}
  <2>1. WriterInv'
      BY <1>2, NextInv, Zenon
  <2>2. DOMAIN written = 1 .. Total /\ Total \in Nat /\ DOMAIN written' = 1 .. Total' /\ Total' \in Nat
      BY <1>2, <2>1, Zenon DEF WriterInv, Types, ClientTypes
  <2>3. Total <= Total' /\ \A m \in DOMAIN written : Kept(m) => m \in DOMAIN written' /\ Kept(m)'
    <3>1. \A m \in Safe : m \in Safe'
        BY <1>2, SinkSteps, Zenon DEF TheSink!TakeLog, TheSink!MakeSafe, TheSink!Acknowledge
    <3>2. DOMAIN written \subseteq DOMAIN written'
        BY <1>2, SinkSteps, Zenon DEF TheSink!TakeLog, TheSink!MakeSafe, TheSink!Acknowledge
    <3>3. Total <= Total'
        BY <2>2, <3>2
    <3> QED
        BY <3>1, <3>3, Zenon
  <2>4. CASE published' = published
    <3>1. ASSUME NEW m \in DOMAIN written', m <= published' PROVE Kept(m)'
      <4>1. m \in DOMAIN written
          BY <1>2, <2>2, <2>4, <3>1
      <4> QED
          BY <1>2, <2>3, <2>4, <3>1, <4>1, Zenon DEF CheckpointIsSafe
    <3>2. published' \in Int /\ published' <= Total'
        BY <1>2, <2>2, <2>3, <2>4
    <3> QED
        BY <3>1, <3>2, Zenon DEF CheckpointIsSafe
  <2>5. CASE TheSink!Acknowledge /\ published' \in Int /\ published' <= Total
    <3>1. DOMAIN written' = DOMAIN written
        BY <2>5, Zenon DEF TheSink!Acknowledge
    <3>2. ASSUME NEW m \in DOMAIN written', m <= published' PROVE Kept(m)'
      <4>1. m \in Safe
          BY <2>5, <3>1, <3>2, Zenon DEF TheSink!Acknowledge, TheSink!Covers
      <4> QED
          BY <2>3, <4>1, Zenon
    <3>3. published' <= Total'
        BY <2>2, <2>3, <2>5
    <3> QED
        BY <2>5, <3>2, <3>3, Zenon DEF CheckpointIsSafe
  <2> QED
      BY <1>2, <2>4, <2>5, SinkSteps, Zenon
<1>3. WriterInv /\ LoopOK /\ [Next]_vars => LoopOK'
    BY LoopStays, Zenon
<1> QED
    BY <1>1, <1>2, <1>3, LoopStarts, WriterInvariant, PTL DEF Spec
=============================================================================
