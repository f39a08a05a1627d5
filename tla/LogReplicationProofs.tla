------------------------ MODULE LogReplicationProofs ------------------------
(***************************************************************************)
(* The replication loses no log, for all logs, sinks and bounds.  With a   *)
(* start offset that is not positive the first range is read without a     *)
(* seek, and NothingSkipped is false: what depends on it is proved for     *)
(* positive start offsets, and the rest for all of them.                   *)
(***************************************************************************)
EXTENDS LogReplication, TLAPS

LastSink == CHOOSE s \in Sinks : \A t \in Sinks : t <= s

Up == pc # "down"

\* While a range is replicated the reader is behind _consumedLogId, or
\* behind the log that is being written, and right behind when it seeks.
ReaderInPlace ==
    /\ pc = "read" =>
          /\ pos > consumed
          /\ consumed >= 0 => \A l \in Logs : l < pos => l <= consumed
    /\ pc = "write" =>
          /\ cur \in Rewritten /\ cur > consumed /\ pos = cur + 1
          /\ consumed >= 0 => \A l \in Logs : l > consumed => cur <= l
          /\ LastSink \in todo
          /\ \A s \in Sinks \ todo : cur \in HasFields[s] => cur \in taken[s]

\* No sink has taken more than the first log after _consumedLogId, or what
\* the reader has passed while there is no seek, and the last sink has taken
\* nothing after _consumedLogId.
SinksInPlace ==
    /\ ~Up => \A s \in Sinks : taken[s] = {}
    /\ Up => /\ consumed >= 0 =>
                   \A s \in Sinks : \A l \in taken[s], k \in Logs : k > consumed => l <= k
             /\ consumed < 0 => \A s \in Sinks : \A l \in taken[s] : l < pos
             /\ \A l \in taken[LastSink] : l <= consumed

\* What the answers of the sinks cover.
AnswersInPlace ==
    \A s \in Sinks :
        /\ acked[s] = -1 \/ \E l \in taken[s] : acked[s] <= l
        /\ \A l \in taken[s] : l <= acked[s] => l \in durable[s]

\* What holds when there is always a seek.
NothingLost ==
    StartOffset > 0 =>
        /\ Up => consumed >= 0 /\ CompleteUpTo(persisted)
        /\ StoredIsComplete /\ NothingSkipped

\* The inductive invariant.
ReplicationInv ==
    /\ TypeOK
    /\ Up => consumed >= -1 /\ consumed >= persisted /\ persisted >= stored
    /\ NothingLost /\ ReaderInPlace /\ SinksInPlace /\ AnswersInPlace

\* There is a last sink (ReplicationConstants).
LEMMA LastSinkIsLast == LastSink \in Sinks /\ \A s \in Sinks : s <= LastSink
  BY ReplicationConstants, Zenon DEF LastSink

\* Nothing is taken and nothing is stored before the first start.
LEMMA InvInit == Init => ReplicationInv
  <1> SUFFICES ASSUME Init PROVE ReplicationInv
    OBVIOUS
  <1>1. TypeOK
    BY ReplicationConstants DEF Init, TypeOK
  <1>2. StoredIsComplete
    <2> SUFFICES ASSUME NEW s \in Sinks, NEW l \in Wanted(s), l <= stored PROVE FALSE
      BY DEF StoredIsComplete, CompleteUpTo
    <2> QED
      BY ReplicationConstants DEF Init, Wanted
  <1>3. ReaderInPlace /\ SinksInPlace /\ NothingSkipped
    BY DEF Init, ReaderInPlace, SinksInPlace, NothingSkipped, Up
  <1>4. AnswersInPlace
    BY DEF Init, AnswersInPlace
  <1> QED
    BY <1>1, <1>2, <1>3, <1>4 DEF Init, ReplicationInv, NothingLost, Up

\* A new worker goes on after the stored checkpoint, or at a start offset
\* before which nothing is wanted.
LEMMA InvStart == ReplicationInv /\ start => ReplicationInv'
  <1> SUFFICES ASSUME ReplicationInv, start PROVE ReplicationInv'
    OBVIOUS
  <1> USE DEF ReplicationInv
  <1>0. /\ consumed' \in Int /\ consumed' >= -1 /\ consumed' >= persisted'
        /\ StartOffset > 0 => consumed' >= 0
        /\ persisted' = stored /\ persisted' >= stored' /\ pos' = 0
        /\ StartOffset > 0 => consumed' = stored \/ consumed' < StartOffset
    BY ReplicationConstants DEF start, Larger, TypeOK
  <1>1. TypeOK'
    BY <1>0 DEF start, TypeOK, rangeVars, sinkVars
  <1>2. StartOffset > 0 => StoredIsComplete' /\ CompleteUpTo(persisted)'
    BY <1>0 DEF start, NothingLost, StoredIsComplete, CompleteUpTo, Wanted, sinkVars
  <1>3. StartOffset > 0 => NothingSkipped'
    <2> SUFFICES ASSUME StartOffset > 0, NEW s \in Sinks, NEW l \in Wanted(s),
                        l <= consumed'
                 PROVE  l \in durable'[s]
      BY DEF NothingSkipped, Wanted
    <2>1. l \in Int /\ l >= StartOffset
      BY ReplicationConstants DEF Wanted
    <2>2. l <= stored
      BY <1>0, <2>1, ReplicationConstants
    <2> QED
      BY <2>2 DEF NothingLost, StoredIsComplete, CompleteUpTo, start, sinkVars
  <1>4. ReaderInPlace' /\ SinksInPlace' /\ AnswersInPlace'
    BY LastSinkIsLast DEF start, ReaderInPlace, SinksInPlace, AnswersInPlace, Up, sinkVars
  <1> QED
    BY <1>0, <1>1, <1>2, <1>3, <1>4 DEF Up, NothingLost

\* The seek puts the reader right behind _consumedLogId.
LEMMA InvRun == ReplicationInv /\ run => ReplicationInv'
  <1> SUFFICES ASSUME ReplicationInv, run PROVE ReplicationInv'
    OBVIOUS
  <1> USE DEF ReplicationInv
  <1>0. Up /\ Up' /\ UNCHANGED <<stored, persisted, consumed, sinkVars>>
    BY DEF run, Up, sinkVars
  <1>a. /\ consumed \in Int /\ consumed >= -1 /\ pos \in Nat
        /\ SeekPos \in Nat /\ SeekPos > consumed
        /\ consumed >= 0 => SeekPos = consumed + 1
        /\ consumed < 0 => SeekPos = pos
    BY <1>0 DEF TypeOK, SeekPos
  <1>b. pos' \in {pos, SeekPos} /\ pc' # "write" /\ (pc' = "read" => pos' = SeekPos)
    BY DEF run
  <1>1. TypeOK'
    BY <1>0, <1>a, <1>b DEF run, TypeOK, RangeEnd, Fault, sinkVars, Up
  <1>2. NothingLost'
    BY <1>0 DEF NothingLost, StoredIsComplete, CompleteUpTo, NothingSkipped, Wanted, sinkVars, Up
  <1>3. ReaderInPlace'
    BY <1>0, <1>a, <1>b, ReplicationConstants DEF ReaderInPlace
  <1>4. SinksInPlace' /\ AnswersInPlace'
    BY <1>0, <1>a, <1>b, LastSinkIsLast DEF SinksInPlace, AnswersInPlace, Up, sinkVars
  <1> QED
    BY <1>0, <1>1, <1>2, <1>3, <1>4

\* The loop reads the first log after _consumedLogId; one that is ignored is
\* wanted by no sink.
LEMMA InvRead == ReplicationInv /\ read => ReplicationInv'
  <1> SUFFICES ASSUME ReplicationInv, read PROVE ReplicationInv'
    OBVIOUS
  <1> USE DEF ReplicationInv
  <1>0. Up /\ Up' /\ UNCHANGED <<visible, stored, persisted, end, sinkVars>>
    BY DEF read, Up, sinkVars
  <1>1. CASE pc' = "update" /\ UNCHANGED <<consumed, count, cur, todo>>
    <2>1. TypeOK'
      BY <1>0, <1>1, ReplicationConstants DEF read, TypeOK, NextLog, Fault, sinkVars
    <2>2. NothingLost'
      BY <1>0, <1>1 DEF NothingLost, StoredIsComplete, CompleteUpTo, NothingSkipped, Wanted,
         sinkVars, Up
    <2>a. pos \in Nat /\ pos' \in Nat /\ pos' >= pos
      BY <1>1, ReplicationConstants DEF read, NextLog, TypeOK
    <2>b. \A s \in Sinks : taken[s] \subseteq Nat
      BY ReplicationConstants, Zenon DEF TypeOK
    <2>3. ReaderInPlace' /\ SinksInPlace' /\ AnswersInPlace'
      BY <1>0, <1>1, <2>a, <2>b, LastSinkIsLast
         DEF ReaderInPlace, SinksInPlace, AnswersInPlace, Up, sinkVars
    <2> QED
      BY <1>0, <1>1, <2>1, <2>2, <2>3
  <1>2. ASSUME NEW l \in Logs, NextLog(l), pos' = l + 1, pc = "read", UNCHANGED faults,
               IF l \in Rewritten
               THEN /\ pc' = "write" /\ cur' = l /\ todo' = Sinks
                    /\ UNCHANGED <<consumed, count>>
               ELSE /\ consumed' = l /\ count' = count + 1
                    /\ UNCHANGED <<pc, cur, todo>>
        PROVE  ReplicationInv'
    <2>0. /\ l \in Nat /\ pos \in Nat /\ consumed \in Int /\ consumed < l /\ pos <= l
          /\ consumed >= 0 => \A k \in Logs : k \in Nat /\ (k > consumed => l <= k)
      BY <1>2, ReplicationConstants DEF TypeOK, NextLog, ReaderInPlace
    <2>1. TypeOK'
      BY <1>0, <1>2, <2>0, LastSinkIsLast DEF TypeOK, sinkVars
    <2>2. StartOffset > 0 => StoredIsComplete' /\ CompleteUpTo(persisted)'
      BY <1>0 DEF NothingLost, StoredIsComplete, CompleteUpTo, Wanted, sinkVars
    <2>3. StartOffset > 0 => NothingSkipped'
      <3> SUFFICES ASSUME StartOffset > 0, NEW s \in Sinks, NEW k \in Wanted(s),
                          k <= consumed'
                   PROVE  k \in taken[s] \cup durable[s]
        BY <1>0 DEF NothingSkipped, Wanted, sinkVars
      <3>a. consumed >= 0
        BY <1>0 DEF NothingLost
      <3>1. k \in Logs /\ k \in Rewritten /\ k \in Nat
        BY ReplicationConstants DEF Wanted
      <3>2. k <= consumed
        BY <1>2, <2>0, <3>a, <3>1
      <3> QED
        BY <1>0, <3>2 DEF NothingLost, NothingSkipped, Up
    <2>4. ReaderInPlace'
      <3>1. CASE l \in Rewritten
        BY <1>2, <2>0, <3>1, LastSinkIsLast DEF ReaderInPlace
      <3>2. CASE l \notin Rewritten
        BY <1>2, <2>0, <3>2, ReplicationConstants DEF ReaderInPlace
      <3> QED
        BY <3>1, <3>2
    <2>5. SinksInPlace'
      <3>1. consumed' >= consumed /\ consumed' \in Int /\ consumed' \in {consumed, l}
        BY <1>2, <2>0
      <3>2. \A s \in Sinks : taken[s] \subseteq Nat
        BY ReplicationConstants, Zenon DEF TypeOK
      <3>3. CASE consumed >= 0
        <4>1. consumed' >= 0 /\ ~ (consumed' < 0)
          BY <2>0, <3>1, <3>3
        <4>2. \A s \in Sinks : \A x \in taken[s], k \in Logs : k > consumed' => x <= k
          BY <1>0, <2>0, <3>1, <3>2, <3>3 DEF SinksInPlace, Up
        <4>3. \A x \in taken[LastSink] : x <= consumed'
          BY <1>0, <2>0, <3>1, <3>2, LastSinkIsLast DEF SinksInPlace, Up
        <4> QED
          BY <1>0, <4>1, <4>2, <4>3, Zenon DEF SinksInPlace, sinkVars
      <3>4. CASE consumed < 0
        <4>1. \A s \in Sinks : \A x \in taken[s] : x \in Nat /\ x < pos
          BY <1>0, <3>2, <3>4 DEF SinksInPlace, Up
        <4>2. \A s \in Sinks : \A x \in taken[s] : x < l + 1
          BY <2>0, <4>1
        <4>3. consumed' >= 0 =>
                 \A s \in Sinks : \A x \in taken[s], k \in Logs : k > consumed' => x <= k
          BY <2>0, <3>1, <3>4, <4>1, ReplicationConstants
        <4>4. \A x \in taken[LastSink] : x <= consumed'
          BY <1>0, <2>0, <3>1, <3>2, LastSinkIsLast DEF SinksInPlace, Up
        <4> QED
          BY <1>0, <1>2, <4>2, <4>3, <4>4, Zenon DEF SinksInPlace, sinkVars
      <3> QED
        BY <2>0, <3>3, <3>4
    <2>6. AnswersInPlace'
      BY <1>0 DEF AnswersInPlace, sinkVars
    <2>7. /\ consumed' >= -1 /\ consumed' >= persisted'
          /\ StartOffset > 0 => consumed' >= 0
      BY <1>0, <1>2, <2>0 DEF TypeOK, NothingLost
    <2>8. NothingLost'
      BY <2>2, <2>3, <2>7, Zenon DEF NothingLost
    <2> QED
      BY <1>0, <2>1, <2>4, <2>5, <2>6, <2>7, <2>8
  <1> QED
    BY <1>1, <1>2 DEF read

\* What the sinks have taken is not after the log that is being written.
LEMMA TakenUpToCur ==
  ReplicationInv /\ pc = "write" => \A t \in Sinks : \A l \in taken[t] : l \in Nat /\ l <= cur
  <1> SUFFICES ASSUME ReplicationInv, pc = "write"
               PROVE  \A t \in Sinks : \A l \in taken[t] : l \in Nat /\ l <= cur
    OBVIOUS
  <1> USE DEF ReplicationInv
  <1>1. /\ Up /\ cur \in Logs /\ cur \in Nat /\ consumed \in Int /\ cur > consumed
        /\ pos = cur + 1
        /\ consumed >= 0 => \A k \in Logs : k > consumed => cur <= k
    BY ReplicationConstants DEF ReaderInPlace, TypeOK, Up
  <1>2. \A t \in Sinks : taken[t] \subseteq Nat /\ taken[t] \subseteq Logs
    BY ReplicationConstants, Zenon DEF TypeOK
  <1>3. CASE consumed >= 0
    BY <1>1, <1>2, <1>3 DEF SinksInPlace
  <1>4. CASE consumed < 0
    BY <1>1, <1>2, <1>4 DEF SinksInPlace
  <1> QED
    BY <1>1, <1>3, <1>4

\* A log is taken by the sinks in their order; when the last one is done it
\* is in the hands of all, and it is the first log after _consumedLogId.
LEMMA InvReplicateLog == ReplicationInv /\ replicateLog => ReplicationInv'
  <1> SUFFICES ASSUME ReplicationInv, replicateLog PROVE ReplicationInv'
    OBVIOUS
  <1> USE DEF ReplicationInv
  <1>0. /\ Up /\ pc = "write"
        /\ UNCHANGED <<visible, stored, persisted, pos, end, cur, durable, acked>>
    BY DEF replicateLog, Up
  <1>1. /\ cur \in Logs /\ cur \in Nat /\ consumed \in Int /\ cur > consumed
        /\ pos = cur + 1
        /\ \A k \in Logs : k \in Nat
        /\ consumed >= 0 => \A k \in Logs : k > consumed => cur <= k
    BY <1>0, ReplicationConstants DEF ReaderInPlace, TypeOK
  <1>2. StartOffset > 0 => StoredIsComplete' /\ CompleteUpTo(persisted)' /\ consumed >= 0
    BY <1>0 DEF NothingLost, StoredIsComplete, CompleteUpTo, Wanted, Up
  <1>a. \A t \in Sinks : \A l \in taken[t] : l \in Nat /\ l <= cur
    BY <1>0, TakenUpToCur, Zenon
  <1>3. CASE writeFails
    <2>0. pc' = "update" /\ todo' = {} /\ UNCHANGED <<consumed, count, taken>>
          /\ faults' \in Nat
      BY <1>3 DEF writeFails, Fault, TypeOK
    <2>1. TypeOK'
      BY <1>0, <2>0 DEF TypeOK
    <2>2. ReaderInPlace' /\ SinksInPlace' /\ AnswersInPlace'
      BY <1>0, <2>0, LastSinkIsLast
         DEF ReaderInPlace, SinksInPlace, AnswersInPlace, Up
    <2>3. NothingLost'
      BY <1>0, <1>2, <2>0 DEF NothingLost, NothingSkipped, Wanted, Up
    <2> QED
      BY <1>0, <2>0, <2>1, <2>2, <2>3 DEF Up
  <1>4. ASSUME NEW s \in todo, \A t \in todo : s <= t, writeDone(s)
        PROVE  ReplicationInv'
    <2>0. /\ s \in Sinks /\ s \in Nat /\ LastSink \in todo
          /\ todo' = todo \ {s} /\ UNCHANGED faults
          /\ taken' = [taken EXCEPT ![s] = IF cur \in HasFields[s] THEN @ \cup {cur} ELSE @]
      BY <1>0, <1>4, ReplicationConstants DEF TypeOK, ReaderInPlace, writeDone
    <2>1. IF todo = {s} THEN pc' = "read" /\ consumed' = cur /\ count' = count + 1
                        ELSE UNCHANGED <<pc, consumed, count>>
      BY <1>4 DEF writeDone
    <2>2. s = LastSink => todo = {s}
      <3> SUFFICES ASSUME s = LastSink, NEW t \in todo PROVE t = s
        BY <2>0, Zenon
      <3>1. t \in Sinks /\ t \in Nat /\ s <= t /\ t <= s
        BY <1>4, LastSinkIsLast, ReplicationConstants DEF TypeOK
      <3> QED
        BY <2>0, <3>1
    <2>3. /\ \A t \in Sinks : taken[t] \subseteq Nat
          /\ \A t \in Sinks : taken'[t] = taken[t] \/ taken'[t] = taken[t] \cup {cur}
          /\ \A t \in Sinks : t # s => taken'[t] = taken[t]
          /\ \A t \in Sinks : taken[t] \subseteq taken'[t]
          /\ cur \in HasFields[s] => cur \in taken'[s]
      BY <2>0, ReplicationConstants, Zenon DEF TypeOK
    <2>4. consumed' \in Int /\ consumed' >= consumed /\ consumed' <= cur
      BY <1>1, <2>1
    <2>5. TypeOK'
      <3>1. taken' \in [Sinks -> SUBSET Logs]
        BY <1>1, <2>0 DEF TypeOK
      <3>2. todo' \subseteq Sinks /\ (todo' = {} => todo = {s})
        BY <2>0, Zenon DEF TypeOK
      <3>3. count' \in Nat /\ pc' \in {"read", "write"} /\ (pc' = "write" => todo # {s})
        BY <1>0, <2>1 DEF TypeOK
      <3> QED
        BY <1>0, <1>1, <2>0, <2>4, <3>1, <3>2, <3>3 DEF TypeOK
    <2>6. StartOffset > 0 => NothingSkipped'
      <3> SUFFICES ASSUME StartOffset > 0, NEW t \in Sinks, NEW k \in Wanted(t),
                          k <= consumed'
                   PROVE  k \in taken'[t] \cup durable[t]
        BY <1>0 DEF NothingSkipped, Wanted
      <3>1. k \in Logs /\ k \in Nat /\ k \in HasFields[t]
        BY ReplicationConstants DEF Wanted
      <3>2. CASE k <= consumed
        BY <1>0, <2>3, <3>2 DEF NothingLost, NothingSkipped, Up
      <3>3. CASE k > consumed
        <4>1. k = cur /\ todo = {s}
          BY <1>1, <1>2, <2>1, <2>4, <3>1, <3>3
        <4>2. CASE t = s
          BY <2>3, <3>1, <4>1, <4>2
        <4>3. CASE t # s
          BY <1>0, <2>3, <3>1, <4>1, <4>3 DEF ReaderInPlace
        <4> QED
          BY <4>2, <4>3
      <3> QED
        BY <1>1, <3>1, <3>2, <3>3
    <2>7. ReaderInPlace'
      <3>1. CASE todo = {s}
        <4>1. pc' = "read" /\ consumed' = cur /\ pos' = cur + 1
          BY <1>0, <2>1, <3>1 DEF ReaderInPlace
        <4> QED
          BY <1>1, <4>1 DEF ReaderInPlace
      <3>2. CASE todo # {s}
        <4>1. UNCHANGED <<pc, consumed, count>> /\ s # LastSink
          BY <2>1, <2>2, <3>2
        <4>2. \A t \in Sinks \ todo' : cur \in HasFields[t] => cur \in taken'[t]
          BY <1>0, <2>0, <2>3 DEF ReaderInPlace
        <4> QED
          BY <1>0, <2>0, <4>1, <4>2 DEF ReaderInPlace
      <3> QED
        BY <3>1, <3>2
    <2>8. SinksInPlace'
      <3>1. Up'
        BY <1>0, <2>1 DEF Up
      <3>a. \A t \in Sinks : \A l \in taken'[t] : l \in Nat /\ l <= cur
        BY <1>1, <1>a, <2>3
      <3>b. consumed' = cur \/ consumed' = consumed
        BY <2>1
      <3>2. consumed' >= 0 =>
               \A t \in Sinks : \A l \in taken'[t], k \in Logs : k > consumed' => l <= k
        BY <1>1, <2>4, <3>a, <3>b
      <3>c. consumed' < 0 => \A t \in Sinks : \A l \in taken'[t] : l < pos'
        BY <1>0, <1>1, <3>a
      <3>3. \A l \in taken'[LastSink] : l <= consumed'
        <4>1. CASE s = LastSink
          <5>1. consumed' = cur
            BY <2>1, <2>2, <4>1
          <5> QED
            BY <1>0, <1>1, <2>3, <2>4, <5>1, LastSinkIsLast DEF SinksInPlace
        <4>2. CASE s # LastSink
          BY <1>0, <1>1, <2>3, <2>4, <4>2, LastSinkIsLast DEF SinksInPlace
        <4> QED
          BY <4>1, <4>2
      <3> QED
        BY <3>1, <3>2, <3>c, <3>3 DEF SinksInPlace
    <2>9. AnswersInPlace'
      <3> SUFFICES ASSUME NEW t \in Sinks
                   PROVE  /\ acked[t] = -1 \/ \E l \in taken'[t] : acked[t] <= l
                          /\ \A l \in taken'[t] : l <= acked[t] => l \in durable[t]
        BY <1>0 DEF AnswersInPlace
      <3>1. acked[t] = -1 \/ \E l \in taken'[t] : acked[t] <= l
        BY <2>3 DEF AnswersInPlace
      <3>2. ASSUME cur <= acked[t], cur \notin taken[t] PROVE FALSE
        <4>1. PICK l \in taken[t] : acked[t] <= l
          BY <1>1, <3>2 DEF AnswersInPlace, TypeOK
        <4>2. l <= cur /\ l \in Nat /\ acked[t] \in Int
          BY <1>a DEF TypeOK
        <4>3. l = cur
          BY <1>1, <3>2, <4>1, <4>2
        <4> QED
          BY <3>2, <4>1, <4>3
      <3> QED
        BY <2>3, <3>1, <3>2 DEF AnswersInPlace
    <2>10. /\ consumed' >= -1 /\ consumed' >= persisted' /\ persisted' >= stored'
           /\ consumed >= 0 => consumed' >= 0
      BY <1>0, <1>1, <2>4 DEF TypeOK
    <2>11. NothingLost'
      BY <1>2, <2>6, <2>10, Zenon DEF NothingLost
    <2> QED
      BY <2>5, <2>7, <2>8, <2>9, <2>10, <2>11, Zenon
  <1> QED
    BY <1>3, <1>4 DEF replicateLog

\* The least answer covers only logs that are consumed, because of the last
\* sink, and these are safe in every sink, because each answer covers them.
LEMMA InvUpdateCheckpoint == ReplicationInv /\ updateCheckpoint => ReplicationInv'
  <1> SUFFICES ASSUME ReplicationInv, updateCheckpoint PROVE ReplicationInv'
    OBVIOUS
  <1> USE DEF ReplicationInv
  <1>0. /\ Up /\ Up' /\ pc' = "save"
        /\ UNCHANGED <<visible, stored, consumed, pos, rangeVars, sinkVars, faults>>
    BY DEF updateCheckpoint, Up
  <1>1. PICK s \in Sinks : /\ \A t \in Sinks : acked[s] <= acked[t]
                           /\ updatePersistedLogId(acked[s])
    BY DEF updateCheckpoint
  <1>2. acked[s] \in Int /\ acked[s] <= consumed
    <2>1. acked[s] <= acked[LastSink] /\ acked[s] \in Int /\ acked[LastSink] \in Int
      BY <1>1, LastSinkIsLast DEF TypeOK
    <2>2. acked[LastSink] <= consumed
      <3>1. CASE acked[LastSink] = -1
        BY <1>0, <3>1 DEF TypeOK
      <3>2. CASE acked[LastSink] # -1
        <4>1. PICK l \in taken[LastSink] : acked[LastSink] <= l
          BY <3>2, LastSinkIsLast DEF AnswersInPlace
        <4>2. l <= consumed /\ l \in Int
          BY <1>0, LastSinkIsLast, ReplicationConstants DEF SinksInPlace, TypeOK
        <4> QED
          BY <2>1, <4>1, <4>2 DEF TypeOK
      <3> QED
        BY <3>1, <3>2
    <2> QED
      BY <2>1, <2>2 DEF TypeOK
  <1>3. persisted' = persisted \/ persisted' = acked[s]
    BY <1>1 DEF updatePersistedLogId, Larger
  <1>4. StartOffset > 0 => CompleteUpTo(acked[s])
    <2> SUFFICES ASSUME StartOffset > 0, NEW t \in Sinks, NEW l \in Wanted(t),
                        l <= acked[s]
                 PROVE  l \in durable[t]
      BY DEF CompleteUpTo
    <2>1. l \in Int /\ acked[t] \in Int /\ acked[s] <= acked[t]
      BY <1>1, ReplicationConstants DEF Wanted, TypeOK
    <2>2. l \in taken[t] \cup durable[t]
      BY <1>0, <1>2, <2>1 DEF NothingLost, NothingSkipped, Up, TypeOK
    <2> QED
      BY <1>2, <2>1, <2>2 DEF AnswersInPlace
  <1>5. TypeOK'
    BY <1>0, <1>2, <1>3 DEF TypeOK, rangeVars, sinkVars
  <1>6. NothingLost'
    BY <1>0, <1>3, <1>4
       DEF NothingLost, StoredIsComplete, CompleteUpTo, NothingSkipped, Wanted, Up, sinkVars
  <1>7. ReaderInPlace' /\ SinksInPlace' /\ AnswersInPlace'
    BY <1>0, LastSinkIsLast DEF ReaderInPlace, SinksInPlace, AnswersInPlace, Up, sinkVars
  <1>8. consumed' >= -1 /\ consumed' >= persisted' /\ persisted' >= stored'
    BY <1>0, <1>1, <1>2 DEF updatePersistedLogId, Larger, TypeOK
  <1> QED
    BY <1>5, <1>6, <1>7, <1>8

\* Saving, and not saving.
LEMMA InvSave == ReplicationInv /\ (saveCheckpoint \/ skipSave) => ReplicationInv'
  <1> SUFFICES ASSUME ReplicationInv, saveCheckpoint \/ skipSave PROVE ReplicationInv'
    OBVIOUS
  <1> USE DEF ReplicationInv
  <1>0. /\ Up /\ Up' /\ pc' = "run" /\ stored' \in {stored, persisted}
        /\ UNCHANGED <<visible, persisted, consumed, pos, rangeVars, sinkVars, faults>>
    BY DEF saveCheckpoint, skipSave, Up
  <1>1. TypeOK'
    BY <1>0 DEF TypeOK, rangeVars, sinkVars
  <1>2. NothingLost'
    BY <1>0 DEF NothingLost, StoredIsComplete, CompleteUpTo, NothingSkipped, Wanted, Up, sinkVars
  <1>3. ReaderInPlace' /\ SinksInPlace' /\ AnswersInPlace'
    BY <1>0, LastSinkIsLast DEF ReaderInPlace, SinksInPlace, AnswersInPlace, Up, sinkVars
  <1>4. persisted' >= stored'
    BY <1>0 DEF TypeOK
  <1> QED
    BY <1>0, <1>1, <1>2, <1>3, <1>4

\* A crash loses what the sinks hold; what is stored stays safe.
LEMMA InvCrash == ReplicationInv /\ crash => ReplicationInv'
  <1> SUFFICES ASSUME ReplicationInv, crash PROVE ReplicationInv'
    OBVIOUS
  <1> USE DEF ReplicationInv
  <1>1. TypeOK'
    BY DEF crash, Fault, TypeOK, rangeVars
  <1>2. NothingLost'
    BY DEF crash, NothingLost, StoredIsComplete, CompleteUpTo, NothingSkipped, Wanted, Up
  <1>3. ReaderInPlace' /\ SinksInPlace'
    BY DEF crash, ReaderInPlace, SinksInPlace, Up
  <1>4. AnswersInPlace'
    BY DEF crash, AnswersInPlace
  <1> QED
    BY <1>1, <1>2, <1>3, <1>4 DEF crash, Up

\* The index and the sinks on their own: more is visible, more is safe, an
\* answer changes.
LEMMA InvOthers ==
  ASSUME ReplicationInv, Build \/ \E s \in Sinks : MakeSafe(s) \/ Acknowledge(s)
  PROVE  ReplicationInv'
  <1> USE DEF ReplicationInv
  <1>1. CASE Build
    <2>1. TypeOK'
      BY <1>1, ReplicationConstants DEF Build, TypeOK, rangeVars, sinkVars
    <2> QED
      BY <1>1, <2>1, LastSinkIsLast
         DEF Build, NothingLost, StoredIsComplete, CompleteUpTo, NothingSkipped, Wanted, ReaderInPlace,
             SinksInPlace, AnswersInPlace, Up, rangeVars, sinkVars
  <1>2. ASSUME NEW s \in Sinks, MakeSafe(s) PROVE ReplicationInv'
    <2>0. /\ UNCHANGED <<pipelineVars, taken, acked>>
          /\ durable' \in [Sinks -> SUBSET Logs]
          /\ \A t \in Sinks : durable[t] \subseteq durable'[t]
      BY <1>2 DEF MakeSafe, TypeOK
    <2>1. TypeOK'
      BY <2>0 DEF TypeOK, pipelineVars, rangeVars
    <2>2. NothingLost'
      BY <2>0 DEF NothingLost, StoredIsComplete, CompleteUpTo, NothingSkipped, Wanted,
         pipelineVars, Up
    <2>3. ReaderInPlace' /\ SinksInPlace' /\ AnswersInPlace'
      BY <2>0, LastSinkIsLast
         DEF ReaderInPlace, SinksInPlace, AnswersInPlace, Up, pipelineVars, rangeVars
    <2> QED
      BY <2>0, <2>1, <2>2, <2>3 DEF Up, pipelineVars
  <1>3. ASSUME NEW s \in Sinks, Acknowledge(s) PROVE ReplicationInv'
    <2>0. UNCHANGED <<pipelineVars, taken, durable>>
      BY <1>3 DEF Acknowledge
    <2>1. PICK l \in taken[s] : \E c \in {l - 1, l} :
             /\ \A k \in taken[s] : k <= c => k \in durable[s]
             /\ acked' = [acked EXCEPT ![s] = c]
      BY <1>3, Zenon DEF Acknowledge
    <2>2. PICK c \in {l - 1, l} :
             /\ \A k \in taken[s] : k <= c => k \in durable[s]
             /\ acked' = [acked EXCEPT ![s] = c]
      BY <2>1, Zenon
    <2>3. l \in Nat /\ c \in Int /\ c <= l
      BY <2>2, ReplicationConstants DEF TypeOK
    <2>4. TypeOK'
      BY <2>0, <2>2, <2>3 DEF TypeOK, pipelineVars, rangeVars
    <2>5. AnswersInPlace'
      BY <2>0, <2>2, <2>3, Zenon DEF AnswersInPlace, TypeOK
    <2>6. NothingLost' /\ ReaderInPlace' /\ SinksInPlace'
      BY <2>0, LastSinkIsLast
         DEF NothingLost, StoredIsComplete, CompleteUpTo, NothingSkipped, Wanted, ReaderInPlace,
             SinksInPlace, Up, pipelineVars, rangeVars
    <2> QED
      BY <2>0, <2>4, <2>5, <2>6 DEF Up, pipelineVars
  <1> QED
    BY <1>1, <1>2, <1>3

\* Every step keeps the invariant.
LEMMA InvNext == ReplicationInv /\ [Next]_vars => ReplicationInv'
  <1> SUFFICES ASSUME ReplicationInv, [Next]_vars PROVE ReplicationInv'
    OBVIOUS
  <1>1. CASE UNCHANGED vars
    BY <1>1 DEF vars, rangeVars, sinkVars, ReplicationInv, TypeOK, NothingLost,
       StoredIsComplete, CompleteUpTo, NothingSkipped, Wanted, ReaderInPlace, SinksInPlace, AnswersInPlace, Up
  <1>2. CASE Pipeline
    BY <1>2, InvStart, InvRun, InvRead, InvReplicateLog, InvUpdateCheckpoint, InvSave
       DEF Pipeline
  <1>3. CASE crash
    BY <1>3, InvCrash
  <1>4. CASE Build \/ \E s \in Sinks : MakeSafe(s) \/ Acknowledge(s)
    BY <1>4, InvOthers
  <1> QED
    BY <1>1, <1>2, <1>3, <1>4 DEF Next

\* The invariant always holds.
THEOREM ReplicationInvariant == Spec => []ReplicationInv
  <1>1. Init => ReplicationInv
    BY InvInit
  <1>2. ReplicationInv /\ [Next]_vars => ReplicationInv'
    BY InvNext
  <1> QED
    BY <1>1, <1>2, PTL DEF Spec

\* A checkpoint in the worker state is complete: every log up to it is safe
\* in every sink that has to have it.  The start offset is positive.
THEOREM StoredCheckpointIsComplete ==
  ASSUME StartOffset > 0 PROVE Spec => []StoredIsComplete
  <1>1. ReplicationInv => StoredIsComplete
    BY DEF ReplicationInv, NothingLost
  <1> QED
    BY <1>1, ReplicationInvariant, PTL

\* replicateLogRange passes over no log when the start offset is positive.
THEOREM NoLogIsSkipped ==
  ASSUME StartOffset > 0 PROVE Spec => []NothingSkipped
  <1>1. ReplicationInv => NothingSkipped
    BY DEF ReplicationInv, NothingLost
  <1> QED
    BY <1>1, ReplicationInvariant, PTL

\* _consumedLogId >= _persistedLogId, as LogReplicationPipeline.h says.
THEOREM ConsumedIsNotBehind == Spec => []ConsumedCoversPersisted
  <1>1. ReplicationInv => ConsumedCoversPersisted
    BY DEF ReplicationInv, ConsumedCoversPersisted, Up
  <1> QED
    BY <1>1, ReplicationInvariant, PTL

\* The checkpoint in the worker state never goes back, though the answers of
\* the sinks may, and a new worker starts from what it finds there.
THEOREM StoredIsMonotone == Spec => StoredNeverGoesBack
  <1>1. ReplicationInv /\ [Next]_vars => [stored' >= stored]_stored
    <2> SUFFICES ASSUME ReplicationInv, Next PROVE stored' = stored \/ stored' >= stored
      BY DEF vars
    <2>1. CASE saveCheckpoint
      BY <2>1 DEF saveCheckpoint, ReplicationInv, Up
    <2>2. CASE ~saveCheckpoint
      BY <2>2 DEF Next, Pipeline, start, run, read, replicateLog, updateCheckpoint, skipSave,
         crash, Build, MakeSafe, Acknowledge, pipelineVars
    <2> QED
      BY <2>1, <2>2
  <1> QED
    BY <1>1, ReplicationInvariant, PTL DEF Spec, StoredNeverGoesBack

\* Each sink, as the pipeline uses it, is a behaviour of Sink: replicateLog
\* hands it the logs in order, also when it writes one of them again.
THEOREM SinksImplementSink == Spec => SinksKeepContract
  <1> DEFINE Moves == \A s \in Sinks :
               [TheSink(s)!SinkNext]_<<taken[s], durable[s], acked[s]>>
  <1>1. Init => \A s \in Sinks : TheSink(s)!SinkInit
    BY DEF Init, TheSink!SinkInit
  <1>2. ReplicationInv /\ [Next]_vars => [Moves]_sinkVars
    <2> SUFFICES ASSUME ReplicationInv, Next, ~UNCHANGED sinkVars, NEW t \in Sinks
                 PROVE  \/ TheSink(t)!SinkNext
                        \/ UNCHANGED <<taken[t], durable[t], acked[t]>>
      BY DEF vars, sinkVars
    <2> USE DEF ReplicationInv
    <2>1. CASE replicateLog
      <3>0. pc = "write" /\ UNCHANGED <<durable, acked>>
        BY <2>1 DEF replicateLog
      <3>1. PICK s \in todo : writeDone(s)
        BY <2>1 DEF replicateLog, writeFails, sinkVars
      <3>2. /\ s \in Sinks /\ UNCHANGED <<durable[t], acked[t]>>
            /\ taken' = [taken EXCEPT ![s] = IF cur \in HasFields[s] THEN @ \cup {cur} ELSE @]
        BY <3>0, <3>1 DEF TypeOK, writeDone
      <3>3. CASE taken'[t] = taken[t]
        BY <3>2, <3>3
      <3>4. CASE taken'[t] # taken[t]
        <4>1. taken'[t] = taken[t] \cup {cur}
          BY <3>2, <3>4 DEF TypeOK
        <4>2. \A k \in taken[t] : k <= cur
          BY <3>0, TakenUpToCur, Zenon
        <4> QED
          BY <3>2, <4>1, <4>2 DEF TheSink!SinkNext, TheSink!TakeLog, TheSink!Covers
      <3> QED
        BY <3>3, <3>4
    <2>2. CASE crash
      BY <2>2 DEF crash, TheSink!SinkNext, TheSink!Remake
    <2>3. ASSUME NEW s \in Sinks, MakeSafe(s)
          PROVE  \/ TheSink(t)!SinkNext
                 \/ UNCHANGED <<taken[t], durable[t], acked[t]>>
      <3>1. /\ UNCHANGED <<taken[t], acked[t]>> /\ durable[t] \subseteq durable'[t]
            /\ durable'[t] \subseteq durable[t] \cup taken[t]
        BY <2>3 DEF MakeSafe, TypeOK
      <3> QED
        BY <3>1 DEF TheSink!SinkNext, TheSink!MakeSafe
    <2>4. ASSUME NEW s \in Sinks, Acknowledge(s)
          PROVE  \/ TheSink(t)!SinkNext
                 \/ UNCHANGED <<taken[t], durable[t], acked[t]>>
      <3>0. UNCHANGED <<taken[t], durable[t]>>
        BY <2>4 DEF Acknowledge
      <3>1. PICK l \in taken[s] : \E c \in {l - 1, l} :
               /\ \A k \in taken[s] : k <= c => k \in durable[s]
               /\ acked' = [acked EXCEPT ![s] = c]
        BY <2>4, Zenon DEF Acknowledge
      <3>2. PICK c \in {l - 1, l} :
               /\ \A k \in taken[s] : k <= c => k \in durable[s]
               /\ acked' = [acked EXCEPT ![s] = c]
        BY <3>1, Zenon
      <3>3. CASE t # s
        BY <3>0, <3>2, <3>3 DEF TypeOK
      <3>4. CASE t = s
        <4>1. acked'[t] = c /\ l \in taken[t] /\ c <= l
          BY <3>2, <3>4, ReplicationConstants DEF TypeOK
        <4> QED
          BY <3>0, <3>2, <3>4, <4>1
             DEF TheSink!SinkNext, TheSink!Acknowledge, TheSink!Covers
      <3> QED
        BY <3>3, <3>4
    <2> QED
      BY <2>1, <2>2, <2>3, <2>4
         DEF Next, Pipeline, start, run, read, updateCheckpoint, saveCheckpoint, skipSave, Build
  <1> QED
    BY <1>1, <1>2, ReplicationInvariant, PTL DEF Spec, SinksKeepContract
=============================================================================
