-------------------------- MODULE MessageBrainProofs --------------------------
(***************************************************************************)
(* Proofs about the storage of a partition (MessageBrain), for every value *)
(* of its constants: the state stays of its type, no message is recycled   *)
(* before it is committed, the committed index agrees with the committed   *)
(* id, and what the committer calls committed is on dfs and stays there.   *)
(***************************************************************************)
EXTENDS MessageBrain, TLAPS

-----------------------------------------------------------------------------
(***************************************************************************)
(* The inductive invariant, in parts                                       *)
(***************************************************************************)
\* File pairs whose msgs is some function to messages.
SomeMsgs == UNION {[S -> Msg] : S \in SUBSET Int}

FilePairs == [begin : Nat, ts : Int, onDfs : BOOLEAN, tail : Nat, end : Nat,
              msgs : SomeMsgs]

NumbersOK ==
    /\ phase \in {"down", "running", "stopping"}
    /\ session \in Nat /\ now \in Nat /\ accepted \in Nat /\ lastTs \in Int /\ fails \in Nat
    /\ first \in Nat /\ last \in Int
    /\ committedIndex \in Nat /\ lastCommittedId \in Int
    /\ cpc \in {"idle", "write", "publish"}
    /\ target \in Int /\ committedId \in Int /\ writedId \in Int
    /\ outFile \in {"open", "closed"}

MessagesOK ==
    /\ mem \in [first..last -> Msg]
    /\ buf \in [(committedId + 1)..writedId -> Msg]

FilesOK ==
    /\ files \in Seq(FilePairs)
    /\ \A i \in 1..Len(files) : files[i].msgs \in [files[i].begin..(files[i].tail - 1) -> Msg]

\* How the ids of the queue and of the committer lie.
Ids ==
    /\ lastCommittedId >= -1 /\ lastCommittedId <= committedId
    /\ committedId <= writedId
    /\ phase # "down" =>
          /\ writedId <= last /\ target <= last
          /\ first <= lastCommittedId + 1
          /\ first > last => first = 0 /\ last = -1
    /\ phase = "down" =>
          /\ first = 0 /\ last = -1 /\ lastCommittedId = -1
          /\ cpc = "idle" /\ target = -1
    /\ phase = "down" => outFile = "closed"
    /\ outFile = "closed" => writedId = committedId

\* How the files lie: the committer writes the last pair, only that one may
\* be empty, and it begins and ends around the committed id.
Files ==
    /\ outFile = "open" => files # <<>> /\ LastFile.onDfs
    /\ files # <<>> => LastFile.begin <= committedId + 1 /\ committedId + 1 <= LastFile.tail
    /\ \A i \in 1..Len(files) :
          /\ files[i].begin <= files[i].tail
          /\ files[i].begin < files[i].tail => files[i].onDfs
          /\ i < Len(files) => files[i].begin < files[i].tail

\* Pairs leave the list, not dfs, only while the reserved ones stay listed; a
\* load lists all pairs again.
ObsoleteOK ==
    /\ obsolete \in Nat
    /\ obsolete = 0 \/ obsolete <= Len(files) - ReservedFileCount
    /\ phase = "down" => obsolete = 0

IInv ==
    /\ NumbersOK /\ MessagesOK /\ FilesOK /\ Ids /\ Files /\ ObsoleteOK
    /\ CommittedIndexAgrees

-----------------------------------------------------------------------------
(***************************************************************************)
(* Lemmas about the operators                                              *)
(***************************************************************************)
\* The empty function is a function on every empty interval.
LEMMA EmptyFunction ==
    ASSUME NEW a \in Int, NEW b \in Int, a > b
    PROVE  NoMsgs \in [a..b -> Msg]
<1>1. a..b = {}
    BY SMT
<1> QED
    BY <1>1, Zenon DEF NoMsgs

\* Extend gives a function on the interval, when f and g have its ids.
LEMMA ExtendType ==
    ASSUME NEW a \in Int, NEW b \in Int, NEW f, NEW g,
           \A i \in a..b : IF i \in DOMAIN f THEN f[i] \in Msg ELSE g[i] \in Msg
    PROVE  Extend(f, g, a, b) \in [a..b -> Msg]
    BY Zenon DEF Extend

\* The fields of a file pair.
LEMMA FileFields ==
    ASSUME FilesOK, NEW i \in 1..Len(files)
    PROVE  /\ files[i] \in FilePairs
           /\ files[i].begin \in Nat /\ files[i].ts \in Int /\ files[i].onDfs \in BOOLEAN
           /\ files[i].tail \in Nat /\ files[i].end \in Nat /\ files[i].msgs \in SomeMsgs
           /\ files[i].msgs \in [files[i].begin..(files[i].tail - 1) -> Msg]
<1>1. files[i] \in FilePairs
    BY DEF FilesOK
<1> QED
    BY <1>1, Zenon DEF FilePairs, FilesOK

\* What Flushed(k) makes of the last pair.
LEMMA FlushedType ==
    ASSUME NumbersOK, MessagesOK, FilesOK, Ids, Files, files # <<>>,
           NEW k \in Nat, k <= writedId - committedId
    PROVE  /\ Flushed(k) \in FilePairs
           /\ Flushed(k).msgs \in [LastFile.begin..(committedId + k) -> Msg]
           /\ Flushed(k).tail = committedId + 1 + k
           /\ Flushed(k).begin = LastFile.begin
           /\ Flushed(k).onDfs = LastFile.onDfs
           /\ Flushed(k).end = LastFile.end
<1>1. LastFile \in FilePairs /\ Len(files) \in 1..Len(files)
    BY DEF FilesOK, LastFile
<1>2. LastFile.msgs \in [LastFile.begin..(LastFile.tail - 1) -> Msg]
    BY <1>1, Zenon DEF FilesOK, LastFile
<1> DEFINE E == Extend(LastFile.msgs, buf, LastFile.begin, committedId + k)
<1>3. E \in [LastFile.begin..(committedId + k) -> Msg]
  <2>1. LastFile.begin \in Int /\ LastFile.tail \in Int /\ committedId + k \in Int
      BY <1>1 DEF FilePairs, NumbersOK
  <2>2. ASSUME NEW i \in LastFile.begin..(committedId + k)
        PROVE  IF i \in DOMAIN LastFile.msgs THEN LastFile.msgs[i] \in Msg ELSE buf[i] \in Msg
    <3>1. CASE i < LastFile.tail
        BY <1>2, <2>1, <3>1
    <3>2. CASE i >= LastFile.tail
        BY <1>2, <2>1, <3>2 DEF NumbersOK, MessagesOK, Files
    <3> QED
        BY <2>1, <3>1, <3>2
  <2> QED
      BY <2>1, <2>2, ExtendType, Zenon
<1>4. E \in SomeMsgs
  <2>1. LastFile.begin..(committedId + k) \in SUBSET Int
      BY <1>1 DEF FilePairs, NumbersOK
  <2> QED
      BY <1>3, <2>1, Zenon DEF SomeMsgs
<1>5. committedId + 1 + k \in Nat
    BY DEF NumbersOK, Ids
<1>6. Flushed(k) = [LastFile EXCEPT !.tail = committedId + 1 + k, !.msgs = E]
    BY Zenon DEF Flushed
<1> HIDE DEF E
<1> QED
    BY <1>1, <1>3, <1>4, <1>5, <1>6, Zenon DEF FilePairs

\* The pairs a load keeps: all of them, or all but an empty last one.
LEMMA KeptPairs ==
    ASSUME FilesOK, Files
    PROVE  /\ Kept \in 0..Len(files)
           /\ Kept # 0 => files[Kept].begin < files[Kept].tail /\ files[Kept].onDfs
           /\ Kept = Len(files) \/ Kept = Len(files) - 1
           /\ Kept < Len(files) => LastFile.begin = LastFile.tail
<1> DEFINE Empty(i) == files[i].tail = files[i].begin \/ ~files[i].onDfs
           Full(i) == files[i].tail > files[i].begin /\ files[i].onDfs
           IsKept(i) == Full(i) /\ \A j \in (i + 1)..Len(files) : Empty(j)
<1>1. Len(files) \in Nat
    BY DEF FilesOK
<1>2. ASSUME NEW i \in 1..Len(files)
      PROVE  /\ files[i].begin \in Nat /\ files[i].tail \in Nat /\ files[i].onDfs \in BOOLEAN
             /\ files[i].begin <= files[i].tail
             /\ files[i].begin < files[i].tail => files[i].onDfs
             /\ i < Len(files) => files[i].begin < files[i].tail
    BY FileFields, Zenon DEF Files
<1>3. Kept = IF \A i \in 1..Len(files) : Empty(i) THEN 0
             ELSE CHOOSE i \in 1..Len(files) : IsKept(i)
    BY Zenon DEF Kept
<1>4. CASE \A i \in 1..Len(files) : Empty(i)
  <2>1. Kept = 0
      BY <1>3, <1>4, Zenon
  <2>2. \A i \in 1..Len(files) : files[i].tail = files[i].begin
      BY <1>2, <1>4
  <2>3. Len(files) < 2
      BY <1>1, <1>2, <2>2
  <2> QED
      BY <1>1, <2>1, <2>2, <2>3 DEF LastFile
<1>5. CASE ~ \A i \in 1..Len(files) : Empty(i)
  <2>1. PICK m \in 1..Len(files) : ~Empty(m)
      BY <1>5, Zenon
  <2>2. Full(m)
      BY <1>2, <2>1
  <2>3. \E i \in 1..Len(files) : IsKept(i)
    <3>1. CASE Full(Len(files))
      <4>1. IsKept(Len(files))
          BY <1>1, <3>1
      <4> QED
          BY <1>1, <2>1, <4>1
    <3>2. CASE ~Full(Len(files))
      <4>1. Len(files) \in 1..Len(files) /\ Empty(Len(files))
          BY <1>1, <1>2, <2>1, <3>2
      <4>2. m # Len(files)
          BY <2>2, <3>2, Zenon
      <4>3. Len(files) - 1 \in 1..Len(files) /\ Full(Len(files) - 1)
          BY <1>1, <1>2, <4>2
      <4>4. \A j \in (Len(files) - 1 + 1)..Len(files) : j = Len(files)
          BY <1>1
      <4>5. IsKept(Len(files) - 1)
          BY <4>1, <4>3, <4>4, Zenon
      <4> QED
          BY <4>3, <4>5, Zenon
    <3> QED
        BY <3>1, <3>2, Zenon
  <2>4. Kept \in 1..Len(files) /\ IsKept(Kept)
      BY <1>3, <1>5, <2>3, Zenon
  <2>5. Kept = Len(files) \/ Kept = Len(files) - 1
    <3>1. SUFFICES ASSUME Kept < Len(files) - 1 PROVE FALSE
        BY <1>1, <2>4
    <3>2. Len(files) - 1 \in (Kept + 1)..Len(files) /\ Len(files) - 1 \in 1..Len(files)
        BY <1>1, <2>4, <3>1
    <3>3. Empty(Len(files) - 1) /\ Len(files) - 1 < Len(files)
        BY <1>1, <2>4, <3>2
    <3> QED
        BY <1>2, <3>2, <3>3
  <2>6. ASSUME Kept < Len(files) PROVE LastFile.begin = LastFile.tail
    <3>1. Len(files) \in (Kept + 1)..Len(files) /\ Len(files) \in 1..Len(files)
        BY <1>1, <2>4, <2>6
    <3>2. Empty(Len(files))
        BY <2>4, <3>1, Zenon
    <3> QED
        BY <1>2, <3>1, <3>2 DEF LastFile
  <2> QED
      BY <1>1, <1>2, <2>4, <2>5, <2>6
<1> QED
    BY <1>4, <1>5, Zenon

\* The committer of a loaded partition starts at or behind where the last one
\* stopped.
LEMMA RecoveredIdBounds ==
    ASSUME NumbersOK, FilesOK, Ids, Files
    PROVE  /\ RecoveredId \in Int
           /\ Kept = 0 => RecoveredId = -1
           /\ Kept # 0 => RecoveredId \in Nat /\ files[Kept].begin <= RecoveredId
           /\ Kept # 0 => files[Kept].tail = RecoveredId + 1
<1>1. Kept # 0 => files[Kept].begin \in Nat /\ files[Kept].tail \in Nat
    BY KeptPairs, FileFields
<1> QED
    BY <1>1, KeptPairs DEF RecoveredId

-----------------------------------------------------------------------------
(***************************************************************************)
(* Numbers and ids                                                         *)
(***************************************************************************)
Counts == NumbersOK /\ Ids /\ CommittedIndexAgrees

\* Initially the numbers are of their type and lie as they should.
LEMMA CountsInit == Init => Counts
    BY DEF Init, Counts, NumbersOK, Ids, CommittedIndexAgrees

\* Every step keeps the numbers of their type and the ids in order: recycling
\* and stealing blocks stop at the committed id, publishing never runs ahead.
LEMMA CountsStep ==
    ASSUME IInv, [Next]_vars
    PROVE  Counts'
<1> USE StorageAssumption
<1> USE DEF IInv, Counts, NumbersOK, Ids, CommittedIndexAgrees, envVars, dequeVars, committerVars
<1>1. CASE Tick
    BY <1>1 DEF Tick
<1>2. ASSUME NEW n \in 1..MaxBatch, AddMessage(n) PROVE Counts'
  <2>1. ~MemEmpty => mem[last].ts \in Int
      BY DEF MemEmpty, MessagesOK, Msg
  <2>2. LastReceivedMsgTimestamp \in Int
      BY <2>1 DEF LastReceivedMsgTimestamp
  <2>3. lastTs' \in Int /\ n \in Nat /\ n > 0
      BY <1>2, <2>2 DEF AddMessage, NextMsgTimestamp, Maximum
  <2> QED
      BY <1>2, <2>3 DEF AddMessage, LastReceivedMsgId, MemEmpty, MemSize
<1>3. ASSUME NEW n \in 1..MemCapacity, Recycle(n) PROVE Counts'
    BY <1>3 DEF Recycle, RecycleLimit, DropFront, MemSize, CanRecycle
<1>4. ASSUME NEW n \in 1..MemCapacity, RecycleFast(n) PROVE Counts'
    BY <1>4 DEF RecycleFast, DropFront, MemSize, ViewSize
<1>5. CASE CommitMessage
    BY <1>5 DEF CommitMessage, LastReceivedMsgId, MemEmpty
<1>6. CASE WriteMessage
    BY <1>6 DEF WriteMessage
<1>7. CASE OpenFileFail
    BY <1>7 DEF OpenFileFail
<1>8. ASSUME NEW close \in BOOLEAN, NEW err \in BOOLEAN, CommitFile(close, err) PROVE Counts'
  <2>1. outFile' \in {"open", "closed"} /\ cpc' \in {"write", "publish"}
      BY <1>8, Zenon DEF CommitFile
  <2>2. /\ cpc = "write" /\ committedId' = writedId
        /\ UNCHANGED <<phase, envVars, fails, dequeVars, target, writedId>>
      BY <1>8, Zenon DEF CommitFile
  <2> QED
      BY <2>1, <2>2
<1>9. ASSUME NEW k \in 0..MaxMsgs, CommitFileFail(k) PROVE Counts'
    BY <1>9 DEF CommitFileFail, DroppedWritedId
<1>10. CASE FinishWrite
    BY <1>10, Zenon DEF FinishWrite
<1>11. CASE SetCommittedId
    BY <1>11 DEF SetCommittedId, SetCommittedMsgId, Maximum, Minimum, MemEmpty, MemSize
<1>12. ASSUME NEW n \in 0..MaxMsgs, NEW k \in 0..MaxMsgs, DelExpiredFile(n, k) PROVE Counts'
    BY <1>12, Zenon DEF DelExpiredFile
<1>13. CASE Unload
    BY <1>13, Zenon DEF Unload
<1>14. CASE Unloaded
    BY <1>14 DEF Unloaded, Forget
<1>15. ASSUME NEW k \in 0..MaxMsgs, Crash(k) PROVE Counts'
    BY <1>15 DEF Crash, Forget
<1>16. CASE Load
    BY <1>16, RecoveredIdBounds DEF Load, Maximum
<1>17. CASE UNCHANGED vars
    BY <1>17, Zenon DEF vars
<1> QED
    BY <1>1, <1>2, <1>3, <1>4, <1>5, <1>6, <1>7, <1>8, <1>9, <1>10, <1>11, <1>12, <1>13,
       <1>14, <1>15, <1>16, <1>17, Zenon DEF Next, CommitThread

-----------------------------------------------------------------------------
(***************************************************************************)
(* Messages in memory                                                      *)
(***************************************************************************)
\* Initially the queue and the buffer are empty.
LEMMA MessagesInit == Init => MessagesOK
<1> SUFFICES ASSUME Init PROVE MessagesOK
    BY Zenon
<1>1. NoMsgs \in [0..-1 -> Msg]
    BY EmptyFunction
<1> QED
    BY <1>1 DEF Init, MessagesOK

\* Every step leaves the queue and the buffer with messages for exactly the ids
\* they should hold.
LEMMA MessagesStep ==
    ASSUME IInv, [Next]_vars
    PROVE  MessagesOK'
<1> USE StorageAssumption
<1> USE DEF IInv, NumbersOK, MessagesOK, Ids, envVars, dequeVars, committerVars
<1>0. Counts'
    BY CountsStep, Zenon
<1>a. ASSUME NEW c \in Int PROVE NoMsgs \in [(c + 1)..c -> Msg]
    BY EmptyFunction
<1>1. CASE Tick
    BY <1>1, Zenon DEF Tick
<1>2. ASSUME NEW n \in 1..MaxBatch, AddMessage(n) PROVE MessagesOK'
  <2> DEFINE id == LastReceivedMsgId + 1
             ts == NextMsgTimestamp(LastReceivedMsgTimestamp)
             new == [i \in id..(id + n - 1) |-> [val |-> accepted + 1 + i - id, ts |-> ts + i - id]]
  <2>1. ts \in Int
    <3>1. ~MemEmpty => mem[last].ts \in Int
        BY DEF MemEmpty, Msg
    <3> QED
        BY <3>1 DEF LastReceivedMsgTimestamp, NextMsgTimestamp, Maximum
  <2>2. id \in Int /\ n \in Nat
      BY DEF LastReceivedMsgId
  <2> HIDE DEF ts
  <2>3. ASSUME NEW i \in id..(id + n - 1) PROVE new[i] \in Msg
    <3> HIDE DEF id
    <3>1. accepted + 1 + i - id \in Nat /\ ts + i - id \in Int
        BY <2>1, <2>2
    <3> QED
        BY <3>1, Zenon DEF Msg
  <2>4. /\ first' \in Int /\ last' \in Int /\ last' = id + n - 1
        /\ \A i \in first'..last' : i \in first..last \/ i \in id..(id + n - 1)
      BY <1>2, <2>2 DEF AddMessage, LastReceivedMsgId, MemEmpty
  <2>5. mem' = Extend(mem, new, first', last')
      BY <1>2, Zenon DEF AddMessage, ts
  <2> HIDE DEF new, id
  <2>6. \A i \in first'..last' : IF i \in DOMAIN mem THEN mem[i] \in Msg ELSE new[i] \in Msg
      BY <2>3, <2>4, Zenon
  <2>7. mem' \in [first'..last' -> Msg]
      BY <2>4, <2>5, <2>6, ExtendType, Zenon
  <2> QED
      BY <1>2, <2>7, Zenon DEF AddMessage
<1>3. ASSUME NEW n \in 1..MemCapacity, DropFront(n),
             UNCHANGED <<phase, envVars, fails, committerVars, fileVars>>
      PROVE  MessagesOK'
    BY <1>3 DEF DropFront
<1>4. ASSUME NEW n \in 1..MemCapacity, Recycle(n) \/ RecycleFast(n) PROVE MessagesOK'
    BY <1>3, <1>4, Zenon DEF Recycle, RecycleFast
<1>5. CASE CommitMessage
    BY <1>5, Zenon DEF CommitMessage
<1>6. CASE WriteMessage
  <2>1. \A i \in (committedId + 1)..(writedId + 1) :
           IF i \in DOMAIN buf THEN buf[i] \in Msg ELSE mem[i] \in Msg
      BY <1>6 DEF WriteMessage
  <2>2. Extend(buf, mem, committedId + 1, writedId + 1) \in [(committedId + 1)..(writedId + 1) -> Msg]
      BY <2>1, ExtendType
  <2> QED
      BY <1>6, <2>2, Zenon DEF WriteMessage
<1>7. CASE OpenFileFail
    BY <1>7, Zenon DEF OpenFileFail
<1>8. ASSUME NEW close \in BOOLEAN, NEW err \in BOOLEAN, CommitFile(close, err) PROVE MessagesOK'
  <2>1. buf' = NoMsgs /\ committedId' = writedId /\ UNCHANGED <<dequeVars, writedId>>
      BY <1>8, Zenon DEF CommitFile
  <2> QED
      BY <1>a, <2>1, Zenon
<1>9. ASSUME NEW k \in 0..MaxMsgs, CommitFileFail(k) PROVE MessagesOK'
  <2>1. buf' = NoMsgs /\ writedId' = committedId /\ UNCHANGED <<dequeVars, committedId>>
      BY <1>9, Zenon DEF CommitFileFail, DroppedWritedId
  <2> QED
      BY <1>a, <2>1, Zenon
<1>10. CASE FinishWrite
    BY <1>10, Zenon DEF FinishWrite
<1>11. CASE SetCommittedId
    BY <1>11, Zenon DEF SetCommittedId, SetCommittedMsgId
<1>12. ASSUME NEW n \in 0..MaxMsgs, NEW k \in 0..MaxMsgs, DelExpiredFile(n, k) PROVE MessagesOK'
    BY <1>12, Zenon DEF DelExpiredFile
<1>13. CASE Unload
    BY <1>13, Zenon DEF Unload
<1>14. ASSUME Forget PROVE MessagesOK'
  <2>1. NoMsgs \in [0..-1 -> Msg]
      BY EmptyFunction
  <2> QED
      BY <1>a, <1>14, <2>1, Zenon DEF Forget
<1>15. CASE Unloaded \/ \E k \in 0..MaxMsgs : Crash(k)
    BY <1>14, <1>15, Zenon DEF Unloaded, Crash
<1>16. CASE Load
  <2>1. buf' = NoMsgs
    <3>1. DOMAIN buf = {}
        BY <1>16 DEF Load
    <3> QED
        BY <1>16, <3>1, Zenon DEF Load, NoMsgs
  <2>2. buf' \in [(committedId' + 1)..writedId' -> Msg]
      BY <1>16, <1>a, <2>1, RecoveredIdBounds, Zenon DEF Load
  <2>3. CASE Kept = 0
    <3>1. NoMsgs \in [0..-1 -> Msg]
        BY EmptyFunction
    <3>2. mem' = NoMsgs /\ first' = 0 /\ last' = -1
        BY <1>16, <2>3, RecoveredIdBounds, Zenon DEF Load
    <3>3. mem' \in [first'..last' -> Msg]
        BY <3>1, <3>2, Zenon
    <3> QED
        BY <2>2, <3>3, Zenon
  <2>4. CASE Kept # 0
    <3>0. Kept \in 1..Len(files)
        BY <2>4, KeptPairs
    <3>1. /\ files[Kept].msgs \in [files[Kept].begin..(files[Kept].tail - 1) -> Msg]
          /\ files[Kept].begin \in Nat /\ files[Kept].tail \in Nat
        BY <3>0, FileFields, Zenon
    <3>2. RecoveredId \in files[Kept].begin..(files[Kept].tail - 1)
        BY <2>4, <3>1, RecoveredIdBounds
    <3>3. files[Kept].msgs[RecoveredId] \in Msg
        BY <3>1, <3>2, Zenon
    <3>4. \A i \in RecoveredId..RecoveredId : i = RecoveredId
        BY RecoveredIdBounds
    <3>5. mem' \in [RecoveredId..RecoveredId -> Msg] /\ first' = RecoveredId /\ last' = RecoveredId
        BY <1>16, <2>4, <3>3, <3>4, Zenon DEF Load
    <3> QED
        BY <2>2, <3>5, Zenon
  <2> QED
      BY <2>3, <2>4, Zenon
<1>17. CASE UNCHANGED vars
    BY <1>17, Zenon DEF vars
<1> QED
    BY <1>1, <1>2, <1>4, <1>5, <1>6, <1>7, <1>8, <1>9, <1>10, <1>11, <1>12, <1>13,
       <1>15, <1>16, <1>17, Zenon DEF Next, CommitThread

-----------------------------------------------------------------------------
(***************************************************************************)
(* Files                                                                   *)
(***************************************************************************)
\* A pair on its own is well formed.
PairOK(f) ==
    /\ f \in FilePairs
    /\ f.msgs \in [f.begin..(f.tail - 1) -> Msg]
    /\ f.begin <= f.tail
    /\ f.begin < f.tail => f.onDfs

\* A list of pairs of which only the last may be empty.
ListOK(fs) ==
    /\ fs \in Seq(FilePairs)
    /\ \A i \in 1..Len(fs) : PairOK(fs[i])
    /\ \A i \in 1..Len(fs) : i < Len(fs) => fs[i].begin < fs[i].tail

\* How the last pair lies with the committer.
LastOK ==
    /\ outFile = "open" => files # <<>> /\ LastFile.onDfs
    /\ files # <<>> => LastFile.begin <= committedId + 1 /\ committedId + 1 <= LastFile.tail

\* FilesOK and Files, said of the pairs one by one.
LEMMA FilesByPair == FilesOK /\ Files <=> ListOK(files) /\ LastOK
<1>1. files \in Seq(FilePairs) => \A i \in 1..Len(files) : files[i] \in FilePairs
    OBVIOUS
<1> QED
    BY <1>1, Zenon DEF FilesOK, Files, PairOK, ListOK, LastOK

\* A new pair is well formed.
LEMMA NewPairOK ==
    ASSUME NEW id \in Nat, NEW ts \in Int, NEW opened \in BOOLEAN
    PROVE  /\ PairOK(NewFilePair(id, ts, opened))
           /\ NewFilePair(id, ts, opened).begin = id
           /\ NewFilePair(id, ts, opened).tail = id
           /\ NewFilePair(id, ts, opened).onDfs = opened
<1>1. NoMsgs \in [id..(id - 1) -> Msg]
    BY EmptyFunction
<1>2. id..(id - 1) \in SUBSET Int
    OBVIOUS
<1>3. NoMsgs \in SomeMsgs
    BY <1>1, <1>2, Zenon DEF SomeMsgs
<1> HIDE DEF NoMsgs
<1> QED
    BY <1>1, <1>3 DEF NewFilePair, PairOK, FilePairs

\* Putting another pair in the last place.
LEMMA ReplaceLast ==
    ASSUME NEW fs, ListOK(fs), fs # <<>>, NEW f, PairOK(f)
    PROVE  LET new == [fs EXCEPT ![Len(fs)] = f]
           IN  ListOK(new) /\ new # <<>> /\ Len(new) = Len(fs) /\ new[Len(new)] = f
<1> DEFINE new == [fs EXCEPT ![Len(fs)] = f]
<1>1. fs \in Seq(FilePairs) /\ f \in FilePairs /\ Len(fs) \in Nat \ {0}
    BY DEF ListOK, PairOK
<1>2. new \in Seq(FilePairs) /\ Len(new) = Len(fs) /\ new[Len(fs)] = f
    BY <1>1
<1>3. \A i \in 1..Len(fs) : i < Len(fs) => new[i] = fs[i]
    BY <1>1
<1> HIDE DEF new
<1>4. ListOK(new)
    BY <1>1, <1>2, <1>3 DEF ListOK
<1>5. new # <<>>
    BY <1>1, <1>2, Zenon
<1> QED
    BY <1>2, <1>4, <1>5, Zenon DEF new

\* Appending a pair to a list whose last pair is not empty.
LEMMA AppendPair ==
    ASSUME NEW fs, ListOK(fs), NEW f, PairOK(f),
           fs # <<>> => fs[Len(fs)].begin < fs[Len(fs)].tail
    PROVE  LET new == Append(fs, f)
           IN  ListOK(new) /\ new # <<>> /\ Len(new) = Len(fs) + 1 /\ new[Len(new)] = f
<1> DEFINE new == Append(fs, f)
<1>1. fs \in Seq(FilePairs) /\ f \in FilePairs /\ Len(fs) \in Nat
    BY DEF ListOK, PairOK
<1>2. new \in Seq(FilePairs) /\ Len(new) = Len(fs) + 1 /\ new[Len(fs) + 1] = f
    BY <1>1
<1>3. \A i \in 1..Len(fs) : new[i] = fs[i]
    BY <1>1
<1>4. \A i \in 1..Len(fs) : fs[i].begin < fs[i].tail
  <2>1. fs = <<>> => Len(fs) = 0
      OBVIOUS
  <2> QED
      BY <1>1, <2>1 DEF ListOK
<1> HIDE DEF new
<1>5. ListOK(new)
    BY <1>1, <1>2, <1>3, <1>4 DEF ListOK
<1>6. new # <<>>
    BY <1>1, <1>2
<1> QED
    BY <1>2, <1>5, <1>6, Zenon DEF new

\* Dropping pairs at the front.
LEMMA DropPairs ==
    ASSUME NEW fs, ListOK(fs), NEW n \in Nat, n < Len(fs)
    PROVE  LET new == SubSeq(fs, n + 1, Len(fs))
           IN  /\ ListOK(new) /\ new # <<>> /\ Len(new) = Len(fs) - n
               /\ new[Len(new)] = fs[Len(fs)]
               /\ \A i \in 1..Len(new) : new[i] = fs[i + n]
<1> DEFINE new == SubSeq(fs, n + 1, Len(fs))
<1>1. fs \in Seq(FilePairs) /\ Len(fs) \in Nat
    BY DEF ListOK
<1>2. new \in Seq(FilePairs) /\ Len(new) = Len(fs) - n
    BY <1>1
<1>3. \A i \in 1..Len(new) : new[i] = fs[i + n] /\ i + n \in 1..Len(fs)
    BY <1>1, <1>2
<1> HIDE DEF new
<1>4. ListOK(new)
  <2>1. ASSUME NEW i \in 1..Len(new) PROVE PairOK(new[i])
    <3>1. new[i] = fs[i + n] /\ i + n \in 1..Len(fs)
        BY <1>3, Zenon
    <3> QED
        BY <3>1, Zenon DEF ListOK
  <2>2. ASSUME NEW i \in 1..Len(new), i < Len(new) PROVE new[i].begin < new[i].tail
    <3>1. new[i] = fs[i + n] /\ i + n \in 1..Len(fs)
        BY <1>3, Zenon
    <3>2. i + n < Len(fs)
        BY <1>1, <1>2, <2>2
    <3> QED
        BY <3>1, <3>2, Zenon DEF ListOK
  <2> QED
      BY <1>2, <2>1, <2>2, Zenon DEF ListOK
<1>5. new # <<>> /\ new[Len(new)] = fs[Len(fs)]
    BY <1>1, <1>2, <1>3
<1> QED
    BY <1>2, <1>3, <1>4, <1>5, Zenon DEF new

\* The pairs after a load, when some are kept.
LEMMA ReloadPairs ==
    ASSUME ListOK(files), Kept \in 1..Len(files),
           \A i \in 1..Kept : files[i].begin < files[i].tail
    PROVE  /\ ListOK(RecoveredFiles) /\ RecoveredFiles # <<>> /\ Len(RecoveredFiles) = Kept
           /\ \A i \in 1..Kept :
                 /\ RecoveredFiles[i].begin = files[i].begin
                 /\ RecoveredFiles[i].tail = files[i].tail
                 /\ RecoveredFiles[i].onDfs = files[i].onDfs
                 /\ RecoveredFiles[i].msgs = files[i].msgs
                 /\ RecoveredFiles[i].ts = files[i].ts
                 /\ RecoveredFiles[i].end = IF i = Kept THEN files[i].tail
                                            ELSE Minimum(files[i].tail, files[i + 1].begin)
<1>1. files \in Seq(FilePairs) /\ Len(files) \in Nat /\ Kept \in Nat /\ Kept > 0
    BY DEF ListOK
<1> DEFINE end(i) == IF i = Kept THEN files[i].tail ELSE Minimum(files[i].tail, files[i + 1].begin)
           pair(i) == [files[i] EXCEPT !.end = end(i)]
<1>2. ASSUME NEW i \in 1..Kept
      PROVE  /\ end(i) \in Nat /\ files[i] \in FilePairs
             /\ files[i].msgs \in [files[i].begin..(files[i].tail - 1) -> Msg]
             /\ files[i].onDfs /\ files[i].begin <= files[i].tail
  <2>1. i \in 1..Len(files) /\ PairOK(files[i])
      BY <1>1 DEF ListOK
  <2>2. i # Kept => i + 1 \in 1..Len(files) /\ PairOK(files[i + 1])
      BY <1>1 DEF ListOK
  <2>3. files[i].tail \in Nat /\ files[i].begin \in Nat
      BY <2>1, Zenon DEF PairOK, FilePairs
  <2>4. i # Kept => files[i + 1].begin \in Nat
      BY <2>2, Zenon DEF PairOK, FilePairs
  <2>5. files[i].begin < files[i].tail
      BY Zenon
  <2> QED
      BY <2>1, <2>3, <2>4, <2>5, Zenon DEF Minimum, PairOK
<1> HIDE DEF end
<1>3. ASSUME NEW i \in 1..Kept
      PROVE  /\ pair(i) \in FilePairs
             /\ pair(i).begin = files[i].begin /\ pair(i).tail = files[i].tail
             /\ pair(i).onDfs = files[i].onDfs /\ pair(i).end = end(i)
             /\ pair(i).msgs = files[i].msgs /\ pair(i).ts = files[i].ts
    BY <1>2, Zenon DEF FilePairs
<1>4. ASSUME NEW i \in 1..Kept PROVE PairOK(pair(i))
  <2> HIDE DEF pair
  <2> QED
    BY <1>2, <1>3, Zenon DEF PairOK
<1>5. RecoveredFiles = [i \in 1..Kept |-> pair(i)]
    BY Zenon DEF RecoveredFiles, end
<1> HIDE DEF pair
<1>6. RecoveredFiles \in Seq(FilePairs) /\ Len(RecoveredFiles) = Kept
    BY <1>1, <1>3, <1>5
<1>7. \A i \in 1..Kept : RecoveredFiles[i] = pair(i)
    BY <1>5, Zenon
<1>8. ListOK(RecoveredFiles)
    BY <1>1, <1>3, <1>4, <1>6, <1>7, Zenon DEF ListOK
<1> QED
    BY <1>1, <1>3, <1>6, <1>7, <1>8 DEF end

\* What a step may do to the files, the committed id and the open file.
KeepFiles == UNCHANGED <<files, committedId>> /\ outFile' \in {outFile, "closed"}

TruncateFile ==
    /\ files # <<>> /\ LastFile.begin = committedId + 1
    /\ files' = [files EXCEPT ![Len(files)] = NewFilePair(committedId + 1, LastFile.ts, TRUE)]
    /\ UNCHANGED committedId

AddFile ==
    /\ files # <<>> => LastFile.begin # committedId + 1
    /\ \E ts \in Int, opened \in BOOLEAN :
          /\ ts = mem[committedId + 1].ts
          /\ files' = Append(files, NewFilePair(committedId + 1, ts, opened))
          /\ outFile' = "open" => opened
    /\ UNCHANGED committedId

FlushPart ==
    /\ outFile = "open" /\ UNCHANGED committedId /\ outFile' = "closed"
    /\ \E k \in Nat : /\ k <= writedId - committedId
                      /\ files' = [files EXCEPT ![Len(files)] = Flushed(k)]

FlushAll ==
    /\ outFile = "open" /\ committedId' = writedId
    /\ files' = [files EXCEPT ![Len(files)] = [Flushed(writedId - committedId)
                                                  EXCEPT !.end = writedId + 1]]

DropFiles ==
    /\ \E n \in Nat : /\ n <= Len(files) - ReservedFileCount
                      /\ files' = SubSeq(files, n + 1, Len(files))
    /\ UNCHANGED <<committedId, outFile>>
    /\ \E n, k \in 0..MaxMsgs : DelExpiredFile(n, k)

Reload ==
    /\ phase = "down" /\ outFile = "closed" /\ UNCHANGED outFile
    /\ files' = RecoveredFiles /\ committedId' = RecoveredId

\* Opening a file reuses the last pair, leaves the list alone or adds a pair.
LEMMA OpenFileSteps ==
    ASSUME IInv, NEW id, id = writedId + 1, outFile = "closed", id \in first..last,
           NEW opened \in BOOLEAN, files' = OpenFile(id, mem[id].ts, opened),
           UNCHANGED committedId, outFile' = IF opened THEN "open" ELSE "closed"
    PROVE  \/ ~opened /\ KeepFiles
           \/ TruncateFile
           \/ AddFile
<1>1. id = committedId + 1 /\ mem[id].ts \in Int
  <2>1. id = committedId + 1
      BY Zenon DEF IInv, Ids
  <2>2. mem[id] \in Msg
      BY Zenon DEF IInv, MessagesOK, NumbersOK
  <2> QED
      BY <2>1, <2>2, Zenon DEF Msg
<1>2. CASE files # <<>> /\ LastFile.begin = id
    BY <1>1, <1>2, Zenon DEF OpenFile, TruncateFile, KeepFiles
<1>3. CASE ~(files # <<>> /\ LastFile.begin = id)
  <2>1. files' = Append(files, NewFilePair(id, mem[id].ts, opened))
      BY <1>3, Zenon DEF OpenFile
  <2>2. outFile' = "open" => opened
      BY Zenon
  <2> QED
      BY <1>1, <1>3, <2>1, <2>2, Zenon DEF AddFile
<1> QED
    BY <1>2, <1>3, Zenon

\* Expiry takes no file from dfs that is reserved.
LEMMA ExpirySteps ==
    ASSUME IInv, NEW n \in 0..MaxMsgs, NEW k \in 0..MaxMsgs, DelExpiredFile(n, k)
    PROVE  KeepFiles \/ DropFiles
<1>1. /\ n = 0 \/ n <= ObsoleteFilePos
      /\ k <= obsolete + n
      /\ files' = SubSeq(files, k + 1, Len(files)) /\ UNCHANGED <<committedId, outFile>>
    BY Zenon DEF DelExpiredFile, committerVars
<1>2. /\ obsolete \in Nat /\ (obsolete = 0 \/ obsolete <= Len(files) - ReservedFileCount)
      /\ files \in Seq(FilePairs)
    BY Zenon DEF IInv, ObsoleteOK, FilesOK
<1>3. CASE k = 0
  <2>1. SubSeq(files, 1, Len(files)) = files
      BY <1>2
  <2> QED
      BY <1>1, <1>3, <2>1 DEF KeepFiles
<1>4. CASE k # 0
  <2>1. k \in Nat /\ k <= Len(files) - ReservedFileCount
      BY <1>1, <1>2, <1>4, StorageAssumption DEF ObsoleteFilePos
  <2> QED
      BY <1>1, <2>1, Zenon DEF DropFiles
<1> QED
    BY <1>3, <1>4, Zenon

\* Every step is one of these to the files.
LEMMA FileSteps ==
    ASSUME IInv, [Next]_vars
    PROVE  \/ KeepFiles \/ TruncateFile \/ AddFile
           \/ FlushPart \/ FlushAll \/ DropFiles \/ Reload
<1> USE StorageAssumption
<1> USE DEF envVars, dequeVars, committerVars, fileVars
<1>a. /\ Len(files) \in Nat /\ writedId \in Int /\ committedId \in Int /\ committedId <= writedId
    BY DEF IInv, NumbersOK, FilesOK, Ids
<1>b. outFile \in {"open", "closed"}
    BY Zenon DEF IInv, NumbersOK, FilesOK
<1>c. outFile = "open" => files # <<>>
    BY Zenon DEF IInv, Files
<1>d. /\ committedId < writedId => outFile = "open"
      /\ phase = "down" => outFile = "closed"
    BY <1>a, <1>b DEF IInv, Ids
<1>0. /\ Len(files) \in Nat /\ writedId \in Int /\ committedId \in Int /\ committedId <= writedId
      /\ outFile \in {"open", "closed"}
      /\ outFile = "open" => files # <<>>
      /\ committedId < writedId => outFile = "open"
      /\ phase = "down" => outFile = "closed"
    BY <1>a, <1>b, <1>c, <1>d, Zenon
<1>1. CASE Tick
    BY <1>1, Zenon DEF Tick, KeepFiles
<1>2. ASSUME NEW n \in 1..MaxBatch, AddMessage(n) PROVE KeepFiles
    BY <1>2, Zenon DEF AddMessage, KeepFiles
<1>3. ASSUME NEW n \in 1..MemCapacity, Recycle(n) \/ RecycleFast(n) PROVE KeepFiles
    BY <1>3, Zenon DEF Recycle, RecycleFast, KeepFiles
<1>5. CASE CommitMessage
    BY <1>5, Zenon DEF CommitMessage, KeepFiles
<1>6. CASE WriteMessage
  <2>1. CASE outFile = "open"
      BY <1>6, <2>1, Zenon DEF WriteMessage, KeepFiles
  <2>2. CASE outFile = "closed"
    <3>1. /\ files' = OpenFile(writedId + 1, mem[writedId + 1].ts, TRUE)
          /\ writedId + 1 \in first..last /\ UNCHANGED committedId /\ outFile' = "open"
        BY <1>6, <2>2, Zenon DEF WriteMessage
    <3> QED
        BY <2>2, <3>1, OpenFileSteps, Zenon
  <2> QED
      BY <1>0, <2>1, <2>2, Zenon
<1>7. CASE OpenFileFail
  <2>1. /\ files' = OpenFile(writedId + 1, mem[writedId + 1].ts, FALSE)
        /\ writedId + 1 \in first..last /\ UNCHANGED committedId
        /\ outFile = "closed" /\ outFile' = "closed"
      BY <1>7, Zenon DEF OpenFileFail
  <2> QED
      BY <2>1, OpenFileSteps, Zenon
<1>8. ASSUME NEW close \in BOOLEAN, NEW err \in BOOLEAN, CommitFile(close, err)
      PROVE  KeepFiles \/ FlushAll
  <2>1. outFile = "open" /\ outFile' \in {outFile, "closed"} /\ committedId' = writedId
      BY <1>8, Zenon DEF CommitFile
  <2>2. CASE committedId < writedId
      BY <1>8, <2>1, <2>2, Zenon DEF CommitFile, FlushAll
  <2>3. CASE ~(committedId < writedId)
    <3>1. files' = files /\ writedId = committedId
        BY <1>0, <1>8, <2>3 DEF CommitFile
    <3> QED
        BY <2>1, <3>1, Zenon DEF KeepFiles
  <2> QED
      BY <2>2, <2>3, Zenon
<1>9. ASSUME NEW k \in 0..MaxMsgs, CommitFileFail(k) PROVE FlushPart
  <2>1. /\ files' = [files EXCEPT ![Len(files)] = Flushed(k)] /\ k <= writedId - committedId
        /\ outFile = "open" /\ outFile' = "closed" /\ UNCHANGED committedId
      BY <1>9, Zenon DEF CommitFileFail
  <2>2. k \in Nat
      OBVIOUS
  <2> QED
      BY <2>1, <2>2, Zenon DEF FlushPart
<1>10. CASE FinishWrite
    BY <1>10, Zenon DEF FinishWrite, KeepFiles
<1>11. CASE SetCommittedId
    BY <1>11, Zenon DEF SetCommittedId, KeepFiles
<1>12. ASSUME NEW n \in 0..MaxMsgs, NEW k \in 0..MaxMsgs, DelExpiredFile(n, k)
       PROVE  KeepFiles \/ DropFiles
    BY <1>12, ExpirySteps, Zenon
<1>13. CASE Unload
    BY <1>13, Zenon DEF Unload, KeepFiles
<1>14. CASE Unloaded
    BY <1>14, Zenon DEF Unloaded, Forget, KeepFiles
<1>15. ASSUME NEW k \in 0..MaxMsgs, Crash(k) PROVE KeepFiles \/ FlushPart
  <2>1. CASE k > 0
    <3>1. files' = [files EXCEPT ![Len(files)] = Flushed(k)] /\ k <= writedId - committedId
          /\ outFile' = "closed" /\ UNCHANGED committedId
        BY <1>15, <2>1, Zenon DEF Crash, Forget
    <3>2. k \in Nat /\ outFile = "open"
        BY <1>0, <2>1, <3>1
    <3> QED
        BY <3>1, <3>2, Zenon DEF FlushPart
  <2>2. CASE ~(k > 0)
      BY <1>15, <2>2, Zenon DEF Crash, Forget, KeepFiles
  <2> QED
      BY <2>1, <2>2, Zenon
<1>16. CASE Load
    BY <1>0, <1>16, Zenon DEF Load, Reload
<1>17. CASE UNCHANGED vars
    BY <1>17, Zenon DEF vars, KeepFiles
<1> QED
    BY <1>1, <1>2, <1>3, <1>5, <1>6, <1>7, <1>8, <1>9, <1>10, <1>11, <1>12, <1>13,
       <1>14, <1>15, <1>16, <1>17, Zenon DEF Next, CommitThread

\* A step that is no expiry takes no pair from the list, and a load lists all
\* pairs that are left.
LEMMA ObsoleteStep ==
    ASSUME IInv, [Next]_vars
    PROVE  ObsoleteOK'
<1> USE DEF envVars, dequeVars, committerVars, fileVars
<1>1. /\ Len(files) \in Nat /\ files \in Seq(FilePairs) /\ obsolete \in Nat
      /\ obsolete = 0 \/ obsolete <= Len(files) - ReservedFileCount
      /\ ReservedFileCount \in Nat
    BY StorageAssumption DEF IInv, FilesOK, ObsoleteOK
<1>2. phase = "down" => obsolete = 0
    BY Zenon DEF IInv, ObsoleteOK
<1>3. ASSUME NEW n \in 0..MaxMsgs, NEW k \in 0..MaxMsgs, DelExpiredFile(n, k) PROVE ObsoleteOK'
  <2>1. /\ n = 0 \/ n <= ObsoleteFilePos
        /\ k <= obsolete + n /\ files' = SubSeq(files, k + 1, Len(files))
        /\ obsolete' = obsolete + n - k /\ phase' = "running"
      BY <1>3, Zenon DEF DelExpiredFile
  <2>2. n \in Nat /\ k \in Nat /\ k <= Len(files)
      BY <1>1, <2>1, StorageAssumption DEF ObsoleteFilePos
  <2>3. Len(files') = Len(files) - k
      BY <1>1, <2>1, <2>2
  <2>4. obsolete' \in Nat /\ (obsolete' = 0 \/ obsolete' <= Len(files') - ReservedFileCount)
      BY <1>1, <2>1, <2>2, <2>3 DEF ObsoleteFilePos
  <2> QED
      BY <2>1, <2>4, Zenon DEF ObsoleteOK
<1>4. ASSUME ~\E n, k \in 0..MaxMsgs : DelExpiredFile(n, k)
      PROVE  /\ obsolete' \in {obsolete, 0}
             /\ phase = "down" \/ phase' = "down" => obsolete' = 0
  <2>1. \/ UNCHANGED <<obsolete, phase>>
        \/ obsolete' = 0
        \/ Unload
        \/ Load
      BY <1>4, Zenon DEF Next, CommitThread, vars, Tick, AddMessage, Recycle, RecycleFast,
         CommitMessage, WriteMessage, OpenFileFail, CommitFile, CommitFileFail, FinishWrite,
         SetCommittedId, Unloaded, Crash, Forget
  <2>2. Unload => UNCHANGED obsolete /\ phase # "down" /\ phase' # "down"
      BY Zenon DEF Unload
  <2>3. Load => UNCHANGED obsolete /\ phase = "down"
      BY Zenon DEF Load
  <2> QED
      BY <1>2, <2>1, <2>2, <2>3, Zenon
<1>5. ASSUME ~\E n, k \in 0..MaxMsgs : DelExpiredFile(n, k)
      PROVE  (Len(files') \in Nat /\ Len(files) <= Len(files')) \/ Reload
  <2>1. KeepFiles \/ TruncateFile \/ AddFile \/ FlushPart \/ FlushAll \/ Reload
      BY <1>5, FileSteps, Zenon DEF DropFiles
  <2>2. KeepFiles => Len(files') = Len(files)
      BY Zenon DEF KeepFiles
  <2>3. TruncateFile \/ FlushPart \/ FlushAll => \E f : files' = [files EXCEPT ![Len(files)] = f]
      BY Zenon DEF TruncateFile, FlushPart, FlushAll
  <2>4. AddFile => \E f : files' = Append(files, f)
      BY Zenon DEF AddFile
  <2>5. \A f : Len([files EXCEPT ![Len(files)] = f]) = Len(files)
      BY <1>1
  <2>6. \A f : Len(Append(files, f)) = Len(files) + 1
      BY <1>1
  <2>7. Reload \/ Len(files') = Len(files) \/ Len(files') = Len(files) + 1
      BY <2>1, <2>2, <2>3, <2>4, <2>5, <2>6, Zenon
  <2> QED
      BY <1>1, <2>7
<1>6. ASSUME ~\E n, k \in 0..MaxMsgs : DelExpiredFile(n, k)
      PROVE  ObsoleteOK'
  <2>1. Reload => obsolete' = 0
      BY <1>4, <1>6, Zenon DEF Reload
  <2>2. obsolete' \in Nat /\ (obsolete' = 0 \/ obsolete' <= Len(files') - ReservedFileCount)
      BY <1>1, <1>4, <1>5, <1>6, <2>1
  <2> QED
      BY <1>4, <1>6, <2>2, Zenon DEF ObsoleteOK
<1> QED
    BY <1>3, <1>6, Zenon

\* Initially there are no files.
LEMMA FilesInit == Init => FilesOK /\ Files
    BY DEF Init, FilesOK, Files

\* Every step leaves the list of pairs well formed.
LEMMA FilesStep ==
    ASSUME IInv, [Next]_vars
    PROVE  FilesOK' /\ Files'
<1>1. ListOK(files) /\ LastOK
    BY FilesByPair, Zenon DEF IInv
<1>2. /\ committedId \in Int /\ committedId >= -1 /\ writedId \in Int /\ committedId <= writedId
      /\ Len(files) \in Nat
    BY DEF IInv, NumbersOK, Ids, FilesOK
<1>3. ASSUME files # <<>>
      PROVE  PairOK(LastFile) /\ LastFile.begin \in Nat /\ LastFile.tail \in Nat /\ LastFile.ts \in Int
  <2>1. PairOK(LastFile)
      BY <1>1, <1>3 DEF ListOK, LastFile
  <2> QED
      BY <2>1, Zenon DEF PairOK, FilePairs
<1>4. SUFFICES ListOK(files)' /\ LastOK'
  <2>1. FilesOK' /\ Files' <=> ListOK(files)' /\ LastOK'
      BY FilesByPair, PTL
  <2> QED
      BY <2>1, Zenon
<1>5. CASE KeepFiles
    BY <1>1, <1>5, Zenon DEF KeepFiles, ListOK, LastOK, LastFile, PairOK
<1>6. CASE TruncateFile
  <2> DEFINE new == NewFilePair(committedId + 1, LastFile.ts, TRUE)
  <2>1. /\ files # <<>> /\ UNCHANGED committedId
        /\ files' = [files EXCEPT ![Len(files)] = new]
      BY <1>6, Zenon DEF TruncateFile
  <2>2. /\ PairOK(new) /\ new.begin = committedId + 1 /\ new.tail = committedId + 1 /\ new.onDfs = TRUE
    <3>1. committedId + 1 \in Nat /\ LastFile.ts \in Int
        BY <1>2, <1>3, <2>1
    <3> QED
        BY <3>1, NewPairOK, Zenon
  <2> HIDE DEF new
  <2>3. ListOK(files') /\ files' # <<>> /\ files'[Len(files')] = new
      BY <1>1, <2>1, <2>2, ReplaceLast, Zenon
  <2>4. committedId' + 1 <= new.tail /\ new.begin <= committedId' + 1
      BY <1>2, <2>1, <2>2
  <2>5. LastFile' = new
      BY <2>3, Zenon DEF LastFile
  <2> QED
      BY <2>2, <2>3, <2>4, <2>5, Zenon DEF LastOK
<1>7. CASE AddFile
  <2>1. PICK ts \in Int, opened \in BOOLEAN :
            /\ files' = Append(files, NewFilePair(committedId + 1, ts, opened))
            /\ outFile' = "open" => opened
      BY <1>7, Zenon DEF AddFile
  <2>2. files # <<>> => LastFile.begin < LastFile.tail
      BY <1>1, <1>2, <1>3, <1>7 DEF AddFile, LastOK
  <2>3. UNCHANGED committedId
      BY <1>7, Zenon DEF AddFile
  <2> DEFINE new == NewFilePair(committedId + 1, ts, opened)
  <2>4. PairOK(new) /\ new.begin = committedId + 1 /\ new.tail = committedId + 1 /\ new.onDfs = opened
    <3>1. committedId + 1 \in Nat
        BY <1>2
    <3> QED
        BY <3>1, NewPairOK, Zenon
  <2> HIDE DEF new
  <2>5. files' = Append(files, new)
      BY <2>1, Zenon DEF new
  <2>6. ListOK(files') /\ files' # <<>> /\ files'[Len(files')] = new
      BY <1>1, <2>2, <2>4, <2>5, AppendPair, Zenon DEF LastFile
  <2> QED
      BY <1>2, <2>1, <2>3, <2>4, <2>6 DEF LastOK, LastFile
<1>8. ASSUME NEW k \in Nat, k <= writedId - committedId, outFile = "open"
      PROVE  /\ files # <<>> /\ PairOK(Flushed(k)) /\ Flushed(k).onDfs
             /\ Flushed(k).begin = LastFile.begin /\ Flushed(k).tail = committedId + 1 + k
  <2>1. files # <<>> /\ LastFile.onDfs /\ LastFile.begin <= committedId + 1
      BY <1>1, <1>8, Zenon DEF LastOK
  <2>2. /\ Flushed(k) \in FilePairs
        /\ Flushed(k).msgs \in [LastFile.begin..(committedId + k) -> Msg]
        /\ Flushed(k).tail = committedId + 1 + k
        /\ Flushed(k).begin = LastFile.begin
        /\ Flushed(k).onDfs = LastFile.onDfs
      BY <1>8, <2>1, FlushedType, Zenon DEF IInv
  <2>3. Flushed(k).tail - 1 = committedId + k
      BY <1>2, <2>2
  <2>4. Flushed(k).begin <= Flushed(k).tail
      BY <1>2, <1>3, <2>1, <2>2
  <2> QED
      BY <2>1, <2>2, <2>3, <2>4, Zenon DEF PairOK
<1>9. CASE FlushPart
  <2>1. PICK k \in Nat : k <= writedId - committedId /\ files' = [files EXCEPT ![Len(files)] = Flushed(k)]
      BY <1>9, Zenon DEF FlushPart
  <2>2. outFile = "open" /\ UNCHANGED committedId
      BY <1>9, Zenon DEF FlushPart
  <2>a. files # <<>> /\ PairOK(Flushed(k))
      BY <1>8, <2>1, <2>2, Zenon
  <2>3. ListOK(files') /\ files' # <<>> /\ files'[Len(files')] = Flushed(k)
      BY <1>1, <2>1, <2>a, ReplaceLast, Zenon
  <2>4. Flushed(k).onDfs /\ Flushed(k).begin = LastFile.begin /\ Flushed(k).tail = committedId + 1 + k
        /\ LastFile.begin <= committedId + 1
      BY <1>1, <1>8, <2>1, <2>2, Zenon DEF LastOK
  <2> QED
      BY <1>2, <2>2, <2>3, <2>4 DEF LastOK, LastFile
<1>10. CASE FlushAll
  <2> DEFINE k == writedId - committedId
             new == [Flushed(k) EXCEPT !.end = writedId + 1]
  <2>1. k \in Nat /\ outFile = "open" /\ committedId' = writedId /\ committedId + 1 + k = writedId + 1
        /\ files' = [files EXCEPT ![Len(files)] = new]
      BY <1>2, <1>10 DEF FlushAll
  <2>2. files # <<>> /\ PairOK(Flushed(k)) /\ Flushed(k).onDfs /\ LastFile.begin <= committedId + 1
        /\ Flushed(k).begin = LastFile.begin /\ Flushed(k).tail = writedId + 1
      BY <1>1, <1>8, <2>1 DEF LastOK
  <2> HIDE DEF k
  <2>3. writedId + 1 \in Nat
      BY <1>2
  <2>4. PairOK(new) /\ new.onDfs = Flushed(k).onDfs /\ new.begin = Flushed(k).begin /\ new.tail = Flushed(k).tail
      BY <2>2, <2>3, Zenon DEF PairOK, FilePairs
  <2> HIDE DEF new
  <2>5. ListOK(files') /\ files' # <<>> /\ files'[Len(files')] = new
    <3>1. files' = [files EXCEPT ![Len(files)] = new] /\ files # <<>> /\ PairOK(new)
        BY <2>1, <2>2, <2>4, Zenon
    <3> QED
        BY <1>1, <3>1, ReplaceLast, Zenon
  <2>6. LastFile' = new /\ new.begin <= writedId + 1 /\ new.tail = writedId + 1 /\ new.onDfs
      BY <1>2, <1>3, <2>2, <2>4, <2>5 DEF LastFile
  <2> QED
      BY <1>2, <2>1, <2>3, <2>5, <2>6 DEF LastOK
<1>11. CASE DropFiles
  <2>1. PICK n \in Nat : n <= Len(files) - ReservedFileCount /\ files' = SubSeq(files, n + 1, Len(files))
      BY <1>11, Zenon DEF DropFiles
  <2>2. n < Len(files) /\ files # <<>>
      BY <1>2, <2>1, StorageAssumption
  <2>3. ListOK(files') /\ files' # <<>> /\ files'[Len(files')] = files[Len(files)]
      BY <1>1, <2>1, <2>2, DropPairs, Zenon
  <2> QED
      BY <1>1, <1>11, <2>2, <2>3, Zenon DEF DropFiles, LastOK, LastFile
<1>12. CASE Reload
  <2>1. outFile' = "closed" /\ files' = RecoveredFiles /\ committedId' = RecoveredId
      BY <1>12, Zenon DEF Reload
  <2>2. CASE Kept = 0
    <3>1. RecoveredFiles = <<>>
        BY <2>2 DEF RecoveredFiles
    <3>2. ListOK(<<>>)
        BY DEF ListOK
    <3> QED
        BY <2>1, <3>1, <3>2, Zenon DEF LastOK
  <2>3. CASE Kept # 0
    <3>1. Kept \in 1..Len(files) /\ files[Kept].begin < files[Kept].tail
        BY <2>3, KeptPairs DEF IInv
    <3>2. \A i \in 1..Kept : files[i].begin < files[i].tail
        BY <1>1, <1>2, <3>1 DEF ListOK
    <3>3. /\ ListOK(files') /\ files' # <<>> /\ Len(files') = Kept
          /\ files'[Kept].begin = files[Kept].begin /\ files'[Kept].tail = files[Kept].tail
        BY <1>1, <2>1, <3>1, <3>2, ReloadPairs
    <3>4. /\ files[Kept].begin \in Nat /\ RecoveredId \in Nat
          /\ files[Kept].begin <= RecoveredId /\ files[Kept].tail = RecoveredId + 1
        BY <2>3, <3>1, RecoveredIdBounds, FileFields, Zenon DEF IInv
    <3> QED
        BY <2>1, <3>3, <3>4 DEF LastOK, LastFile
  <2> QED
      BY <2>2, <2>3, Zenon
<1> QED
    BY <1>5, <1>6, <1>7, <1>9, <1>10, <1>11, <1>12, FileSteps, Zenon

-----------------------------------------------------------------------------
(***************************************************************************)
(* The theorems                                                            *)
(***************************************************************************)
\* The invariant holds in every reachable state.
THEOREM Invariance == Spec => []IInv
<1>1. Init => IInv
  <2>1. Init => ObsoleteOK
      BY DEF Init, ObsoleteOK
  <2> QED
      BY <2>1, CountsInit, MessagesInit, FilesInit, Zenon DEF IInv, Counts
<1>2. IInv /\ [Next]_vars => IInv'
    BY CountsStep, MessagesStep, FilesStep, ObsoleteStep, Zenon DEF IInv, Counts
<1> QED
    BY <1>1, <1>2, PTL DEF Spec

\* The state of the storage is always of its type: the queue and the commit
\* buffer hold messages for exactly the ids first..last and
\* committedId+1..writedId, and a meta file for exactly the ids it lists.
THEOREM TypeCorrect == Spec => []TypeOK
<1>1. IInv => obsolete \in 0..Len(files)
    BY StorageAssumption DEF IInv, FilesOK, ObsoleteOK
<1>2. IInv => TypeOK
    BY <1>1, Zenon DEF IInv, NumbersOK, MessagesOK, FilesOK, TypeOK
<1> QED
    BY <1>2, Invariance, PTL

\* recycleBuffer and tryRecycleFast never take a message the committer has not
\* committed, whatever the sizes of the queue, of batches and of blocks.
THEOREM NothingRecycledEarly == Spec => []UncommittedInMemory
<1>1. IInv => UncommittedInMemory
    BY DEF IInv, NumbersOK, MessagesOK, Ids, UncommittedInMemory, LastReceivedMsgId, MemEmpty
<1> QED
    BY <1>1, Invariance, PTL

\* _committedIndex always counts the committed messages of the queue, so a view
\* of committed messages never shows one that is not.
THEOREM CommittedIndexCorrect == Spec => []CommittedIndexAgrees
<1>1. IInv => CommittedIndexAgrees
    BY Zenon DEF IInv
<1> QED
    BY <1>1, Invariance, PTL
-----------------------------------------------------------------------------
(***************************************************************************)
(* Durability: what the committer calls committed is on dfs and stays      *)
(* there, with at least two reserved files.  With one, expiry may delete   *)
(* the last file that holds a message while the newest is still empty.     *)
(* The inductive invariant carries along as such that an id has a pair:    *)
(* every step says which pair holds it next.                               *)
(***************************************************************************)
\* Pair i is where getFilePairById finds id, and holds it.
Holds(fs, i, id) ==
    /\ fs[i].begin <= id /\ id < fs[i].end
    /\ i < Len(fs) => fs[i + 1].begin > id

Covered(fs, c) == \A id \in fs[1].begin..c : \E i \in 1..Len(fs) : Holds(fs, i, id)

\* Pairs are in the order of their ids, no id is between them, and a pair
\* ends, as far as the broker knows, at or before its meta file does.
OrderOK(fs) ==
    /\ \A i, j \in 1..Len(fs) : i < j => fs[i].begin < fs[j].begin
    /\ \A i \in 1..Len(fs) : fs[i].begin <= fs[i].end /\ fs[i].end <= fs[i].tail
    /\ \A i \in 1..Len(fs) : i < Len(fs) => fs[i + 1].begin <= fs[i].end

Durable ==
    /\ OrderOK(files)
    /\ files = <<>> => committedId = -1
    /\ files # <<>> =>
          /\ LastFile.end = committedId + 1
          /\ Covered(files, committedId)
          /\ committedId >= 0 => files[1].begin <= committedId

-----------------------------------------------------------------------------
(***************************************************************************)
(* Lemmas about lists of pairs                                             *)
(***************************************************************************)
\* The fields of a pair of a well-formed list.
LEMMA ListFields ==
    ASSUME NEW fs, ListOK(fs)
    PROVE  /\ Len(fs) \in Nat
           /\ fs # <<>> => Len(fs) \in 1..Len(fs) /\ 1 \in 1..Len(fs)
           /\ \A i \in 1..Len(fs) : /\ fs[i].begin \in Nat /\ fs[i].tail \in Nat
                                    /\ fs[i].end \in Nat /\ fs[i].ts \in Int
<1>1. fs \in Seq(FilePairs)
    BY Zenon DEF ListOK
<1>2. \A i \in 1..Len(fs) : fs[i] \in FilePairs
    BY <1>1
<1> QED
    BY <1>1, <1>2 DEF FilePairs

\* When the last pair is written again from its begin, or further, the ids it
\* held and those written since are held.
LEMMA ReplaceLastCovers ==
    ASSUME NEW fs, ListOK(fs), OrderOK(fs), fs # <<>>, NEW f, PairOK(f),
           NEW c \in Int, NEW d \in Int, c <= d, Covered(fs, c),
           f.begin = fs[Len(fs)].begin, f.begin <= c + 1, f.end = d + 1, f.end <= f.tail
    PROVE  LET new == [fs EXCEPT ![Len(fs)] = f]
           IN  OrderOK(new) /\ Covered(new, d) /\ new[1].begin = fs[1].begin
<1> DEFINE new == [fs EXCEPT ![Len(fs)] = f]
           n == Len(fs)
<1>1. n \in Nat /\ n > 0 /\ fs \in Seq(FilePairs)
    BY ListFields DEF ListOK
<1>2. Len(new) = n /\ new[n] = f /\ \A i \in 1..n : i < n => new[i] = fs[i]
    BY <1>1
<1>3. f.begin \in Nat /\ f.end \in Nat /\ f.tail \in Nat
    BY Zenon DEF PairOK, FilePairs
<1>4. \A i \in 1..n : fs[i].begin \in Nat /\ fs[i].tail \in Nat /\ fs[i].end \in Nat
    BY ListFields, Zenon
<1>5. \A i \in 1..n : new[i].begin = fs[i].begin
    BY <1>1, <1>2
<1> HIDE DEF new, n
<1>6. OrderOK(new)
  <2>1. \A i, j \in 1..n : i < j => new[i].begin < new[j].begin
      BY <1>5, Zenon DEF OrderOK, n
  <2>2. \A i \in 1..n : new[i].begin <= new[i].end /\ new[i].end <= new[i].tail
      BY <1>1, <1>2, <1>3 DEF OrderOK, n
  <2>3. ASSUME NEW i \in 1..n, i < n PROVE new[i + 1].begin <= new[i].end
    <3>1. i + 1 \in 1..n /\ new[i] = fs[i] /\ fs[i + 1].begin <= fs[i].end
        BY <1>1, <1>2, <2>3 DEF OrderOK, n
    <3> QED
        BY <1>5, <3>1, Zenon
  <2> QED
      BY <1>2, <2>1, <2>2, <2>3, Zenon DEF OrderOK
<1>7. ASSUME NEW id \in new[1].begin..d PROVE \E i \in 1..n : Holds(new, i, id)
  <2>1. CASE id <= c
    <3>1. id \in fs[1].begin..c
        BY <1>1, <1>4, <1>5, <2>1
    <3>2. PICK i \in 1..n : Holds(fs, i, id)
        BY <3>1, Zenon DEF Covered, n
    <3>3. CASE i = n
        BY <1>1, <1>2, <1>3, <2>1, <3>2, <3>3 DEF Holds, n
    <3>4. CASE i < n
      <4>1. i + 1 \in 1..n
          BY <1>1, <3>4
      <4> QED
          BY <1>1, <1>2, <1>5, <3>2, <3>4, <4>1, Zenon DEF Holds, n
    <3> QED
        BY <1>1, <3>3, <3>4
  <2>2. CASE id > c
      BY <1>1, <1>2, <1>3, <1>4, <2>2 DEF Holds, n
  <2> QED
      BY <1>1, <1>4, <1>5, <2>1, <2>2
<1>8. Covered(new, d)
    BY <1>2, <1>7, Zenon DEF Covered
<1>9. new[1].begin = fs[1].begin
    BY <1>1, <1>5
<1> QED
    BY <1>6, <1>8, <1>9, Zenon DEF new

\* A pair added behind the last one begins where that one ends.
LEMMA AppendCovers ==
    ASSUME NEW fs, ListOK(fs), OrderOK(fs), fs # <<>>, NEW f, PairOK(f),
           NEW c \in Int, Covered(fs, c), fs[Len(fs)].end = c + 1, fs[Len(fs)].begin < c + 1,
           f.begin = c + 1, f.end = c + 1, f.tail = c + 1
    PROVE  LET new == Append(fs, f)
           IN  OrderOK(new) /\ Covered(new, c) /\ new[1].begin = fs[1].begin
<1> DEFINE new == Append(fs, f)
           n == Len(fs)
<1>1. n \in Nat /\ n > 0 /\ fs \in Seq(FilePairs)
    BY ListFields DEF ListOK
<1>2. Len(new) = n + 1 /\ new[n + 1] = f /\ \A i \in 1..n : new[i] = fs[i]
    BY <1>1
<1>4. \A i \in 1..n : fs[i].begin \in Nat /\ fs[i].tail \in Nat /\ fs[i].end \in Nat
    BY ListFields, Zenon
<1>5. \A i \in 1..n : fs[i].begin < c + 1
  <2>1. n \in 1..n /\ \A i \in 1..n : i < n => fs[i].begin < fs[n].begin
      BY <1>1 DEF OrderOK
  <2> QED
      BY <1>1, <1>4, <2>1
<1> HIDE DEF new, n
<1>6. OrderOK(new)
  <2>1. ASSUME NEW i \in 1..(n + 1), NEW j \in 1..(n + 1), i < j PROVE new[i].begin < new[j].begin
    <3>1. CASE j = n + 1
        BY <1>1, <1>2, <1>5, <2>1, <3>1
    <3>2. CASE j # n + 1
      <4>1. i \in 1..n /\ j \in 1..n
          BY <1>1, <2>1, <3>2
      <4> QED
          BY <1>2, <2>1, <4>1, Zenon DEF OrderOK, n
    <3> QED
        BY <3>1, <3>2, Zenon
  <2>2. \A i \in 1..(n + 1) : new[i].begin <= new[i].end /\ new[i].end <= new[i].tail
      BY <1>1, <1>2 DEF OrderOK, n
  <2>3. ASSUME NEW i \in 1..(n + 1), i < n + 1 PROVE new[i + 1].begin <= new[i].end
    <3>1. CASE i = n
        BY <1>1, <1>2, <3>1 DEF n
    <3>2. CASE i < n
      <4>1. i \in 1..n /\ i + 1 \in 1..n
          BY <1>1, <2>3, <3>2
      <4> QED
          BY <1>2, <3>2, <4>1, Zenon DEF OrderOK, n
    <3> QED
        BY <1>1, <2>3, <3>1, <3>2
  <2> QED
      BY <1>2, <2>1, <2>2, <2>3, Zenon DEF OrderOK
<1>7. ASSUME NEW id \in new[1].begin..c PROVE \E i \in 1..(n + 1) : Holds(new, i, id)
  <2>1. id \in fs[1].begin..c /\ id < c + 1
      BY <1>1, <1>2, <1>4
  <2>2. PICK i \in 1..n : Holds(fs, i, id)
      BY <2>1, Zenon DEF Covered, n
  <2>3. i \in 1..(n + 1) /\ i + 1 \in 1..(n + 1)
      BY <1>1
  <2>4. Holds(new, i, id)
    <3>1. CASE i = n
        BY <1>1, <1>2, <2>1, <2>2, <3>1, Zenon DEF Holds, n
    <3>2. CASE i < n
      <4>1. i + 1 \in 1..n
          BY <1>1, <3>2
      <4> QED
          BY <1>2, <2>2, <3>2, <4>1, Zenon DEF Holds, n
    <3> QED
        BY <1>1, <3>1, <3>2
  <2> QED
      BY <2>3, <2>4, Zenon
<1>8. Covered(new, c)
    BY <1>2, <1>7, Zenon DEF Covered
<1>9. new[1].begin = fs[1].begin
    BY <1>1, <1>2
<1> QED
    BY <1>6, <1>8, <1>9, Zenon DEF new

\* The pairs that stay when others are dropped at the front hold what they held.
LEMMA DropCovers ==
    ASSUME NEW fs, ListOK(fs), OrderOK(fs), NEW n \in Nat, n < Len(fs),
           NEW c \in Int, Covered(fs, c)
    PROVE  LET new == SubSeq(fs, n + 1, Len(fs))
           IN  OrderOK(new) /\ Covered(new, c) /\ new[1].begin = fs[n + 1].begin
<1> DEFINE new == SubSeq(fs, n + 1, Len(fs))
           m == Len(fs)
<1>1. m \in Nat /\ m > 0
    BY ListFields
<1>2. Len(new) = m - n /\ \A i \in 1..(m - n) : new[i] = fs[i + n]
    BY DropPairs, Zenon
<1>3. \A i \in 1..(m - n) : i + n \in 1..m
    BY <1>1
<1>4. \A i \in 1..m : fs[i].begin \in Nat /\ fs[i].tail \in Nat /\ fs[i].end \in Nat
    BY ListFields, Zenon
<1> HIDE DEF new, m
<1>5. new[1] = fs[n + 1]
    BY <1>1, <1>2 DEF m
<1>6. OrderOK(new)
  <2>1. ASSUME NEW i \in 1..(m - n), NEW j \in 1..(m - n), i < j PROVE new[i].begin < new[j].begin
    <3>1. i + n \in 1..m /\ j + n \in 1..m /\ i + n < j + n
        BY <1>3, <2>1
    <3> QED
        BY <1>2, <3>1, Zenon DEF OrderOK, m
  <2>2. \A i \in 1..(m - n) : new[i].begin <= new[i].end /\ new[i].end <= new[i].tail
      BY <1>2, <1>3, Zenon DEF OrderOK, m
  <2>3. ASSUME NEW i \in 1..(m - n), i < m - n PROVE new[i + 1].begin <= new[i].end
    <3>1. i + n \in 1..m /\ i + n < m /\ i + 1 \in 1..(m - n) /\ (i + 1) + n = (i + n) + 1
        BY <1>1, <1>3, <2>3
    <3>2. fs[(i + n) + 1].begin <= fs[i + n].end
        BY <3>1, Zenon DEF OrderOK, m
    <3> QED
        BY <1>2, <3>1, <3>2, Zenon
  <2> QED
      BY <1>2, <2>1, <2>2, <2>3, Zenon DEF OrderOK
<1>7. ASSUME NEW id \in new[1].begin..c PROVE \E i \in 1..(m - n) : Holds(new, i, id)
  <2>1. n + 1 \in 1..m /\ 1 \in 1..m /\ fs[1].begin <= fs[n + 1].begin
      BY <1>1, <1>4 DEF OrderOK, m
  <2>2. id \in fs[1].begin..c /\ fs[n + 1].begin <= id
      BY <1>4, <1>5, <2>1
  <2>3. PICK i \in 1..m : Holds(fs, i, id)
      BY <2>2, Zenon DEF Covered, m
  <2>4. i > n
    <3>1. SUFFICES ASSUME i <= n PROVE FALSE
        BY <1>1
    <3>2. i < m /\ i + 1 \in 1..m /\ fs[i + 1].begin > id
        BY <1>1, <2>1, <2>3, <3>1 DEF Holds, m
    <3>3. fs[i + 1].begin <= fs[n + 1].begin
        BY <1>4, <2>1, <3>1, <3>2 DEF OrderOK, m
    <3> QED
        BY <1>4, <2>1, <2>2, <3>2, <3>3
  <2>5. i - n \in 1..(m - n) /\ new[i - n] = fs[i]
      BY <1>1, <1>2, <2>4
  <2>6. i < m => i - n + 1 \in 1..(m - n) /\ new[i - n + 1] = fs[i + 1]
      BY <1>1, <1>2, <2>4
  <2>7. Holds(new, i - n, id)
      BY <1>1, <1>2, <2>3, <2>5, <2>6 DEF Holds, m
  <2> QED
      BY <2>5, <2>7, Zenon
<1>8. Covered(new, c)
    BY <1>2, <1>7, Zenon DEF Covered
<1> QED
    BY <1>5, <1>6, <1>8, Zenon DEF new

\* A load that keeps no pair comes before the first committed message.
LEMMA NothingKept ==
    ASSUME IInv, Durable, Kept = 0
    PROVE  committedId = -1 /\ (files # <<>> => files[1].begin = 0)
<1>1. CASE files = <<>>
    BY <1>1, Zenon DEF Durable
<1>2. CASE files # <<>>
  <2>1. ListOK(files) /\ LastOK /\ committedId \in Int /\ committedId >= -1
      BY FilesByPair DEF IInv, NumbersOK, Ids
  <2>2. /\ Len(files) \in Nat /\ Len(files) \in 1..Len(files)
        /\ files[Len(files)].begin \in Nat /\ files[Len(files)].tail \in Nat
      BY <1>2, <2>1, ListFields, Zenon
  <2>3. Len(files) = 1 /\ LastFile.begin = LastFile.tail
      BY <2>2, KeptPairs DEF IInv
  <2>4. files[1].begin = committedId + 1
      BY <1>2, <2>1, <2>2, <2>3 DEF LastOK, LastFile
  <2>5. committedId >= 0 => files[1].begin <= committedId
      BY <1>2, Zenon DEF Durable
  <2> QED
      BY <2>1, <2>4, <2>5
<1> QED
    BY <1>1, <1>2, Zenon

\* A load finds every message that was committed: the pairs it keeps hold the
\* ids up to the recovered one, which is not before the committed one.
LEMMA ReloadCovers ==
    ASSUME IInv, Durable, Kept # 0
    PROVE  /\ OrderOK(RecoveredFiles) /\ Covered(RecoveredFiles, RecoveredId)
           /\ RecoveredFiles # <<>> /\ RecoveredFiles[Len(RecoveredFiles)].end = RecoveredId + 1
           /\ RecoveredFiles[1].begin <= RecoveredId
           /\ committedId <= RecoveredId
<1> DEFINE new == RecoveredFiles
           m == Len(files)
<1>1. ListOK(files) /\ LastOK /\ OrderOK(files) /\ m \in Nat /\ committedId \in Int
    BY FilesByPair, ListFields, Zenon DEF IInv, Durable, NumbersOK
<1>2. \A i \in 1..m : /\ files[i].begin \in Nat /\ files[i].tail \in Nat /\ files[i].end \in Nat
                      /\ files[i].begin <= files[i].end /\ files[i].end <= files[i].tail
    BY <1>1, ListFields, Zenon DEF OrderOK
<1>3. Kept \in 1..m /\ Kept \in Nat /\ (Kept = m \/ Kept = m - 1)
      /\ (Kept < m => LastFile.begin = LastFile.tail)
    BY <1>1, KeptPairs DEF IInv
<1>4. RecoveredId \in Nat /\ files[Kept].tail = RecoveredId + 1 /\ files[Kept].begin <= RecoveredId
    BY RecoveredIdBounds, Zenon DEF IInv
<1>5. files # <<>> /\ LastFile = files[m] /\ m \in 1..m
    BY <1>1, <1>3 DEF LastFile
<1>6. files[m].end = committedId + 1 /\ Covered(files, committedId)
      /\ files[m].begin <= committedId + 1 /\ committedId + 1 <= files[m].tail
    BY <1>1, <1>5, Zenon DEF Durable, LastOK
<1>7. \A i \in 1..Kept : files[i].begin < files[i].tail
  <2>1. \A i \in 1..m : i < m => files[i].begin < files[i].tail
      BY <1>1, Zenon DEF ListOK
  <2> QED
      BY <1>1, <1>2, <1>3, <1>4, <2>1
<1>8. /\ new # <<>> /\ Len(new) = Kept
      /\ \A i \in 1..Kept : /\ new[i].begin = files[i].begin /\ new[i].tail = files[i].tail
                            /\ new[i].end = IF i = Kept THEN files[i].tail
                                            ELSE Minimum(files[i].tail, files[i + 1].begin)
    BY <1>1, <1>3, <1>7, ReloadPairs, Zenon
<1> HIDE DEF new, m
\* The kept pairs reach past the committed id.
<1>9. committedId <= RecoveredId /\ files[Kept].begin <= committedId + 1
  <2>1. CASE Kept = m
      BY <1>1, <1>4, <1>6, <2>1
  <2>2. CASE Kept = m - 1
    <3>1. Kept < m /\ Kept + 1 = m /\ files[m].begin <= files[Kept].end /\ files[Kept].begin < files[m].begin
        BY <1>1, <1>3, <1>5, <2>2 DEF OrderOK, m
    <3>2. files[m].begin = committedId + 1
        BY <1>1, <1>2, <1>3, <1>5, <1>6, <3>1
    <3> QED
        BY <1>1, <1>2, <1>3, <1>4, <3>1, <3>2
  <2> QED
      BY <1>3, <2>1, <2>2, Zenon
<1>10. ASSUME NEW i \in 1..Kept, i # Kept
       PROVE  /\ i \in 1..m /\ i + 1 \in 1..m /\ i + 1 \in 1..Kept
              /\ files[i].begin < files[i + 1].begin /\ files[i + 1].begin <= files[i].end
              /\ new[i].end = files[i + 1].begin
  <2>1. i \in 1..m /\ i + 1 \in 1..m /\ i + 1 \in 1..Kept /\ i < m
      BY <1>1, <1>3, <1>10
  <2>2. files[i].begin < files[i + 1].begin /\ files[i + 1].begin <= files[i].end
      BY <1>1, <2>1 DEF OrderOK, m
  <2>3. new[i].end = Minimum(files[i].tail, files[i + 1].begin)
      BY <1>8, <1>10, Zenon
  <2> QED
      BY <1>2, <2>1, <2>2, <2>3 DEF Minimum
<1>11. OrderOK(new)
  <2>1. ASSUME NEW i \in 1..Kept, NEW j \in 1..Kept, i < j PROVE new[i].begin < new[j].begin
    <3>1. i \in 1..m /\ j \in 1..m
        BY <1>1, <1>3
    <3> QED
        BY <1>1, <1>8, <2>1, <3>1, Zenon DEF OrderOK, m
  <2>2. ASSUME NEW i \in 1..Kept
        PROVE  /\ new[i].begin <= new[i].end /\ new[i].end <= new[i].tail
               /\ i < Kept => new[i + 1].begin <= new[i].end
    <3>1. CASE i = Kept
      <4>1. new[i].end = files[i].tail /\ files[i].begin < files[i].tail /\ i \in 1..m
          BY <1>3, <1>7, <1>8, <3>1, Zenon
      <4> QED
          BY <1>2, <1>3, <1>8, <3>1, <4>1
    <3>2. CASE i # Kept
        BY <1>2, <1>8, <1>10, <3>2
    <3> QED
        BY <3>1, <3>2, Zenon
  <2> QED
      BY <1>8, <2>1, <2>2, Zenon DEF OrderOK
<1>12. ASSUME NEW id \in new[1].begin..RecoveredId PROVE \E i \in 1..Kept : Holds(new, i, id)
  <2>1. 1 \in 1..Kept /\ 1 \in 1..m /\ new[1].begin = files[1].begin /\ id \in Int
    <3>1. 1 \in 1..Kept /\ 1 \in 1..m
        BY <1>1, <1>3
    <3>2. new[1].begin = files[1].begin /\ files[1].begin \in Nat
        BY <1>2, <1>8, <3>1, Zenon
    <3> QED
        BY <1>4, <3>1, <3>2
  <2>2. CASE files[Kept].begin <= id
    <3>1. new[Kept].begin <= id /\ id < new[Kept].end
        BY <1>3, <1>4, <1>8, <2>1, <2>2
    <3>2. Holds(new, Kept, id)
        BY <1>3, <1>8, <3>1 DEF Holds
    <3> QED
        BY <1>3, <3>2
  <2>3. CASE id < files[Kept].begin
    <3>1. id \in files[1].begin..committedId
        BY <1>1, <1>2, <1>3, <1>9, <2>1, <2>3
    <3>2. PICK i \in 1..m : Holds(files, i, id)
        BY <1>6, <3>1, Zenon DEF Covered, m
    <3>3. i < Kept
      <4>1. SUFFICES ASSUME i >= Kept PROVE FALSE
          BY <1>1, <1>3
      <4>2. files[Kept].begin <= files[i].begin
          BY <1>1, <1>2, <1>3, <4>1 DEF OrderOK, m
      <4> QED
          BY <1>2, <1>3, <2>1, <2>3, <3>2, <4>2 DEF Holds
    <3>4. i \in 1..Kept /\ i # Kept /\ i < m
        BY <1>1, <1>3, <3>3
    <3>5. files[i].begin <= id /\ id < files[i + 1].begin
        BY <1>2, <1>10, <2>1, <3>2, <3>4, Zenon DEF Holds, m
    <3>6. Holds(new, i, id)
        BY <1>8, <1>10, <3>4, <3>5, Zenon DEF Holds
    <3> QED
        BY <3>4, <3>6, Zenon
  <2> QED
      BY <1>2, <1>3, <2>1, <2>2, <2>3
<1>13. Covered(new, RecoveredId)
    BY <1>8, <1>12, Zenon DEF Covered
<1>14. new[1].begin <= RecoveredId /\ new[Len(new)].end = RecoveredId + 1
  <2>1. 1 \in 1..m /\ 1 \in 1..Kept /\ new[1].begin = files[1].begin /\ files[1].begin <= files[Kept].begin
    <3>1. 1 \in 1..m /\ 1 \in 1..Kept /\ (Kept = 1 \/ 1 < Kept)
        BY <1>1, <1>3
    <3>2. 1 < Kept => files[1].begin < files[Kept].begin
        BY <1>1, <1>3, <3>1, Zenon DEF OrderOK, m
    <3> QED
        BY <1>2, <1>3, <1>8, <3>1, <3>2
  <2>2. new[Kept].end = files[Kept].tail
      BY <1>3, <1>8
  <2> QED
      BY <1>2, <1>3, <1>4, <1>8, <2>1, <2>2
<1> QED
    BY <1>8, <1>9, <1>11, <1>13, <1>14, Zenon DEF new

-----------------------------------------------------------------------------
(***************************************************************************)
(* The invariant is inductive                                              *)
(***************************************************************************)
\* Every step of the storage keeps what is committed on dfs.
LEMMA DurableStep ==
    ASSUME ReservedFileCount >= 2, IInv, Durable, [Next]_vars
    PROVE  Durable' /\ committedId' >= committedId
<1> DEFINE m == Len(files)
<1>1. ListOK(files) /\ LastOK /\ OrderOK(files)
    BY FilesByPair, Zenon DEF IInv, Durable
<1>2. /\ committedId \in Int /\ committedId >= -1 /\ writedId \in Int /\ committedId <= writedId
      /\ m \in Nat
    BY DEF IInv, NumbersOK, Ids, FilesOK
<1>3. \A i \in 1..m : /\ files[i].begin \in Nat /\ files[i].tail \in Nat
                      /\ files[i].end \in Nat /\ files[i].ts \in Int
    BY <1>1, ListFields, Zenon
<1>4. ASSUME files # <<>>
      PROVE  /\ m \in 1..m /\ 1 \in 1..m /\ LastFile = files[m]
             /\ files[m].end = committedId + 1 /\ Covered(files, committedId)
             /\ files[m].begin <= committedId + 1 /\ committedId + 1 <= files[m].tail
             /\ files[1].begin <= files[m].begin
             /\ committedId >= 0 => files[1].begin <= committedId
  <2>1. m \in 1..m /\ 1 \in 1..m /\ LastFile = files[m]
      BY <1>1, <1>4, ListFields, Zenon DEF LastFile
  <2>2. files[1].begin <= files[m].begin
      BY <1>1, <1>3, <2>1 DEF OrderOK
  <2> QED
      BY <1>1, <1>4, <2>1, <2>2, Zenon DEF LastOK, Durable
<1>5. CASE KeepFiles
    BY <1>2, <1>5 DEF KeepFiles, Durable, LastFile, OrderOK, Covered, Holds
\* The last pair is put back with the same begin.
<1>6. ASSUME files # <<>>, NEW f, PairOK(f), NEW d \in Int, committedId <= d,
             files' = [files EXCEPT ![m] = f], committedId' = d,
             f.begin = files[m].begin, f.end = d + 1, f.end <= f.tail
      PROVE  Durable' /\ committedId' >= committedId
  <2>1. OrderOK(files') /\ Covered(files', d) /\ files'[1].begin = files[1].begin
      BY <1>1, <1>2, <1>4, <1>6, ReplaceLastCovers, Zenon
  <2>2. files' # <<>> /\ files'[Len(files')] = f
      BY <1>1, <1>6, ReplaceLast
  <2>3. d >= 0 => files'[1].begin <= d
      BY <1>2, <1>3, <1>4, <1>6, <2>1
  <2> QED
      BY <1>2, <1>6, <2>1, <2>2, <2>3, Zenon DEF Durable, LastFile
<1>7. CASE TruncateFile
  <2> DEFINE new == NewFilePair(committedId + 1, LastFile.ts, TRUE)
  <2>1. /\ files # <<>> /\ UNCHANGED committedId /\ files[m].begin = committedId + 1
        /\ files' = [files EXCEPT ![m] = new]
      BY <1>4, <1>7, Zenon DEF TruncateFile
  <2>2. PairOK(new)
    <3>1. committedId + 1 \in Nat /\ LastFile.ts \in Int
        BY <1>2, <1>3, <1>4, <2>1, Zenon
    <3> QED
        BY <3>1, NewPairOK, Zenon
  <2>3. new.begin = committedId + 1 /\ new.tail = committedId + 1 /\ new.end = committedId + 1
      BY Zenon DEF NewFilePair
  <2> HIDE DEF new
  <2>9. /\ committedId \in Int /\ committedId <= committedId /\ new.begin = files[m].begin
        /\ new.end <= new.tail /\ committedId' = committedId
      BY <1>2, <2>1, <2>3
  <2> QED
      BY <1>6, <2>1, <2>2, <2>3, <2>9, Zenon
<1>8. CASE AddFile
  <2>1. PICK ts \in Int, opened \in BOOLEAN :
            files' = Append(files, NewFilePair(committedId + 1, ts, opened))
      BY <1>8, Zenon DEF AddFile
  <2> DEFINE new == NewFilePair(committedId + 1, ts, opened)
  <2>2. PairOK(new)
      BY <1>2, NewPairOK
  <2>3. new.begin = committedId + 1 /\ new.tail = committedId + 1 /\ new.end = committedId + 1
      BY Zenon DEF NewFilePair
  <2>4. UNCHANGED committedId
      BY <1>8, Zenon DEF AddFile
  <2>5. files # <<>> => files[m].begin < committedId + 1 /\ files[m].begin < files[m].tail
      BY <1>2, <1>3, <1>4, <1>8 DEF AddFile
  <2>6. files' # <<>> /\ files'[Len(files')] = new /\ Len(files') = m + 1
      BY <1>1, <2>1, <2>2, <2>5, AppendPair, Zenon
  <2> HIDE DEF new
  <2>7. CASE files # <<>>
    <3>1. OrderOK(files') /\ Covered(files', committedId) /\ files'[1].begin = files[1].begin
        BY <1>1, <1>2, <1>4, <2>1, <2>2, <2>3, <2>5, <2>7, AppendCovers, Zenon DEF new
    <3> QED
        BY <1>2, <1>4, <2>3, <2>4, <2>6, <2>7, <3>1 DEF Durable, LastFile
  <2>8. CASE files = <<>>
    <3>1. committedId = -1 /\ Len(files') = 1 /\ files'[1] = new
        BY <2>6, <2>8 DEF Durable
    <3>2. OrderOK(files') /\ Covered(files', committedId)
        BY <2>3, <3>1 DEF OrderOK, Covered
    <3> QED
        BY <2>3, <2>4, <2>6, <3>1, <3>2 DEF Durable, LastFile
  <2> QED
      BY <2>7, <2>8, Zenon
<1>9. ASSUME NEW k \in Nat, k <= writedId - committedId, outFile = "open"
      PROVE  /\ files # <<>> /\ PairOK(Flushed(k))
             /\ Flushed(k).begin = files[m].begin /\ Flushed(k).tail = committedId + 1 + k
             /\ Flushed(k).end = files[m].end
  <2>1. files # <<>> /\ LastFile.onDfs /\ LastFile.begin <= committedId + 1
      BY <1>1, <1>9, Zenon DEF LastOK
  <2>2. /\ Flushed(k) \in FilePairs
        /\ Flushed(k).msgs \in [LastFile.begin..(committedId + k) -> Msg]
        /\ Flushed(k).tail = committedId + 1 + k
        /\ Flushed(k).begin = LastFile.begin
        /\ Flushed(k).onDfs = LastFile.onDfs
        /\ Flushed(k).end = LastFile.end
      BY <1>9, <2>1, FlushedType, Zenon DEF IInv
  <2>3. Flushed(k).tail - 1 = committedId + k /\ LastFile.begin \in Nat /\ LastFile = files[m]
      BY <1>2, <1>3, <1>4, <2>1, <2>2
  <2> QED
      BY <1>2, <2>1, <2>2, <2>3 DEF PairOK
<1>10. CASE FlushPart
  <2>1. PICK k \in Nat : k <= writedId - committedId /\ files' = [files EXCEPT ![m] = Flushed(k)]
      BY <1>10, Zenon DEF FlushPart
  <2>2. outFile = "open" /\ committedId' = committedId
      BY <1>10, Zenon DEF FlushPart
  <2>3. /\ files # <<>> /\ PairOK(Flushed(k))
        /\ Flushed(k).begin = files[m].begin /\ Flushed(k).end = committedId + 1
        /\ Flushed(k).end <= Flushed(k).tail
      BY <1>2, <1>4, <1>9, <2>1, <2>2
  <2>9. committedId \in Int /\ committedId <= committedId
      BY <1>2
  <2> QED
      BY <1>6, <2>1, <2>2, <2>3, <2>9, Zenon
<1>11. CASE FlushAll
  <2> DEFINE k == writedId - committedId
             new == [Flushed(k) EXCEPT !.end = writedId + 1]
  <2>1. k \in Nat /\ outFile = "open" /\ committedId' = writedId /\ committedId + 1 + k = writedId + 1
        /\ files' = [files EXCEPT ![m] = new] /\ writedId + 1 \in Nat
      BY <1>2, <1>11 DEF FlushAll
  <2>2. files # <<>> /\ PairOK(Flushed(k)) /\ Flushed(k).begin = files[m].begin /\ Flushed(k).tail = writedId + 1
      BY <1>9, <2>1
  <2> HIDE DEF k
  <2>3. PairOK(new) /\ new.begin = Flushed(k).begin /\ new.tail = Flushed(k).tail /\ new.end = writedId + 1
      BY <2>1, <2>2, Zenon DEF PairOK, FilePairs
  <2> HIDE DEF new
  <2>9. /\ writedId \in Int /\ committedId <= writedId /\ new.begin = files[m].begin
        /\ new.end <= new.tail
      BY <1>2, <2>1, <2>2, <2>3
  <2> QED
      BY <1>6, <2>1, <2>2, <2>3, <2>9, Zenon
<1>12. CASE DropFiles
  <2>1. PICK n \in Nat : n <= m - ReservedFileCount /\ files' = SubSeq(files, n + 1, m)
      BY <1>12, Zenon DEF DropFiles
  <2>2. n + 1 < m /\ files # <<>> /\ UNCHANGED committedId
      BY <1>2, <1>12, <2>1, StorageAssumption DEF DropFiles
  <2>a. n < m
      BY <1>2, <2>2
  <2>3. files' # <<>> /\ files'[Len(files')] = files[m]
      BY <1>1, <2>1, <2>a, DropPairs, Zenon
  <2>4. OrderOK(files') /\ Covered(files', committedId) /\ files'[1].begin = files[n + 1].begin
      BY <1>1, <1>2, <1>4, <2>1, <2>2, <2>a, DropCovers, Zenon
  <2>5. n + 1 \in 1..m /\ files[n + 1].begin < files[m].begin
      BY <1>1, <1>2, <1>4, <2>2 DEF OrderOK
  <2>6. files'[1].begin <= committedId
      BY <1>2, <1>3, <1>4, <2>2, <2>4, <2>5
  <2> QED
      BY <1>2, <1>4, <2>2, <2>3, <2>4, <2>6 DEF Durable, LastFile
<1>13. CASE Reload
  <2>1. files' = RecoveredFiles /\ committedId' = RecoveredId
      BY <1>13, Zenon DEF Reload
  <2>2. CASE Kept = 0
    <3>1. files' = <<>> /\ committedId' = -1
        BY <2>1, <2>2 DEF RecoveredFiles, RecoveredId
    <3>2. committedId = -1
        BY <2>2, NothingKept, Zenon
    <3> QED
        BY <3>1, <3>2 DEF Durable, OrderOK
  <2>3. CASE Kept # 0
    <3>1. /\ OrderOK(files') /\ Covered(files', committedId')
          /\ files' # <<>> /\ files'[Len(files')].end = committedId' + 1
          /\ files'[1].begin <= committedId' /\ committedId <= committedId'
        BY <2>1, <2>3, ReloadCovers, Zenon
    <3>2. committedId' \in Int
        BY <2>1, RecoveredIdBounds, Zenon DEF IInv
    <3> QED
        BY <1>2, <3>1, <3>2, Zenon DEF Durable, LastFile
  <2> QED
      BY <2>2, <2>3, Zenon
<1> QED
    BY <1>5, <1>7, <1>8, <1>10, <1>11, <1>12, <1>13, FileSteps, Zenon

-----------------------------------------------------------------------------
(***************************************************************************)
(* The theorems                                                            *)
(***************************************************************************)
\* The invariant says what the property says: the pair getFilePairById finds
\* for a committed id is the one that holds it.
LEMMA DurableIsDurable ==
    ASSUME ReservedFileCount >= 2
    PROVE  IInv /\ Durable => CommittedIsDurable
<1> SUFFICES ASSUME IInv, Durable PROVE CommittedIsDurable
    BY Zenon
<1>1. lastCommittedId <= committedId /\ committedId \in Int /\ ListOK(files) /\ OrderOK(files)
    BY FilesByPair, Zenon DEF IInv, Ids, NumbersOK, Durable
<1>2. /\ Len(files) \in Nat
      /\ \A i \in 1..Len(files) : files[i].begin \in Nat /\ files[i].tail \in Nat /\ files[i].end \in Nat
    BY <1>1, ListFields, Zenon
<1>3. ASSUME committedId >= 0
      PROVE  files # <<>> /\ files[1].begin <= committedId /\ Covered(files, committedId)
    BY <1>1, <1>3 DEF Durable
\* The first listed pair: at least one reserved pair follows it.
<1>a. ASSUME committedId >= 0
      PROVE  /\ obsolete + 1 \in 1..Len(files) /\ obsolete \in Nat
             /\ FirstListed.begin \in Nat /\ FirstListed = files[obsolete + 1]
             /\ files[1].begin <= FirstListed.begin /\ FirstListed.begin <= committedId
  <2>1. obsolete \in Nat /\ (obsolete = 0 \/ obsolete <= Len(files) - ReservedFileCount)
      BY Zenon DEF IInv, ObsoleteOK
  <2>2. Len(files) > 0 /\ LastOK /\ LastFile = files[Len(files)]
      BY <1>2, <1>3, <1>a, FilesByPair DEF IInv, LastFile
  <2>3. obsolete + 1 \in 1..Len(files) /\ FirstListed = files[obsolete + 1]
      BY <1>2, <2>1, <2>2, StorageAssumption DEF FirstListed
  <2>4. CASE obsolete = 0
      BY <1>2, <1>3, <1>a, <2>1, <2>3, <2>4
  <2>5. CASE obsolete # 0
    <3>1. /\ 1 \in 1..Len(files) /\ Len(files) \in 1..Len(files)
          /\ 1 < obsolete + 1 /\ obsolete + 1 < Len(files)
        BY <1>2, <2>1, <2>2, <2>5, StorageAssumption
    <3>2. /\ files[1].begin < files[obsolete + 1].begin
          /\ files[obsolete + 1].begin < files[Len(files)].begin
        BY <1>1, <2>3, <3>1, Zenon DEF OrderOK
    <3>3. files[Len(files)].begin <= committedId + 1
        BY <1>3, <1>a, <2>2, Zenon DEF LastOK
    <3>4. /\ files[1].begin \in Nat /\ files[obsolete + 1].begin \in Nat
          /\ files[Len(files)].begin \in Nat
        BY <1>2, <2>3, <3>1, Zenon
    <3> QED
        BY <1>1, <2>1, <2>3, <3>2, <3>3, <3>4
  <2> QED
      BY <2>4, <2>5, Zenon
<1>4. ASSUME committedId >= 0, NEW id \in FirstListed.begin..committedId
      PROVE  OnDisk(id) /\ id < files[FileOf(files, id)].tail
  <2>a. id \in files[1].begin..committedId /\ FirstListed.begin <= id
      BY <1>1, <1>2, <1>a, <1>4
  <2> DEFINE Found(i) == files[i].begin <= id /\ (i < Len(files) => files[i + 1].begin > id)
  <2>1. PICK i \in 1..Len(files) : Holds(files, i, id)
      BY <1>3, <1>4, <2>a, Zenon DEF Covered
  <2>2. OnDisk(id)
    <3>1. SUFFICES ASSUME i <= obsolete PROVE FALSE
      <4>1. i > obsolete => i \in Listed
          BY <1>2, <1>a, <1>4 DEF Listed
      <4>2. i <= obsolete \/ i > obsolete
          BY <1>a, <1>4
      <4> QED
          BY <2>1, <4>1, <4>2, Zenon DEF OnDisk, Holds
    <3>2. i + 1 \in 1..Len(files) /\ i < Len(files)
        BY <1>2, <1>a, <1>4, <3>1
    <3>3. files[i + 1].begin > id
        BY <2>1, <3>2, Zenon DEF Holds
    <3>4. files[i + 1].begin <= files[obsolete + 1].begin
        BY <1>1, <1>2, <1>a, <1>4, <3>1, <3>2 DEF OrderOK
    <3> QED
        BY <1>1, <1>2, <1>a, <1>4, <2>a, <3>2, <3>3, <3>4
  <2>3. FileOf(files, id) \in 1..Len(files) /\ Found(FileOf(files, id))
      BY <2>1, Zenon DEF FileOf, Holds
  <2>4. id \in Int
      BY <1>1, <1>2, <1>3, <1>4, <2>a
  <2>5. ASSUME NEW a \in 1..Len(files), NEW b \in 1..Len(files), Found(a), Found(b), a < b
        PROVE  FALSE
    <3>1. a < Len(files) /\ a + 1 \in 1..Len(files) /\ files[a + 1].begin > id
        BY <1>2, <2>5
    <3>2. files[a + 1].begin <= files[b].begin
        BY <1>1, <1>2, <2>5, <3>1 DEF OrderOK
    <3> QED
        BY <1>2, <2>4, <2>5, <3>1, <3>2
  <2>6. FileOf(files, id) = i
    <3>1. Found(i)
        BY <2>1, Zenon DEF Holds
    <3>2. PICK f \in 1..Len(files) : f = FileOf(files, id)
        BY <2>3, Zenon
    <3>3. f = i \/ f < i \/ i < f
        BY <1>2
    <3> QED
        BY <2>3, <2>5, <3>1, <3>2, <3>3, Zenon
  <2>7. files[i].end <= files[i].tail /\ id < files[i].end
      BY <1>1, <2>1, Zenon DEF OrderOK, Holds
  <2> QED
      BY <1>2, <2>2, <2>4, <2>6, <2>7
<1>5. committedId >= 0 => Listed # {}
    BY <1>2, <1>a DEF Listed
<1> QED
    BY <1>1, <1>a, <1>4, <1>5, Zenon DEF CommittedIsDurable

\* The invariant holds in every reachable state.
LEMMA DurableInvariance ==
    ASSUME ReservedFileCount >= 2
    PROVE  Spec => [](IInv /\ Durable)
<1>1. Init => Durable
    BY DEF Init, Durable, OrderOK
<1>2. IInv /\ Durable /\ [Next]_vars => Durable'
    BY DurableStep, Zenon
<1> QED
    BY <1>1, <1>2, Invariance, PTL DEF Spec

\* What the committer calls committed is on dfs, in the pair a reader will
\* look in, through failed flushes, reopened files, expiry, crashes and loads.
THEOREM CommittedDurable ==
    ASSUME ReservedFileCount >= 2
    PROVE  Spec => []CommittedIsDurable
    BY DurableInvariance, DurableIsDurable, PTL

\* The committed id never goes back, so a load after a crash finds every
\* message that any earlier load had committed.
THEOREM CommittedKept ==
    ASSUME ReservedFileCount >= 2
    PROVE  Spec => CommittedNeverLost
<1>1. IInv /\ Durable /\ [Next]_vars => [committedId' >= committedId]_vars
    BY DurableStep, Zenon
<1> QED
    BY <1>1, DurableInvariance, PTL DEF Spec, CommittedNeverLost
=============================================================================
