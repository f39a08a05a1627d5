-------------------------- MODULE PartitionLogProofs --------------------------
(***************************************************************************)
(* Proofs about what the storage of a partition (MessageBrain) holds, for  *)
(* every value of the constants with at least two reserved files: memory   *)
(* and dfs agree, a pair that is opened again is empty and rightly named,  *)
(* and the storage implements the abstract log (PartitionLog).             *)
(***************************************************************************)
EXTENDS MessageBrainProofs

-----------------------------------------------------------------------------
(***************************************************************************)
(* The inductive invariant.  A message of the memory queue may also be in  *)
(* a meta file that does not count it (after a failed flush), and become   *)
(* what a load finds when a later pair is truncated.  So agreement is      *)
(* stated for every message a load may ever show, not only for those the   *)
(* loaded partition would look for on dfs.                                 *)
(***************************************************************************)
\* A message of pair i that no committed message of the next pair hides.
MayShow(fs, i, id) ==
    i < Len(fs) /\ fs[i + 1].begin < fs[i + 1].end => id < fs[i + 1].begin

\* What may be shown of the pairs is what the queue q of ids lo..hi holds, or
\* is older than the queue.
Agrees(fs, q, lo, hi) ==
    \A i \in 1..Len(fs) : \A id \in fs[i].begin..(fs[i].tail - 1) :
        MayShow(fs, i, id) => id <= hi /\ (lo <= id => fs[i].msgs[id] = q[id])

Contents ==
    /\ outFile = "open" => LastFile.tail = committedId + 1
    /\ phase # "down" =>
          /\ \A id \in (committedId + 1)..writedId : buf[id] = mem[id]
          /\ Agrees(files, mem, first, last)
          /\ files # <<>> /\ LastFile.begin = committedId + 1 =>
                committedId + 1 <= last /\ LastFile.ts = mem[committedId + 1].ts

-----------------------------------------------------------------------------
(***************************************************************************)
(* Lemmas about agreement                                                  *)
(***************************************************************************)
\* Pairs agree with the queue after it has grown at the end or shrunk at the
\* front.
LEMMA QueueMoves ==
    ASSUME NEW fs, ListOK(fs), NEW q, NEW r, NEW lo \in Int, NEW hi \in Int,
           NEW lo2 \in Int, NEW hi2 \in Int, Agrees(fs, q, lo, hi),
           lo <= lo2, hi <= hi2, \A id \in lo2..hi : r[id] = q[id]
    PROVE  Agrees(fs, r, lo2, hi2)
<1> SUFFICES ASSUME NEW i \in 1..Len(fs), NEW id \in fs[i].begin..(fs[i].tail - 1), MayShow(fs, i, id)
             PROVE  id <= hi2 /\ (lo2 <= id => fs[i].msgs[id] = r[id])
    BY Zenon DEF Agrees
<1>1. id \in Int
    BY ListFields
<1>2. id <= hi /\ (lo <= id => fs[i].msgs[id] = q[id])
    BY Zenon DEF Agrees
<1>3. lo2 <= id => id \in lo2..hi
    BY <1>1, <1>2
<1> QED
    BY <1>1, <1>2, <1>3

\* Writing the last pair again keeps the agreement, when what it holds then
\* agrees.
LEMMA ReplaceLastAgrees ==
    ASSUME NEW fs, ListOK(fs), fs # <<>>, NEW f, PairOK(f), NEW q, NEW lo, NEW hi,
           Agrees(fs, q, lo, hi), f.begin = fs[Len(fs)].begin,
           fs[Len(fs)].begin < fs[Len(fs)].end => f.begin < f.end,
           \A id \in f.begin..(f.tail - 1) : id <= hi /\ (lo <= id => f.msgs[id] = q[id])
    PROVE  Agrees([fs EXCEPT ![Len(fs)] = f], q, lo, hi)
<1> DEFINE new == [fs EXCEPT ![Len(fs)] = f]
           n == Len(fs)
<1>1. n \in Nat /\ n > 0 /\ fs \in Seq(FilePairs)
    BY ListFields DEF ListOK
<1>2. Len(new) = n /\ new[n] = f /\ \A i \in 1..n : i < n => new[i] = fs[i]
    BY <1>1
<1> HIDE DEF new, n
<1>3. ASSUME NEW i \in 1..n, NEW id \in new[i].begin..(new[i].tail - 1), MayShow(new, i, id)
      PROVE  id <= hi /\ (lo <= id => new[i].msgs[id] = q[id])
  <2>1. CASE i = n
      BY <1>2, <2>1, Zenon
  <2>2. CASE i < n
    <3>1. i + 1 \in 1..n /\ (i + 1 = n \/ i + 1 < n) /\ new[i] = fs[i]
        BY <1>1, <1>2, <2>2
    <3>2. new[i + 1].begin = fs[i + 1].begin
          /\ (fs[i + 1].begin < fs[i + 1].end => new[i + 1].begin < new[i + 1].end)
        BY <1>2, <3>1, Zenon DEF n
    <3>3. MayShow(fs, i, id)
        BY <1>2, <1>3, <2>2, <3>2, Zenon DEF MayShow, n
    <3> QED
        BY <3>1, <3>3, Zenon DEF Agrees, n
  <2> QED
      BY <1>1, <2>1, <2>2
<1> QED
    BY <1>2, <1>3, Zenon DEF Agrees, new

\* A new pair is empty and hides nothing.
LEMMA AppendAgrees ==
    ASSUME NEW fs, ListOK(fs), NEW f, PairOK(f), NEW q, NEW lo, NEW hi,
           Agrees(fs, q, lo, hi), f.tail = f.begin, f.end = f.begin
    PROVE  Agrees(Append(fs, f), q, lo, hi)
<1> DEFINE new == Append(fs, f)
           n == Len(fs)
<1>1. n \in Nat /\ fs \in Seq(FilePairs) /\ f.begin \in Nat
    BY ListFields, Zenon DEF ListOK, PairOK, FilePairs
<1>2. Len(new) = n + 1 /\ new[n + 1] = f /\ \A i \in 1..n : new[i] = fs[i]
    BY <1>1
<1> HIDE DEF new, n
<1>3. ASSUME NEW i \in 1..(n + 1), NEW id \in new[i].begin..(new[i].tail - 1), MayShow(new, i, id)
      PROVE  id <= hi /\ (lo <= id => new[i].msgs[id] = q[id])
  <2>1. CASE i = n + 1
      BY <1>1, <1>2, <2>1
  <2>2. CASE i # n + 1
    <3>1. i \in 1..n /\ new[i] = fs[i]
        BY <1>1, <1>2, <2>2
    <3>2. i < n => i + 1 \in 1..n /\ i + 1 < n + 1
        BY <1>1, <3>1
    <3>3. MayShow(fs, i, id)
        BY <1>1, <1>2, <1>3, <3>1, <3>2 DEF MayShow, n
    <3> QED
        BY <3>1, <3>3, Zenon DEF Agrees, n
  <2> QED
      BY <2>1, <2>2, Zenon
<1> QED
    BY <1>2, <1>3, Zenon DEF Agrees, new

\* Pairs dropped at the front take nothing from the others.
LEMMA DropAgrees ==
    ASSUME NEW fs, ListOK(fs), NEW n \in Nat, n < Len(fs), NEW q, NEW lo, NEW hi,
           Agrees(fs, q, lo, hi)
    PROVE  Agrees(SubSeq(fs, n + 1, Len(fs)), q, lo, hi)
<1> DEFINE new == SubSeq(fs, n + 1, Len(fs))
           m == Len(fs)
<1>1. m \in Nat
    BY ListFields, Zenon
<1>2. Len(new) = m - n /\ \A i \in 1..(m - n) : new[i] = fs[i + n]
    BY DropPairs, Zenon
<1> HIDE DEF new, m
<1>3. ASSUME NEW i \in 1..(m - n), NEW id \in new[i].begin..(new[i].tail - 1), MayShow(new, i, id)
      PROVE  id <= hi /\ (lo <= id => new[i].msgs[id] = q[id])
  <2>1. i + n \in 1..m /\ new[i] = fs[i + n]
      BY <1>1, <1>2
  <2>2. i + n < m => i < m - n /\ i + 1 \in 1..(m - n) /\ (i + 1) + n = (i + n) + 1
      BY <1>1
  <2>3. i + n < m => new[i + 1] = fs[(i + n) + 1]
      BY <1>2, <2>2
  <2>4. MayShow(fs, i + n, id)
      BY <1>2, <1>3, <2>2, <2>3, Zenon DEF MayShow, m
  <2> QED
      BY <2>1, <2>4, Zenon DEF Agrees, m
<1> QED
    BY <1>2, <1>3, Zenon DEF Agrees, new

\* What a flush of k buffered messages leaves in the file being written: what
\* it held, then messages of the queue.
LEMMA FlushedMessages ==
    ASSUME IInv, Durable, Contents, phase # "down", outFile = "open",
           NEW k \in Nat, k <= writedId - committedId,
           NEW id \in LastFile.begin..(committedId + k)
    PROVE  /\ id <= last /\ (first <= id => Flushed(k).msgs[id] = mem[id])
           /\ id <= committedId => Flushed(k).msgs[id] = LastFile.msgs[id]
           /\ id > committedId => Flushed(k).msgs[id] = mem[id]
<1>1. /\ committedId \in Int /\ writedId \in Int /\ last \in Int /\ first \in Int
      /\ writedId <= last /\ first <= committedId + 1
    BY DEF IInv, NumbersOK, Ids
<1>2. files # <<>> /\ LastFile.tail = committedId + 1 /\ ListOK(files)
    BY FilesByPair, Zenon DEF IInv, LastOK, Contents
<1>3. /\ Len(files) \in 1..Len(files) /\ LastFile = files[Len(files)]
      /\ LastFile \in FilePairs /\ LastFile.begin \in Nat /\ PairOK(LastFile)
    BY <1>2, ListFields, Zenon DEF LastFile, ListOK, PairOK
<1>4. LastFile.msgs \in [LastFile.begin..committedId -> Msg]
  <2>1. LastFile.tail - 1 = committedId
      BY <1>1, <1>2
  <2> QED
      BY <1>3, <2>1, Zenon DEF PairOK
<1>5. Flushed(k).msgs = Extend(LastFile.msgs, buf, LastFile.begin, committedId + k)
    BY <1>3, Zenon DEF Flushed, FilePairs
<1>6. id \in Int /\ Flushed(k).msgs[id] = IF id \in LastFile.begin..committedId THEN LastFile.msgs[id] ELSE buf[id]
    BY <1>1, <1>3, <1>4, <1>5 DEF Extend
<1>7. CASE id <= committedId
  <2>1. id \in LastFile.begin..committedId
      BY <1>1, <1>3, <1>7
  <2>2. MayShow(files, Len(files), id) /\ id \in files[Len(files)].begin..(files[Len(files)].tail - 1)
      BY <1>1, <1>2, <1>3, <2>1 DEF MayShow
  <2>3. first <= id => LastFile.msgs[id] = mem[id]
      BY <1>3, <2>2, Zenon DEF Contents, Agrees
  <2> QED
      BY <1>1, <1>6, <1>7, <2>1, <2>3
<1>8. CASE id > committedId
  <2>1. id \in (committedId + 1)..writedId
      BY <1>1, <1>6, <1>8
  <2>2. buf[id] = mem[id]
      BY <2>1, Zenon DEF Contents
  <2> QED
      BY <1>1, <1>6, <1>8, <2>1, <2>2
<1> QED
    BY <1>1, <1>6, <1>7, <1>8

\* So the pairs agree with the queue after it, also when the flush failed
\* halfway and the pair does not know how far it went.
LEMMA FlushedAgrees ==
    ASSUME IInv, Durable, Contents, phase # "down", outFile = "open",
           NEW k \in Nat, k <= writedId - committedId
    PROVE  /\ Agrees([files EXCEPT ![Len(files)] = Flushed(k)], mem, first, last)
           /\ k = writedId - committedId =>
                 Agrees([files EXCEPT ![Len(files)] = [Flushed(k) EXCEPT !.end = writedId + 1]],
                        mem, first, last)
<1>1. committedId \in Int /\ writedId \in Int /\ committedId >= -1 /\ committedId <= writedId
    BY DEF IInv, NumbersOK, Ids
<1>2. files # <<>> /\ ListOK(files) /\ LastFile = files[Len(files)] /\ Agrees(files, mem, first, last)
    BY FilesByPair, Zenon DEF IInv, LastOK, Contents, LastFile
<1>a. LastOK /\ LastFile.onDfs
    BY FilesByPair, Zenon DEF IInv, LastOK
<1>3. /\ LastFile.begin \in Nat /\ LastFile.begin <= committedId + 1
      /\ LastFile.end = committedId + 1
  <2>1. files[Len(files)].begin \in Nat
      BY <1>2, ListFields, Zenon
  <2> QED
      BY <1>2, <1>a, <2>1, Zenon DEF LastOK, Durable
<1>4. /\ Flushed(k) \in FilePairs
      /\ Flushed(k).msgs \in [LastFile.begin..(committedId + k) -> Msg]
      /\ Flushed(k).tail = committedId + 1 + k /\ Flushed(k).begin = LastFile.begin
      /\ Flushed(k).onDfs = LastFile.onDfs /\ Flushed(k).end = LastFile.end
    BY <1>2, FlushedType, Zenon DEF IInv
<1>5. Flushed(k).tail - 1 = committedId + k /\ PairOK(Flushed(k))
    BY <1>1, <1>a, <1>3, <1>4 DEF PairOK
<1>6. \A id \in Flushed(k).begin..(Flushed(k).tail - 1) :
         id <= last /\ (first <= id => Flushed(k).msgs[id] = mem[id])
    BY <1>4, <1>5, FlushedMessages, Zenon
<1>7. Agrees([files EXCEPT ![Len(files)] = Flushed(k)], mem, first, last)
    BY <1>2, <1>4, <1>5, <1>6, ReplaceLastAgrees, Zenon
<1>8. ASSUME k = writedId - committedId
      PROVE  Agrees([files EXCEPT ![Len(files)] = [Flushed(k) EXCEPT !.end = writedId + 1]],
                    mem, first, last)
  <2> DEFINE f == [Flushed(k) EXCEPT !.end = writedId + 1]
  <2>1. /\ PairOK(f) /\ f.begin = Flushed(k).begin /\ f.tail = Flushed(k).tail
        /\ f.msgs = Flushed(k).msgs /\ f.end = writedId + 1
    <3>1. writedId + 1 \in Nat
        BY <1>1
    <3> QED
        BY <1>5, <3>1, Zenon DEF PairOK, FilePairs
  <2> HIDE DEF f
  <2>2. files[Len(files)].begin < files[Len(files)].end => f.begin < f.end
      BY <1>1, <1>2, <1>3, <1>4, <2>1
  <2>3. Agrees([files EXCEPT ![Len(files)] = f], mem, first, last)
    <3>1. f.begin = files[Len(files)].begin
        BY <1>2, <1>4, <2>1, Zenon
    <3>2. \A id \in f.begin..(f.tail - 1) : id <= last /\ (first <= id => f.msgs[id] = mem[id])
        BY <1>6, <2>1, Zenon
    <3> QED
        BY <1>2, <2>1, <2>2, <3>1, <3>2, ReplaceLastAgrees, Zenon
  <2> QED
      BY <2>3, Zenon DEF f
<1> QED
    BY <1>7, <1>8, Zenon

\* The queue of a loaded partition is the last message a load finds.
LEMMA ReloadAgrees ==
    ASSUME IInv, Durable, Kept # 0, NEW q, q[RecoveredId] = files[Kept].msgs[RecoveredId]
    PROVE  Agrees(RecoveredFiles, q, RecoveredId, RecoveredId)
<1> DEFINE new == RecoveredFiles
<1>1. ListOK(files) /\ Len(files) \in Nat
    BY FilesByPair, ListFields, Zenon DEF IInv
<1>2. Kept \in 1..Len(files) /\ files[Kept].begin < files[Kept].tail
    BY KeptPairs DEF IInv
<1>3. \A i \in 1..Kept : i \in 1..Len(files) /\ files[i].begin < files[i].tail
    BY <1>1, <1>2 DEF ListOK
<1>4. /\ Len(new) = Kept /\ ListOK(new)
      /\ \A i \in 1..Kept : /\ new[i].begin = files[i].begin /\ new[i].tail = files[i].tail
                            /\ new[i].msgs = files[i].msgs
    BY <1>1, <1>2, <1>3, ReloadPairs, Zenon
<1>5. OrderOK(new) /\ new[Kept].end = RecoveredId + 1
    BY <1>4, ReloadCovers, Zenon
<1>6. RecoveredId \in Nat /\ files[Kept].begin <= RecoveredId /\ files[Kept].tail = RecoveredId + 1
    BY RecoveredIdBounds, Zenon DEF IInv
<1>7. \A i \in 1..Kept : new[i].begin \in Nat /\ new[i].end \in Nat /\ new[i].tail \in Nat
    BY <1>4, ListFields, Zenon
<1> HIDE DEF new
<1>8. ASSUME NEW i \in 1..Kept, NEW id \in new[i].begin..(new[i].tail - 1), MayShow(new, i, id)
      PROVE  id <= RecoveredId /\ (RecoveredId <= id => new[i].msgs[id] = q[id])
  <2>1. CASE i = Kept
      BY <1>2, <1>4, <1>6, <1>7, <2>1
  <2>2. CASE i < Kept
    <3>1. i + 1 \in 1..Kept /\ (i + 1 = Kept \/ i + 1 < Kept)
        BY <1>2, <2>2
    <3>2. new[i + 1].begin < new[i + 1].end
      <4>1. CASE i + 1 = Kept
          BY <1>2, <1>4, <1>5, <1>6, <4>1
      <4>2. CASE i + 1 < Kept
        <5>1. i + 1 + 1 \in 1..Kept
            BY <1>2, <3>1, <4>2
        <5>2. /\ new[i + 1].begin < new[i + 1 + 1].begin
              /\ new[i + 1 + 1].begin <= new[i + 1].end
            BY <1>4, <1>5, <3>1, <4>2, <5>1 DEF OrderOK
        <5>3. /\ new[i + 1].begin \in Nat /\ new[i + 1].end \in Nat
              /\ new[i + 1 + 1].begin \in Nat
            BY <1>7, <3>1, <5>1, Zenon
        <5> QED
            BY <5>2, <5>3
      <4> QED
          BY <3>1, <4>1, <4>2, Zenon
    <3>3. id < new[i + 1].begin
        BY <1>4, <1>8, <2>2, <3>2, Zenon DEF MayShow
    <3>4. new[i + 1].begin <= new[Kept].begin
        BY <1>2, <1>4, <1>5, <1>7, <3>1 DEF OrderOK
    <3> QED
        BY <1>2, <1>4, <1>6, <1>7, <3>1, <3>3, <3>4
  <2> QED
      BY <1>1, <1>2, <2>1, <2>2
<1> QED
    BY <1>4, <1>8, Zenon DEF Agrees, new

-----------------------------------------------------------------------------
(***************************************************************************)
(* The invariant is inductive                                              *)
(***************************************************************************)
\* A queue that grew at the end or lost committed messages at the front agrees
\* with buffer and files as before.
LEMMA QueueStep ==
    ASSUME IInv, Contents, phase # "down", phase' # "down",
           UNCHANGED <<files, committedId, writedId, outFile, buf>>,
           first' \in Int, last' \in Int, first <= first', first' <= committedId + 1, last <= last',
           \A id \in first'..last : mem'[id] = mem[id]
    PROVE  Contents'
<1>1. /\ committedId \in Int /\ writedId \in Int /\ last \in Int /\ first \in Int
      /\ writedId <= last /\ ListOK(files)
    BY FilesByPair DEF IInv, NumbersOK, Ids
<1>2. Agrees(files, mem', first', last')
    BY <1>1, QueueMoves, Zenon DEF Contents
<1>3. \A id \in (committedId + 1)..writedId : buf[id] = mem'[id]
    BY <1>1 DEF Contents
<1>4. committedId + 1 <= last => mem'[committedId + 1] = mem[committedId + 1]
    BY <1>1
<1> QED
    BY <1>1, <1>2, <1>3, <1>4 DEF Contents, LastFile, Agrees, MayShow

\* Opening a file leaves the agreement alone: a pair that is opened again is
\* truncated before any message of it counts, a new pair is named after the
\* message.
LEMMA OpenFileStep ==
    ASSUME IInv, Durable, Contents, phase # "down", outFile = "closed",
           NEW opened \in BOOLEAN, writedId + 1 \in first..last,
           files' = OpenFile(writedId + 1, mem[writedId + 1].ts, opened),
           UNCHANGED <<committedId, mem, first, last>>, outFile' = IF opened THEN "open" ELSE "closed"
    PROVE  /\ Agrees(files', mem, first, last)
           /\ outFile' = "open" => LastFile'.tail = committedId + 1
           /\ files' # <<>> /\ LastFile'.begin = committedId + 1 =>
                 committedId + 1 <= last /\ LastFile'.ts = mem[committedId + 1].ts
<1>1. /\ committedId \in Int /\ committedId >= -1 /\ last \in Int /\ first \in Int
      /\ writedId = committedId /\ committedId + 1 <= last /\ ListOK(files)
      /\ Agrees(files, mem, first, last)
    BY FilesByPair DEF IInv, NumbersOK, Ids, Contents
<1>2. files # <<>> => Len(files) \in 1..Len(files) /\ LastFile = files[Len(files)] /\ LastFile.ts \in Int
    BY <1>1, ListFields, Zenon DEF LastFile
<1>3. CASE ~opened /\ KeepFiles
    BY <1>1, <1>3, Zenon DEF KeepFiles, Contents, LastFile
<1>4. CASE TruncateFile
  <2> DEFINE f == NewFilePair(committedId + 1, LastFile.ts, TRUE)
  <2>1. /\ files # <<>> /\ LastFile.begin = committedId + 1
        /\ files' = [files EXCEPT ![Len(files)] = f]
      BY <1>4, Zenon DEF TruncateFile
  <2>2. PairOK(f)
    <3>1. committedId + 1 \in Nat /\ LastFile.ts \in Int
        BY <1>1, <1>2, <2>1
    <3> QED
        BY <3>1, NewPairOK, Zenon
  <2>3. /\ f.begin = committedId + 1 /\ f.tail = committedId + 1 /\ f.end = committedId + 1
        /\ f.ts = LastFile.ts
      BY Zenon DEF NewFilePair
  <2>4. LastFile.end = committedId + 1 /\ LastFile.ts = mem[committedId + 1].ts
      BY <2>1, Zenon DEF Durable, Contents
  <2> HIDE DEF f
  <2>5. Agrees(files', mem, first, last)
    <3>1. /\ f.begin = files[Len(files)].begin /\ f.begin..(f.tail - 1) = {}
          /\ files[Len(files)].begin < files[Len(files)].end => f.begin < f.end
        BY <1>1, <1>2, <2>1, <2>3, <2>4
    <3> QED
        BY <1>1, <2>1, <2>2, <3>1, ReplaceLastAgrees
  <2>6. files' # <<>> /\ LastFile' = f
      BY <1>1, <2>1, <2>2, ReplaceLast, Zenon DEF LastFile
  <2> QED
      BY <1>1, <2>3, <2>4, <2>5, <2>6, Zenon
<1>5. CASE AddFile
  <2>1. PICK ts \in Int, op \in BOOLEAN :
            /\ ts = mem[committedId + 1].ts
            /\ files' = Append(files, NewFilePair(committedId + 1, ts, op))
      BY <1>5, Zenon DEF AddFile
  <2> DEFINE f == NewFilePair(committedId + 1, ts, op)
  <2>2. PairOK(f)
      BY <1>1, NewPairOK
  <2>3. /\ f.begin = committedId + 1 /\ f.tail = committedId + 1 /\ f.end = committedId + 1
        /\ f.ts = ts
      BY Zenon DEF NewFilePair
  <2> HIDE DEF f
  <2>4. files' = Append(files, f)
      BY <2>1, Zenon DEF f
  <2>5. Agrees(files', mem, first, last)
      BY <1>1, <2>2, <2>3, <2>4, AppendAgrees, Zenon
  <2>6. files' # <<>> /\ LastFile' = f
    <3>1. files \in Seq(FilePairs) /\ f \in FilePairs
        BY <1>1, <2>2, Zenon DEF ListOK, PairOK
    <3> QED
        BY <2>4, <3>1 DEF LastFile
  <2> QED
      BY <1>1, <2>1, <2>3, <2>5, <2>6, Zenon
<1> QED
    BY <1>3, <1>4, <1>5, OpenFileSteps, Zenon

\* Every step keeps queue, buffer and files in agreement.
LEMMA ContentsStep ==
    ASSUME ReservedFileCount >= 2, IInv, Durable, Contents, [Next]_vars
    PROVE  Contents'
<1> USE StorageAssumption
<1> USE DEF envVars, dequeVars, committerVars, fileVars
<1>0. /\ committedId \in Int /\ committedId >= -1 /\ writedId \in Int /\ committedId <= writedId
      /\ first \in Int /\ last \in Int /\ lastCommittedId \in Int /\ lastCommittedId <= committedId
      /\ committedIndex = (IF lastCommittedId < first THEN 0 ELSE lastCommittedId - first + 1)
      /\ phase # "down" => writedId <= last /\ first <= lastCommittedId + 1
      /\ phase # "down" => (first > last => first = 0 /\ last = -1)
      /\ phase = "down" => cpc = "idle" /\ outFile = "closed"
      /\ outFile = "closed" => writedId = committedId
    BY DEF IInv, NumbersOK, Ids, CommittedIndexAgrees
<1>l. ListOK(files) /\ LastOK /\ Len(files) \in Nat /\ outFile \in {"open", "closed"}
    BY FilesByPair, ListFields, Zenon DEF IInv, NumbersOK
<1>s. ASSUME UNCHANGED <<mem, first, last, committedId, writedId, outFile, buf, files>>,
             phase = "down" => phase' = "down"
      PROVE  Contents'
    BY <1>s DEF Contents, LastFile, Agrees, MayShow
<1>1. CASE Tick
    BY <1>1, <1>s, Zenon DEF Tick
<1>2. ASSUME NEW n \in 1..MaxBatch, AddMessage(n) PROVE Contents'
  <2>1. /\ phase # "down" /\ phase' # "down"
        /\ UNCHANGED <<files, committedId, writedId, outFile, buf>>
      BY <1>2, Zenon DEF AddMessage
  <2>2. LastReceivedMsgId = last /\ first' = first /\ last' = last + n /\ n \in Nat
      BY <1>0, <1>2, <2>1 DEF AddMessage, LastReceivedMsgId, MemEmpty
  <2>3. \A id \in first'..last : mem'[id] = mem[id]
    <3>1. DOMAIN mem = first..last
        BY Zenon DEF IInv, MessagesOK
    <3>2. \A id \in first..last : id \in first'..last'
        BY <1>0, <2>2
    <3> QED
        BY <1>2, <2>2, <3>1, <3>2, Zenon DEF AddMessage, Extend
  <2>4. /\ first' \in Int /\ last' \in Int /\ first <= first' /\ first' <= committedId + 1
        /\ last <= last'
      BY <1>0, <2>1, <2>2
  <2> QED
      BY <2>1, <2>3, <2>4, QueueStep, Zenon
<1>3. ASSUME NEW n \in 1..MemCapacity, Recycle(n) \/ RecycleFast(n) PROVE Contents'
  <2>1. /\ phase # "down" /\ phase' # "down" /\ DropFront(n)
        /\ UNCHANGED <<files, committedId, writedId, outFile, buf>>
      BY <1>3, Zenon DEF Recycle, RecycleFast
  <2>2. first + n - 1 <= lastCommittedId /\ n \in Nat
      BY <1>0, <1>3 DEF Recycle, RecycleFast, RecycleLimit
  <2>3. first' = first + n /\ last' = last /\ \A id \in first'..last : mem'[id] = mem[id]
      BY <2>1, Zenon DEF DropFront
  <2>4. /\ first' \in Int /\ last' \in Int /\ first <= first' /\ first' <= committedId + 1
        /\ last <= last'
      BY <1>0, <2>2, <2>3
  <2> QED
      BY <2>1, <2>3, <2>4, QueueStep, Zenon
<1>5. CASE CommitMessage
    BY <1>5, <1>s, Zenon DEF CommitMessage
<1>6. CASE WriteMessage
  <2>1. /\ phase # "down" /\ phase' # "down" /\ UNCHANGED <<mem, first, last, committedId>>
        /\ outFile' = "open" /\ writedId' = writedId + 1 /\ writedId + 1 \in first..last
        /\ buf' = Extend(buf, mem, committedId + 1, writedId + 1)
      BY <1>0, <1>6, Zenon DEF WriteMessage
  <2>2. \A id \in (committedId' + 1)..writedId' : buf'[id] = mem'[id]
    <3>1. DOMAIN buf = (committedId + 1)..writedId
        BY Zenon DEF IInv, MessagesOK
    <3> QED
        BY <1>0, <2>1, <3>1, Zenon DEF Extend, Contents
  <2>3. CASE outFile = "open"
    <3>1. files' = files
        BY <1>6, <2>3, Zenon DEF WriteMessage
    <3> QED
        BY <2>1, <2>2, <2>3, <3>1 DEF Contents, LastFile, Agrees, MayShow
  <2>4. CASE outFile = "closed"
    <3>1. files' = OpenFile(writedId + 1, mem[writedId + 1].ts, TRUE)
        BY <1>6, <2>4, Zenon DEF WriteMessage
    <3>2. /\ Agrees(files', mem, first, last)
          /\ LastFile'.tail = committedId + 1
          /\ files' # <<>> /\ LastFile'.begin = committedId + 1 =>
                committedId + 1 <= last /\ LastFile'.ts = mem[committedId + 1].ts
        BY <2>1, <2>4, <3>1, OpenFileStep, Zenon
    <3> QED
        BY <2>1, <2>2, <3>2, Zenon DEF Contents, Agrees, MayShow
  <2> QED
      BY <1>l, <2>3, <2>4, Zenon
<1>7. CASE OpenFileFail
  <2>1. /\ phase # "down" /\ phase' # "down" /\ UNCHANGED <<mem, first, last, committedId, writedId, buf>>
        /\ outFile = "closed" /\ outFile' = "closed" /\ writedId + 1 \in first..last
        /\ files' = OpenFile(writedId + 1, mem[writedId + 1].ts, FALSE)
      BY <1>0, <1>7, Zenon DEF OpenFileFail
  <2>2. /\ Agrees(files', mem, first, last)
        /\ files' # <<>> /\ LastFile'.begin = committedId + 1 =>
              committedId + 1 <= last /\ LastFile'.ts = mem[committedId + 1].ts
      BY <2>1, OpenFileStep, Zenon
  <2> QED
      BY <1>0, <2>1, <2>2, Zenon DEF Contents, Agrees, MayShow
<1>8. ASSUME NEW close \in BOOLEAN, NEW err \in BOOLEAN, CommitFile(close, err) PROVE Contents'
  <2>1. /\ phase # "down" /\ phase' # "down" /\ UNCHANGED <<mem, first, last, writedId>>
        /\ outFile = "open" /\ committedId' = writedId
      BY <1>0, <1>8, Zenon DEF CommitFile
  <2>2. \A id \in (committedId' + 1)..writedId' : buf'[id] = mem'[id]
      BY <1>0, <2>1
  <2>3. files # <<>>
      BY <1>l, <2>1, Zenon DEF LastOK
  <2>4. CASE committedId < writedId
    <3> DEFINE f == [Flushed(writedId - committedId) EXCEPT !.end = writedId + 1]
    <3>1. files' = [files EXCEPT ![Len(files)] = f]
        BY <1>8, <2>4, Zenon DEF CommitFile
    <3>2. writedId - committedId \in Nat /\ writedId - committedId <= writedId - committedId
        BY <1>0
    <3>3. Agrees(files', mem, first, last)
        BY <2>1, <3>1, <3>2, FlushedAgrees, Zenon
    <3>4. /\ Flushed(writedId - committedId) \in FilePairs
          /\ Flushed(writedId - committedId).tail = committedId + 1 + (writedId - committedId)
          /\ Flushed(writedId - committedId).begin = LastFile.begin
        BY <2>3, <3>2, FlushedType, Zenon DEF IInv
    <3>5. f.tail = writedId + 1 /\ f.begin = LastFile.begin /\ LastFile.begin <= committedId + 1
      <4>1. f.tail = Flushed(writedId - committedId).tail
            /\ f.begin = Flushed(writedId - committedId).begin
          BY <3>4, Zenon DEF FilePairs
      <4>2. LastFile.begin <= committedId + 1
          BY <1>l, <2>3, Zenon DEF LastOK
      <4> HIDE DEF f
      <4> QED
          BY <1>0, <3>4, <4>1, <4>2
    <3>6. LastFile' = f
      <4>1. files \in Seq(FilePairs) /\ Len(files) \in 1..Len(files)
          BY <1>l, <2>3, ListFields, Zenon DEF ListOK
      <4> QED
          BY <3>1, <4>1 DEF LastFile
    <3> HIDE DEF f
    <3>7. LastFile'.tail = committedId' + 1 /\ LastFile'.begin # committedId' + 1
      <4>1. LastFile.begin \in Nat
          BY <1>l, <2>3, ListFields, Zenon DEF LastFile
      <4> QED
          BY <1>0, <2>1, <2>4, <3>5, <3>6, <4>1
    <3> QED
        BY <2>1, <2>2, <3>3, <3>7, Zenon DEF Contents, Agrees, MayShow
  <2>5. CASE ~(committedId < writedId)
    <3>1. files' = files /\ writedId = committedId /\ outFile' \in {"open", "closed"}
      <4>1. outFile' \in {"open", "closed"}
          BY <1>8, Zenon DEF CommitFile
      <4> QED
          BY <1>0, <1>8, <2>5, <4>1 DEF CommitFile
    <3> QED
        BY <2>1, <2>2, <3>1 DEF Contents, LastFile, Agrees, MayShow
  <2> QED
      BY <2>4, <2>5, Zenon
<1>9. ASSUME NEW k \in 0..MaxMsgs, CommitFileFail(k) PROVE Contents'
  <2>1. /\ phase # "down" /\ phase' # "down" /\ UNCHANGED <<mem, first, last, committedId>>
        /\ outFile = "open" /\ outFile' = "closed" /\ writedId' = committedId
        /\ k <= writedId - committedId /\ files' = [files EXCEPT ![Len(files)] = Flushed(k)]
      BY <1>0, <1>9, Zenon DEF CommitFileFail, DroppedWritedId
  <2>2. k \in Nat /\ files # <<>>
      BY <1>l, <2>1 DEF LastOK
  <2>3. Agrees(files', mem, first, last)
      BY <2>1, <2>2, FlushedAgrees, Zenon
  <2>4. \A id \in (committedId' + 1)..writedId' : buf'[id] = mem'[id]
      BY <1>0, <2>1
  <2>5. LastFile' = Flushed(k)
    <3>1. files \in Seq(FilePairs) /\ Len(files) \in 1..Len(files)
        BY <1>l, <2>2, ListFields, Zenon DEF ListOK
    <3> QED
        BY <2>1, <3>1 DEF LastFile
  <2>6. LastFile'.begin = LastFile.begin /\ LastFile'.ts = LastFile.ts
    <3>1. LastFile \in FilePairs
        BY <1>l, <2>2, ListFields, Zenon DEF ListOK, LastFile, PairOK
    <3> QED
        BY <2>5, <3>1, Zenon DEF Flushed, FilePairs
  <2> QED
      BY <2>1, <2>2, <2>3, <2>4, <2>6 DEF Contents, Agrees, MayShow
<1>10. CASE FinishWrite
    BY <1>10, <1>s, Zenon DEF FinishWrite
<1>11. CASE SetCommittedId
    BY <1>11, <1>s, Zenon DEF SetCommittedId, SetCommittedMsgId
<1>12. ASSUME NEW n \in 0..MaxMsgs, NEW k \in 0..MaxMsgs, DelExpiredFile(n, k) PROVE Contents'
  <2>0. /\ phase # "down" /\ UNCHANGED <<phase, mem, first, last, committedId, writedId, outFile, buf>>
      BY <1>12, Zenon DEF DelExpiredFile
  <2> SUFFICES ASSUME files' # files PROVE Contents'
      BY <1>s, <2>0, Zenon
  <2>a. PICK d \in Nat : d <= Len(files) - ReservedFileCount /\ files' = SubSeq(files, d + 1, Len(files))
      BY <1>12, ExpirySteps, Zenon DEF DropFiles, KeepFiles
  <2>1. d < Len(files)
      BY <1>l, <2>a
  <2>2. files' # <<>> /\ LastFile' = LastFile /\ files # <<>>
    <3>1. files' # <<>> /\ files'[Len(files')] = files[Len(files)]
        BY <1>l, <2>a, <2>1, DropPairs, Zenon
    <3>2. files # <<>>
        BY <2>1
    <3> QED
        BY <3>1, <3>2, Zenon DEF LastFile
  <2>3. Agrees(files', mem, first, last)
      BY <1>l, <2>0, <2>a, <2>1, DropAgrees, Zenon DEF Contents
  <2> QED
      BY <2>0, <2>2, <2>3, Zenon DEF Contents, Agrees, MayShow
<1>13. CASE Unload
    BY <1>13, <1>s, Zenon DEF Unload
<1>14. CASE Unloaded \/ \E k \in 0..MaxMsgs : Crash(k)
    BY <1>14, Zenon DEF Unloaded, Crash, Forget, Contents
<1>16. CASE Load
  <2>1. /\ outFile' = "closed" /\ files' = RecoveredFiles /\ committedId' = RecoveredId
        /\ writedId' = RecoveredId /\ last' = RecoveredId /\ RecoveredId \in Int
      BY <1>0, <1>16, RecoveredIdBounds, Zenon DEF Load, IInv
  <2>2. \A id \in (committedId' + 1)..writedId' : buf'[id] = mem'[id]
      BY <2>1
  <2>3. CASE Kept = 0
    <3>1. files' = <<>>
        BY <2>1, <2>3 DEF RecoveredFiles
    <3> QED
        BY <2>1, <2>2, <3>1 DEF Contents, Agrees
  <2>4. CASE Kept # 0
    <3>1. first' = RecoveredId /\ mem' = [i \in RecoveredId..RecoveredId |-> files[Kept].msgs[i]]
        BY <1>16, <2>4, Zenon DEF Load
    <3>2. mem'[RecoveredId] = files[Kept].msgs[RecoveredId]
        BY <2>1, <3>1
    <3>3. Agrees(files', mem', first', last')
        BY <2>1, <2>4, <3>1, <3>2, ReloadAgrees, Zenon
    <3>4. LastFile'.begin # committedId' + 1
      <4>1. Kept \in 1..Len(files) /\ \A i \in 1..Kept : files[i].begin < files[i].tail
        <5>1. Kept \in 1..Len(files) /\ files[Kept].begin < files[Kept].tail
            BY <2>4, KeptPairs DEF IInv
        <5> QED
            BY <1>l, <5>1 DEF ListOK
      <4>2. Len(files') = Kept /\ files'[Kept].begin = files[Kept].begin
          BY <1>l, <2>1, <4>1, ReloadPairs
      <4>3. files[Kept].begin \in Nat /\ files[Kept].begin <= RecoveredId
          BY <1>l, <2>4, <4>1, ListFields, RecoveredIdBounds, Zenon DEF IInv
      <4> QED
          BY <2>1, <4>2, <4>3 DEF LastFile
    <3> QED
        BY <2>1, <2>2, <3>3, <3>4, Zenon DEF Contents, Agrees, MayShow
  <2> QED
      BY <2>3, <2>4, Zenon
<1>17. CASE UNCHANGED vars
    BY <1>17, <1>s, Zenon DEF vars
<1> QED
    BY <1>1, <1>2, <1>3, <1>5, <1>6, <1>7, <1>8, <1>9, <1>10, <1>11, <1>12, <1>13,
       <1>14, <1>16, <1>17, Zenon DEF Next, CommitThread

-----------------------------------------------------------------------------
(***************************************************************************)
(* Memory and dfs                                                          *)
(***************************************************************************)
\* getFilePairById finds the only pair that can hold an id.
LEMMA FoundPair ==
    ASSUME NEW fs, ListOK(fs), OrderOK(fs), NEW id \in Int, NEW i \in 1..Len(fs),
           fs[i].begin <= id, i < Len(fs) => fs[i + 1].begin > id
    PROVE  FileOf(fs, id) = i /\ DiskMsg(fs, id) = fs[i].msgs[id]
<1> DEFINE Found(j) == fs[j].begin <= id /\ (j < Len(fs) => fs[j + 1].begin > id)
<1>1. /\ Len(fs) \in Nat
      /\ \A j \in 1..Len(fs) : fs[j].begin \in Nat
    BY ListFields, Zenon
<1>2. FileOf(fs, id) \in 1..Len(fs) /\ Found(FileOf(fs, id))
    BY Zenon DEF FileOf
<1>3. ASSUME NEW a \in 1..Len(fs), NEW b \in 1..Len(fs), Found(a), Found(b), a < b
      PROVE  FALSE
  <2>1. a < Len(fs) /\ a + 1 \in 1..Len(fs) /\ fs[a + 1].begin > id
      BY <1>1, <1>3
  <2>2. fs[a + 1].begin <= fs[b].begin
      BY <1>1, <1>3, <2>1 DEF OrderOK
  <2> QED
      BY <1>1, <1>3, <2>1, <2>2
<1>4. FileOf(fs, id) = i
    BY <1>1, <1>2, <1>3
<1> QED
    BY <1>4, Zenon DEF DiskMsg

\* The invariant says what the two properties say.
LEMMA ContentsAgree == IInv /\ Durable /\ Contents => MemDiskAgree /\ ReusedPairIsEmpty
<1> SUFFICES ASSUME IInv, Durable, Contents PROVE MemDiskAgree /\ ReusedPairIsEmpty
    BY Zenon
<1>1. /\ ListOK(files) /\ OrderOK(files) /\ DOMAIN mem = first..last
      /\ first \in Int /\ last \in Int /\ committedId \in Int
      /\ phase = "down" => first = 0 /\ last = -1 /\ cpc = "idle"
      /\ outFile = "closed" => writedId = committedId
    BY FilesByPair DEF IInv, MessagesOK, NumbersOK, Ids, Durable
<1>2. \A i \in 1..Len(files) : files[i].begin \in Nat /\ files[i].tail \in Nat /\ files[i].end \in Nat
    BY <1>1, ListFields, Zenon
<1>3. ASSUME NEW id \in first..last, OnDisk(id) PROVE DiskMsg(files, id) = mem[id]
  <2>1. id \in Int /\ first <= id /\ phase # "down"
      BY <1>1
  <2>2. PICK i \in 1..Len(files) : Holds(files, i, id)
    <3>1. Listed \subseteq 1..Len(files)
        BY DEF Listed, IInv, ObsoleteOK
    <3> QED
        BY <1>3, <3>1, Zenon DEF OnDisk, Holds
  <2>3. MayShow(files, i, id)
      BY <2>2, Zenon DEF MayShow, Holds
  <2>4. id \in files[i].begin..(files[i].tail - 1)
      BY <1>1, <1>2, <2>1, <2>2 DEF OrderOK, Holds
  <2>5. files[i].msgs[id] = mem[id]
      BY <2>1, <2>3, <2>4, Zenon DEF Contents, Agrees
  <2> QED
      BY <1>1, <2>1, <2>2, <2>5, FoundPair, Zenon DEF Holds
<1>4. ReusedPairIsEmpty
    BY <1>1, Zenon DEF ReusedPairIsEmpty, Durable, Contents
<1> QED
    BY <1>1, <1>3, <1>4, Zenon DEF MemDiskAgree

\* The invariant holds in every reachable state.
LEMMA ContentsInvariance ==
    ASSUME ReservedFileCount >= 2
    PROVE  Spec => [](IInv /\ Durable /\ Contents)
<1>1. Init => Contents
    BY Zenon DEF Init, Contents
<1>2. IInv /\ Durable /\ Contents /\ [Next]_vars => Contents'
    BY ContentsStep, Zenon
<1> QED
    BY <1>1, <1>2, DurableInvariance, PTL DEF Spec

\* An id that is both in memory and on dfs is the same message in both, so a
\* reader that moves between them sees one partition.
THEOREM MemoryAndDiskAgree ==
    ASSUME ReservedFileCount >= 2
    PROVE  Spec => []MemDiskAgree
    BY ContentsInvariance, ContentsAgree, PTL

\* The assertions of FileManager::createNewFilePair hold: a pair that is opened
\* again has no committed message and is named after the message.
THEOREM ReusedPairEmpty ==
    ASSUME ReservedFileCount >= 2
    PROVE  Spec => []ReusedPairIsEmpty
    BY ContentsInvariance, ContentsAgree, PTL

-----------------------------------------------------------------------------
(***************************************************************************)
(* The stored log.  StoredLog asks the pairs through getFilePairById;      *)
(* UpLog and DownLog say the same of whichever pair holds an id, so that   *)
(* the pairs of two states can be compared one by one.                     *)
(***************************************************************************)
\* The oldest id on dfs, and the oldest one that is listed.
Begin == IF files = <<>> THEN 0 ELSE files[1].begin

ListedBegin == IF files = <<>> THEN 0 ELSE files[obsolete + 1].begin

BeginOK == VisibleBegin = ListedBegin /\ ListedBegin \in Nat /\ Begin <= ListedBegin

\* Pair i is where a load will find id.
Shown(fs, i, id) ==
    /\ fs[i].begin <= id /\ id < fs[i].tail
    /\ i < Len(fs) /\ fs[i + 1].begin < fs[i + 1].tail => id < fs[i + 1].begin

UpLog ==
    phase # "down" =>
        /\ Begin \in Nat /\ Begin <= committedId + 1 /\ (committedId >= 0 => Begin <= committedId)
        /\ StoredLog \in [Begin..last -> Msg]
        /\ \A id \in Begin..committedId : \E i \in 1..Len(files) : Holds(files, i, id)
        /\ \A i \in 1..Len(files) : \A id \in Begin..committedId :
              Holds(files, i, id) => StoredLog[id] = files[i].msgs[id]
        /\ \A id \in (committedId + 1)..last : StoredLog[id] = mem[id]

DownLog ==
    phase = "down" =>
        /\ Begin \in Nat /\ RecoveredId \in Int /\ RecoveredId >= committedId
        /\ StoredLog \in [Begin..RecoveredId -> Msg]
        /\ \A id \in Begin..RecoveredId : \E i \in 1..Len(files) : Shown(files, i, id)
        /\ \A i \in 1..Len(files) : \A id \in Begin..RecoveredId :
              Shown(files, i, id) => StoredLog[id] = files[i].msgs[id]

\* A loaded partition shows what its pairs hold, then what is in memory.
LEMMA UpLogHolds == IInv /\ Durable => UpLog
<1> SUFFICES ASSUME IInv, Durable, phase # "down" PROVE UpLog
    BY Zenon DEF UpLog
<1>1. /\ ListOK(files) /\ OrderOK(files) /\ LastOK /\ committedId \in Int /\ last \in Int
      /\ committedId >= -1 /\ committedId <= last /\ first \in Int /\ first <= committedId + 1
      /\ mem \in [first..last -> Msg]
    BY FilesByPair DEF IInv, MessagesOK, NumbersOK, Ids, Durable
<1>2. /\ Len(files) \in Nat
      /\ files # <<>> => Len(files) \in 1..Len(files) /\ 1 \in 1..Len(files)
      /\ \A i \in 1..Len(files) : files[i].begin \in Nat /\ files[i].tail \in Nat /\ files[i].end \in Nat
    BY <1>1, ListFields, Zenon
<1>3. Begin \in Nat /\ Begin <= committedId + 1 /\ (committedId >= 0 => Begin <= committedId)
  <2>1. files # <<>> => files[1].begin <= files[Len(files)].begin
      BY <1>1, <1>2 DEF OrderOK
  <2>2. files # <<>> => files[Len(files)].begin <= committedId + 1
      BY <1>1, Zenon DEF LastOK, LastFile
  <2> QED
      BY <1>1, <1>2, <2>1, <2>2 DEF Begin, Durable
<1>4. StoredLog = [id \in Begin..last |-> IF id <= committedId THEN DiskMsg(files, id) ELSE mem[id]]
  <2>1. Begin = IF files = <<>> THEN committedId + 1 ELSE Minimum(files[1].begin, committedId + 1)
      BY <1>1, <1>2, <1>3 DEF Begin, Minimum, Durable
  <2> QED
      BY <2>1, Zenon DEF StoredLog
<1>5. \A id \in Begin..committedId : \E i \in 1..Len(files) : Holds(files, i, id)
    BY <1>1, <1>3 DEF Begin, Durable, Covered
<1>6. ASSUME NEW i \in 1..Len(files), NEW id \in Begin..committedId, Holds(files, i, id)
      PROVE  StoredLog[id] = files[i].msgs[id] /\ files[i].msgs[id] \in Msg
  <2>1. id \in Int /\ id \in Begin..last /\ id <= committedId
      BY <1>1, <1>3
  <2>2. DiskMsg(files, id) = files[i].msgs[id]
      BY <1>1, <1>6, <2>1, FoundPair, Zenon DEF Holds
  <2>3. id \in files[i].begin..(files[i].tail - 1)
      BY <1>1, <1>2, <1>6, <2>1 DEF OrderOK, Holds
  <2>4. files[i].msgs \in [files[i].begin..(files[i].tail - 1) -> Msg]
      BY <1>1, Zenon DEF ListOK, PairOK
  <2> QED
      BY <1>4, <2>1, <2>2, <2>3, <2>4, Zenon
<1>7. ASSUME NEW id \in (committedId + 1)..last PROVE StoredLog[id] = mem[id] /\ mem[id] \in Msg
    BY <1>1, <1>3, <1>4
<1>8. StoredLog \in [Begin..last -> Msg]
  <2>1. ASSUME NEW id \in Begin..last PROVE StoredLog[id] \in Msg
    <3>1. id \in Begin..committedId \/ id \in (committedId + 1)..last
        BY <1>1, <1>3
    <3> QED
        BY <1>5, <1>6, <1>7, <3>1, Zenon
  <2> QED
      BY <1>4, <2>1, Zenon
<1> QED
    BY <1>3, <1>5, <1>6, <1>7, <1>8, Zenon DEF UpLog

\* A partition that is down shows what the next load will find.
LEMMA DownLogHolds == IInv /\ Durable => DownLog
<1> SUFFICES ASSUME IInv, Durable, phase = "down" PROVE DownLog
    BY Zenon DEF DownLog
<1>1. /\ ListOK(files) /\ OrderOK(files) /\ LastOK /\ committedId \in Int /\ Len(files) \in Nat
      /\ \A i \in 1..Len(files) : files[i].begin \in Nat /\ files[i].tail \in Nat
    BY FilesByPair, ListFields, Zenon DEF IInv, NumbersOK, Durable
<1>2. CASE Kept = 0
  <2>1. StoredLog = NoMsgs /\ RecoveredId = -1 /\ committedId = -1 /\ Begin = 0
      BY <1>2, NothingKept, Zenon DEF StoredLog, RecoveredId, Begin
  <2>2. NoMsgs \in [0..-1 -> Msg]
      BY EmptyFunction
  <2> QED
      BY <2>1, <2>2 DEF DownLog
<1>3. CASE Kept # 0
  <2> DEFINE new == RecoveredFiles
  <2>1. /\ Kept \in 1..Len(files) /\ files[Kept].begin < files[Kept].tail
        /\ Kept = Len(files) \/ Kept = Len(files) - 1
        /\ Kept < Len(files) => LastFile.begin = LastFile.tail
      BY <1>1, <1>3, KeptPairs DEF IInv
  <2>2. \A i \in 1..Kept : i \in 1..Len(files) /\ files[i].begin < files[i].tail
      BY <1>1, <2>1 DEF ListOK
  <2>3. /\ Len(new) = Kept /\ ListOK(new)
        /\ \A i \in 1..Kept : /\ new[i].begin = files[i].begin /\ new[i].tail = files[i].tail
                              /\ new[i].msgs = files[i].msgs
      BY <1>1, <2>1, <2>2, ReloadPairs, Zenon
  <2>4. OrderOK(new) /\ Covered(new, RecoveredId) /\ committedId <= RecoveredId
      BY <1>3, ReloadCovers, Zenon
  <2>5. RecoveredId \in Int
      BY RecoveredIdBounds, Zenon DEF IInv
  <2>6. Begin = files[1].begin /\ Begin \in Nat /\ new[1].begin = Begin
      BY <1>1, <2>1, <2>3 DEF Begin
  <2>7. StoredLog = [id \in Begin..RecoveredId |-> DiskMsg(new, id)]
      BY <1>3, <2>6, Zenon DEF StoredLog
  <2> HIDE DEF new
  <2>8. ASSUME NEW i \in 1..Len(files), NEW id \in Begin..RecoveredId, Shown(files, i, id)
        PROVE  StoredLog[id] = files[i].msgs[id] /\ files[i].msgs[id] \in Msg
    <3>1. id \in Int /\ id \in files[i].begin..(files[i].tail - 1)
        BY <1>1, <2>5, <2>6, <2>8 DEF Shown
    <3>2. i \in 1..Kept
        BY <1>1, <2>1, <3>1 DEF LastFile
    <3>3. i < Kept => new[i + 1].begin > id
      <4>1. i < Kept => i + 1 \in 1..Kept /\ i < Len(files) /\ i + 1 \in 1..Len(files)
          BY <1>1, <2>1, <3>2
      <4> QED
          BY <1>1, <2>2, <2>3, <2>8, <3>1, <4>1, Zenon DEF Shown
    <3>4. DiskMsg(new, id) = new[i].msgs[id]
        BY <2>3, <2>4, <2>8, <3>1, <3>2, <3>3, FoundPair DEF Shown
    <3>5. files[i].msgs \in [files[i].begin..(files[i].tail - 1) -> Msg]
        BY <1>1, Zenon DEF ListOK, PairOK
    <3> QED
        BY <2>3, <2>7, <3>1, <3>2, <3>4, <3>5, Zenon
  <2>9. ASSUME NEW id \in Begin..RecoveredId PROVE \E i \in 1..Len(files) : Shown(files, i, id)
    <3>1. PICK i \in 1..Kept : Holds(new, i, id)
        BY <2>3, <2>4, <2>6, Zenon DEF Covered
    <3>2. i \in 1..Len(files) /\ id \in Int
        BY <2>2, <2>5, <2>6
    <3>3. files[i].begin <= id /\ id < files[i].tail
      <4>1. new[i].end <= new[i].tail /\ new[i].end \in Nat /\ new[i].tail \in Nat
          BY <2>3, <2>4, ListFields, Zenon DEF OrderOK
      <4> QED
          BY <2>3, <3>1, <3>2, <4>1 DEF Holds
    <3>4. ASSUME i < Len(files), files[i + 1].begin < files[i + 1].tail PROVE id < files[i + 1].begin
      <4>1. i + 1 \in 1..Kept /\ i < Kept
          BY <1>1, <2>1, <3>4 DEF LastFile
      <4>2. files[i + 1].begin \in Nat /\ new[i + 1].begin = files[i + 1].begin
          BY <1>1, <2>2, <2>3, <4>1, Zenon
      <4> QED
          BY <2>3, <3>1, <3>2, <4>1, <4>2, Zenon DEF Holds
    <3> QED
        BY <3>2, <3>3, <3>4, Zenon DEF Shown
  <2>10. StoredLog \in [Begin..RecoveredId -> Msg]
      BY <2>7, <2>8, <2>9, Zenon
  <2> QED
      BY <2>4, <2>5, <2>6, <2>8, <2>9, <2>10, Zenon DEF DownLog
<1> QED
    BY <1>2, <1>3, Zenon

-----------------------------------------------------------------------------
(***************************************************************************)
(* Every step of the storage is a step of the abstract log.  Growing is    *)
(* part of the induction: that a new message is younger than all before it *)
(* follows from its being younger than the last one.                       *)
(***************************************************************************)
Growing == \A i, j \in DOMAIN StoredLog : i < j => StoredLog[i].ts < StoredLog[j].ts

Shape == IInv /\ Durable /\ Contents /\ UpLog /\ DownLog /\ BeginOK

\* The first id that can be read is the begin of the oldest listed pair.
LEMMA BeginHolds == IInv /\ Durable => BeginOK
<1> SUFFICES ASSUME IInv, Durable PROVE BeginOK
    BY Zenon
<1>1. /\ ListOK(files) /\ OrderOK(files) /\ LastOK /\ committedId \in Int /\ Len(files) \in Nat
      /\ files = <<>> => committedId = -1
    BY FilesByPair, ListFields, Zenon DEF IInv, NumbersOK, Durable
<1>2. /\ obsolete \in Nat /\ (obsolete = 0 \/ obsolete <= Len(files) - ReservedFileCount)
      /\ phase = "down" => obsolete = 0
    BY Zenon DEF IInv, ObsoleteOK
<1>3. CASE files = <<>>
  <2>1. Listed = {} /\ Kept = 0 /\ committedId + 1 = 0
      BY <1>1, <1>2, <1>3, StorageAssumption DEF Listed, Kept
  <2> QED
      BY <1>3, <2>1 DEF BeginOK, VisibleBegin, ListedBegin, Begin
<1>4. CASE files # <<>>
  <2>1. /\ Len(files) \in 1..Len(files) /\ 1 \in 1..Len(files)
        /\ \A i \in 1..Len(files) : files[i].begin \in Nat
      BY <1>1, <1>4, ListFields, Zenon
  <2>2. obsolete + 1 \in 1..Len(files) /\ obsolete + 1 \in Listed
      BY <1>1, <1>2, <2>1, StorageAssumption DEF Listed
  <2>3. files[1].begin <= files[obsolete + 1].begin /\ files[obsolete + 1].begin <= files[Len(files)].begin
      BY <1>1, <1>2, <2>1, <2>2 DEF OrderOK
  <2>4. files[Len(files)].begin <= committedId + 1
      BY <1>1, <1>4, Zenon DEF LastOK, LastFile
  <2>5. Minimum(files[obsolete + 1].begin, committedId + 1) = files[obsolete + 1].begin
      BY <1>1, <2>1, <2>2, <2>3, <2>4 DEF Minimum
  <2>6. phase = "down" /\ Kept = 0 => files[1].begin = 0
      BY <1>4, NothingKept, Zenon
  <2>7. phase = "down" => obsolete + 1 = 1
      BY <1>2
  <2>8. VisibleBegin = files[obsolete + 1].begin
      BY <2>2, <2>5, <2>6, <2>7, Zenon DEF VisibleBegin, FirstListed
  <2> QED
      BY <1>4, <2>1, <2>2, <2>3, <2>8, Zenon DEF BeginOK, ListedBegin, Begin
<1> QED
    BY <1>3, <1>4, Zenon

\* Only expiry and a restart move it.
LEMMA BeginKept ==
    ASSUME Shape, Shape', [Next]_vars, phase # "down", phase' # "down",
           ~\E n, k \in 0..MaxMsgs : DelExpiredFile(n, k)
    PROVE  UNCHANGED VisibleBegin
<1>1. UNCHANGED obsolete
    BY Zenon DEF Next, CommitThread, vars, Tick, AddMessage, Recycle, RecycleFast,
       CommitMessage, WriteMessage, OpenFileFail, CommitFile, CommitFileFail, FinishWrite,
       SetCommittedId, Unload, Unloaded, Crash, Forget, Load, fileVars
<1>2. /\ IInv /\ Durable /\ ListOK(files) /\ files \in Seq(FilePairs) /\ Len(files) \in Nat
      /\ obsolete \in Nat /\ (obsolete = 0 \/ obsolete <= Len(files) - ReservedFileCount)
      /\ VisibleBegin = ListedBegin /\ VisibleBegin' = ListedBegin'
    BY FilesByPair, ListFields, Zenon DEF Shape, BeginOK, IInv, ObsoleteOK, FilesOK
<1>3. KeepFiles \/ TruncateFile \/ AddFile \/ FlushPart \/ FlushAll
    BY <1>2, FileSteps, Zenon DEF DropFiles, Reload
<1>4. files # <<>> => obsolete + 1 \in 1..Len(files)
    BY <1>2, StorageAssumption
<1>5. CASE KeepFiles
    BY <1>1, <1>2, <1>5, Zenon DEF KeepFiles, ListedBegin
\* The last pair is put back with the same begin.
<1>6. ASSUME NEW f, files # <<>>, files' = [files EXCEPT ![Len(files)] = f], f.begin = LastFile.begin
      PROVE  VisibleBegin' = VisibleBegin
  <2>1. files'[obsolete + 1].begin = files[obsolete + 1].begin /\ files' # <<>>
      BY <1>2, <1>4, <1>6 DEF LastFile
  <2> QED
      BY <1>1, <1>2, <1>6, <2>1, Zenon DEF ListedBegin
<1>7. CASE TruncateFile
  <2>1. NewFilePair(committedId + 1, LastFile.ts, TRUE).begin = committedId + 1
      BY Zenon DEF NewFilePair
  <2> QED
      BY <1>6, <1>7, <2>1, Zenon DEF TruncateFile
<1>8. ASSUME NEW k \in Nat, k <= writedId - committedId, outFile = "open"
      PROVE  /\ files # <<>> /\ Flushed(k).begin = LastFile.begin
             /\ [Flushed(k) EXCEPT !.end = writedId + 1].begin = LastFile.begin
  <2>1. files # <<>>
      BY <1>2, <1>8, FilesByPair, Zenon DEF IInv, LastOK
  <2>2. Flushed(k) \in FilePairs /\ Flushed(k).begin = LastFile.begin
      BY <1>2, <1>8, <2>1, FlushedType, Zenon DEF IInv
  <2> QED
      BY <2>1, <2>2, Zenon DEF FilePairs
<1>9. CASE FlushPart
    BY <1>6, <1>8, <1>9, Zenon DEF FlushPart
<1>10. CASE FlushAll
  <2>1. writedId - committedId \in Nat /\ writedId - committedId <= writedId - committedId
      BY <1>2 DEF IInv, NumbersOK, Ids
  <2> QED
      BY <1>6, <1>8, <1>10, <2>1, Zenon DEF FlushAll
<1>11. CASE AddFile
  <2>1. PICK ts \in Int, opened \in BOOLEAN :
            files' = Append(files, NewFilePair(committedId + 1, ts, opened))
      BY <1>11, Zenon DEF AddFile
  <2> DEFINE f == NewFilePair(committedId + 1, ts, opened)
  <2>2. f.begin = committedId + 1
      BY Zenon DEF NewFilePair
  <2> HIDE DEF f
  <2>3. files' = Append(files, f)
      BY <2>1, Zenon DEF f
  <2>4. CASE files = <<>>
    <3>1. committedId = -1 /\ obsolete = 0
        BY <1>2, <2>4, StorageAssumption DEF Durable
    <3>2. files' # <<>> /\ files'[1] = f
        BY <2>3, <2>4
    <3> QED
        BY <1>1, <1>2, <2>2, <2>4, <3>1, <3>2 DEF ListedBegin
  <2>5. CASE files # <<>>
    <3>1. files'[obsolete + 1] = files[obsolete + 1] /\ files' # <<>>
        BY <1>2, <1>4, <2>3, <2>5
    <3> QED
        BY <1>1, <1>2, <2>5, <3>1, Zenon DEF ListedBegin
  <2> QED
      BY <2>4, <2>5, Zenon
<1> QED
    BY <1>3, <1>5, <1>7, <1>9, <1>10, <1>11, Zenon

\* Committed messages are the same after a step that leaves them in a pair.
LEMMA SameCommitted ==
    ASSUME Shape, Shape', phase # "down", phase' # "down",
           committedId <= committedId', Begin <= Begin',
           \A id \in Begin'..committedId : \A j \in 1..Len(files') :
               Holds(files', j, id) =>
                   \E i \in 1..Len(files) : Holds(files, i, id) /\ files[i].msgs[id] = files'[j].msgs[id]
    PROVE  \A id \in Begin'..committedId : StoredLog'[id] = StoredLog[id]
<1>1. committedId \in Int /\ committedId' \in Int /\ Begin \in Nat /\ Begin' \in Nat
    BY Zenon DEF Shape, UpLog, IInv, NumbersOK
<1> SUFFICES ASSUME NEW id \in Begin'..committedId PROVE StoredLog'[id] = StoredLog[id]
    BY Zenon
<1>2. id \in Begin'..committedId' /\ id \in Begin..committedId
    BY <1>1
<1>3. PICK j \in 1..Len(files') : Holds(files', j, id)
    BY <1>2, Zenon DEF Shape, UpLog
<1>4. StoredLog'[id] = files'[j].msgs[id]
    BY <1>2, <1>3, Zenon DEF Shape, UpLog
<1>5. PICK i \in 1..Len(files) : Holds(files, i, id) /\ files[i].msgs[id] = files'[j].msgs[id]
    BY <1>3, Zenon
<1>6. StoredLog[id] = files[i].msgs[id]
    BY <1>2, <1>5, Zenon DEF Shape, UpLog
<1> QED
    BY <1>4, <1>5, <1>6, Zenon

\* Two loaded states with the same ids and messages show the same log.
LEMMA SameLog ==
    ASSUME Shape, Shape', phase # "down", phase' # "down",
           committedId' = committedId, last' = last, Begin' = Begin,
           \A id \in Begin'..committedId : StoredLog'[id] = StoredLog[id],
           \A id \in (committedId + 1)..last : mem'[id] = mem[id], UNCHANGED VisibleBegin
    PROVE  UNCHANGED PL!logVars
<1>1. committedId \in Int /\ last \in Int /\ Begin \in Nat
    BY Zenon DEF Shape, UpLog, IInv, NumbersOK
<1>2. StoredLog \in [Begin..last -> Msg] /\ StoredLog' \in [Begin..last -> Msg]
    BY Zenon DEF Shape, UpLog
<1>3. \A id \in (committedId + 1)..last : StoredLog'[id] = StoredLog[id]
    BY Zenon DEF Shape, UpLog
<1>4. ASSUME NEW id \in Begin..last PROVE StoredLog'[id] = StoredLog[id]
  <2>1. id \in Begin..committedId \/ id \in (committedId + 1)..last
      BY <1>1
  <2> QED
      BY <1>3, <2>1, Zenon
<1>5. StoredLog' = StoredLog
  <2> DEFINE S == Begin..last
  <2>1. StoredLog \in [S -> Msg] /\ StoredLog' \in [S -> Msg] /\ \A id \in S : StoredLog'[id] = StoredLog[id]
      BY <1>2, <1>4, Zenon
  <2> HIDE DEF S
  <2> QED
      BY <2>1
<1>6. VisibleCommitted' = VisibleCommitted
    BY Zenon DEF VisibleCommitted
<1> QED
    BY <1>5, <1>6, Zenon DEF PL!logVars

\* A step that leaves pairs, ids and uncommitted messages alone is none of the
\* log.
LEMMA KeepStep ==
    ASSUME Shape, Shape', phase # "down", phase' # "down",
           UNCHANGED <<files, committedId, last, VisibleBegin>>,
           \A id \in (committedId + 1)..last : mem'[id] = mem[id]
    PROVE  UNCHANGED PL!logVars
<1>1. Begin' = Begin /\ Begin \in Nat /\ committedId \in Int
    BY Zenon DEF Begin, Shape, UpLog, IInv, NumbersOK
<1>2. \A id \in Begin'..committedId : StoredLog'[id] = StoredLog[id]
    BY <1>1, SameCommitted
<1> QED
    BY <1>1, <1>2, SameLog, Zenon

\* Opening a file is no step of the log: a truncated pair has no committed
\* message, a new one begins behind them.
LEMMA OpenIsHidden ==
    ASSUME Shape, Shape', phase # "down", phase' # "down", outFile = "closed",
           NEW opened \in BOOLEAN, writedId + 1 \in first..last,
           files' = OpenFile(writedId + 1, mem[writedId + 1].ts, opened),
           UNCHANGED <<committedId, mem, first, last, VisibleBegin>>,
           outFile' = IF opened THEN "open" ELSE "closed"
    PROVE  UNCHANGED PL!logVars
<1> DEFINE m == Len(files)
<1>1. /\ committedId \in Int /\ committedId >= -1 /\ ListOK(files) /\ m \in Nat /\ Begin \in Nat
      /\ files \in Seq(FilePairs) /\ Durable
      /\ \A i \in 1..m : files[i].begin \in Nat
  <2>1. IInv /\ Durable /\ Begin \in Nat
      BY Zenon DEF Shape, UpLog
  <2>2. committedId \in Int /\ committedId >= -1 /\ ListOK(files) /\ files \in Seq(FilePairs)
      BY <2>1, FilesByPair DEF IInv, NumbersOK, Ids, FilesOK
  <2> QED
      BY <2>1, <2>2, ListFields, Zenon
<1>2. CASE KeepFiles
    BY <1>2, KeepStep, Zenon DEF KeepFiles
<1>3. CASE TruncateFile
  <2> DEFINE f == NewFilePair(committedId + 1, LastFile.ts, TRUE)
  <2>1. /\ files # <<>> /\ files[m].begin = committedId + 1
        /\ files' = [files EXCEPT ![m] = f]
      BY <1>3, Zenon DEF TruncateFile, LastFile
  <2>2. f.begin = committedId + 1
      BY Zenon DEF NewFilePair
  <2> HIDE DEF f
  <2>3. /\ Len(files') = m /\ files'[m] = f /\ m > 0 /\ files' # <<>>
        /\ \A i \in 1..m : i < m => files'[i] = files[i]
      BY <1>1, <2>1
  <2>4. \A i \in 1..m : files'[i].begin = files[i].begin
      BY <1>1, <2>1, <2>2, <2>3
  <2>5. Begin' = Begin
      BY <1>1, <2>1, <2>3, <2>4 DEF Begin
  <2>6. ASSUME NEW id \in Begin'..committedId, NEW j \in 1..m, Holds(files', j, id)
        PROVE  Holds(files, j, id) /\ files[j].msgs[id] = files'[j].msgs[id]
    <3>1. j < m /\ j + 1 \in 1..m /\ files'[j] = files[j]
        BY <1>1, <2>1, <2>2, <2>3, <2>5, <2>6 DEF Holds
    <3> QED
        BY <2>3, <2>4, <2>6, <3>1, Zenon DEF Holds
  <2>7. \A id \in Begin'..committedId : StoredLog'[id] = StoredLog[id]
      BY <1>1, <2>3, <2>5, <2>6, SameCommitted
  <2> QED
      BY <2>5, <2>7, SameLog, Zenon
<1>4. CASE AddFile
  <2>1. PICK ts \in Int, op \in BOOLEAN :
            files' = Append(files, NewFilePair(committedId + 1, ts, op))
      BY <1>4, Zenon DEF AddFile
  <2> DEFINE f == NewFilePair(committedId + 1, ts, op)
  <2>2. f.begin = committedId + 1
      BY Zenon DEF NewFilePair
  <2> HIDE DEF f
  <2>3. /\ Len(files') = m + 1 /\ files'[m + 1] = f /\ files' # <<>>
        /\ \A i \in 1..m : files'[i] = files[i]
      BY <1>1, <2>1 DEF f
  <2>4. Begin' = Begin
    <3>1. CASE files = <<>>
      <4>1. committedId = -1 /\ m = 0
          BY <1>1, <3>1, Zenon DEF Durable
      <4> QED
          BY <2>2, <2>3, <3>1, <4>1 DEF Begin
    <3>2. CASE files # <<>>
      <4>1. 1 \in 1..m
          BY <1>1, <3>2
      <4> QED
          BY <2>3, <3>2, <4>1, Zenon DEF Begin
    <3> QED
        BY <3>1, <3>2, Zenon
  <2>5. ASSUME NEW id \in Begin'..committedId, NEW j \in 1..(m + 1), Holds(files', j, id)
        PROVE  j \in 1..m /\ Holds(files, j, id) /\ files[j].msgs[id] = files'[j].msgs[id]
    <3>1. j \in 1..m /\ (j < m => j + 1 \in 1..m)
        BY <1>1, <2>2, <2>3, <2>4, <2>5 DEF Holds
    <3> QED
        BY <1>1, <2>3, <2>5, <3>1 DEF Holds
  <2>6. \A id \in Begin'..committedId : StoredLog'[id] = StoredLog[id]
      BY <1>1, <2>3, <2>4, <2>5, SameCommitted
  <2> QED
      BY <2>4, <2>6, SameLog, Zenon
<1> QED
    BY <1>2, <1>3, <1>4, OpenFileSteps, Zenon DEF Shape

\* The list of pairs after a flush, whole or in part: what was committed is
\* where it was.
FlushedList(new) ==
    /\ files # <<>> /\ Len(new) = Len(files)
    /\ \A i \in 1..Len(files) : new[i].begin = files[i].begin
    /\ \A i \in 1..Len(files) : i < Len(files) => new[i] = files[i]
    /\ \A i \in 1..Len(files) : \A id \in files[i].begin..committedId :
          new[i].msgs[id] = files[i].msgs[id]

\* A flush makes such a list.
LEMMA FlushKeeps ==
    ASSUME Shape, phase # "down", outFile = "open", NEW k \in Nat, k <= writedId - committedId,
           NEW f, f.begin = LastFile.begin, f.msgs = Flushed(k).msgs
    PROVE  LET new == [files EXCEPT ![Len(files)] = f]
           IN  FlushedList(new) /\ new[Len(files)] = f
<1> DEFINE m == Len(files)
           new == [files EXCEPT ![m] = f]
<1>1. IInv /\ Durable /\ Contents /\ committedId \in Int
    BY Zenon DEF Shape, IInv, NumbersOK
<1>2. files # <<>> /\ ListOK(files) /\ files \in Seq(FilePairs)
    BY <1>1, FilesByPair, Zenon DEF IInv, LastOK, FilesOK
<1>3. m \in Nat /\ m \in 1..m /\ LastFile = files[m] /\ \A i \in 1..m : files[i].begin \in Nat
    BY <1>2, ListFields, Zenon DEF LastFile
<1>4. Len(new) = m /\ new[m] = f /\ \A i \in 1..m : i < m => new[i] = files[i]
    BY <1>2, <1>3
<1> HIDE DEF new
<1>5. \A i \in 1..m : i = m \/ i < m
    BY <1>3
<1>6. \A i \in 1..m : new[i].begin = files[i].begin
    BY <1>3, <1>4, <1>5, Zenon
<1>7. ASSUME NEW i \in 1..m, NEW id \in files[i].begin..committedId
      PROVE  new[i].msgs[id] = files[i].msgs[id]
  <2>1. CASE i = m
    <3>1. id \in LastFile.begin..(committedId + k) /\ id <= committedId
        BY <1>1, <1>3, <2>1
    <3>2. Flushed(k).msgs[id] = LastFile.msgs[id]
        BY <1>1, <3>1, FlushedMessages, Zenon
    <3> QED
        BY <1>3, <1>4, <2>1, <3>2, Zenon
  <2>2. CASE i < m
      BY <1>4, <2>2, Zenon
  <2> QED
      BY <1>5, <2>1, <2>2, Zenon
<1> QED
    BY <1>2, <1>4, <1>6, <1>7, Zenon DEF FlushedList, new

\* It begins where it began.
LEMMA FlushBegin ==
    ASSUME Shape, FlushedList(files')
    PROVE  Begin' = Begin
<1>1. ListOK(files)
    BY FilesByPair, Zenon DEF Shape, IInv
<1>2. 1 \in 1..Len(files) /\ files' # <<>>
    BY <1>1, ListFields DEF FlushedList
<1> QED
    BY <1>2, Zenon DEF FlushedList, Begin

\* A flush leaves the messages that were committed where they were.
LEMMA FlushSame ==
    ASSUME Shape, Shape', phase # "down", phase' # "down",
           FlushedList(files'), committedId <= committedId'
    PROVE  \A id \in Begin'..committedId : StoredLog'[id] = StoredLog[id]
<1> DEFINE m == Len(files)
<1>1. IInv /\ Durable /\ Begin \in Nat /\ committedId \in Int
    BY Zenon DEF Shape, UpLog, IInv, NumbersOK
<1>2. files # <<>> /\ ListOK(files) /\ Len(files') = m /\ Begin' = Begin
    BY <1>1, FilesByPair, FlushBegin, Zenon DEF IInv, FlushedList
<1>3. /\ m \in Nat /\ m \in 1..m /\ \A i \in 1..m : files[i].begin \in Nat
      /\ files[m].end = committedId + 1
    BY <1>1, <1>2, ListFields, Zenon DEF Durable, LastFile
<1>4. ASSUME NEW id \in Begin'..committedId, NEW j \in 1..m, Holds(files', j, id)
      PROVE  Holds(files, j, id) /\ files[j].msgs[id] = files'[j].msgs[id]
  <2>1. id \in Int /\ id <= committedId /\ files[j].begin <= id
      BY <1>1, <1>2, <1>4 DEF Holds, FlushedList
  <2>2. Holds(files, j, id)
    <3>1. CASE j = m
        BY <1>1, <1>3, <2>1, <3>1 DEF Holds
    <3>2. CASE j < m
      <4>1. j + 1 \in 1..m /\ files'[j] = files[j] /\ files'[j + 1].begin = files[j + 1].begin
          BY <1>3, <3>2 DEF FlushedList
      <4> QED
          BY <1>2, <1>4, <3>2, <4>1, Zenon DEF Holds
    <3> QED
        BY <1>3, <3>1, <3>2
  <2>3. id \in files[j].begin..committedId
      BY <1>1, <1>3, <2>1
  <2> QED
      BY <2>2, <2>3, Zenon DEF FlushedList
<1>5. Begin <= Begin'
    BY <1>1, <1>2
<1> QED
    BY <1>2, <1>4, <1>5, SameCommitted, Zenon

\* A failed flush is no step of the log.
LEMMA FailedFlushIsHidden ==
    ASSUME Shape, Shape', phase # "down", phase' # "down", outFile = "open",
           NEW k \in Nat, k <= writedId - committedId,
           files' = [files EXCEPT ![Len(files)] = Flushed(k)],
           UNCHANGED <<committedId, mem, first, last, VisibleBegin>>
    PROVE  UNCHANGED PL!logVars
<1>1. Flushed(k).begin = LastFile.begin /\ committedId <= committedId' /\ Begin \in Nat
  <2>1. files # <<>> /\ IInv
      BY FilesByPair, Zenon DEF Shape, IInv, LastOK
  <2>2. Flushed(k).begin = LastFile.begin
      BY <2>1, FlushedType, Zenon DEF IInv
  <2> QED
      BY <2>2 DEF Shape, IInv, NumbersOK, UpLog
<1>2. FlushedList(files')
    BY <1>1, FlushKeeps, Zenon
<1>3. Begin' = Begin /\ \A id \in Begin'..committedId : StoredLog'[id] = StoredLog[id]
    BY <1>1, <1>2, FlushBegin, FlushSame, Zenon
<1> QED
    BY <1>3, SameLog, Zenon

\* An id that the last pair holds is looked for there.
LEMMA LastHolds ==
    ASSUME NEW fs, NEW n \in Nat, Len(fs) = n, NEW f, fs[n] = f, NEW id, f.begin <= id, id < f.end
    PROVE  Holds(fs, n, id)
    BY DEF Holds

\* A commit that puts messages on dfs is the log's commit: they are the
\* messages that were shown from memory.
LEMMA FlushCommits ==
    ASSUME Shape, Shape', phase # "down", phase' # "down", outFile = "open",
           committedId < writedId, committedId' = writedId,
           files' = [files EXCEPT ![Len(files)] = [Flushed(writedId - committedId)
                                                      EXCEPT !.end = writedId + 1]],
           UNCHANGED <<mem, first, last, VisibleBegin>>
    PROVE  PL!Commit
<1> DEFINE k == writedId - committedId
           f == [Flushed(k) EXCEPT !.end = writedId + 1]
           m == Len(files)
<1>1. /\ IInv /\ Durable /\ Contents /\ UpLog /\ UpLog'
      /\ committedId \in Int /\ writedId \in Int /\ last \in Int /\ writedId <= last
    BY Zenon DEF Shape, IInv, NumbersOK, Ids
<1>2. k \in Nat /\ k <= writedId - committedId /\ committedId <= committedId' /\ committedId + k = writedId
    BY <1>1
<1>3. files # <<>> /\ LastOK
    BY <1>1, FilesByPair, Zenon DEF IInv, LastOK
<1>4. /\ Flushed(k) \in FilePairs /\ Flushed(k).begin = LastFile.begin
      /\ Flushed(k).tail = committedId + 1 + k
    BY <1>1, <1>2, <1>3, FlushedType, Zenon DEF IInv
<1>5. f.begin = LastFile.begin /\ f.msgs = Flushed(k).msgs /\ f.end = writedId + 1
    BY <1>4, Zenon DEF FilePairs
<1> HIDE DEF k
<1>6. FlushedList(files') /\ files'[m] = f
  <2>1. files' = [files EXCEPT ![Len(files)] = f]
      BY Zenon DEF k
  <2> HIDE DEF f
  <2> QED
      BY <1>2, <1>5, <2>1, FlushKeeps, Zenon
<1> HIDE DEF f
<1>7. Begin' = Begin /\ \A id \in Begin'..committedId : StoredLog'[id] = StoredLog[id]
    BY <1>2, <1>6, FlushBegin, FlushSame, Zenon
<1>8. /\ m \in 1..m /\ LastFile = files[m] /\ Len(files') = m /\ m \in Nat
    BY <1>1, <1>3, <1>6, FilesByPair, ListFields, Zenon DEF FlushedList, LastFile, IInv
<1>9. Begin \in Nat /\ Begin <= committedId + 1
    BY <1>1, Zenon DEF UpLog
<1>10. ASSUME NEW id \in (committedId + 1)..writedId PROVE StoredLog'[id] = StoredLog[id]
  <2>1. LastFile.begin \in Nat /\ LastFile.begin <= committedId + 1
      BY <1>1, <1>3, <1>8, FileFields, Zenon DEF IInv, LastOK
  <2>2. id \in LastFile.begin..(committedId + k) /\ id > committedId /\ id \in Begin'..committedId'
      BY <1>1, <1>2, <1>7, <1>9, <2>1
  <2>3. Flushed(k).msgs[id] = mem[id]
      BY <1>1, <1>2, <2>2, FlushedMessages, Zenon
  <2>4. Holds(files', m, id)
    <3>1. f.begin <= id /\ id < f.end
        BY <1>1, <1>5, <2>1, <2>2
    <3> QED
        BY <1>6, <1>8, <3>1, LastHolds, Zenon
  <2>5. StoredLog'[id] = files'[m].msgs[id]
      BY <1>1, <1>8, <2>2, <2>4, Zenon DEF UpLog
  <2>6. StoredLog[id] = mem[id]
      BY <1>1, <2>2 DEF UpLog
  <2> QED
      BY <1>5, <1>6, <2>3, <2>5, <2>6, Zenon
<1>11. ASSUME NEW id \in (writedId + 1)..last PROVE StoredLog'[id] = StoredLog[id]
  <2>1. id \in (committedId + 1)..last
      BY <1>1
  <2> QED
      BY <1>1, <2>1, Zenon DEF UpLog
<1>12. StoredLog' = StoredLog
  <2> DEFINE S == Begin..last
  <2>1. ASSUME NEW id \in S PROVE StoredLog'[id] = StoredLog[id]
    <3>1. id \in Begin..committedId \/ id \in (committedId + 1)..writedId \/ id \in (writedId + 1)..last
        BY <1>1, <1>9
    <3> QED
        BY <1>7, <1>10, <1>11, <3>1, Zenon
  <2>2. StoredLog \in [S -> Msg] /\ StoredLog' \in [S -> Msg]
      BY <1>1, <1>7, Zenon DEF UpLog
  <2> HIDE DEF S
  <2> QED
      BY <2>1, <2>2
<1>13. VisibleCommitted = committedId /\ VisibleCommitted' = writedId
    BY Zenon DEF VisibleCommitted
<1>14. writedId \in DOMAIN StoredLog
    BY <1>1, <1>9 DEF UpLog
<1> QED
    BY <1>1, <1>12, <1>13, <1>14, Zenon DEF PL!Commit

\* Pairs begin in the order of the list.
LEMMA InOrder ==
    ASSUME NEW fs, ListOK(fs), OrderOK(fs), NEW i \in 1..Len(fs), NEW j \in 1..Len(fs), i <= j
    PROVE  fs[i].begin <= fs[j].begin /\ (i < j => fs[i].begin < fs[j].begin)
<1>1. fs[i].begin \in Nat /\ fs[j].begin \in Nat
    BY ListFields, Zenon
<1> QED
    BY <1>1 DEF OrderOK

\* A pair before the last one begins at a committed message.
LEMMA BeginsCommitted ==
    ASSUME NEW a \in Nat, NEW b \in Nat, NEW c \in Int, a < b, b <= c + 1
    PROVE  a <= c
    OBVIOUS

\* Taking expired files from the list and deleting n that were taken is the
\* log's expiry; at least the last committed message stays.
LEMMA DropExpires ==
    ASSUME ReservedFileCount >= 2, Shape, Shape', phase # "down", phase' # "down",
           NEW n \in Nat, NEW listed \in Nat, n <= listed, obsolete <= listed,
           listed <= Len(files) - ReservedFileCount, obsolete' = listed - n,
           files' = SubSeq(files, n + 1, Len(files)), UNCHANGED <<committedId, mem, first, last>>
    PROVE  PL!Expire
<1> DEFINE m == Len(files)
           lo == files[n + 1].begin
<1>1. /\ IInv /\ Durable /\ UpLog /\ UpLog' /\ committedId \in Int /\ last \in Int
      /\ committedId <= last
    BY DEF Shape, IInv, NumbersOK, Ids
<1>2. ListOK(files) /\ OrderOK(files) /\ LastOK /\ m \in Nat /\ \A i \in 1..m : files[i].begin \in Nat
    BY <1>1, FilesByPair, ListFields, Zenon DEF IInv, Durable
<1>3. n + 1 < m /\ n + 1 \in 1..m /\ 1 \in 1..m /\ m \in 1..m /\ files # <<>> /\ n < m
    BY <1>2, StorageAssumption
<1>4. /\ files' # <<>> /\ Len(files') = m - n
      /\ \A i \in 1..(m - n) : files'[i] = files[i + n]
    BY <1>2, <1>3, DropPairs, Zenon
<1>5. lo \in Nat /\ files[1].begin <= lo /\ lo <= committedId
  <2>1. 1 <= n + 1 /\ n + 1 <= m
      BY <1>2, <1>3
  <2>2. files[1].begin <= lo /\ lo < files[m].begin
      BY <1>2, <1>3, <2>1, InOrder, Zenon
  <2>3. files[m].begin <= committedId + 1 /\ lo \in Nat /\ files[m].begin \in Nat
      BY <1>2, <1>3, Zenon DEF LastOK, LastFile
  <2> QED
      BY <1>1, <2>2, <2>3, BeginsCommitted, Zenon
<1>6. Begin = files[1].begin /\ Begin' = lo
  <2>1. 1 \in 1..(m - n) /\ 1 + n = n + 1
      BY <1>2, <1>3
  <2>2. files'[1] = files[n + 1]
      BY <1>4, <2>1, Zenon
  <2> QED
      BY <1>3, <1>4, <2>2, Zenon DEF Begin
<1>7. ASSUME NEW id \in Begin'..committedId, NEW j \in 1..(m - n), Holds(files', j, id)
      PROVE  j + n \in 1..m /\ Holds(files, j + n, id) /\ files[j + n].msgs[id] = files'[j].msgs[id]
  <2>0. m \in Nat
      BY <1>2, Zenon
  <2>1. j + n \in 1..m /\ files'[j] = files[j + n]
    <3>1. j + n \in 1..m
        BY <2>0
    <3> QED
        BY <1>4, <3>1, Zenon
  <2>2. j + n < m => j < m - n /\ j + 1 \in 1..(m - n) /\ (j + 1) + n = (j + n) + 1
      BY <1>2
  <2>3. j + n < m => files'[j + 1] = files[(j + n) + 1]
      BY <1>4, <2>2, Zenon
  <2>4. Holds(files, j + n, id)
      BY <1>4, <1>7, <2>1, <2>2, <2>3, Zenon DEF Holds
  <2> QED
      BY <2>1, <2>4, Zenon
<1> HIDE DEF lo
<1>8. \A id \in Begin'..committedId : StoredLog'[id] = StoredLog[id]
  <2>1. Begin <= Begin' /\ committedId <= committedId'
      BY <1>1, <1>2, <1>3, <1>5, <1>6
  <2> QED
      BY <1>4, <1>7, <2>1, SameCommitted, Zenon
<1>9. StoredLog \in [Begin..last -> Msg] /\ StoredLog' \in [lo..last -> Msg] /\ Begin \in Nat
    BY <1>1, <1>6, Zenon DEF UpLog
<1>10. ASSUME NEW id \in lo..last PROVE StoredLog'[id] = StoredLog[id]
  <2>1. id \in lo..committedId \/ id \in (committedId + 1)..last
      BY <1>1, <1>5
  <2>2. id \in (committedId + 1)..last => StoredLog'[id] = StoredLog[id]
      BY <1>1, Zenon DEF UpLog
  <2> QED
      BY <1>6, <1>8, <2>1, <2>2, Zenon
<1>11. lo \in DOMAIN StoredLog /\ {j \in DOMAIN StoredLog : j >= lo} = lo..last
    BY <1>1, <1>5, <1>6, <1>9
<1>12. StoredLog' = [i \in {j \in DOMAIN StoredLog : j >= lo} |-> StoredLog[i]]
  <2> DEFINE S == lo..last
  <2>1. StoredLog' \in [S -> Msg] /\ \A id \in S : StoredLog'[id] = StoredLog[id]
      BY <1>9, <1>10, Zenon
  <2> HIDE DEF S
  <2>2. StoredLog' = [i \in S |-> StoredLog[i]]
      BY <2>1, Zenon
  <2> QED
      BY <1>11, <2>2, Zenon DEF S
<1>13. VisibleCommitted = committedId /\ VisibleCommitted' = committedId
    BY Zenon DEF VisibleCommitted
\* The first listed pair after the step is pair listed + 1 before it.
<1>14. /\ VisibleBegin <= VisibleBegin' /\ VisibleBegin' <= committedId
       /\ lo <= VisibleBegin'
  <2>1. /\ obsolete \in Nat /\ obsolete + 1 \in 1..m /\ listed + 1 \in 1..m /\ listed + 1 < m
        /\ obsolete' + 1 \in 1..(m - n) /\ (obsolete' + 1) + n = listed + 1
      BY <1>1, <1>2, <1>3, StorageAssumption DEF IInv, ObsoleteOK
  <2>2. VisibleBegin = files[obsolete + 1].begin /\ VisibleBegin' = files[listed + 1].begin
    <3>1. files'[obsolete' + 1] = files[listed + 1]
        BY <1>4, <2>1, Zenon
    <3> QED
        BY <1>3, <1>4, <3>1, Zenon DEF Shape, BeginOK, ListedBegin
  <2>a. obsolete + 1 <= listed + 1 /\ n + 1 <= listed + 1 /\ listed + 1 <= m
      BY <1>2, <2>1
  <2>3. /\ files[obsolete + 1].begin <= files[listed + 1].begin
        /\ files[n + 1].begin <= files[listed + 1].begin
        /\ files[listed + 1].begin < files[m].begin
      BY <1>2, <1>3, <2>1, <2>a, InOrder, Zenon
  <2>4. /\ files[m].begin <= committedId + 1
        /\ files[listed + 1].begin \in Nat /\ files[m].begin \in Nat
      BY <1>2, <1>3, <2>1, Zenon DEF LastOK, LastFile
  <2>5. VisibleBegin' <= committedId
      BY <1>1, <2>2, <2>3, <2>4, BeginsCommitted, Zenon
  <2> QED
      BY <2>2, <2>3, <2>5, Zenon DEF lo
<1> QED
    BY <1>11, <1>12, <1>13, <1>14, Zenon DEF PL!Expire

\* A partition that goes down, in order or not, is the log's restart: what the
\* next load will find is what was committed, and of the other messages those
\* that a last flush had put on dfs.
LEMMA DownRestarts ==
    ASSUME Shape, Shape', phase # "down", phase' = "down", UNCHANGED committedId,
           (files = <<>> /\ files' = <<>>) \/ FlushedList(files'),
           Agrees(files', mem, first, last)
    PROVE  PL!Restart
<1> DEFINE m == Len(files)
           r == RecoveredId'
<1>1. /\ IInv /\ Durable /\ UpLog /\ Durable' /\ DownLog'
      /\ committedId \in Int /\ committedId >= -1 /\ last \in Int /\ committedId <= last
      /\ first \in Int /\ first <= committedId + 1
    BY DEF Shape, IInv, NumbersOK, Ids
<1>2. ListOK(files) /\ OrderOK(files) /\ LastOK /\ m \in Nat
      /\ \A i \in 1..m : files[i].begin \in Nat /\ files[i].tail \in Nat /\ files[i].end \in Nat
    BY <1>1, FilesByPair, ListFields, Zenon DEF IInv, Durable
<1>3. Begin' = Begin /\ Begin \in Nat /\ Begin <= committedId + 1
    BY <1>1, FlushBegin, Zenon DEF Begin, UpLog
<1>4. /\ r \in Int /\ r >= committedId /\ StoredLog' \in [Begin..r -> Msg]
      /\ StoredLog \in [Begin..last -> Msg]
    BY <1>1, <1>3, Zenon DEF DownLog, UpLog
<1>5. OrderOK(files') /\ ListOK(files')
  <2>1. ListOK(files)'
    <3>1. FilesOK' /\ Files' <=> ListOK(files)' /\ LastOK'
        BY FilesByPair, PTL
    <3> QED
        BY <3>1, Zenon DEF Shape, IInv
  <2> QED
      BY <1>1, <2>1, Zenon DEF Durable
<1> HIDE DEF r
<1>6. ASSUME NEW id \in Begin..r
      PROVE  id <= last /\ StoredLog'[id] = StoredLog[id]
  <2>1. PICK i \in 1..Len(files') : Shown(files', i, id)
      BY <1>1, <1>3, <1>6, Zenon DEF DownLog, r
  <2>2. StoredLog'[id] = files'[i].msgs[id]
      BY <1>1, <1>3, <1>6, <2>1, Zenon DEF DownLog, r
  <2>3. id \in Int /\ Begin <= id
      BY <1>3, <1>4
  <2>4. /\ Len(files') \in Nat
        /\ \A j \in 1..Len(files') : files'[j].begin \in Nat /\ files'[j].tail \in Nat /\ files'[j].end \in Nat
      BY <1>5, ListFields, Zenon
  <2>5. CASE id <= committedId
    <3>1. FlushedList(files')
        BY <2>1 DEF FlushedList
    <3>2. Len(files') = m /\ i \in 1..m /\ files # <<>>
        BY <2>1, <3>1, Zenon DEF FlushedList
    <3>3. files'[i].begin = files[i].begin /\ id \in files[i].begin..committedId
        BY <1>1, <1>2, <2>1, <2>3, <2>5, <3>1, <3>2 DEF FlushedList, Shown
    <3>4. Holds(files, i, id)
      <4>1. CASE i = m
        <5>1. files[m].end = committedId + 1
            BY <1>1, <3>2, Zenon DEF Durable, LastFile
        <5> QED
            BY <1>1, <1>2, <2>3, <2>5, <3>3, <4>1, <5>1 DEF Holds
      <4>2. CASE i < m
        <5>1. i + 1 \in 1..m /\ files'[i + 1].begin = files[i + 1].begin /\ files[i + 1].begin <= files[i].end
            BY <1>2, <3>1, <3>2, <4>2 DEF FlushedList, OrderOK
        <5>2. id < files[i + 1].begin
          <6>1. CASE files'[i + 1].begin < files'[i + 1].tail
              BY <2>1, <3>2, <4>2, <5>1, <6>1, Zenon DEF Shown
          <6>2. CASE ~(files'[i + 1].begin < files'[i + 1].tail)
            <7>1. i + 1 = m
              <8>1. i + 1 < m => files'[i + 1].begin < files'[i + 1].tail
                  BY <1>5, <3>2, <5>1, Zenon DEF ListOK
              <8> QED
                  BY <1>2, <4>2, <6>2, <8>1
            <7>2. files'[m].end = committedId + 1
              <8>1. files' # <<>>
                  BY <2>1
              <8> QED
                  BY <1>1, <3>2, <8>1, Zenon DEF Durable, LastFile
            <7>3. files'[m].begin <= files'[m].end /\ files'[m].end <= files'[m].tail
                  /\ files'[m].begin \in Nat /\ files'[m].tail \in Nat
                BY <1>5, <2>4, <3>2, <5>1, <7>1, Zenon DEF OrderOK
            <7>4. files'[m].begin = committedId + 1
                BY <1>1, <6>2, <7>1, <7>2, <7>3
            <7> QED
                BY <1>1, <2>3, <2>5, <5>1, <7>1, <7>4
          <6> QED
              BY <6>1, <6>2, Zenon
        <5> QED
            BY <1>2, <2>3, <3>2, <3>3, <4>2, <5>1, <5>2 DEF Holds
      <4> QED
          BY <1>2, <3>2, <4>1, <4>2
    <3>5. files'[i].msgs[id] = files[i].msgs[id]
        BY <3>1, <3>2, <3>3, Zenon DEF FlushedList
    <3>6. StoredLog[id] = files[i].msgs[id]
      <4>1. id \in Begin..committedId
          BY <1>1, <2>3, <2>5, <1>3
      <4> QED
          BY <1>1, <3>2, <3>4, <4>1, Zenon DEF UpLog
    <3> QED
        BY <1>1, <2>2, <2>3, <2>5, <3>5, <3>6
  <2>6. CASE id > committedId
    <3>1. id \in files'[i].begin..(files'[i].tail - 1)
        BY <2>1, <2>3, <2>4 DEF Shown
    <3>2. MayShow(files', i, id)
      <4>1. i < Len(files') => i + 1 \in 1..Len(files')
          BY <2>1, <2>4
      <4>2. i < Len(files') => files'[i + 1].end <= files'[i + 1].tail
          BY <1>5, <4>1, Zenon DEF OrderOK
      <4>3. i < Len(files') /\ files'[i + 1].begin < files'[i + 1].end
                => files'[i + 1].begin < files'[i + 1].tail
          BY <2>4, <4>1, <4>2
      <4> QED
          BY <2>1, <4>3, Zenon DEF Shown, MayShow
    <3>3. first <= id
        BY <1>1, <2>3, <2>6
    <3>4. id <= last /\ files'[i].msgs[id] = mem[id]
        BY <2>1, <3>1, <3>2, <3>3, Zenon DEF Agrees
    <3>5. StoredLog[id] = mem[id]
      <4>1. id \in (committedId + 1)..last
          BY <1>1, <2>3, <2>6, <3>4
      <4> QED
          BY <1>1, <4>1, Zenon DEF UpLog
    <3> QED
        BY <2>2, <3>4, <3>5, Zenon
  <2> QED
      BY <1>1, <2>3, <2>5, <2>6
<1>7. r <= last /\ (r = committedId \/ r \in Begin..last)
  <2>1. CASE r \in Begin..r
      BY <1>1, <1>3, <1>4, <1>6, <2>1
  <2>2. CASE r \notin Begin..r
      BY <1>1, <1>3, <1>4, <2>2
  <2> QED
      BY <2>1, <2>2, Zenon
<1>8. {j \in DOMAIN StoredLog : j <= r} = Begin..r
    BY <1>1, <1>3, <1>4, <1>7
<1>9. StoredLog' = [i \in {j \in DOMAIN StoredLog : j <= r} |-> StoredLog[i]]
  <2> DEFINE S == Begin..r
  <2>1. StoredLog' \in [S -> Msg] /\ \A id \in S : StoredLog'[id] = StoredLog[id]
      BY <1>4, <1>6, Zenon
  <2> HIDE DEF S
  <2>2. StoredLog' = [i \in S |-> StoredLog[i]]
      BY <2>1, Zenon
  <2> QED
      BY <1>8, <2>2, Zenon DEF S
<1>10. VisibleCommitted = committedId /\ VisibleCommitted' = r
    BY Zenon DEF VisibleCommitted, r
<1>11. r \in (DOMAIN StoredLog) \cup {VisibleCommitted} /\ r >= VisibleCommitted
    BY <1>4, <1>7, <1>10, Zenon
<1>12. VisibleBegin' <= VisibleBegin /\ \A i \in DOMAIN StoredLog' : VisibleBegin' <= i
  <2>1. ListedBegin' = Begin'
    <3>1. obsolete' = 0
        BY Zenon DEF Shape, IInv, ObsoleteOK
    <3>2. obsolete' + 1 = 1
        BY <3>1
    <3> QED
        BY <3>2, Zenon DEF ListedBegin, Begin
  <2>2. VisibleBegin' = Begin /\ Begin <= VisibleBegin
      BY <1>3, <2>1, Zenon DEF Shape, BeginOK
  <2>3. \A i \in DOMAIN StoredLog' : Begin <= i
      BY <1>3, <1>4
  <2> QED
      BY <2>2, <2>3, Zenon
<1> QED
    BY <1>9, <1>10, <1>11, <1>12, Zenon DEF PL!Restart

\* Loading is no step of the log: it shows what was on dfs.
LEMMA LoadIsHidden ==
    ASSUME Shape, Shape', Load
    PROVE  UNCHANGED PL!logVars
<1>1. /\ IInv /\ Durable /\ phase = "down" /\ phase' # "down" /\ UpLog'
      /\ files' = RecoveredFiles /\ committedId' = RecoveredId /\ last' = RecoveredId
    BY Zenon DEF Shape, Load
<1>2. RecoveredId \in Int
    BY <1>1, RecoveredIdBounds, Zenon DEF IInv
<1>3. VisibleCommitted' = VisibleCommitted
    BY <1>1, Zenon DEF VisibleCommitted
<1>a. ASSUME Kept # 0
      PROVE  files' # <<>> /\ files'[1].begin = files[1].begin /\ files[1].begin \in Nat /\ files[1].begin <= RecoveredId
  <2>1. ListOK(files) /\ Len(files) \in Nat
      BY <1>1, FilesByPair, ListFields, Zenon DEF IInv
  <2>2. Kept \in 1..Len(files) /\ files[Kept].begin < files[Kept].tail
      BY <1>1, <1>a, KeptPairs DEF IInv
  <2>3. \A i \in 1..Kept : files[i].begin < files[i].tail
      BY <2>1, <2>2 DEF ListOK
  <2>4. 1 \in 1..Kept /\ 1 \in 1..Len(files)
      BY <2>1, <2>2
  <2>5. RecoveredFiles[1].begin = files[1].begin
      BY <2>1, <2>2, <2>3, <2>4, ReloadPairs, Zenon
  <2>6. RecoveredFiles # <<>> /\ RecoveredFiles[1].begin <= RecoveredId
      BY <1>1, <1>a, ReloadCovers, Zenon
  <2> QED
      BY <1>1, <2>1, <2>4, <2>5, <2>6, ListFields, Zenon
<1>4. StoredLog' = StoredLog
  <2>1. CASE Kept = 0
    <3>1. files' = <<>> /\ RecoveredId = -1 /\ StoredLog = NoMsgs
        BY <1>1, <2>1 DEF RecoveredFiles, RecoveredId, StoredLog
    <3>2. StoredLog' \in [0..-1 -> Msg]
        BY <1>1, <3>1, Zenon DEF UpLog, Begin
    <3>3. 0..-1 = {}
        OBVIOUS
    <3> QED
        BY <3>1, <3>2, <3>3, Zenon DEF NoMsgs
  <2>2. CASE Kept # 0
    <3> DEFINE S == files[1].begin..RecoveredId
    <3>1. StoredLog = [id \in S |-> DiskMsg(RecoveredFiles, id)]
        BY <1>1, <2>2, Zenon DEF StoredLog
    <3>2. files' # <<>> /\ files'[1].begin = files[1].begin /\ files[1].begin \in Nat /\ files[1].begin <= RecoveredId
        BY <1>a, <2>2, Zenon
    <3>3. StoredLog' = [id \in S |-> IF id <= RecoveredId THEN DiskMsg(RecoveredFiles, id) ELSE mem'[id]]
      <4>1. files[1].begin = Minimum(files[1].begin, RecoveredId + 1)
          BY <1>2, <3>2 DEF Minimum
      <4> QED
          BY <1>1, <3>2, <4>1, Zenon DEF StoredLog
    <3>4. \A id \in S : id <= RecoveredId
        BY <1>2, <3>2
    <3> HIDE DEF S
    <3> QED
        BY <3>1, <3>3, <3>4, Zenon
  <2> QED
      BY <2>1, <2>2, Zenon
<1>5. VisibleBegin' = VisibleBegin
  <2>1. obsolete' + 1 = 1 /\ VisibleBegin' = ListedBegin'
    <3>1. obsolete' = 0
        BY Zenon DEF Shape, IInv, ObsoleteOK, Load
    <3>2. obsolete' + 1 = 1
        BY <3>1
    <3> QED
        BY <3>2, Zenon DEF Shape, BeginOK
  <2>2. CASE Kept = 0
    <3>1. files' = <<>>
        BY <1>1, <2>2 DEF RecoveredFiles
    <3> QED
        BY <1>1, <2>1, <2>2, <3>1, Zenon DEF VisibleBegin, ListedBegin
  <2>3. CASE Kept # 0
      BY <1>1, <1>a, <2>1, <2>3, Zenon DEF VisibleBegin, ListedBegin
  <2> QED
      BY <2>2, <2>3, Zenon
<1> QED
    BY <1>3, <1>4, <1>5, Zenon DEF PL!logVars

\* What a write request adds to the queue.
LEMMA AddedMessages ==
    ASSUME IInv, NEW n \in 1..MaxBatch, AddMessage(n)
    PROVE  /\ phase # "down" /\ phase' # "down" /\ UNCHANGED <<files, committedId, first>>
           /\ n \in Nat /\ n > 0 /\ last' = last + n
           /\ \A id \in first..last : mem'[id] = mem[id]
           /\ \E t \in Int : /\ first <= last => t > mem[last].ts
                             /\ \A id \in (last + 1)..last' : mem'[id].ts = t + id - (last + 1)
<1> DEFINE t == NextMsgTimestamp(LastReceivedMsgTimestamp)
           id0 == last + 1
           new == [i \in id0..(id0 + n - 1) |-> [val |-> accepted + 1 + i - id0, ts |-> t + i - id0]]
<1>1. /\ first \in Nat /\ last \in Int /\ now \in Int /\ DOMAIN mem = first..last
      /\ phase # "down" => (first > last => first = 0 /\ last = -1)
    BY DEF IInv, NumbersOK, Ids, MessagesOK
<1>2. /\ phase # "down" /\ phase' # "down" /\ UNCHANGED <<files, committedId>>
    BY Zenon DEF AddMessage, committerVars, fileVars
<1>3. n \in Nat /\ n > 0
    BY StorageAssumption
<1>4. LastReceivedMsgId = last
    BY <1>1, <1>2, Zenon DEF LastReceivedMsgId, MemEmpty
<1>5. first' = first /\ last' = last + n /\ first <= last + 1
    BY <1>1, <1>2, <1>4 DEF AddMessage, MemEmpty
<1>6. mem' = Extend(mem, new, first', last')
    BY <1>4, Zenon DEF AddMessage
<1>7. ~MemEmpty => mem[last].ts \in Int
    BY <1>1 DEF MemEmpty, IInv, MessagesOK, Msg
<1>8. t \in Int /\ (first <= last => t > mem[last].ts)
    BY <1>1, <1>7 DEF NextMsgTimestamp, LastReceivedMsgTimestamp, Maximum, MemEmpty
<1> HIDE DEF t
<1>9. \A id \in first..last : mem'[id] = mem[id]
  <2> HIDE DEF new
  <2> QED
    BY <1>1, <1>3, <1>5, <1>6 DEF Extend
<1>10. ASSUME NEW id \in (last + 1)..last' PROVE mem'[id].ts = t + id - (last + 1)
  <2>1. id \in first'..last' /\ id \notin first..last /\ id \in id0..(id0 + n - 1)
      BY <1>1, <1>3, <1>5
  <2>2. new[id].ts = t + id - (last + 1)
      BY <2>1, Zenon
  <2> HIDE DEF new
  <2>3. mem'[id] = new[id]
      BY <1>1, <1>6, <2>1, Zenon DEF Extend
  <2> QED
      BY <2>2, <2>3, Zenon
<1> QED
    BY <1>2, <1>3, <1>5, <1>8, <1>9, <1>10, Zenon

\* Adding messages is the log's append: the ids go on without a gap and the
\* timestamps grow.
LEMMA AddAppends ==
    ASSUME Shape, Shape', Growing, NEW n \in 1..MaxBatch, AddMessage(n), UNCHANGED VisibleBegin
    PROVE  PL!Append /\ Growing'
<1>1. /\ IInv /\ Durable /\ Contents /\ UpLog /\ UpLog'
      /\ committedId \in Int /\ committedId >= -1 /\ last \in Int /\ committedId <= last
      /\ first \in Nat /\ first <= committedId + 1 /\ (first > last => last = -1)
  <2>1. IInv /\ Durable /\ Contents /\ UpLog /\ UpLog'
      BY Zenon DEF Shape
  <2>2. phase # "down"
      BY Zenon DEF AddMessage
  <2>3. /\ committedId \in Int /\ last \in Int /\ first \in Nat
        /\ writedId \in Int /\ lastCommittedId \in Int
      BY <2>1, Zenon DEF IInv, NumbersOK
  <2>4. /\ lastCommittedId >= -1 /\ lastCommittedId <= committedId /\ committedId <= writedId
        /\ writedId <= last /\ first <= lastCommittedId + 1 /\ (first > last => last = -1)
      BY <2>1, <2>2, Zenon DEF IInv, Ids
  <2> QED
      BY <2>1, <2>3, <2>4
<1>2. /\ phase # "down" /\ phase' # "down" /\ UNCHANGED <<files, committedId, first>>
      /\ n \in Nat /\ n > 0 /\ last' = last + n
      /\ \A id \in first..last : mem'[id] = mem[id]
    BY <1>1, AddedMessages, Zenon
<1>3. PICK t \in Int : /\ first <= last => t > mem[last].ts
                       /\ \A id \in (last + 1)..last' : mem'[id].ts = t + id - (last + 1)
    BY <1>1, AddedMessages, Zenon
<1>4. Begin' = Begin /\ Begin \in Nat /\ Begin <= committedId + 1 /\ (committedId >= 0 => Begin <= committedId)
    BY <1>1, <1>2, Zenon DEF Begin, UpLog
<1>5. StoredLog \in [Begin..last -> Msg] /\ StoredLog' \in [Begin..(last + n) -> Msg]
    BY <1>1, <1>2, <1>4, Zenon DEF UpLog
<1>6. ASSUME NEW id \in Begin..last PROVE StoredLog'[id] = StoredLog[id]
  <2>1. \A i \in Begin'..committedId : StoredLog'[i] = StoredLog[i]
    <3>1. committedId <= committedId' /\ Begin <= Begin'
        BY <1>1, <1>2, <1>4
    <3> QED
        BY <1>2, <3>1, SameCommitted, Zenon
  <2>2. CASE id <= committedId
      BY <1>1, <1>4, <2>1, <2>2
  <2>3. CASE id > committedId
    <3>1. id \in (committedId + 1)..last /\ id \in (committedId' + 1)..last' /\ id \in first..last
        BY <1>1, <1>2, <1>4, <2>3
    <3> QED
        BY <1>1, <1>2, <3>1, Zenon DEF UpLog
  <2> QED
      BY <1>1, <1>4, <2>2, <2>3
<1>7. ASSUME NEW id \in (last + 1)..(last + n) PROVE StoredLog'[id].ts = t + id - (last + 1)
  <2>1. id \in (committedId' + 1)..last' /\ id \in (last + 1)..last'
      BY <1>1, <1>2
  <2>2. StoredLog'[id] = mem'[id]
      BY <1>1, <1>2, <2>1, Zenon DEF UpLog
  <2> QED
      BY <1>3, <2>1, <2>2, Zenon
\* The last message of the log is the last one of the queue, and the youngest.
<1>8. ASSUME NEW j \in Begin..last PROVE StoredLog[j].ts \in Int /\ StoredLog[j].ts < t
  <2>1. last \in Begin..last /\ first <= last /\ last \in Int
      BY <1>1, <1>4
  <2>2. StoredLog[last] = mem[last]
    <3>1. CASE last > committedId
      <4>1. last \in (committedId + 1)..last
          BY <1>1, <3>1
      <4> QED
          BY <1>1, <1>2, <4>1, Zenon DEF UpLog
    <3>2. CASE last = committedId
      <4>1. PICK i \in 1..Len(files) : Holds(files, i, last)
          BY <1>1, <1>2, <2>1, <3>2, Zenon DEF UpLog
      <4>2. StoredLog[last] = files[i].msgs[last]
          BY <1>1, <1>2, <2>1, <3>2, <4>1, Zenon DEF UpLog
      <4>3. MayShow(files, i, last)
          BY <4>1, Zenon DEF Holds, MayShow
      <4>4. last \in files[i].begin..(files[i].tail - 1)
        <5>1. files[i].begin \in Nat /\ files[i].end \in Nat /\ files[i].tail \in Nat
            BY <1>1, FileFields, Zenon DEF IInv
        <5>2. files[i].end <= files[i].tail
            BY <1>1, Zenon DEF Durable, OrderOK
        <5> QED
            BY <1>1, <4>1, <5>1, <5>2 DEF Holds
      <4> QED
          BY <1>1, <1>2, <2>1, <4>2, <4>3, <4>4, Zenon DEF Contents, Agrees
    <3> QED
        BY <1>1, <3>1, <3>2
  <2>3. StoredLog[j].ts \in Int /\ StoredLog[last].ts \in Int
      BY <1>5, <2>1, Zenon DEF Msg
  <2>4. j = last \/ StoredLog[j].ts < StoredLog[last].ts
      BY <1>4, <1>5, <2>1 DEF Growing
  <2> QED
      BY <1>3, <2>1, <2>2, <2>3, <2>4
<1>9. DOMAIN StoredLog = Begin..last /\ DOMAIN StoredLog' = Begin..(last + n)
    BY <1>5, Zenon
<1>10. ASSUME NEW i \in (last + 1)..(last + n), NEW j \in Begin..(last + n), j < i
       PROVE  StoredLog'[j].ts < StoredLog'[i].ts
  <2>1. i \in Int /\ j \in Int /\ StoredLog'[i].ts = t + i - (last + 1)
      BY <1>1, <1>4, <1>7
  <2>2. CASE j \in Begin..last
      BY <1>1, <1>6, <1>8, <2>1, <2>2
  <2>3. CASE j \in (last + 1)..(last + n)
    <3>1. StoredLog'[j].ts = t + j - (last + 1)
        BY <1>7, <2>3, Zenon
    <3> QED
        BY <1>1, <1>10, <2>1, <3>1
  <2> QED
      BY <1>1, <1>2, <1>4, <2>2, <2>3
<1>11. PL!Append
  <2>1. Begin..last \subseteq Begin..(last + n)
      BY <1>1, <1>2, <1>4
  <2>2. VisibleCommitted = committedId /\ VisibleCommitted' = committedId
      BY <1>2, Zenon DEF VisibleCommitted
  <2>3. \A i \in (Begin..(last + n)) \ (Begin..last) : i \in (last + 1)..(last + n)
      BY <1>1, <1>2, <1>4
  <2>4. \A i \in (last + 1)..(last + n) : i > committedId /\ (i = 0 \/ i - 1 \in Begin..(last + n))
      BY <1>1, <1>2, <1>4
  <2> QED
      BY <1>6, <1>9, <1>10, <2>1, <2>2, <2>3, <2>4, Zenon DEF PL!Append
<1>12. Growing'
  <2>1. ASSUME NEW i \in Begin..(last + n), NEW j \in Begin..(last + n), i < j
        PROVE  StoredLog'[i].ts < StoredLog'[j].ts
    <3>1. CASE j \in Begin..last
      <4>1. i \in Begin..last
          BY <1>1, <1>4, <2>1, <3>1
      <4> QED
          BY <1>6, <1>9, <2>1, <3>1, <4>1, Zenon DEF Growing
    <3>2. CASE j \in (last + 1)..(last + n)
        BY <1>10, <2>1, <3>2, Zenon
    <3> QED
        BY <1>1, <1>2, <1>4, <3>1, <3>2
  <2> QED
      BY <1>9, <2>1, Zenon DEF Growing
<1> QED
    BY <1>11, <1>12, Zenon

\* Every step of the log but an append leaves the timestamps in order.
LEMMA StillGrowing ==
    ASSUME Growing, UNCHANGED PL!logVars \/ PL!Commit \/ PL!Restart \/ PL!Expire
    PROVE  Growing'
<1>1. CASE UNCHANGED PL!logVars \/ PL!Commit
    BY <1>1, Zenon DEF Growing, PL!logVars, PL!Commit
<1>2. CASE PL!Restart
  <2>1. PICK h : StoredLog' = [i \in {j \in DOMAIN StoredLog : j <= h} |-> StoredLog[i]]
      BY <1>2, Zenon DEF PL!Restart
  <2> QED
      BY <2>1, Zenon DEF Growing
<1>3. CASE PL!Expire
  <2>1. PICK lo : StoredLog' = [i \in {j \in DOMAIN StoredLog : j >= lo} |-> StoredLog[i]]
      BY <1>3, Zenon DEF PL!Expire
  <2> QED
      BY <2>1, Zenon DEF Growing
<1> QED
    BY <1>1, <1>2, <1>3, Zenon

\* A crash, whatever the commit under way has put on dfs, is the log's restart.
LEMMA CrashRestarts ==
    ASSUME Shape, Shape', NEW k \in 0..MaxMsgs, Crash(k)
    PROVE  PL!Restart
<1>1. /\ phase # "down" /\ phase' = "down" /\ UNCHANGED committedId
      /\ k \in Nat /\ k <= writedId - committedId
    BY StorageAssumption DEF Crash, Forget
<1>2. IInv /\ Durable /\ Contents
    BY Zenon DEF Shape
<1>3. CASE k = 0
  <2>1. files' = files /\ Agrees(files, mem, first, last)
      BY <1>1, <1>2, <1>3 DEF Crash, Contents
  <2>2. files # <<>> => FlushedList(files)
      BY Zenon DEF FlushedList
  <2>3. (files = <<>> /\ files' = <<>>) \/ FlushedList(files')
      BY <2>1, <2>2, Zenon
  <2>4. Agrees(files', mem, first, last)
      BY <2>1, Zenon
  <2> QED
      BY <1>1, <2>3, <2>4, DownRestarts, Zenon
<1>4. CASE k # 0
  <2>1. outFile = "open"
    <3>1. /\ writedId \in Int /\ committedId \in Int /\ outFile \in {"open", "closed"}
          /\ outFile = "closed" => writedId = committedId
        BY <1>2, Zenon DEF IInv, NumbersOK, Ids
    <3> QED
        BY <1>1, <1>4, <3>1
  <2>2. Flushed(k).begin = LastFile.begin
    <3>1. files # <<>>
        BY <1>2, <2>1, FilesByPair, Zenon DEF IInv, LastOK
    <3> QED
        BY <1>1, <1>2, <3>1, FlushedType, Zenon DEF IInv
  <2>3. FlushedList([files EXCEPT ![Len(files)] = Flushed(k)])
      BY <1>1, <2>1, <2>2, FlushKeeps, Zenon
  <2>4. Agrees([files EXCEPT ![Len(files)] = Flushed(k)], mem, first, last)
      BY <1>1, <1>2, <2>1, FlushedAgrees, Zenon
  <2>5. files' = [files EXCEPT ![Len(files)] = Flushed(k)]
      BY <1>1, <1>4 DEF Crash
  <2>6. FlushedList(files') /\ Agrees(files', mem, first, last)
      BY <2>3, <2>4, <2>5, Zenon
  <2> QED
      BY <1>1, <2>6, DownRestarts, Zenon
<1> QED
    BY <1>3, <1>4, Zenon

\* Every step of the storage is a step of the log or leaves it alone.
LEMMA RefineStep ==
    ASSUME ReservedFileCount >= 2, Shape, Shape', Growing, [Next]_vars
    PROVE  [PL!LogNext]_(PL!logVars) /\ Growing'
<1> USE DEF envVars, dequeVars, committerVars, fileVars
<1>0. IInv /\ Durable /\ Contents
    BY Zenon DEF Shape
<1>a. /\ committedId \in Int /\ writedId \in Int /\ first \in Int /\ last \in Int /\ lastCommittedId \in Int
      /\ lastCommittedId <= committedId /\ committedId <= writedId
      /\ outFile \in {"open", "closed"}
      /\ phase = "down" => cpc = "idle"
    BY <1>0 DEF IInv, NumbersOK, Ids
<1> SUFFICES \/ UNCHANGED PL!logVars \/ PL!Commit \/ PL!Restart \/ PL!Expire
             \/ PL!Append /\ Growing'
    BY StillGrowing, Zenon DEF PL!LogNext
<1>12. ASSUME NEW n \in 0..MaxMsgs, NEW k \in 0..MaxMsgs, DelExpiredFile(n, k)
       PROVE  UNCHANGED PL!logVars \/ PL!Expire
  <2>1. /\ phase # "down" /\ phase' # "down" /\ UNCHANGED <<mem, first, last, committedId>>
        /\ n = 0 \/ n <= ObsoleteFilePos
        /\ k <= obsolete + n /\ obsolete' = obsolete + n - k
        /\ files' = SubSeq(files, k + 1, Len(files))
      BY <1>12, Zenon DEF DelExpiredFile
  <2>2. /\ obsolete \in Nat /\ (obsolete = 0 \/ obsolete <= Len(files) - ReservedFileCount)
        /\ files \in Seq(FilePairs)
      BY <1>0, Zenon DEF IInv, ObsoleteOK, FilesOK
  <2>3. CASE obsolete + n = 0
    <3>1. k = 0 /\ obsolete' = obsolete
        BY <2>1, <2>2, <2>3, StorageAssumption
    <3>2. files' = files
        BY <2>1, <2>2, <3>1
    <3>3. ListedBegin' = ListedBegin
        BY <3>1, <3>2, Zenon DEF ListedBegin
    <3>4. UNCHANGED VisibleBegin
        BY <3>3, Zenon DEF Shape, BeginOK
    <3> QED
        BY <2>1, <3>2, <3>4, KeepStep, Zenon
  <2>4. CASE obsolete + n # 0
    <3>1. /\ k \in Nat /\ obsolete + n \in Nat /\ obsolete <= obsolete + n
          /\ obsolete + n <= Len(files) - ReservedFileCount
        BY <2>1, <2>2, <2>4, StorageAssumption DEF ObsoleteFilePos
    <3>2. obsolete + (n - k) = (obsolete + n) - k
        BY <2>2, StorageAssumption
    <3> QED
        BY <2>1, <3>1, <3>2, DropExpires, Zenon
  <2> QED
      BY <2>3, <2>4, Zenon
<1>n. SUFFICES ASSUME ~\E n, k \in 0..MaxMsgs : DelExpiredFile(n, k)
               PROVE  \/ UNCHANGED PL!logVars \/ PL!Commit \/ PL!Restart \/ PL!Expire
                      \/ PL!Append /\ Growing'
    BY <1>12, Zenon
<1>v. ASSUME phase # "down", phase' # "down" PROVE UNCHANGED VisibleBegin
    BY <1>n, <1>v, BeginKept, Zenon
<1>s. ASSUME phase # "down", phase' # "down", UNCHANGED <<files, committedId, last, mem>>
      PROVE  UNCHANGED PL!logVars
    BY <1>s, <1>v, KeepStep, Zenon
<1>1. CASE Tick
  <2>1. UNCHANGED <<phase, files, obsolete, committedId, last, mem>>
      BY <1>1, Zenon DEF Tick
  <2>2. UNCHANGED VisibleBegin
      BY <2>1 DEF VisibleBegin, Listed, FirstListed, Kept
  <2> QED
      BY <2>1, <2>2 DEF PL!logVars, StoredLog, VisibleCommitted, Kept, RecoveredFiles, RecoveredId
<1>2. ASSUME NEW n \in 1..MaxBatch, AddMessage(n) PROVE PL!Append /\ Growing'
  <2>1. phase # "down" /\ phase' # "down"
      BY <1>2, Zenon DEF AddMessage
  <2> QED
      BY <1>2, <1>v, <2>1, AddAppends, Zenon
<1>3. ASSUME NEW n \in 1..MemCapacity, Recycle(n) \/ RecycleFast(n) PROVE UNCHANGED PL!logVars
  <2>1. /\ phase # "down" /\ phase' # "down" /\ DropFront(n)
        /\ UNCHANGED <<files, committedId, last>>
      BY <1>3, Zenon DEF Recycle, RecycleFast, DropFront
  <2>2. first + n <= committedId + 1
      BY <1>a, <1>3, StorageAssumption DEF Recycle, RecycleFast, RecycleLimit
  <2>3. \A id \in (committedId + 1)..last : mem'[id] = mem[id]
      BY <1>a, <2>1, <2>2, StorageAssumption DEF DropFront
  <2> QED
      BY <1>v, <2>1, <2>3, KeepStep, Zenon
<1>5. CASE CommitMessage
    BY <1>5, <1>s, Zenon DEF CommitMessage
<1>6. CASE WriteMessage
  <2>1. /\ phase # "down" /\ phase' # "down" /\ UNCHANGED <<mem, first, last, committedId>>
        /\ outFile' = "open" /\ writedId + 1 \in first..last
      BY <1>a, <1>6, Zenon DEF WriteMessage
  <2>2. CASE outFile = "open"
      BY <1>6, <1>s, <2>1, <2>2, Zenon DEF WriteMessage
  <2>3. CASE outFile = "closed"
    <3>1. files' = OpenFile(writedId + 1, mem[writedId + 1].ts, TRUE)
        BY <1>6, <2>3, Zenon DEF WriteMessage
    <3> QED
        BY <1>v, <2>1, <2>3, <3>1, OpenIsHidden, Zenon
  <2> QED
      BY <1>a, <2>2, <2>3, Zenon
<1>7. CASE OpenFileFail
  <2>1. /\ phase # "down" /\ phase' # "down" /\ UNCHANGED <<mem, first, last, committedId>>
        /\ outFile = "closed" /\ outFile' = "closed" /\ writedId + 1 \in first..last
        /\ files' = OpenFile(writedId + 1, mem[writedId + 1].ts, FALSE)
      BY <1>a, <1>7, Zenon DEF OpenFileFail
  <2> QED
      BY <1>v, <2>1, OpenIsHidden, Zenon
<1>8. ASSUME NEW close \in BOOLEAN, NEW err \in BOOLEAN, CommitFile(close, err)
      PROVE  UNCHANGED PL!logVars \/ PL!Commit
  <2>1. /\ phase # "down" /\ phase' # "down" /\ UNCHANGED <<mem, first, last>>
        /\ outFile = "open" /\ committedId' = writedId
      BY <1>a, <1>8, Zenon DEF CommitFile
  <2>2. CASE committedId < writedId
    <3>1. files' = [files EXCEPT ![Len(files)] = [Flushed(writedId - committedId)
                                                     EXCEPT !.end = writedId + 1]]
        BY <1>8, <2>2, Zenon DEF CommitFile
    <3> QED
        BY <1>v, <2>1, <2>2, <3>1, FlushCommits, Zenon
  <2>3. CASE ~(committedId < writedId)
    <3>1. files' = files /\ committedId' = committedId
        BY <1>a, <1>8, <2>1, <2>3 DEF CommitFile
    <3> QED
        BY <1>s, <2>1, <3>1, Zenon
  <2> QED
      BY <2>2, <2>3, Zenon
<1>9. ASSUME NEW k \in 0..MaxMsgs, CommitFileFail(k) PROVE UNCHANGED PL!logVars
  <2>1. /\ phase # "down" /\ phase' # "down" /\ UNCHANGED <<mem, first, last, committedId>>
        /\ outFile = "open" /\ k \in Nat /\ k <= writedId - committedId
        /\ files' = [files EXCEPT ![Len(files)] = Flushed(k)]
      BY <1>a, <1>9, StorageAssumption DEF CommitFileFail
  <2> QED
      BY <1>v, <2>1, FailedFlushIsHidden, Zenon
<1>10. CASE FinishWrite
    BY <1>a, <1>10, <1>s, Zenon DEF FinishWrite
<1>11. CASE SetCommittedId
    BY <1>a, <1>11, <1>s, Zenon DEF SetCommittedId, SetCommittedMsgId
<1>13. CASE Unload
    BY <1>13, <1>s, Zenon DEF Unload
<1>14. CASE Unloaded
  <2>1. /\ phase # "down" /\ phase' = "down" /\ UNCHANGED <<committedId, files>>
        /\ Agrees(files, mem, first, last)
      BY <1>0, <1>14, Zenon DEF Unloaded, Forget, Contents
  <2>2. (files = <<>> /\ files' = <<>>) \/ FlushedList(files')
      BY <2>1, Zenon DEF FlushedList
  <2>3. Agrees(files', mem, first, last)
      BY <2>1, Zenon
  <2> QED
      BY <2>1, <2>2, <2>3, DownRestarts, Zenon
<1>15. ASSUME NEW k \in 0..MaxMsgs, Crash(k) PROVE PL!Restart
    BY <1>15, CrashRestarts, Zenon
<1>16. CASE Load
    BY <1>16, LoadIsHidden, Zenon
<1>17. CASE UNCHANGED vars
  <2>1. UNCHANGED <<phase, files, obsolete, committedId, last, mem>>
      BY <1>17, Zenon DEF vars
  <2>2. UNCHANGED VisibleBegin
      BY <2>1 DEF VisibleBegin, Listed, FirstListed, Kept
  <2> QED
      BY <2>1, <2>2 DEF PL!logVars, StoredLog, VisibleCommitted, Kept, RecoveredFiles, RecoveredId
<1> QED
    BY <1>n, <1>1, <1>2, <1>3, <1>5, <1>6, <1>7, <1>8, <1>9, <1>10, <1>11, <1>13,
       <1>14, <1>15, <1>16, <1>17, Zenon DEF Next, CommitThread

\* The storage implements the log: whatever writes, recycling, commits, dfs
\* failures, expiry, unloads and crashes do, ids are given once and without
\* gaps, timestamps grow with them, a committed message stays what it was
\* until it expires, and only expiry removes messages from the front.
THEOREM StorageIsPartitionLog ==
    ASSUME ReservedFileCount >= 2
    PROVE  Spec => ImplementsPartitionLog
<1>1. Init => PL!LogInit /\ Growing
  <2> SUFFICES ASSUME Init PROVE PL!LogInit /\ Growing
      BY Zenon
  <2>1. Kept = 0 /\ phase = "down"
      BY DEF Init, Kept
  <2>2. StoredLog = NoMsgs /\ VisibleBegin = 0 /\ VisibleCommitted = -1
      BY <2>1, Zenon DEF StoredLog, VisibleBegin, VisibleCommitted, RecoveredId
  <2> QED
      BY <2>2, Zenon DEF NoMsgs, PL!LogInit, Growing
<1>2. IInv /\ Durable /\ Contents => Shape
    BY UpLogHolds, DownLogHolds, BeginHolds, Zenon DEF Shape
<1>3. Shape /\ Shape' /\ Growing /\ [Next]_vars => [PL!LogNext]_(PL!logVars) /\ Growing'
    BY RefineStep, Zenon
<1> QED
    BY <1>1, <1>2, <1>3, ContentsInvariance, PTL DEF Spec, ImplementsPartitionLog, PL!LogSpec
=============================================================================
