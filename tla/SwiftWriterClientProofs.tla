---------------------- MODULE SwiftWriterClientProofs -----------------------
(***************************************************************************)
(* The steps of the client - the writing thread, the merge pool, clearing, *)
(* the response handler and the send loop - keep the invariant of the      *)
(* writer, and so does every step.                                         *)
(***************************************************************************)
EXTENDS SwiftWriterBrokerProofs

-----------------------------------------------------------------------------
(***************************************************************************)
(* The writing thread and the merge pool                                   *)
(***************************************************************************)
\* A request knows nothing of a message that is written after it.
LEMMA RequestBeforeWrite ==
    ASSUME Types, NEW p \in Partitions, write(p), NEW q \in Partitions,
           NEW r \in Requests, RequestOK(q, r), Total' = Total + 1,
           \A m \in 1 .. Total : Of(q, m)' <=> Of(q, m)
    PROVE  RequestOK(q, r)'
<1>1. Total \in Nat /\ r.msgs \in Seq(Nat)
    BY Zenon DEF Types, ClientTypes, Requests
<1>2. UNCHANGED <<cleared, bsession, log, committed>>
    BY Zenon DEF write, brokerVars
<1>3. (\A m : Committed(q, m)' <=> Committed(q, m)) /\ (\A m : InLog(q, m)' <=> InLog(q, m))
    BY <1>2, Zenon DEF Committed, InLog
<1>4. \A m : Of(q, m) => m \in 1 .. Total
    BY Zenon DEF Of
<1> SUFFICES ASSUME NEW i \in 1 .. Len(r.msgs)
             PROVE  /\ Of(q, r.msgs[i])'
                    /\ r.session = None \/ r.session >= bsession'[q] =>
                          \A m \in 1 .. Total' :
                             Of(q, m)' /\ m < r.msgs[i] /\ m \notin cleared' =>
                                \/ \E j \in 1 .. i - 1 : r.msgs[j] = m
                                \/ Committed(q, m)'
                                \/ r.session = bsession'[q] /\ InLog(q, m)'
    BY Zenon DEF RequestOK
<1>5. /\ Of(q, r.msgs[i])
      /\ r.session = None \/ r.session >= bsession[q] =>
            \A m \in 1 .. Total :
               Of(q, m) /\ m < r.msgs[i] /\ m \notin cleared =>
                  \/ \E j \in 1 .. i - 1 : r.msgs[j] = m
                  \/ Committed(q, m)
                  \/ r.session = bsession[q] /\ InLog(q, m)
    BY Zenon DEF RequestOK
<1>6. r.msgs[i] \in 1 .. Total
    BY <1>4, <1>5, Zenon
<1>7. \A m \in 1 .. Total' : m < r.msgs[i] => m \in 1 .. Total
    BY <1>1, <1>6
<1> QED
    BY <1>2, <1>3, <1>5, <1>6, <1>7, Zenon

\* A message is appended to the write queue of its partition.
LEMMA WriteStep ==
    ASSUME WriterInv, NEW p \in Partitions, write(p), NEW q \in Partitions
    PROVE  PartInv(q)'
<1>1. Types /\ PartInv(q)
    BY Zenon DEF WriterInv
<1>2. /\ Types' /\ Total' = Total + 1 /\ written'[Total + 1] = p
      /\ \A m \in 1 .. Total : written'[m] = written[m]
      /\ writeQueue' = [writeQueue EXCEPT ![p] = Append(@, Total + 1)]
    BY <1>1, WriteTypes, Zenon
<1>3. UNCHANGED <<toMerge, sendQueue, minInMerge, cleared, cursor, uncommitted, ignoreUpdate,
                  session, checkpoint, call, bsession, log, committed, late>>
    BY Zenon DEF write, addWriteMessage, sentVars, brokerVars
<1>4. /\ Total \in Nat /\ writeQueue[q] \in Seq(Nat) /\ late[q] \subseteq Requests
      /\ checkpoint[q] \in Int
    BY <1>1, Numbers, Zenon
<1>5. /\ \A m \in 1 .. Total : Of(q, m)' <=> Of(q, m)
      /\ \A m : m = Total + 1 => (Of(q, m)' <=> q = p)
      /\ \A m : Of(q, m) => m \in 1 .. Total
  <2>1. \A m \in 1 .. Total : m \in 1 .. Total'
      BY <1>2, <1>4
  <2>2. Total + 1 \in 1 .. Total'
      BY <1>2, <1>4
  <2> QED
    <3>1. \A m \in 1 .. Total : Of(q, m)' <=> Of(q, m)
        BY <1>2, <2>1, Zenon DEF Of
    <3>2. \A m : m = Total + 1 => (Of(q, m)' <=> q = p)
        BY <1>2, <2>2, Zenon DEF Of
    <3>3. \A m : Of(q, m) => m \in 1 .. Total
        BY Zenon DEF Of
    <3> QED
        BY <3>1, <3>2, <3>3, Zenon
<1>6. \A m : Of(q, m) => Of(q, m)' /\ m \in Nat /\ m <= Total
    BY <1>4, <1>5
<1>7. (\A m : Committed(q, m)' <=> Committed(q, m)) /\ (\A m : InLog(q, m)' <=> InLog(q, m))
    BY <1>3, Zenon DEF Committed, InLog
<1>8. /\ \A i \in 1 .. Len(writeQueue[q]) :
            i \in 1 .. Len(writeQueue'[q]) /\ writeQueue'[q][i] = writeQueue[q][i]
      /\ \A i \in 1 .. Len(writeQueue'[q]) :
            \/ i \in 1 .. Len(writeQueue[q])
            \/ q = p /\ i = Len(writeQueue[q]) + 1 /\ writeQueue'[q][i] = Total + 1
      /\ q = p => Len(writeQueue'[q]) = Len(writeQueue[q]) + 1
                    /\ writeQueue'[q][Len(writeQueue[q]) + 1] = Total + 1
  <2>1. CASE q # p
    <3>1. writeQueue'[q] = writeQueue[q]
        BY <1>1, <1>2, <2>1, Zenon DEF Types, QueueTypes
    <3> QED
        BY <2>1, <3>1, Zenon
  <2>2. CASE q = p
    <3>1. writeQueue'[q] = Append(writeQueue[q], Total + 1)
        BY <1>1, <1>2, <2>2, Zenon DEF Types, QueueTypes
    <3>2. /\ Len(writeQueue'[q]) = Len(writeQueue[q]) + 1 /\ Len(writeQueue[q]) \in Nat
          /\ \A i \in 1 .. Len(writeQueue[q]) : writeQueue'[q][i] = writeQueue[q][i]
          /\ writeQueue'[q][Len(writeQueue[q]) + 1] = Total + 1
        BY <1>4, <3>1
    <3>3. \A i \in 1 .. Len(writeQueue'[q]) :
             i \in 1 .. Len(writeQueue[q]) \/ i = Len(writeQueue[q]) + 1
        BY <3>2
    <3>4. \A i \in 1 .. Len(writeQueue[q]) : i \in 1 .. Len(writeQueue'[q])
        BY <3>2
    <3> QED
        BY <2>2, <3>2, <3>3, <3>4, Zenon
  <2> QED
      BY <2>1, <2>2, Zenon
<1>9. QueueOK(q)'
  <2>w. PICK w, v : w = writeQueue[q] /\ v = writeQueue'[q]
      BY Zenon
  <2>1. /\ Sorted(sendQueue[q]) /\ Sorted(toMerge[q]) /\ Sorted(w)
        /\ Before(sendQueue[q], toMerge[q]) /\ Before(sendQueue[q], w)
        /\ Before(toMerge[q], w)
        /\ \A i \in 1 .. Len(sendQueue[q]) : Of(q, sendQueue[q][i])
        /\ \A i \in 1 .. Len(toMerge[q]) : Of(q, toMerge[q][i])
        /\ \A i \in 1 .. Len(w) : Of(q, w[i])
      BY <1>1, <2>w, Zenon DEF PartInv, QueueOK
  <2>2. Len(w) \in Nat /\ Len(v) \in Nat
    <3>1. w \in Seq(Nat) /\ v \in Seq(Nat)
        BY <1>1, <1>2, <2>w, Zenon DEF Types, QueueTypes
    <3> QED
        BY <3>1
  <2>3. \A i \in 1 .. Len(v) : \/ i \in 1 .. Len(w) /\ v[i] = w[i]
                               \/ q = p /\ i = Len(w) + 1 /\ v[i] = Total + 1
      BY <1>8, <2>w, Zenon
  <2>4. Sorted(v)
    <3> SUFFICES ASSUME NEW i \in 1 .. Len(v), NEW j \in 1 .. Len(v), i < j
                 PROVE  v[i] < v[j]
        BY Zenon DEF Sorted
    <3>1. i \in 1 .. Len(w) /\ v[i] = w[i] /\ w[i] \in Nat /\ w[i] <= Total
      <4>1. i \in 1 .. Len(w)
          BY <2>2, <2>3
      <4> QED
          BY <1>6, <2>1, <2>2, <2>3, <4>1
    <3>2. CASE j \in 1 .. Len(w)
        BY <2>1, <2>2, <2>3, <3>1, <3>2 DEF Sorted
    <3>3. CASE j \notin 1 .. Len(w)
        BY <1>4, <2>3, <3>1, <3>3
    <3> QED
        BY <3>2, <3>3, Zenon
  <2>5. ASSUME NEW x, Before(x, w), \A i \in 1 .. Len(x) : Of(q, x[i])
        PROVE  Before(x, v)
    <3> SUFFICES ASSUME NEW i \in 1 .. Len(x), NEW j \in 1 .. Len(v)
                 PROVE  x[i] < v[j]
        BY Zenon DEF Before
    <3>1. x[i] \in Nat /\ x[i] <= Total
        BY <1>6, <2>5, Zenon
    <3>2. CASE j \in 1 .. Len(w) /\ v[j] = w[j]
        BY <2>5, <3>2, Zenon DEF Before
    <3>3. CASE v[j] = Total + 1
        BY <1>4, <3>1, <3>3
    <3> QED
        BY <2>3, <3>2, <3>3, Zenon
  <2>6. \A i \in 1 .. Len(v) : Of(q, v[i])'
      BY <1>5, <1>6, <2>1, <2>3, Zenon
  <2>7. Before(sendQueue[q], v) /\ Before(toMerge[q], v)
      BY <2>1, <2>5, Zenon
  <2>8. /\ \A i \in 1 .. Len(sendQueue[q]) : Of(q, sendQueue[q][i])'
        /\ \A i \in 1 .. Len(toMerge[q]) : Of(q, toMerge[q][i])'
    <3>1. \A m : Of(q, m) => Of(q, m)'
        BY <1>6, Zenon
    <3>2. \A i \in 1 .. Len(sendQueue[q]) : Of(q, sendQueue[q][i])'
        BY <2>1, <3>1, <1>3, Zenon
    <3>3. \A i \in 1 .. Len(toMerge[q]) : Of(q, toMerge[q][i])'
        BY <2>1, <3>1, <1>3, Zenon
    <3> QED
        BY <3>2, <3>3, Zenon
  <2> QED
      BY <1>3, <2>w, <2>1, <2>4, <2>6, <2>7, <2>8, Zenon DEF QueueOK
<1>10. MergeOK(q)'
  <2>1. Of(q, minInMerge[q]) => Of(q, minInMerge[q])'
      BY <1>3, <1>6, Zenon
  <2> QED
      BY <1>1, <1>3, <2>1, Zenon DEF PartInv, MergeOK
<1>11. LostNothing(q)'
  <2>1. \A m : InQueue(q, m) => InQueue(q, m)'
      BY <1>3, <1>8, Zenon DEF InQueue
  <2> SUFFICES ASSUME NEW m \in 1 .. Total', Of(q, m)'
               PROVE  InQueue(q, m)' \/ m \in cleared' \/ Committed(q, m)'
      BY Zenon DEF LostNothing
  <2>2. CASE m \in 1 .. Total
      BY <1>1, <1>3, <1>5, <1>7, <2>1, <2>2, Zenon DEF PartInv, LostNothing
  <2>3. CASE m \notin 1 .. Total
    <3>1. m = Total + 1
        BY <1>2, <1>4, <2>3
    <3>2. q = p
        BY <1>5, <3>1, Zenon
    <3>3. \E i \in 1 .. Len(writeQueue'[q]) : writeQueue'[q][i] = m
      <4>1. Len(writeQueue[q]) + 1 \in 1 .. Len(writeQueue'[q])
          BY <1>4, <1>8, <3>2
      <4> QED
          BY <1>8, <3>1, <3>2, <4>1, Zenon
    <3> QED
        BY <3>3, Zenon DEF InQueue
  <2> QED
      BY <2>2, <2>3, Zenon
<1>12. CheckpointOK(q)'
  <2>1. checkpoint[q] <= Total
      BY <1>1, Zenon DEF PartInv, CheckpointOK
  <2>2. \A m \in 1 .. Total' : m <= checkpoint[q] => m \in 1 .. Total
      BY <1>2, <1>4, <2>1
  <2>3. checkpoint[q] <= Total'
      BY <1>2, <1>4, <2>1
  <2> QED
      BY <1>1, <1>3, <1>5, <1>7, <2>2, <2>3, Zenon DEF PartInv, CheckpointOK
<1>13. LogOK(q)'
  <2> SUFFICES ASSUME NEW j \in 1 .. Len(log[q])
               PROVE  /\ Of(q, log[q][j])'
                      /\ \A m \in 1 .. Total' :
                            Of(q, m)' /\ m < log[q][j] /\ m \notin cleared =>
                                \E i \in 1 .. j - 1 : log[q][i] = m
      BY <1>1, <1>3, Zenon DEF PartInv, LogOK
  <2>1. /\ Of(q, log[q][j])
        /\ \A m \in 1 .. Total :
              Of(q, m) /\ m < log[q][j] /\ m \notin cleared => \E i \in 1 .. j - 1 : log[q][i] = m
      BY <1>1, Zenon DEF PartInv, LogOK
  <2>2. log[q][j] \in Nat /\ log[q][j] <= Total
      BY <1>6, <2>1, Zenon
  <2>3. \A m \in 1 .. Total' : m < log[q][j] => m \in 1 .. Total
      BY <1>2, <1>4, <2>2
  <2>4. Of(q, log[q][j])'
    <3>1. log[q][j] \in 1 .. Total
        BY <1>5, <2>1, Zenon
    <3> QED
        BY <1>3, <1>5, <2>1, <3>1, Zenon
  <2> QED
      BY <1>5, <2>1, <2>3, <2>4, Zenon
<1>14. CursorOK(q)'
    BY <1>1, <1>3, Zenon DEF PartInv, CursorOK
<1>15. \A r \in Requests : RequestOK(q, r) => RequestOK(q, r)'
    BY <1>1, <1>2, <1>5, RequestBeforeWrite, Zenon
<1>16. SentOK(q)'
  <2>1. ASSUME call[q] \in Requests
        PROVE  RequestOK(q, call[q])'
    <3>1. PICK r \in Requests : r = call[q] /\ r = call'[q]
        BY <1>3, <2>1, Zenon
    <3>2. RequestOK(q, r)
        BY <1>1, <3>1, Zenon DEF PartInv, SentOK
    <3>3. RequestOK(q, r)'
        BY <1>15, <3>2, Zenon
    <3> QED
        BY <3>1, <3>3, Zenon DEF RequestOK
  <2> QED
      BY <1>1, <1>3, <2>1, Zenon DEF PartInv, SentOK
<1>17. AddedOK(q)' /\ AnswerOK(q)'
    BY <1>1, <1>3, Zenon DEF PartInv, AddedOK, AnswerOK
<1>18. LateOK(q)'
    BY <1>1, <1>3, <1>4, <1>15, Zenon DEF PartInv, LateOK
<1> QED
    BY <1>9, <1>10, <1>11, <1>12, <1>13, <1>14, <1>16, <1>17, <1>18, Zenon DEF PartInv

\* S1 is S with the first n elements of src behind it, T1 the rest of src.
Moved(S, src, n, S1, T1) ==
    /\ Len(S1) = Len(S) + n
    /\ \A i \in 1 .. Len(S) : S1[i] = S[i]
    /\ \A i \in 1 .. n : S1[Len(S) + i] = src[i]
    /\ Len(T1) = Len(src) - n
    /\ \A i \in 1 .. Len(src) - n : T1[i] = src[n + i]

\* S1 and T1 have the elements of S and src, those of S in S1.
SameElements(S, src, S1, T1) ==
    /\ \A i \in 1 .. Len(S1) : \/ \E j \in 1 .. Len(S) : S1[i] = S[j]
                               \/ \E j \in 1 .. Len(src) : S1[i] = src[j]
    /\ \A i \in 1 .. Len(T1) : \E j \in 1 .. Len(src) : T1[i] = src[j]
    /\ \A j \in 1 .. Len(S) : \E i \in 1 .. Len(S1) : S1[i] = S[j]
    /\ \A j \in 1 .. Len(src) : \/ \E i \in 1 .. Len(S1) : S1[i] = src[j]
                                \/ \E i \in 1 .. Len(T1) : T1[i] = src[j]

\* Behind the first a positions, i is position i - a.
LEMMA Offset ==
    ASSUME NEW a \in Nat, NEW n \in Nat, NEW i \in 1 .. a + n, i \notin 1 .. a
    PROVE  i > a /\ i - a \in 1 .. n /\ i = a + (i - a)
    OBVIOUS

\* Moving the first n elements of the middle one of three queues to the
\* first queue keeps all in order, adds nothing and leaves nothing out.
LEMMA MoveInOrder ==
    ASSUME NEW S \in Seq(Nat), NEW src \in Seq(Nat), NEW W \in Seq(Nat),
           NEW S1 \in Seq(Nat), NEW T1 \in Seq(Nat), NEW n \in Nat, n <= Len(src),
           Moved(S, src, n, S1, T1), Sorted(S), Sorted(src), Before(S, src), Before(S, W), Before(src, W)
    PROVE  /\ Sorted(S1) /\ Sorted(T1) /\ Before(S1, T1) /\ Before(S1, W) /\ Before(T1, W)
           /\ SameElements(S, src, S1, T1)
<1>1. Len(S) \in Nat /\ Len(src) \in Nat /\ Len(S1) \in Nat /\ Len(T1) \in Nat
    OBVIOUS
<1>m. /\ Len(S1) = Len(S) + n
      /\ \A i \in 1 .. Len(S) : S1[i] = S[i]
      /\ \A i \in 1 .. n : S1[Len(S) + i] = src[i]
      /\ Len(T1) = Len(src) - n
      /\ \A i \in 1 .. Len(src) - n : T1[i] = src[n + i]
    BY Zenon DEF Moved
<1>2. \A i \in 1 .. Len(S1) : \/ i \in 1 .. Len(S) /\ S1[i] = S[i]
                              \/ /\ i > Len(S) /\ i - Len(S) \in 1 .. n /\ i - Len(S) \in 1 .. Len(src)
                                 /\ S1[i] = src[i - Len(S)]
  <2> SUFFICES ASSUME NEW i \in 1 .. Len(S1), i \notin 1 .. Len(S)
               PROVE  /\ i > Len(S) /\ i - Len(S) \in 1 .. n /\ i - Len(S) \in 1 .. Len(src)
                      /\ S1[i] = src[i - Len(S)]
      BY <1>m, Zenon
  <2>1. /\ i > Len(S) /\ i - Len(S) \in 1 .. n /\ i = Len(S) + (i - Len(S))
        /\ i - Len(S) \in 1 .. Len(src)
    <3>1. i \in 1 .. Len(S) + n
        BY <1>m, Zenon
    <3>2. i > Len(S) /\ i - Len(S) \in 1 .. n /\ i = Len(S) + (i - Len(S))
        BY <1>1, <3>1, Offset, Zenon
    <3> QED
        BY <1>1, <3>2
  <2>2. S1[Len(S) + (i - Len(S))] = src[i - Len(S)]
      BY <1>m, <2>1, Zenon
  <2> QED
      BY <2>1, <2>2, Zenon
<1>3. \A i \in 1 .. Len(T1) : n + i \in 1 .. Len(src) /\ T1[i] = src[n + i]
  <2> TAKE i \in 1 .. Len(T1)
  <2>1. i \in 1 .. Len(src) - n
      BY <1>m, Zenon
  <2>2. n + i \in 1 .. Len(src)
      BY <1>1, <2>1
  <2> QED
      BY <1>m, <2>1, <2>2, Zenon
<1>4. \A i, j \in 1 .. Len(src) : i < j => src[i] < src[j]
    BY Zenon DEF Sorted
<1>5. \A i, j \in 1 .. Len(S) : i < j => S[i] < S[j]
    BY Zenon DEF Sorted
<1>6. Sorted(S1)
  <2> SUFFICES ASSUME NEW i \in 1 .. Len(S1), NEW j \in 1 .. Len(S1), i < j
               PROVE  S1[i] < S1[j]
      BY Zenon DEF Sorted
  <2>1. CASE i \in 1 .. Len(S) /\ j \in 1 .. Len(S)
      BY <1>m, <1>5, <2>1, Zenon
  <2>2. CASE i \in 1 .. Len(S) /\ j \notin 1 .. Len(S)
    <3>1. j - Len(S) \in 1 .. Len(src) /\ S1[j] = src[j - Len(S)]
        BY <1>2, <2>2, Zenon
    <3> QED
        BY <1>m, <2>2, <3>1, Zenon DEF Before
  <2>3. CASE i \notin 1 .. Len(S)
    <3>1. j \notin 1 .. Len(S) /\ i - Len(S) < j - Len(S)
        BY <1>1, <2>3
    <3> QED
        BY <1>2, <1>4, <2>3, <3>1, Zenon
  <2> QED
      BY <2>1, <2>2, <2>3, Zenon
<1>7. Sorted(T1)
  <2> SUFFICES ASSUME NEW i \in 1 .. Len(T1), NEW j \in 1 .. Len(T1), i < j
               PROVE  T1[i] < T1[j]
      BY Zenon DEF Sorted
  <2>1. n + i < n + j
      BY <1>1
  <2> QED
      BY <1>3, <1>4, <2>1, Zenon
<1>8. Before(S1, T1)
  <2> SUFFICES ASSUME NEW i \in 1 .. Len(S1), NEW j \in 1 .. Len(T1)
               PROVE  S1[i] < T1[j]
      BY Zenon DEF Before
  <2>1. CASE i \in 1 .. Len(S)
      BY <1>m, <1>3, <2>1, Zenon DEF Before
  <2>2. CASE i \notin 1 .. Len(S)
    <3>1. /\ i - Len(S) \in 1 .. Len(src) /\ n + j \in 1 .. Len(src)
          /\ S1[i] = src[i - Len(S)] /\ T1[j] = src[n + j]
        BY <1>2, <1>3, <2>2, Zenon
    <3>2. i - Len(S) < n + j
        BY <1>1, <1>2, <2>2
    <3> QED
        BY <1>4, <3>1, <3>2, Zenon
  <2> QED
      BY <2>1, <2>2, Zenon
<1>9. Before(S1, W)
    BY <1>2, Zenon DEF Before
<1>10. Before(T1, W)
    BY <1>3, Zenon DEF Before
<1>11. \A i \in 1 .. Len(S1) : \/ \E j \in 1 .. Len(S) : S1[i] = S[j]
                               \/ \E j \in 1 .. Len(src) : S1[i] = src[j]
    BY <1>2, Zenon
<1>12. \A i \in 1 .. Len(T1) : \E j \in 1 .. Len(src) : T1[i] = src[j]
    BY <1>3, Zenon
<1>13. \A j \in 1 .. Len(S) : \E i \in 1 .. Len(S1) : S1[i] = S[j]
  <2>1. \A j \in 1 .. Len(S) : j \in 1 .. Len(S1)
      BY <1>1, <1>m
  <2> QED
      BY <1>m, <2>1, Zenon
<1>14. ASSUME NEW j \in 1 .. Len(src)
       PROVE  \/ \E i \in 1 .. Len(S1) : S1[i] = src[j]
              \/ \E i \in 1 .. Len(T1) : T1[i] = src[j]
  <2>1. CASE j <= n
    <3>1. Len(S) + j \in 1 .. Len(S1) /\ j \in 1 .. n
        BY <1>1, <1>m, <2>1
    <3>2. S1[Len(S) + j] = src[j]
        BY <1>m, <3>1, Zenon
    <3> QED
        BY <3>1, <3>2, Zenon
  <2>2. CASE ~(j <= n)
    <3>1. j - n \in 1 .. Len(T1) /\ n + (j - n) = j
        BY <1>1, <1>m, <2>2
    <3>2. T1[j - n] = src[j]
        BY <1>3, <3>1, Zenon
    <3> QED
        BY <3>1, <3>2, Zenon
  <2> QED
      BY <2>1, <2>2, Zenon
<1> QED
    BY <1>6, <1>7, <1>8, <1>9, <1>10, <1>11, <1>12, <1>13, <1>14, Zenon DEF SameElements

\* A conversion moves messages from queue to queue in their order, and from
\* the position of the cursor on the send queue only grows.
LEMMA ConvertKeeps ==
    ASSUME Types, Types', NEW p \in Partitions, PartInv(p),
           convertMessage(p) \/ UNCHANGED queueVars,
           SameMessages, cleared' = cleared, SameBroker(p), late'[p] = late[p],
           cursor'[p] = cursor[p], uncommitted'[p] = uncommitted[p], session'[p] = session[p],
           checkpoint'[p] = checkpoint[p]
    PROVE  /\ QueueOK(p)' /\ MergeOK(p)' /\ LostNothing(p)' /\ CheckpointOK(p)' /\ LogOK(p)'
           /\ CursorOK(p)' /\ LateOK(p)'
           /\ Len(sendQueue[p]) <= Len(sendQueue'[p])
           /\ \A i \in 1 .. Len(sendQueue[p]) : sendQueue'[p][i] = sendQueue[p][i]
<1>of. Total' = Total /\ \A m : Of(p, m)' <=> Of(p, m)
    BY SameOf, Zenon
<1>com. \A m : Committed(p, m)' <=> Committed(p, m)
    BY Zenon DEF Committed, SameBroker
<1>num. /\ cursor[p] \in Nat /\ sendQueue[p] \in Seq(Nat) /\ sendQueue'[p] \in Seq(Nat)
        /\ toMerge[p] \in Seq(Nat) /\ toMerge'[p] \in Seq(Nat)
        /\ writeQueue[p] \in Seq(Nat) /\ writeQueue'[p] \in Seq(Nat)
    BY Numbers, Zenon DEF Types, QueueTypes
<1>1. CheckpointOK(p)' /\ LogOK(p)'
    BY <1>of, <1>com DEF PartInv, CheckpointOK, LogOK, SameBroker
<1>2. LateOK(p)'
  <2>1. LogMoves(p)
      BY LogStays, Zenon DEF PartInv
  <2> QED
      BY <2>1, LateStays, Zenon DEF PartInv
<1>3. ASSUME QueueOK(p)', MergeOK(p)', \A m : InQueue(p, m) => InQueue(p, m)',
             Len(sendQueue[p]) <= Len(sendQueue'[p]),
             \A i \in 1 .. Len(sendQueue[p]) : sendQueue'[p][i] = sendQueue[p][i]
      PROVE  LostNothing(p)' /\ CursorOK(p)'
  <2>1. LostNothing(p)'
      BY <1>3, <1>of, <1>com, Zenon DEF PartInv, LostNothing
  <2>2. cursor[p] = Len(uncommitted[p]) /\ cursor[p] <= Len(sendQueue[p])
      BY Zenon DEF PartInv, CursorOK
  <2>3. /\ cursor[p] <= Len(sendQueue'[p])
        /\ \A i \in 1 .. cursor[p] : i \in 1 .. Len(sendQueue[p])
      BY <1>num, <1>3, <2>2
  <2>4. CursorOK(p)'
      BY <1>3, <2>2, <2>3, Zenon DEF PartInv, CursorOK, SameBroker
  <2> QED
      BY <2>1, <2>4, Zenon
<1>4. CASE UNCHANGED <<writeQueue, toMerge, sendQueue, minInMerge, canAdd>>
  <2>1. QueueOK(p)' /\ MergeOK(p)'
      BY <1>4, <1>of, Zenon DEF PartInv, QueueOK, MergeOK
  <2>2. \A m : InQueue(p, m) => InQueue(p, m)'
      BY <1>4, Zenon DEF InQueue
  <2>3. Len(sendQueue[p]) <= Len(sendQueue'[p])
      BY <1>num, <1>4
  <2> QED
      BY <1>1, <1>2, <1>3, <1>4, <2>1, <2>2, <2>3, Zenon
<1>5. CASE ~UNCHANGED <<writeQueue, toMerge, sendQueue, minInMerge, canAdd>>
  <2>1. PICK n \in Nat, src \in Seq(Nat) :
                    /\ n <= Len(src) /\ src # <<>>
                    /\ Len(sendQueue'[p]) = Len(sendQueue[p]) + n
                    /\ \A i \in 1 .. Len(sendQueue[p]) : sendQueue'[p][i] = sendQueue[p][i]
                    /\ \A i \in 1 .. n : sendQueue'[p][Len(sendQueue[p]) + i] = src[i]
                    /\ Len(toMerge'[p]) = Len(src) - n
                    /\ \A i \in 1 .. Len(src) - n : toMerge'[p][i] = src[n + i]
                    /\ \/ toMerge[p] # <<>> /\ src = toMerge[p] /\ writeQueue'[p] = writeQueue[p]
                       \/ toMerge[p] = <<>> /\ src = writeQueue[p] /\ writeQueue'[p] = <<>>
                    /\ minInMerge'[p] = IF n = Len(src) THEN None
                                        ELSE IF toMerge[p] # <<>> THEN minInMerge[p] ELSE src[1]
    <3>1. convertMessage(p)
        BY <1>5, Zenon DEF queueVars
    <3> QED
        BY <1>5, <3>1, ConvertMoves, Zenon
  <2>2. /\ Sorted(sendQueue[p]) /\ Sorted(src) /\ Sorted(writeQueue'[p])
        /\ Before(sendQueue[p], src) /\ Before(sendQueue[p], writeQueue'[p])
        /\ Before(src, writeQueue'[p])
        /\ \A i \in 1 .. Len(src) : Of(p, src[i])
        /\ \A i \in 1 .. Len(sendQueue[p]) : Of(p, sendQueue[p][i])
        /\ \A i \in 1 .. Len(writeQueue'[p]) : i \in 1 .. Len(writeQueue[p]) /\ writeQueue'[p][i] = writeQueue[p][i]
    <3>1. CASE toMerge[p] # <<>> /\ src = toMerge[p] /\ writeQueue'[p] = writeQueue[p]
        BY <3>1, Zenon DEF PartInv, QueueOK
    <3>2. CASE toMerge[p] = <<>> /\ src = writeQueue[p] /\ writeQueue'[p] = <<>>
      <4>1. \A i \in 1 .. Len(writeQueue'[p]) : FALSE
          BY <3>2
      <4>2. Sorted(writeQueue'[p]) /\ Before(sendQueue[p], writeQueue'[p]) /\ Before(src, writeQueue'[p])
          BY <4>1, Zenon DEF Sorted, Before
      <4> QED
          BY <3>2, <4>1, <4>2, Zenon DEF PartInv, QueueOK
    <3> QED
        BY <2>1, <3>1, <3>2, Zenon
  <2>3. PICK S, W, S1, T1 : /\ S = sendQueue[p] /\ W = writeQueue'[p]
                            /\ S1 = sendQueue'[p] /\ T1 = toMerge'[p]
      BY Zenon
  <2>4. /\ Sorted(S1) /\ Sorted(T1) /\ Before(S1, T1) /\ Before(S1, W) /\ Before(T1, W)
        /\ SameElements(S, src, S1, T1)
    <3>1. /\ S \in Seq(Nat) /\ W \in Seq(Nat) /\ S1 \in Seq(Nat) /\ T1 \in Seq(Nat)
          /\ Sorted(S) /\ Sorted(src) /\ Before(S, src) /\ Before(S, W) /\ Before(src, W)
        BY <1>num, <2>2, <2>3, Zenon
    <3>2. n <= Len(src) /\ Moved(S, src, n, S1, T1)
        BY <2>1, <2>3, Zenon DEF Moved
    <3> QED
        BY <3>1, <3>2, MoveInOrder, Zenon
  <2>5. QueueOK(p)'
    <3>1. \A i \in 1 .. Len(S1) : Of(p, S1[i])
      <4> TAKE i \in 1 .. Len(S1)
      <4>1. CASE \E j \in 1 .. Len(S) : S1[i] = S[j]
          BY <2>2, <2>3, <4>1, Zenon
      <4>2. CASE \E j \in 1 .. Len(src) : S1[i] = src[j]
          BY <2>2, <4>2, Zenon
      <4> QED
          BY <2>4, <4>1, <4>2, Zenon DEF SameElements
    <3>2. \A i \in 1 .. Len(T1) : Of(p, T1[i])
        BY <2>2, <2>4, Zenon DEF SameElements
    <3>3. \A i \in 1 .. Len(W) : Of(p, W[i])
        BY <2>2, <2>3, Zenon DEF PartInv, QueueOK
    <3>4. /\ \A i \in 1 .. Len(S1) : Of(p, S1[i])'
          /\ \A i \in 1 .. Len(T1) : Of(p, T1[i])'
          /\ \A i \in 1 .. Len(W) : Of(p, W[i])'
        BY <1>of, <3>1, <3>2, <3>3, Zenon
    <3> QED
        BY <2>2, <2>3, <2>4, <3>4, Zenon DEF QueueOK
  <2>6. MergeOK(p)'
    <3>1. CASE n = Len(src)
      <4>1. Len(toMerge'[p]) = 0
          BY <2>1, <3>1
      <4>2. toMerge'[p] = <<>> /\ \A i \in 1 .. Len(toMerge'[p]) : FALSE
          BY <1>num, <4>1
      <4> QED
          BY <2>1, <3>1, <4>2, Zenon DEF MergeOK
    <3>2. CASE n # Len(src) /\ toMerge[p] # <<>>
      <4>1. minInMerge'[p] = minInMerge[p] /\ src = toMerge[p]
          BY <2>1, <3>2, Zenon
      <4>2. Of(p, minInMerge[p]) /\ \A i \in 1 .. Len(src) : minInMerge[p] <= src[i]
          BY <3>2, <4>1, Zenon DEF PartInv, MergeOK
      <4>3. \A i \in 1 .. Len(T1) : minInMerge[p] <= T1[i]
          BY <2>4, <4>2, Zenon DEF SameElements
      <4>4. toMerge'[p] # <<>>
          BY <2>1, <3>2
      <4>5. Of(p, minInMerge[p])'
          BY <1>of, <4>1, <4>2, Zenon DEF Of
      <4> QED
          BY <2>3, <4>1, <4>3, <4>4, <4>5, Zenon DEF MergeOK
    <3>3. CASE n # Len(src) /\ toMerge[p] = <<>>
      <4>1. minInMerge'[p] = src[1] /\ Len(src) \in Nat /\ 1 \in 1 .. Len(src)
          BY <2>1, <3>3
      <4>2. \A i \in 1 .. Len(src) : src[1] <= src[i]
        <5> TAKE i \in 1 .. Len(src)
        <5>1. src[1] \in Nat /\ src[i] \in Nat /\ (i = 1 \/ 1 < i)
            BY <4>1
        <5> QED
            BY <2>2, <4>1, <5>1 DEF Sorted
      <4>3. \A i \in 1 .. Len(T1) : src[1] <= T1[i]
          BY <2>4, <4>2, Zenon DEF SameElements
      <4>4. toMerge'[p] # <<>>
          BY <2>1, <3>3
      <4>5. Of(p, src[1])'
          BY <1>of, <2>2, <4>1, Zenon
      <4>6. Of(p, minInMerge[p])'
          BY <4>1, <4>5, Zenon DEF Of
      <4> QED
          BY <2>3, <4>1, <4>3, <4>4, <4>6, Zenon DEF MergeOK
    <3> QED
        BY <3>1, <3>2, <3>3, Zenon
  <2>7. ASSUME NEW m, InQueue(p, m) PROVE InQueue(p, m)'
    <3>1. CASE \E i \in 1 .. Len(sendQueue[p]) : sendQueue[p][i] = m
      <4>1. PICK j \in 1 .. Len(S) : S[j] = m
          BY <2>3, <3>1, Zenon
      <4>2. \E i \in 1 .. Len(S1) : S1[i] = S[j]
          BY <2>4, Zenon DEF SameElements
      <4> QED
          BY <2>3, <4>1, <4>2, Zenon DEF InQueue
    <3>2. CASE \E j \in 1 .. Len(src) : src[j] = m
      <4>1. PICK j \in 1 .. Len(src) : src[j] = m
          BY <3>2, Zenon
      <4>2. \/ \E i \in 1 .. Len(S1) : S1[i] = m
            \/ \E i \in 1 .. Len(T1) : T1[i] = m
          BY <2>4, <4>1, Zenon DEF SameElements
      <4> QED
          BY <2>3, <4>2, Zenon DEF InQueue
    <3>3. CASE \E i \in 1 .. Len(toMerge[p]) : toMerge[p][i] = m
      <4>1. src = toMerge[p]
          BY <1>num, <2>1, <3>3
      <4> QED
          BY <3>2, <3>3, <4>1, Zenon
    <3>4. CASE \E i \in 1 .. Len(writeQueue[p]) : writeQueue[p][i] = m
        BY <2>1, <3>2, <3>4, Zenon DEF InQueue
    <3> QED
        BY <2>7, <3>1, <3>3, <3>4, Zenon DEF InQueue
  <2>8. Len(sendQueue[p]) <= Len(sendQueue'[p])
      BY <1>num, <2>1
  <2> QED
      BY <1>1, <1>2, <1>3, <2>1, <2>5, <2>6, <2>7, <2>8, Zenon
<1> QED
    BY <1>4, <1>5, Zenon

\* So does a conversion by the merge pool.
LEMMA MergeStep ==
    ASSUME WriterInv, Types', NEW p \in Partitions, mergeWork(p)
    PROVE  PartInv(p)'
<1>1. Types /\ PartInv(p)
    BY Zenon DEF WriterInv
<1>2. /\ SameMessages /\ cleared' = cleared /\ SameBroker(p) /\ late'[p] = late[p] /\ SameSent(p)
      /\ checkpoint'[p] = checkpoint[p] /\ call'[p] = call[p] /\ convertMessage(p)
    BY Zenon DEF mergeWork, clientVars, sentVars, brokerVars, SameMessages, SameBroker, SameSent
<1>3. /\ QueueOK(p)' /\ MergeOK(p)' /\ LostNothing(p)' /\ CheckpointOK(p)' /\ LogOK(p)'
      /\ CursorOK(p)' /\ LateOK(p)'
      /\ Len(sendQueue[p]) <= Len(sendQueue'[p])
      /\ \A i \in 1 .. Len(sendQueue[p]) : sendQueue'[p][i] = sendQueue[p][i]
    BY <1>1, <1>2, ConvertKeeps, Zenon DEF SameSent
<1>4. cursor[p] \in Nat /\ Len(sendQueue[p]) \in Nat /\ Len(sendQueue'[p]) \in Nat
    BY <1>1, Numbers DEF Types, QueueTypes
<1>5. ASSUME NEW c \in Nat, cursor[p] + c <= Len(sendQueue[p])
      PROVE  /\ cursor[p] + c <= Len(sendQueue'[p])
             /\ \A i \in 1 .. c : sendQueue'[p][cursor[p] + i] = sendQueue[p][cursor[p] + i]
             /\ \A i \in 1 .. cursor[p] : sendQueue'[p][i] = sendQueue[p][i]
  <2>1. \A i \in 1 .. c : cursor[p] + i \in 1 .. Len(sendQueue[p])
      BY <1>4, <1>5
  <2>2. \A i \in 1 .. cursor[p] : i \in 1 .. Len(sendQueue[p])
      BY <1>4, <1>5
  <2>3. cursor[p] + c <= Len(sendQueue'[p])
      BY <1>3, <1>4, <1>5
  <2> QED
      BY <1>3, <2>1, <2>2, <2>3, Zenon
<1>6. SentOK(p)'
  <2> SUFFICES ASSUME call[p] \in Requests
               PROVE  /\ RequestOK(p, call[p])' /\ call[p].session = session[p]
                      /\ ~ignoreUpdate[p] =>
                            /\ cursor[p] + Len(call[p].msgs) <= Len(sendQueue'[p])
                            /\ \A i \in 1 .. Len(call[p].msgs) :
                                  call[p].msgs[i] = sendQueue'[p][cursor[p] + i]
      BY <1>2, Zenon DEF SentOK, SameSent
  <2>1. /\ RequestOK(p, call[p]) /\ call[p].session = session[p] /\ Len(call[p].msgs) \in Nat
        /\ ~ignoreUpdate[p] =>
              /\ cursor[p] + Len(call[p].msgs) <= Len(sendQueue[p])
              /\ \A i \in 1 .. Len(call[p].msgs) : call[p].msgs[i] = sendQueue[p][cursor[p] + i]
      BY <1>1 DEF PartInv, SentOK, Requests
  <2>2. RequestOK(p, call[p])'
    <3>1. Total' = Total /\ \A m : Of(p, m)' <=> Of(p, m)
        BY <1>2, SameOf, Zenon
    <3>2. (\A m : Committed(p, m)' <=> Committed(p, m)) /\ (\A m : InLog(p, m)' <=> InLog(p, m))
        BY <1>2, Zenon DEF SameBroker, Committed, InLog
    <3> QED
        BY <1>2, <2>1, <3>1, <3>2 DEF RequestOK, SameBroker
  <2> QED
      BY <1>5, <2>1, <2>2, Zenon
<1>7. AddedOK(p)'
  <2> SUFFICES ASSUME call[p] \in Addeds
               PROVE  /\ session[p] = None \/ session[p] = bsession[p]
                      /\ ~ignoreUpdate[p] =>
                            /\ cursor[p] + call[p].count <= Len(sendQueue'[p])
                            /\ Accepted(log[p], sendQueue'[p], cursor[p], call[p].begin, call[p].count)
      BY <1>2, Zenon DEF AddedOK, SameSent, SameBroker
  <2>1. call[p].count \in Nat
      BY Zenon DEF Addeds
  <2>2. /\ session[p] = None \/ session[p] = bsession[p]
        /\ ~ignoreUpdate[p] =>
              /\ cursor[p] + call[p].count <= Len(sendQueue[p])
              /\ Accepted(log[p], sendQueue[p], cursor[p], call[p].begin, call[p].count)
      BY <1>1, Zenon DEF PartInv, AddedOK
  <2> QED
      BY <1>5, <2>1, <2>2, Zenon DEF Accepted
<1>8. AnswerOK(p)'
  <2> SUFFICES ASSUME call[p] \in Answers
               PROVE  AnswerOK(p)'
      BY <1>2, Zenon DEF AnswerOK
  <2>1. call[p].count \in Nat
      BY Zenon DEF Answers
  <2>2. /\ session[p] = None \/ session[p] = call[p].session
        /\ call[p].session <= bsession[p] /\ call[p].committedId < committed[p]
        /\ ~ignoreUpdate[p] =>
              /\ cursor[p] + call[p].count <= Len(sendQueue[p])
              /\ call[p].session = bsession[p] =>
                    Accepted(log[p], sendQueue[p], cursor[p], call[p].begin, call[p].count)
              /\ \A i \in 1 .. cursor[p] :
                    uncommitted[p][i] <= call[p].committedId =>
                       log[p][uncommitted[p][i] + 1] = sendQueue[p][i]
              /\ \A i \in 1 .. call[p].count :
                    call[p].begin + i - 1 <= call[p].committedId =>
                       log[p][call[p].begin + i] = sendQueue[p][cursor[p] + i]
      BY <1>1, Zenon DEF PartInv, AnswerOK
  <2>3. ASSUME ~ignoreUpdate[p]
        PROVE  /\ cursor[p] + call[p].count <= Len(sendQueue'[p])
               /\ call[p].session = bsession[p] =>
                     Accepted(log[p], sendQueue'[p], cursor[p], call[p].begin, call[p].count)
               /\ \A i \in 1 .. cursor[p] :
                     uncommitted[p][i] <= call[p].committedId =>
                        log[p][uncommitted[p][i] + 1] = sendQueue'[p][i]
               /\ \A i \in 1 .. call[p].count :
                     call[p].begin + i - 1 <= call[p].committedId =>
                        log[p][call[p].begin + i] = sendQueue'[p][cursor[p] + i]
      BY <1>5, <2>1, <2>2, <2>3, Zenon DEF Accepted
  <2> QED
      BY <1>2, <2>2, <2>3, Zenon DEF AnswerOK, SameSent, SameBroker
<1> QED
    BY <1>3, <1>6, <1>7, <1>8, Zenon DEF PartInv

\* clearBuffer gives the messages of the queues up and starts over.
LEMMA ClearStep ==
    ASSUME WriterInv, Types', NEW p \in Partitions, clearBuffer(p)
    PROVE  PartInv(p)'
<1>1. Types /\ PartInv(p)
    BY Zenon DEF WriterInv
<1>2. /\ writeQueue'[p] = <<>> /\ toMerge'[p] = <<>> /\ sendQueue'[p] = <<>>
      /\ minInMerge'[p] = None /\ cursor'[p] = 0 /\ uncommitted'[p] = <<>> /\ ignoreUpdate'[p] = TRUE
    BY <1>1, Zenon DEF clearBuffer, Types, QueueTypes, SentTypes
<1>3. /\ cleared' = cleared \cup Queued(p) /\ SameMessages /\ SameBroker(p) /\ late'[p] = late[p]
      /\ session'[p] = session[p] /\ checkpoint'[p] = checkpoint[p] /\ call'[p] = call[p]
    BY Zenon DEF clearBuffer, SameMessages, SameBroker, brokerVars
<1>4. LogMoves(p)
    BY <1>1, <1>3, LogStays, Zenon DEF PartInv
<1>5. Total' = Total /\ \A m : Of(p, m)' <=> Of(p, m)
    BY <1>3, SameOf, Zenon
<1>6. \A m : Committed(p, m) => Committed(p, m)'
    BY <1>1, <1>4, CommittedStays, Zenon
<1>7. QueueOK(p)' /\ MergeOK(p)'
  <2>1. \A i \in 1 .. Len(<<>>) : FALSE
      OBVIOUS
  <2>2. Sorted(<<>>) /\ Before(<<>>, <<>>)
      BY <2>1, Zenon DEF Sorted, Before
  <2> QED
      BY <1>2, <2>1, <2>2, Zenon DEF QueueOK, MergeOK
<1>8. LostNothing(p)'
  <2>1. \A m : InQueue(p, m) => m \in Queued(p)
      BY <1>1, Numbers DEF InQueue, Queued, Elements
  <2> QED
      BY <1>1, <1>3, <1>5, <1>6, <2>1, Zenon DEF PartInv, LostNothing
<1>9. CheckpointOK(p)'
    BY <1>1, <1>3, <1>5, <1>6, Zenon DEF PartInv, CheckpointOK, SameMessages
<1>10. LogOK(p)'
    BY <1>1, <1>3, LogStays, Zenon DEF PartInv
<1>11. CursorOK(p)'
    BY <1>2 DEF CursorOK
<1>12. SentOK(p)'
  <2>1. ASSUME call[p] \in Requests
        PROVE  RequestOK(p, call[p])' /\ call[p].session = session[p]
    <3>1. PICK r \in Requests : r = call[p] /\ r = call'[p]
        BY <1>3, <2>1, Zenon
    <3>2. RequestOK(p, r) /\ r.session = session[p]
        BY <1>1, <3>1, Zenon DEF PartInv, SentOK
    <3>3. RequestOK(p, r)'
        BY <1>1, <1>3, <1>4, <3>2, RequestStays, Zenon
    <3> QED
        BY <3>1, <3>2, <3>3, Zenon DEF RequestOK
  <2> QED
      BY <1>2, <1>3, <2>1, Zenon DEF SentOK
<1>13. AddedOK(p)'
    BY <1>1, <1>2, <1>3, Zenon DEF PartInv, AddedOK, SameBroker
<1>14. AnswerOK(p)'
    BY <1>1, <1>2, <1>3, Zenon DEF PartInv, AnswerOK, SameBroker
<1>15. LateOK(p)'
    BY <1>1, <1>3, <1>4, LateStays, Zenon DEF PartInv
<1> QED
    BY <1>7, <1>8, <1>9, <1>10, <1>11, <1>12, <1>13, <1>14, <1>15, Zenon DEF PartInv

-----------------------------------------------------------------------------
(***************************************************************************)
(* The send loop                                                           *)
(***************************************************************************)
\* updateBuffer pops messages that are committed, moves the checkpoint to
\* the last of them, and the ids that remain are those of the messages that
\* remain.
LEMMA UpdateKeeps ==
    ASSUME CountsPrefix, Types, Types', NEW p \in Partitions, PartInv(p), NEW r \in Answers, r = call[p],
           ~ignoreUpdate[p], updateBuffer(p, r), SameMessages, cleared' = cleared,
           SameBroker(p), session'[p] = r.session
    PROVE  QueueOK(p)' /\ MergeOK(p)' /\ LostNothing(p)' /\ CheckpointOK(p)' /\ CursorOK(p)'
<1>num. /\ cursor[p] \in Nat /\ sendQueue[p] \in Seq(Nat) /\ Len(sendQueue[p]) \in Nat
        /\ session[p] \in Int /\ bsession[p] \in Nat /\ committed[p] \in Nat
        /\ log[p] \in Seq(Nat) /\ Len(log[p]) \in Nat /\ uncommitted[p] \in Seq(Nat)
        /\ Total \in Nat /\ checkpoint[p] \in Int
    BY Numbers
<1>fun. /\ sendQueue \in [Partitions -> Seq(Nat)] /\ uncommitted \in [Partitions -> Seq(Nat)]
        /\ cursor \in [Partitions -> Nat] /\ checkpoint \in [Partitions -> Int]
    BY Zenon DEF Types, QueueTypes, SentTypes
<1>rec. r.count \in Nat /\ r.begin \in Nat /\ r.committedId \in Int /\ r.session \in Nat
    BY Zenon DEF Answers
<1>of. Total' = Total /\ \A m : Of(p, m)' <=> Of(p, m)
    BY SameOf, Zenon
<1>com. \A m : Committed(p, m)' <=> Committed(p, m)
    BY Zenon DEF Committed, SameBroker
<1>same. /\ toMerge'[p] = toMerge[p] /\ writeQueue'[p] = writeQueue[p] /\ minInMerge'[p] = minInMerge[p]
    BY Zenon DEF updateBuffer
<1>1. /\ session[p] = None \/ session[p] = r.session
      /\ r.session <= bsession[p]
      /\ r.committedId < committed[p]
      /\ cursor[p] + r.count <= Len(sendQueue[p])
      /\ r.session = bsession[p] => Accepted(log[p], sendQueue[p], cursor[p], r.begin, r.count)
      /\ \A i \in 1 .. cursor[p] :
            uncommitted[p][i] <= r.committedId => log[p][uncommitted[p][i] + 1] = sendQueue[p][i]
      /\ \A i \in 1 .. r.count :
            r.begin + i - 1 <= r.committedId => log[p][r.begin + i] = sendQueue[p][cursor[p] + i]
    BY Zenon DEF PartInv, AnswerOK
<1>2. /\ cursor[p] = Len(uncommitted[p]) /\ cursor[p] <= Len(sendQueue[p])
      /\ cursor[p] > 0 => session[p] # None /\ session[p] <= bsession[p]
      /\ session[p] = bsession[p] =>
            \A i \in 1 .. cursor[p] :
               /\ uncommitted[p][i] < Len(log[p])
               /\ log[p][uncommitted[p][i] + 1] = sendQueue[p][i]
    BY Zenon DEF PartInv, CursorOK
<1>3. PICK n \in 0 .. cursor[p] + r.count : Popped(p, r, n)
  <2>1. CursorOK(p)
      BY Zenon DEF PartInv
  <2> QED
      BY <1>1, <2>1, UpdateTypes, Zenon
<1>4. PICK ids : ids = AcceptedIds(p, r)
    BY Zenon
<1>5. /\ ids \in Seq(Nat) /\ Len(ids) = cursor[p] + r.count
      /\ \A i \in 1 .. cursor[p] : ids[i] = uncommitted[p][i]
      /\ \A i \in 1 .. r.count : ids[cursor[p] + i] = r.begin + i - 1
      /\ \A i \in 1 .. n : ids[i] <= r.committedId
    BY <1>3, <1>4, Zenon DEF Popped
<1>6. /\ sendQueue'[p] = Drop(sendQueue[p], n) /\ uncommitted'[p] = Drop(ids, n)
      /\ cursor'[p] = cursor[p] + r.count - n
      /\ checkpoint'[p] = IF n > 0 THEN sendQueue[p][n] ELSE checkpoint[p]
    BY <1>fun, <1>3, <1>4, Zenon DEF Popped
<1>7. PICK k : k = cursor[p] + r.count
    BY Zenon
<1>8. k \in Nat /\ n \in Nat /\ n <= k /\ k <= Len(sendQueue[p]) /\ k = Len(ids)
    BY <1>num, <1>rec, <1>1, <1>5, <1>7
\* ids up to k, with the messages they belong to
<1>9. ASSUME NEW i \in 1 .. k
      PROVE  /\ ids[i] \in Nat
             /\ ids[i] <= r.committedId => log[p][ids[i] + 1] = sendQueue[p][i]
             /\ r.session = bsession[p] => ids[i] < Len(log[p]) /\ log[p][ids[i] + 1] = sendQueue[p][i]
  <2>0. ids[i] \in Nat
      BY <1>5, <1>8
  <2>1. CASE i \in 1 .. cursor[p]
    <3>1. ids[i] = uncommitted[p][i] /\ session[p] # None
      <4>1. cursor[p] > 0
          BY <1>num, <2>1
      <4> QED
          BY <1>2, <1>5, <2>1, <4>1, Zenon
    <3> QED
        BY <1>1, <1>2, <2>0, <2>1, <3>1, Zenon
  <2>2. CASE i \notin 1 .. cursor[p]
    <3>1. PICK j : j = i - cursor[p]
        BY Zenon
    <3>2. j \in 1 .. r.count /\ i = cursor[p] + j /\ j \in Nat
      <4>1. i \in 1 .. cursor[p] + r.count
          BY <1>7, Zenon
      <4>2. i - cursor[p] \in 1 .. r.count /\ i = cursor[p] + (i - cursor[p])
          BY <1>num, <1>rec, <2>2, <4>1, Offset, Zenon
      <4> QED
          BY <3>1, <4>2
    <3>3. ids[i] = r.begin + j - 1
        BY <1>5, <3>2, Zenon
    <3>4. ids[i] + 1 = r.begin + j
        BY <1>rec, <3>2, <3>3
    <3>5. ids[i] <= r.committedId => log[p][ids[i] + 1] = sendQueue[p][i]
        BY <1>1, <3>2, <3>3, <3>4, Zenon
    <3>6. ASSUME r.session = bsession[p]
          PROVE  ids[i] < Len(log[p]) /\ log[p][ids[i] + 1] = sendQueue[p][i]
      <4>1. r.begin + r.count <= Len(log[p]) /\ log[p][r.begin + j] = sendQueue[p][cursor[p] + j]
          BY <1>1, <3>2, <3>6, Zenon DEF Accepted
      <4>2. ids[i] < Len(log[p])
        <5>1. r.begin \in Nat /\ r.count \in Nat /\ j \in Nat /\ j <= r.count /\ Len(log[p]) \in Nat
            BY <1>num, <1>rec, <3>2
        <5>2. r.begin + j - 1 < Len(log[p])
            BY <4>1, <5>1
        <5> QED
            BY <3>3, <5>2, Zenon
      <4> QED
          BY <3>2, <3>4, <4>1, <4>2, Zenon
    <3> QED
        BY <2>0, <3>5, <3>6, Zenon
  <2> QED
      BY <2>1, <2>2, Zenon
<1>10. \A i \in 1 .. n : Committed(p, sendQueue[p][i])
  <2> SUFFICES ASSUME NEW i \in 1 .. n PROVE Committed(p, sendQueue[p][i])
      BY Zenon
  <2>1. i \in 1 .. k
      BY <1>8
  <2>2. ids[i] \in Nat /\ ids[i] <= r.committedId /\ log[p][ids[i] + 1] = sendQueue[p][i]
      BY <1>5, <1>9, <2>1, Zenon
  <2>3. ids[i] + 1 \in 1 .. committed[p]
    <3>1. r.committedId \in Int /\ committed[p] \in Nat /\ r.committedId < committed[p]
        BY <1>num, <1>rec, <1>1, Zenon
    <3> QED
        BY <2>2, <3>1, CommittedIndex, Zenon
  <2> QED
      BY <2>2, <2>3, Zenon DEF Committed
<1>11. /\ Len(sendQueue'[p]) = Len(sendQueue[p]) - n
       /\ \A i \in 1 .. Len(sendQueue[p]) - n : sendQueue'[p][i] = sendQueue[p][n + i]
  <2>1. n \in 0 .. Len(sendQueue[p])
      BY <1>num, <1>8
  <2>2. /\ Len(Drop(sendQueue[p], n)) = Len(sendQueue[p]) - n
        /\ \A i \in 1 .. Len(sendQueue[p]) - n : Drop(sendQueue[p], n)[i] = sendQueue[p][n + i]
      BY <1>num, <2>1, DropOf, Zenon
  <2> QED
      BY <1>6, <2>2, Zenon
<1>12. /\ Len(uncommitted'[p]) = k - n
       /\ \A i \in 1 .. k - n : uncommitted'[p][i] = ids[n + i]
  <2>1. n \in 0 .. Len(ids)
      BY <1>8
  <2>2. /\ Len(Drop(ids, n)) = Len(ids) - n
        /\ \A i \in 1 .. Len(ids) - n : Drop(ids, n)[i] = ids[n + i]
      BY <1>5, <2>1, DropOf, Zenon
  <2> QED
      BY <1>6, <1>8, <2>2, Zenon
<1>13. \A i \in 1 .. Len(sendQueue'[p]) :
          n + i \in 1 .. Len(sendQueue[p]) /\ sendQueue'[p][i] = sendQueue[p][n + i]
  <2> TAKE i \in 1 .. Len(sendQueue'[p])
  <2>1. i \in 1 .. Len(sendQueue[p]) - n
      BY <1>11, Zenon
  <2>2. n + i \in 1 .. Len(sendQueue[p])
      BY <1>num, <1>8, <2>1
  <2> QED
      BY <1>11, <2>1, <2>2, Zenon
<1>14. /\ Sorted(sendQueue[p]) /\ Before(sendQueue[p], toMerge[p]) /\ Before(sendQueue[p], writeQueue[p])
       /\ \A i \in 1 .. Len(sendQueue[p]) : Of(p, sendQueue[p][i])
    BY Zenon DEF PartInv, QueueOK
<1>15. QueueOK(p)'
  <2>1. Sorted(sendQueue'[p])
    <3> SUFFICES ASSUME NEW i \in 1 .. Len(sendQueue'[p]), NEW j \in 1 .. Len(sendQueue'[p]), i < j
                 PROVE  sendQueue'[p][i] < sendQueue'[p][j]
        BY Zenon DEF Sorted
    <3>1. n + i < n + j
        BY <1>8
    <3> QED
        BY <1>13, <1>14, <3>1, Zenon DEF Sorted
  <2>2. Before(sendQueue'[p], toMerge[p]) /\ Before(sendQueue'[p], writeQueue[p])
      BY <1>13, <1>14, Zenon DEF Before
  <2>3. \A i \in 1 .. Len(sendQueue'[p]) : Of(p, sendQueue[p][i])'
    <3> TAKE i \in 1 .. Len(sendQueue'[p])
    <3>1. Of(p, sendQueue[p][n + i])
        BY <1>13, <1>14, Zenon
    <3> QED
        BY <1>of, <1>13, <3>1, Zenon DEF Of, SameMessages
  <2>4. /\ \A i \in 1 .. Len(toMerge[p]) : Of(p, toMerge[p][i])'
        /\ \A i \in 1 .. Len(writeQueue[p]) : Of(p, writeQueue[p][i])'
      BY <1>of, <1>same, Zenon DEF PartInv, QueueOK, Of, SameMessages
  <2> QED
      BY <1>same, <2>1, <2>2, <2>3, <2>4, Zenon DEF PartInv, QueueOK
<1>16. MergeOK(p)'
    BY <1>of, <1>same, Zenon DEF PartInv, MergeOK, Of, SameMessages
<1>17. ASSUME NEW m, InQueue(p, m)
       PROVE  InQueue(p, m)' \/ Committed(p, m)
  <2>1. CASE \E i \in 1 .. Len(sendQueue[p]) : sendQueue[p][i] = m
    <3>1. PICK i \in 1 .. Len(sendQueue[p]) : sendQueue[p][i] = m
        BY <2>1, Zenon
    <3>2. CASE i \in 1 .. n
        BY <1>10, <3>1, <3>2, Zenon
    <3>3. CASE i \notin 1 .. n
      <4>1. i - n \in 1 .. Len(sendQueue'[p]) /\ n + (i - n) = i
        <5>1. PICK l, l1 : l = Len(sendQueue[p]) /\ l1 = Len(sendQueue'[p])
            BY Zenon
        <5>2. l \in Nat /\ n \in Nat /\ l1 = l - n /\ i \in 1 .. l
            BY <1>num, <1>8, <1>11, <5>1, Zenon
        <5>3. i - n \in 1 .. l1 /\ n + (i - n) = i
            BY <3>3, <5>2
        <5> QED
            BY <5>1, <5>3, Zenon
      <4>2. sendQueue'[p][i - n] = m
          BY <1>13, <3>1, <4>1, Zenon
      <4> QED
          BY <4>1, <4>2, Zenon DEF InQueue
    <3> QED
        BY <3>2, <3>3, Zenon
  <2>2. CASE ~\E i \in 1 .. Len(sendQueue[p]) : sendQueue[p][i] = m
      BY <1>same, <1>17, <2>2, Zenon DEF InQueue
  <2> QED
      BY <2>1, <2>2, Zenon
<1>18. LostNothing(p)'
    BY <1>of, <1>com, <1>17, Zenon DEF PartInv, LostNothing
<1>19. CheckpointOK(p)'
  <2>1. CASE n = 0
    <3>1. checkpoint'[p] = checkpoint[p]
        BY <1>6, <1>8, <2>1
    <3> QED
        BY <1>of, <1>com, <3>1, Zenon DEF PartInv, CheckpointOK
  <2>2. CASE n # 0
    <3>1. n > 0 /\ n \in 1 .. Len(sendQueue[p]) /\ checkpoint'[p] = sendQueue[p][n]
        BY <1>num, <1>6, <1>8, <2>2
    <3>2. sendQueue[p][n] \in Nat /\ sendQueue[p][n] <= Total
      <4>1. sendQueue[p][n] \in 1 .. Total
          BY <1>14, <3>1, Zenon DEF Of
      <4> QED
          BY <1>num, <4>1
    <3>3. ASSUME NEW m \in 1 .. Total, Of(p, m), m <= sendQueue[p][n]
          PROVE  m \in cleared \/ Committed(p, m)
      <4>1. ASSUME InQueue(p, m) PROVE Committed(p, m)
        <5>1. ASSUME NEW j \in 1 .. Len(toMerge[p]), toMerge[p][j] = m PROVE FALSE
          <6>1. sendQueue[p][n] < m
              BY <1>14, <3>1, <5>1, Zenon DEF Before
          <6> QED
              BY <3>2, <3>3, <6>1
        <5>2. ASSUME NEW j \in 1 .. Len(writeQueue[p]), writeQueue[p][j] = m PROVE FALSE
          <6>1. sendQueue[p][n] < m
              BY <1>14, <3>1, <5>2, Zenon DEF Before
          <6> QED
              BY <3>2, <3>3, <6>1
        <5>3. PICK i \in 1 .. Len(sendQueue[p]) : sendQueue[p][i] = m
            BY <4>1, <5>1, <5>2, Zenon DEF InQueue
        <5>4. i \in 1 .. n
          <6>1. ASSUME n < i PROVE FALSE
            <7>1. sendQueue[p][n] < m
                BY <1>14, <3>1, <5>3, <6>1, Zenon DEF Sorted
            <7> QED
                BY <3>2, <3>3, <7>1
          <6> QED
              BY <1>num, <1>8, <6>1
        <5> QED
            BY <1>10, <5>3, <5>4, Zenon
      <4> QED
          BY <3>3, <4>1, Zenon DEF PartInv, LostNothing
    <3> QED
        BY <1>of, <1>com, <3>1, <3>2, <3>3, Zenon DEF CheckpointOK
  <2> QED
      BY <2>1, <2>2, Zenon
<1>20. CursorOK(p)'
  <2>1. cursor'[p] = k - n /\ cursor'[p] = Len(uncommitted'[p])
    <3>1. cursor'[p] = (cursor[p] + r.count) - n
      <4>1. cursor[p] \in Nat /\ r.count \in Nat /\ n \in Nat
          BY <1>num, <1>rec, <1>8, Zenon
      <4>2. cursor[p] + r.count - n = (cursor[p] + r.count) - n
          BY <4>1
      <4> QED
          BY <1>6, <4>2, Zenon
    <3> QED
        BY <1>7, <1>12, <3>1, Zenon
  <2>2. cursor'[p] <= Len(sendQueue'[p])
      BY <1>num, <1>8, <1>11, <2>1
  <2>3. r.session # None /\ r.session <= bsession[p]
      BY <1>rec, <1>1 DEF None
  <2>4. ASSUME r.session = bsession[p], NEW i \in 1 .. k - n
        PROVE  /\ uncommitted'[p][i] < Len(log[p])
               /\ log[p][uncommitted'[p][i] + 1] = sendQueue'[p][i]
    <3>1. n + i \in 1 .. k /\ i \in 1 .. Len(sendQueue'[p])
      <4>1. n + i \in 1 .. k
          BY <1>8
      <4>2. i \in 1 .. Len(sendQueue[p]) - n
          BY <1>num, <1>8
      <4> QED
          BY <1>11, <4>1, <4>2, Zenon
    <3>2. ids[n + i] < Len(log[p]) /\ log[p][ids[n + i] + 1] = sendQueue[p][n + i]
        BY <1>9, <2>4, <3>1, Zenon
    <3> QED
        BY <1>12, <1>13, <3>1, <3>2, Zenon
  <2> QED
      BY <2>1, <2>2, <2>3, <2>4, Zenon DEF CursorOK, SameBroker
<1> QED
    BY <1>15, <1>16, <1>18, <1>19, <1>20, Zenon

\* A handled call is idle again; what it brought is in the buffer.
LEMMA HandleStep ==
    ASSUME CountsPrefix, WriterInv, Types', NEW p \in Partitions, handleStep(p)
    PROVE  PartInv(p)'
<1>1. Types /\ PartInv(p) /\ call[p] \in Calls
    BY Zenon DEF WriterInv, Types
<1>2. SameMessages /\ cleared' = cleared /\ SameBroker(p) /\ late'[p] = late[p]
    BY Zenon DEF handleStep, clientVars, brokerVars, SameMessages, SameBroker
<1>3. CASE UNCHANGED <<queueVars, sentVars, checkpoint, call>>
  <2>1. Untouched(p)
      BY <1>2, <1>3, Zenon DEF Untouched, SameQueues, SameSent, queueVars, sentVars
  <2> QED
      BY <1>1, <1>2, <2>1, UntouchedStays, Zenon
<1>4. CASE handleSendMessageResponse(p)
  <2>1. call'[p] = Idle
      BY <1>1, <1>4, Zenon DEF handleSendMessageResponse, Types
  <2>2. SentOK(p)' /\ AddedOK(p)' /\ AnswerOK(p)'
    <3>1. Idle \notin Requests /\ Idle \notin Addeds /\ Idle \notin Answers
        BY Zenon DEF Idle, Requests, Addeds, Answers
    <3> QED
        BY <2>1, <3>1, Zenon DEF SentOK, AddedOK, AnswerOK
  <2>3. LogMoves(p)
      BY <1>1, <1>2, LogStays, Zenon DEF PartInv
  <2>4. LogOK(p)' /\ LateOK(p)'
    <3>1. Total' = Total /\ \A m : Of(p, m)' <=> Of(p, m)
        BY <1>2, SameOf, Zenon
    <3>2. LogOK(p)'
        BY <1>1, <1>2, LogStays, Zenon DEF PartInv
    <3>3. LateOK(p)'
        BY <1>1, <1>2, <2>3, LateStays, Zenon DEF PartInv
    <3> QED
        BY <3>2, <3>3, Zenon
  <2>5. ASSUME QueueOK(p)', MergeOK(p)', LostNothing(p)', CheckpointOK(p)', CursorOK(p)'
        PROVE  PartInv(p)'
      BY <2>2, <2>4, <2>5, Zenon DEF PartInv
  <2>6. CASE UNCHANGED <<queueVars, sentVars, checkpoint>>
    <3>1. SameQueues(p) /\ SameSent(p) /\ checkpoint'[p] = checkpoint[p]
        BY <2>6, Zenon DEF SameQueues, SameSent, queueVars, sentVars
    <3> QED
        BY <1>1, <1>2, <2>3, <2>5, <3>1, BrokerKeeps, Zenon
  <2>7. CASE resetUnsendCursor(p)
    <3>1. SameQueues(p) /\ checkpoint'[p] = checkpoint[p]
        BY <2>7, Zenon DEF resetUnsendCursor, SameQueues, queueVars
    <3>2. cursor'[p] = 0 /\ uncommitted'[p] = <<>>
        BY <1>1, <2>7, Zenon DEF resetUnsendCursor, Types, SentTypes
    <3>3. Len(sendQueue'[p]) \in Nat
        BY DEF Types, QueueTypes
    <3>4. CursorOK(p)'
        BY <3>2, <3>3 DEF CursorOK
    <3> QED
        BY <1>1, <1>2, <2>3, <2>5, <3>1, <3>4, QueuesKeep, Zenon
  <2>8. CASE /\ call[p].at = "done" /\ call[p].ec \in {"NONE", "BUSY"}
             /\ IF session[p] = None THEN takeSession(p, call[p]) ELSE UNCHANGED session
             /\ IF call[p].begin = None \/ ignoreUpdate[p]
                THEN UNCHANGED <<queueVars, cursor, uncommitted, ignoreUpdate, checkpoint>>
                ELSE updateBuffer(p, call[p])
    <3>1. call[p] \in Answers \cup Refusals
        BY <1>1, <2>8, CallKinds, Zenon
    <3>2. IF session[p] = None THEN session'[p] = call[p].session ELSE session'[p] = session[p]
        BY <1>1, <2>8, Zenon DEF takeSession, Types, SentTypes
    <3>3. CASE UNCHANGED <<queueVars, cursor, uncommitted, ignoreUpdate, checkpoint>>
      <4>1. SameQueues(p) /\ checkpoint'[p] = checkpoint[p] /\ cursor'[p] = cursor[p]
            /\ uncommitted'[p] = uncommitted[p]
          BY <3>3, Zenon DEF SameQueues, queueVars
      <4>2. CASE session'[p] = session[p]
          BY <1>1, <1>2, <4>1, <4>2, <2>3, <2>5, QueuesKeep, Zenon
             DEF PartInv, CursorOK, SameQueues, SameBroker
      <4>3. CASE session[p] = None
        <5>1. cursor[p] = 0 /\ cursor[p] = Len(uncommitted[p]) /\ cursor[p] <= Len(sendQueue[p])
            BY <1>1, <4>3, Numbers DEF PartInv, CursorOK
        <5>2. CursorOK(p)'
            BY <4>1, <5>1 DEF CursorOK, SameQueues
        <5> QED
            BY <1>1, <1>2, <2>3, <2>5, <4>1, <5>2, QueuesKeep, Zenon
      <4> QED
          BY <3>2, <4>2, <4>3, Zenon
    <3>4. CASE ~(call[p].begin = None \/ ignoreUpdate[p])
      <4>1. call[p] \in Answers
          BY <3>1, <3>4, Zenon DEF Refusals
      <4>2. PICK r \in Answers : r = call[p]
          BY <4>1, Zenon
      <4>3. session'[p] = r.session
        <5>1. session[p] = None \/ session[p] = r.session
            BY <1>1, <4>2, Zenon DEF PartInv, AnswerOK
        <5> QED
            BY <3>2, <4>2, <5>1, Zenon
      <4>4. updateBuffer(p, r) /\ ~ignoreUpdate[p]
          BY <2>8, <3>4, <4>2, Zenon
      <4> QED
          BY <1>1, <1>2, <2>5, <4>2, <4>3, <4>4, UpdateKeeps, Zenon
    <3> QED
        BY <2>8, <3>3, <3>4, Zenon
  <2> QED
      BY <1>4, <2>6, <2>7, <2>8, Zenon DEF handleSendMessageResponse
<1> QED
    BY <1>3, <1>4, Zenon DEF handleStep

\* The request that is posted takes messages whose predecessors are in the
\* request, committed, or accepted in the session it names.
LEMMA PostStep ==
    ASSUME WriterInv, Types', NEW p \in Partitions, postSendMessageRequest(p)
    PROVE  PartInv(p)'
<1>1. Types /\ PartInv(p)
    BY Zenon DEF WriterInv
<1>2. (convertMessage(p) \/ UNCHANGED queueVars) /\ cursor[p] <= Len(sendQueue'[p]) /\ fillRequest(p)
    BY PostTypes, Zenon DEF postSendMessageRequest
<1>3. /\ SameMessages /\ cleared' = cleared /\ SameBroker(p) /\ late'[p] = late[p]
      /\ cursor'[p] = cursor[p] /\ uncommitted'[p] = uncommitted[p] /\ session'[p] = session[p]
      /\ checkpoint'[p] = checkpoint[p]
    BY Zenon DEF postSendMessageRequest, clientVars, brokerVars, SameMessages, SameBroker
<1>4. /\ QueueOK(p)' /\ MergeOK(p)' /\ LostNothing(p)' /\ CheckpointOK(p)' /\ LogOK(p)'
      /\ CursorOK(p)' /\ LateOK(p)'
    BY <1>1, <1>2, <1>3, ConvertKeeps, Zenon
<1>5. PICK r \in Requests :
         /\ call' = [call EXCEPT ![p] = r]
         /\ r.session = session[p]
         /\ cursor[p] + Len(r.msgs) <= Len(sendQueue'[p])
         /\ \A i \in 1 .. Len(r.msgs) : r.msgs[i] = sendQueue'[p][cursor[p] + i]
    BY <1>1, <1>2, FilledRequest, Zenon DEF Types
<1>6. call'[p] = r
    BY <1>1, <1>5, Zenon DEF Types
<1>7. PICK q, c, n : q = sendQueue'[p] /\ c = cursor[p] /\ n = Len(r.msgs)
    BY Zenon
<1>8. /\ c \in Nat /\ n \in Nat /\ q \in Seq(Nat) /\ Len(q) \in Nat /\ c + n <= Len(q)
      /\ \A i \in 1 .. n : r.msgs[i] = q[c + i]
      /\ session[p] \in Int /\ bsession[p] \in Nat /\ Len(log[p]) \in Nat
  <2>1. q \in Seq(Nat)
      BY <1>7, Zenon DEF Types, QueueTypes
  <2>2. n \in Nat
      BY <1>7 DEF Requests
  <2> QED
      BY <1>1, <1>5, <1>7, <2>1, <2>2, Numbers
<1>9. /\ Sorted(q) /\ Before(q, toMerge'[p]) /\ Before(q, writeQueue'[p])
      /\ \A i \in 1 .. Len(q) : Of(p, q[i])'
    BY <1>4, <1>7, Zenon DEF QueueOK
<1>10. /\ c > 0 => session[p] # None /\ session[p] <= bsession[p]
       /\ session[p] = bsession[p] =>
             \A i \in 1 .. c : /\ uncommitted[p][i] < Len(log[p])
                               /\ log[p][uncommitted[p][i] + 1] = q[i]
       /\ \A i \in 1 .. c : uncommitted[p][i] \in Nat
  <2>1. CursorOK(p)' /\ CursorOK(p)
      BY <1>1, <1>4, Zenon DEF PartInv
  <2>2. \A i \in 1 .. c : uncommitted[p][i] \in Nat
    <3>1. uncommitted[p] \in Seq(Nat) /\ c = Len(uncommitted[p])
        BY <1>1, <1>7, <2>1, Numbers, Zenon DEF CursorOK
    <3> QED
        BY <3>1
  <2> QED
      BY <1>3, <1>7, <2>1, <2>2, Zenon DEF CursorOK, SameBroker
<1>11. ASSUME NEW i \in 1 .. n
       PROVE  /\ Of(p, r.msgs[i])'
              /\ r.session = None \/ r.session >= bsession[p] =>
                    \A m \in 1 .. Total' :
                       Of(p, m)' /\ m < r.msgs[i] /\ m \notin cleared' =>
                          \/ \E j \in 1 .. i - 1 : r.msgs[j] = m
                          \/ Committed(p, m)'
                          \/ r.session = bsession[p] /\ InLog(p, m)'
  <2>1. c + i \in 1 .. Len(q) /\ r.msgs[i] = q[c + i] /\ q[c + i] \in Nat /\ i \in Nat /\ i <= n
    <3>1. c + i \in 1 .. Len(q) /\ i \in Nat /\ i <= n
        BY <1>8
    <3>2. q[c + i] \in Nat
        BY <1>8, <3>1
    <3>3. r.msgs[i] = q[c + i]
        BY <1>8, Zenon
    <3> QED
        BY <3>1, <3>2, <3>3, Zenon
  <2>2. Of(p, r.msgs[i])'
      BY <1>9, <2>1, Zenon
  <2>3. ASSUME r.session = None \/ r.session >= bsession[p],
               NEW m \in 1 .. Total', Of(p, m)', m < r.msgs[i], m \notin cleared', ~Committed(p, m)'
        PROVE  \/ \E j \in 1 .. i - 1 : r.msgs[j] = m
               \/ r.session = bsession[p] /\ InLog(p, m)'
    <3>1. m \in Int /\ m < q[c + i]
      <4>1. Total' \in Nat
          BY Zenon DEF Types, ClientTypes
      <4> QED
          BY <2>1, <2>3, <4>1
    <3>2. InQueue(p, m)'
        BY <1>4, <2>3, Zenon DEF LostNothing
    <3>3. ASSUME NEW j \in 1 .. Len(toMerge'[p]), toMerge'[p][j] = m PROVE FALSE
      <4>1. q[c + i] < m
          BY <1>9, <2>1, <3>3, Zenon DEF Before
      <4> QED
          BY <2>1, <3>1, <4>1
    <3>4. ASSUME NEW j \in 1 .. Len(writeQueue'[p]), writeQueue'[p][j] = m PROVE FALSE
      <4>1. q[c + i] < m
          BY <1>9, <2>1, <3>4, Zenon DEF Before
      <4> QED
          BY <2>1, <3>1, <4>1
    <3>5. PICK k \in 1 .. Len(q) : q[k] = m
        BY <1>7, <3>2, <3>3, <3>4, Zenon DEF InQueue
    <3>6. k \in Nat /\ k < c + i
      <4>1. ASSUME k = c + i \/ c + i < k PROVE FALSE
        <5>1. q[c + i] = m \/ q[c + i] < m
            BY <1>9, <2>1, <3>5, <4>1, Zenon DEF Sorted
        <5> QED
            BY <2>1, <3>1, <5>1
      <4> QED
          BY <1>8, <2>1, <4>1
    <3>7. CASE k \in 1 .. c
      <4>1. session[p] = bsession[p]
        <5>1. c > 0
            BY <1>8, <3>7
        <5> QED
            BY <1>5, <1>8, <1>10, <2>3, <5>1
      <4>2. uncommitted[p][k] \in Nat /\ uncommitted[p][k] < Len(log[p]) /\ log[p][uncommitted[p][k] + 1] = m
          BY <1>10, <3>5, <3>7, <4>1, Zenon
      <4>3. uncommitted[p][k] + 1 \in 1 .. Len(log[p])
        <5>1. PICK id, l : id = uncommitted[p][k] /\ l = Len(log[p])
            BY Zenon
        <5>2. id \in Nat /\ l \in Nat /\ id < l
            BY <1>8, <4>2, <5>1, Zenon
        <5>3. id + 1 \in 1 .. l
            BY <5>2
        <5> QED
            BY <5>1, <5>3, Zenon
      <4>4. InLog(p, m)'
          BY <1>3, <4>2, <4>3, Zenon DEF InLog, SameBroker
      <4> QED
          BY <1>5, <4>1, <4>4, Zenon
    <3>8. CASE k \notin 1 .. c
      <4>1. k - c \in 1 .. i - 1 /\ c + (k - c) = k /\ k - c \in 1 .. n
        <5>1. c \in Nat /\ i \in Nat /\ i <= n /\ n \in Nat /\ k \in Nat /\ k < c + i /\ c < k
            BY <1>8, <2>1, <3>6, <3>8
        <5>2. k - c \in 1 .. i - 1
            BY <5>1
        <5> QED
            BY <5>1, <5>2
      <4>2. r.msgs[k - c] = m
          BY <1>8, <3>5, <4>1, Zenon
      <4> QED
          BY <4>1, <4>2, Zenon
    <3> QED
        BY <3>7, <3>8, Zenon
  <2> QED
      BY <2>2, <2>3, Zenon
<1>12. RequestOK(p, r)'
    BY <1>3, <1>7, <1>11, Zenon DEF RequestOK, SameBroker
<1>13. SentOK(p)'
  <2>1. RequestOK(p, call[p])'
      BY <1>6, <1>12, Zenon DEF RequestOK
  <2> QED
      BY <1>3, <1>5, <1>6, <2>1, Zenon DEF SentOK
<1>14. AddedOK(p)' /\ AnswerOK(p)'
  <2>1. r \notin Addeds /\ r \notin Answers
      BY Zenon DEF Requests, Addeds, Answers
  <2> QED
      BY <1>6, <2>1, Zenon DEF AddedOK, AnswerOK
<1> QED
    BY <1>4, <1>13, <1>14, Zenon DEF PartInv

\* Nothing left in the buffer is older than latestCheckPointId.
LEMMA LatestIsFirst ==
    ASSUME Types, NEW p \in Partitions, QueueOK(p), MergeOK(p), latestCheckPointId(p) # None
    PROVE  /\ latestCheckPointId(p) \in 1 .. Total
           /\ \A m : InQueue(p, m) => m \in Nat /\ latestCheckPointId(p) <= m
<1>1. /\ sendQueue[p] \in Seq(Nat) /\ toMerge[p] \in Seq(Nat) /\ writeQueue[p] \in Seq(Nat)
      /\ minInMerge[p] \in Int /\ Total \in Nat
    BY Numbers, Zenon
<1>2. PICK S, T, W, min : /\ S = sendQueue[p] /\ T = toMerge[p] /\ W = writeQueue[p]
                          /\ min = minInMerge[p]
    BY Zenon
<1>3. /\ S \in Seq(Nat) /\ T \in Seq(Nat) /\ W \in Seq(Nat) /\ min \in Int
      /\ Len(S) \in Nat /\ Len(T) \in Nat /\ Len(W) \in Nat
      /\ Sorted(S) /\ Sorted(W) /\ Before(S, T) /\ Before(S, W) /\ Before(T, W)
      /\ \A i \in 1 .. Len(S) : S[i] \in 1 .. Total
      /\ \A i \in 1 .. Len(W) : W[i] \in 1 .. Total
  <2>1. S \in Seq(Nat) /\ T \in Seq(Nat) /\ W \in Seq(Nat) /\ min \in Int
      BY <1>1, <1>2, Zenon
  <2> QED
      BY <1>2, <2>1 DEF QueueOK, Of
<1>4. /\ T = <<>> => min = None
      /\ T # <<>> => min \in 1 .. Total
      /\ \A i \in 1 .. Len(T) : min <= T[i]
    BY <1>2, Zenon DEF MergeOK, Of
<1>5. /\ \A i \in 1 .. Len(S) : S[i] \in Nat
      /\ \A i \in 1 .. Len(T) : T[i] \in Nat
      /\ \A i \in 1 .. Len(W) : W[i] \in Nat
    BY <1>3
<1>6. ASSUME NEW x \in 1 .. Total, x = latestCheckPointId(p),
             \A i \in 1 .. Len(S) : x <= S[i],
             \A i \in 1 .. Len(T) : x <= T[i],
             \A i \in 1 .. Len(W) : x <= W[i]
      PROVE  /\ latestCheckPointId(p) \in 1 .. Total
             /\ \A m : InQueue(p, m) => m \in Nat /\ latestCheckPointId(p) <= m
    BY <1>2, <1>5, <1>6, Zenon DEF InQueue
<1>7. CASE S # <<>>
  <2>1. latestCheckPointId(p) = S[1] /\ 1 \in 1 .. Len(S)
      BY <1>2, <1>3, <1>7 DEF latestCheckPointId
  <2>2. S[1] \in 1 .. Total /\ S[1] \in Nat
      BY <1>3, <1>5, <2>1, Zenon
  <2>3. \A i \in 1 .. Len(S) : S[1] <= S[i]
    <3> TAKE i \in 1 .. Len(S)
    <3>1. i = 1 \/ 1 < i
        BY <1>3
    <3> QED
        BY <1>3, <1>5, <2>1, <2>2, <3>1 DEF Sorted
  <2>4. \A i \in 1 .. Len(T) : S[1] <= T[i]
    <3> TAKE i \in 1 .. Len(T)
    <3>1. S[1] < T[i] /\ T[i] \in Nat
        BY <1>3, <1>5, <2>1, Zenon DEF Before
    <3> QED
        BY <2>2, <3>1
  <2>5. \A i \in 1 .. Len(W) : S[1] <= W[i]
    <3> TAKE i \in 1 .. Len(W)
    <3>1. S[1] < W[i] /\ W[i] \in Nat
        BY <1>3, <1>5, <2>1, Zenon DEF Before
    <3> QED
        BY <2>2, <3>1
  <2> QED
      BY <1>6, <2>1, <2>2, <2>3, <2>4, <2>5, Zenon
<1>8. CASE S = <<>> /\ T # <<>>
  <2>1. min \in 1 .. Total /\ 1 \in 1 .. Len(T) /\ \A i \in 1 .. Len(S) : FALSE
      BY <1>3, <1>4, <1>8
  <2>2. latestCheckPointId(p) = min
    <3>1. min # None
        BY <1>1, <2>1 DEF None
    <3> QED
        BY <1>2, <1>8, <3>1, Zenon DEF latestCheckPointId
  <2>3. \A i \in 1 .. Len(W) : min <= W[i]
    <3> TAKE i \in 1 .. Len(W)
    <3>1. T[1] < W[i] /\ min <= T[1]
        BY <1>3, <1>4, <2>1, Zenon DEF Before
    <3>2. T[1] \in Nat /\ W[i] \in Nat
        BY <1>5, <2>1, Zenon
    <3>3. min \in Int
        BY <2>1
    <3> QED
        BY <3>1, <3>2, <3>3
  <2> QED
      BY <1>4, <1>6, <2>1, <2>2, <2>3, Zenon
<1>9. CASE S = <<>> /\ T = <<>>
  <2>1. min = None /\ W # <<>>
      BY <1>2, <1>4, <1>9, Zenon DEF latestCheckPointId
  <2>2. latestCheckPointId(p) = W[1] /\ 1 \in 1 .. Len(W)
      BY <1>2, <1>3, <1>9, <2>1 DEF latestCheckPointId
  <2>3. W[1] \in 1 .. Total /\ W[1] \in Nat
      BY <1>3, <1>5, <2>2, Zenon
  <2>4. \A i \in 1 .. Len(W) : W[1] <= W[i]
    <3> TAKE i \in 1 .. Len(W)
    <3>1. i = 1 \/ 1 < i
        BY <1>3
    <3> QED
        BY <1>3, <1>5, <2>2, <2>3, <3>1 DEF Sorted
  <2>5. (\A i \in 1 .. Len(S) : FALSE) /\ (\A i \in 1 .. Len(T) : FALSE)
      BY <1>9
  <2> QED
      BY <1>6, <2>2, <2>3, <2>4, <2>5, Zenon
<1> QED
    BY <1>7, <1>8, <1>9, Zenon

\* The checkpoint of a partition is the message before the first that is
\* left, or the one updateBuffer recorded.
LEMMA CheckpointSafe ==
    ASSUME Types, NEW p \in Partitions, PartInv(p)
    PROVE  /\ PartCheckpoint(p) <= Total
           /\ \A m \in 1 .. Total :
                 Of(p, m) /\ m <= PartCheckpoint(p) => m \in cleared \/ Committed(p, m)
<1>1. CASE latestCheckPointId(p) = None
    BY <1>1, Zenon DEF PartInv, CheckpointOK, PartCheckpoint
<1>2. CASE latestCheckPointId(p) # None
  <2>1. PICK x : x = latestCheckPointId(p)
      BY Zenon
  <2>2. /\ x \in 1 .. Total /\ \A m : InQueue(p, m) => m \in Nat /\ x <= m
        /\ Total \in Nat
      BY <1>2, <2>1, LatestIsFirst, Numbers, Zenon DEF PartInv
  <2>3. PartCheckpoint(p) = x - 1
      BY <1>2, <2>1, Zenon DEF PartCheckpoint
  <2>4. x - 1 <= Total
      BY <2>2
  <2>5. \A m \in 1 .. Total : m <= x - 1 => ~InQueue(p, m)
      BY <2>2
  <2> QED
      BY <2>3, <2>4, <2>5, Zenon DEF PartInv, LostNothing
<1> QED
    BY <1>1, <1>2, Zenon

\* So does a look at the checkpoint, which records it.
LEMMA ScanStep ==
    ASSUME WriterInv, Types', NEW p \in Partitions, scanStep(p)
    PROVE  PartInv(p)'
<1>1. Types /\ PartInv(p)
    BY Zenon DEF WriterInv
<1>2. /\ SameMessages /\ cleared' = cleared /\ SameBroker(p) /\ late'[p] = late[p] /\ SameQueues(p)
      /\ SameSent(p) /\ call'[p] = call[p]
    BY Zenon DEF scanStep, clientVars, queueVars, sentVars, brokerVars, SameMessages, SameBroker,
           SameQueues, SameSent
<1>3. checkpoint'[p] = PartCheckpoint(p)
    BY <1>1, Zenon DEF scanStep, Types, SentTypes
<1>4. Total' = Total /\ \A m : Of(p, m)' <=> Of(p, m)
    BY <1>2, SameOf, Zenon
<1>5. \A m : Committed(p, m)' <=> Committed(p, m)
    BY <1>2, Zenon DEF Committed, SameBroker
<1>6. CheckpointOK(p)'
    BY <1>1, <1>2, <1>3, <1>4, <1>5, CheckpointSafe, Zenon DEF CheckpointOK
<1>7. LogMoves(p)
    BY <1>1, <1>2, LogStays, Zenon DEF PartInv
<1>8. QueueOK(p)' /\ MergeOK(p)'
    BY <1>1, <1>2, <1>4, Zenon DEF PartInv, QueueOK, MergeOK, SameQueues
<1>9. LostNothing(p)'
  <2>1. \A m : InQueue(p, m) => InQueue(p, m)'
      BY <1>2, Zenon DEF InQueue, SameQueues
  <2> QED
      BY <1>1, <1>2, <1>4, <1>5, <2>1, Zenon DEF PartInv, LostNothing
<1>10. LogOK(p)' /\ CursorOK(p)'
  <2>1. LogOK(p)'
      BY <1>1, <1>2, LogStays, Zenon DEF PartInv
  <2>2. CursorOK(p)'
      BY <1>1, <1>2, Zenon DEF PartInv, CursorOK, SameBroker, SameQueues, SameSent
  <2> QED
      BY <2>1, <2>2, Zenon
<1>11. SentOK(p)' /\ AddedOK(p)' /\ AnswerOK(p)'
    BY <1>1, <1>2, <1>7, CallStays, Zenon DEF SameBroker
<1>12. LateOK(p)'
    BY <1>1, <1>2, <1>7, LateStays, Zenon DEF PartInv
<1> QED
    BY <1>6, <1>8, <1>9, <1>10, <1>11, <1>12, Zenon DEF PartInv

-----------------------------------------------------------------------------
(***************************************************************************)
(* Every step keeps the invariant                                          *)
(***************************************************************************)
\* A step of one partition leaves the others alone.
LEMMA OnePartition ==
    ASSUME WriterInv, Types', NEW p \in Partitions, PartInv(p)', SameMessages,
           \A q \in Partitions \ {p} : Untouched(q)
    PROVE  WriterInv'
<1>1. ASSUME NEW q \in Partitions, q # p PROVE PartInv(q)'
    BY <1>1, UntouchedStays, Zenon DEF WriterInv
<1> QED
    BY <1>1, Zenon DEF WriterInv

\* A step that changes only where the send loop is, or counters.
LEMMA NothingMoves ==
    ASSUME WriterInv, UNCHANGED <<written, cleared, clears, queueVars, sentVars, checkpoint, call,
                                  brokerVars>>
    PROVE  WriterInv'
<1>1. Types'
    BY SameTypes, Zenon DEF WriterInv, Types
<1>2. SameMessages
    BY Zenon DEF SameMessages
<1>3. \A p \in Partitions : Untouched(p)
    BY Zenon DEF Untouched, SameQueues, SameSent, SameBroker, queueVars, sentVars, brokerVars
<1> QED
    BY <1>1, <1>2, <1>3, UntouchedStays, Zenon DEF WriterInv

\* The steps of the writing thread and the merge pool.
LEMMA ClientKeeps ==
    ASSUME WriterInv, NEW p \in Partitions, write(p) \/ clearBuffer(p) \/ mergeWork(p)
    PROVE  WriterInv'
<1>1. Types
    BY Zenon DEF WriterInv
<1>2. CASE write(p)
    BY <1>1, <1>2, WriteTypes, WriteStep, Zenon DEF WriterInv
<1>3. CASE clearBuffer(p)
  <2>1. Types' /\ PartInv(p)'
      BY <1>3, ClearTypes, ClearStep, Zenon
  <2>2. SameMessages
      BY <1>3, Zenon DEF clearBuffer, SameMessages
  <2>3. ASSUME NEW q \in Partitions, q # p PROVE Untouched(q)
    <3>1. SameQueues(q)
        BY <1>1, <1>3, <2>3, Zenon DEF clearBuffer, SameQueues, Types, QueueTypes
    <3>2. SameSent(q)
        BY <1>1, <1>3, <2>3, Zenon DEF clearBuffer, SameSent, Types, SentTypes
    <3>3. SameBroker(q) /\ checkpoint'[q] = checkpoint[q] /\ call'[q] = call[q] /\ late'[q] = late[q]
        BY <1>3, Zenon DEF clearBuffer, SameBroker, brokerVars
    <3> QED
        BY <3>1, <3>2, <3>3, Zenon DEF Untouched
  <2> QED
      BY <2>1, <2>2, <2>3, OnePartition, Zenon
<1>4. CASE mergeWork(p)
  <2>1. convertMessage(p) /\ UNCHANGED <<clientVars, sentVars, checkpoint, call, brokerVars>>
      BY <1>4, Zenon DEF mergeWork
  <2>2. Types'
    <3>1. QueueTypes'
        BY <1>1, <2>1, ConvertTypes, Zenon DEF Types
    <3> QED
        BY <1>1, <2>1, <3>1, SameTypes, Zenon DEF Types, clientVars
  <2>3. PartInv(p)'
      BY <1>4, <2>2, MergeStep, Zenon
  <2>4. SameMessages
      BY <2>1, Zenon DEF SameMessages, clientVars
  <2>5. ASSUME NEW q \in Partitions, q # p PROVE Untouched(q)
    <3>1. SameQueues(q)
        BY <1>1, <2>1, <2>5, ConvertMoves, Zenon DEF SameQueues
    <3>2. SameSent(q) /\ SameBroker(q) /\ checkpoint'[q] = checkpoint[q] /\ call'[q] = call[q]
          /\ late'[q] = late[q]
        BY <2>1, Zenon DEF SameSent, SameBroker, sentVars, brokerVars
    <3> QED
        BY <3>1, <3>2, Zenon DEF Untouched
  <2> QED
      BY <2>2, <2>3, <2>4, <2>5, OnePartition, Zenon
<1> QED
    BY <1>2, <1>3, <1>4, Zenon

\* The steps that handle a response.
LEMMA HandleKeeps ==
    ASSUME CountsPrefix, WriterInv, NEW p \in Partitions, handleStep(p)
    PROVE  WriterInv'
<1>1. Types
    BY Zenon DEF WriterInv
<1>2. Types' /\ PartInv(p)'
    BY HandleTypes, HandleStep, Zenon
<1>3. SameMessages
    BY Zenon DEF handleStep, SameMessages, clientVars
<1>4. ASSUME NEW q \in Partitions, q # p PROVE Untouched(q)
  <2>1. SameBroker(q) /\ late'[q] = late[q]
      BY Zenon DEF handleStep, SameBroker, brokerVars
  <2>2. CASE UNCHANGED <<queueVars, sentVars, checkpoint, call>>
      BY <2>1, <2>2, Zenon DEF Untouched, SameQueues, SameSent, queueVars, sentVars
  <2>3. CASE handleSendMessageResponse(p)
    <3>1. call'[q] = call[q]
        BY <1>1, <1>4, <2>3, Zenon DEF handleSendMessageResponse, Types
    <3>2. session'[q] = session[q]
      <4>1. session' = session \/ session' = [session EXCEPT ![p] = call[p].session]
          BY <2>3, Zenon DEF handleSendMessageResponse, takeSession, sentVars
      <4> QED
          BY <1>1, <1>4, <4>1, Zenon DEF Types, SentTypes
    <3>3. CASE UNCHANGED <<queueVars, cursor, uncommitted, ignoreUpdate, checkpoint>>
        BY <2>1, <3>1, <3>2, <3>3, Zenon DEF Untouched, SameQueues, SameSent, queueVars
    <3>4. CASE resetUnsendCursor(p)
      <4>1. SameQueues(q) /\ ignoreUpdate'[q] = ignoreUpdate[q] /\ checkpoint'[q] = checkpoint[q]
          BY <3>4, Zenon DEF resetUnsendCursor, SameQueues, queueVars
      <4>2. cursor'[q] = cursor[q] /\ uncommitted'[q] = uncommitted[q]
          BY <1>1, <1>4, <3>4, Zenon DEF resetUnsendCursor, Types, SentTypes
      <4> QED
          BY <2>1, <3>1, <3>2, <4>1, <4>2, Zenon DEF Untouched, SameSent
    <3>5. CASE updateBuffer(p, call[p])
      <4>1. /\ UNCHANGED <<writeQueue, toMerge, minInMerge, ignoreUpdate>>
            /\ \E v : sendQueue' = [sendQueue EXCEPT ![p] = v]
            /\ \E v : uncommitted' = [uncommitted EXCEPT ![p] = v]
            /\ \E v : cursor' = [cursor EXCEPT ![p] = v]
            /\ \E v : checkpoint' = [checkpoint EXCEPT ![p] = v]
          BY <3>5, Zenon DEF updateBuffer
      <4>2. /\ sendQueue'[q] = sendQueue[q] /\ uncommitted'[q] = uncommitted[q]
            /\ cursor'[q] = cursor[q] /\ checkpoint'[q] = checkpoint[q]
          BY <1>1, <1>4, <4>1, Zenon DEF Types, QueueTypes, SentTypes
      <4> QED
          BY <2>1, <3>1, <3>2, <4>1, <4>2, Zenon DEF Untouched, SameQueues, SameSent
    <3> QED
        BY <2>3, <3>3, <3>4, <3>5, Zenon DEF handleSendMessageResponse, sentVars
  <2> QED
      BY <2>2, <2>3, Zenon DEF handleStep
<1> QED
    BY <1>2, <1>3, <1>4, OnePartition, Zenon

\* The other steps of the send loop.
LEMMA LoopKeeps ==
    ASSUME WriterInv, NEW p \in Partitions, postSendMessageRequest(p) \/ skipPost(p) \/ scanStep(p)
    PROVE  WriterInv'
<1>1. Types
    BY Zenon DEF WriterInv
<1>2. CASE postSendMessageRequest(p)
  <2>1. Types' /\ PartInv(p)'
      BY <1>2, PostTypes, PostStep, Zenon
  <2>2. SameMessages
      BY <1>2, Zenon DEF postSendMessageRequest, SameMessages, clientVars
  <2>3. ASSUME NEW q \in Partitions, q # p PROVE Untouched(q)
    <3>1. SameQueues(q)
      <4>1. convertMessage(p) \/ UNCHANGED queueVars
          BY <1>2, PostTypes, Zenon
      <4>2. CASE convertMessage(p)
          BY <1>1, <2>3, <4>2, ConvertMoves, Zenon DEF SameQueues
      <4>3. CASE UNCHANGED queueVars
          BY <4>3, Zenon DEF SameQueues, queueVars
      <4> QED
          BY <4>1, <4>2, <4>3, Zenon
    <3>2. call'[q] = call[q] /\ ignoreUpdate'[q] = ignoreUpdate[q]
      <4>1. fillRequest(p)
          BY <1>2, Zenon DEF postSendMessageRequest
      <4>2. (\E v : call' = [call EXCEPT ![p] = v]) /\ ignoreUpdate' = [ignoreUpdate EXCEPT ![p] = FALSE]
          BY <4>1, Zenon DEF fillRequest
      <4> QED
          BY <1>1, <2>3, <4>2, Zenon DEF Types, SentTypes
    <3>3. /\ cursor'[q] = cursor[q] /\ uncommitted'[q] = uncommitted[q] /\ session'[q] = session[q]
          /\ checkpoint'[q] = checkpoint[q] /\ SameBroker(q) /\ late'[q] = late[q]
        BY <1>2, Zenon DEF postSendMessageRequest, SameBroker, brokerVars
    <3> QED
        BY <3>1, <3>2, <3>3, Zenon DEF Untouched, SameSent
  <2> QED
      BY <2>1, <2>2, <2>3, OnePartition, Zenon
<1>3. CASE skipPost(p)
    BY <1>3, NothingMoves, Zenon DEF skipPost, clientVars
<1>4. CASE scanStep(p)
  <2>1. Types' /\ PartInv(p)'
      BY <1>4, ScanTypes, ScanStep, Zenon
  <2>2. SameMessages
      BY <1>4, Zenon DEF scanStep, SameMessages, clientVars
  <2>3. ASSUME NEW q \in Partitions, q # p PROVE Untouched(q)
    <3>1. checkpoint'[q] = checkpoint[q]
        BY <1>1, <1>4, <2>3, Zenon DEF scanStep, Types, SentTypes
    <3>2. SameQueues(q) /\ SameSent(q) /\ SameBroker(q) /\ call'[q] = call[q] /\ late'[q] = late[q]
        BY <1>4, Zenon DEF scanStep, SameQueues, SameSent, SameBroker, queueVars, sentVars, brokerVars
    <3> QED
        BY <3>1, <3>2, Zenon DEF Untouched
  <2> QED
      BY <2>1, <2>2, <2>3, OnePartition, Zenon
<1> QED
    BY <1>2, <1>3, <1>4, Zenon

\* The steps of brokers and network.
LEMMA BrokersKeep ==
    ASSUME WriterInv, NEW p \in Partitions,
           sendMessage(p) \/ doneRunForProductRequest(p) \/ Timeout(p)
             \/ ArriveLate(p) \/ Commit(p) \/ Reload(p)
    PROVE  WriterInv'
<1>1. Types
    BY Zenon DEF WriterInv
<1>2. Types' /\ PartInv(p)'
  <2>1. CASE sendMessage(p)
    <3>1. Types'
        BY <1>1, <2>1, SendMoves, Zenon
    <3> QED
        BY <2>1, <3>1, SendStep, Zenon
  <2>2. CASE ~sendMessage(p)
    <3>1. doneRunForProductRequest(p) \/ Timeout(p) \/ ArriveLate(p) \/ Commit(p) \/ Reload(p)
        BY <2>2, Zenon
    <3>2. Types'
        BY <1>1, <3>1, BrokerStepTypes, Zenon
    <3> QED
        BY <3>1, <3>2, NetworkStep, Zenon
  <2> QED
      BY <2>1, <2>2, Zenon
<1>3. UNCHANGED writerVars
    BY Zenon DEF sendMessage, doneRunForProductRequest, Timeout, ArriveLate, Commit, Reload
<1>4. SameMessages
    BY <1>3, Zenon DEF SameMessages, writerVars, clientVars
<1>5. /\ log' = log \/ \E v : log' = [log EXCEPT ![p] = v]
      /\ committed' = committed \/ \E v : committed' = [committed EXCEPT ![p] = v]
      /\ bsession' = bsession \/ \E v : bsession' = [bsession EXCEPT ![p] = v]
      /\ late' = late \/ \E v : late' = [late EXCEPT ![p] = v]
      /\ call' = call \/ \E v : call' = [call EXCEPT ![p] = v]
  <2>1. CASE sendMessage(p)
      BY <2>1, Zenon DEF sendMessage, Answer
  <2>2. CASE doneRunForProductRequest(p)
      BY <2>2, Zenon DEF doneRunForProductRequest, Answer, brokerVars
  <2>3. CASE Timeout(p)
      BY <2>3, Zenon DEF Timeout, Answer
  <2>4. CASE ArriveLate(p)
      BY <2>4, Zenon DEF ArriveLate
  <2>5. CASE Commit(p)
      BY <2>5, Zenon DEF Commit
  <2>6. CASE Reload(p)
      BY <2>6, Zenon DEF Reload, Answer
  <2> QED
      BY <2>1, <2>2, <2>3, <2>4, <2>5, <2>6, Zenon
<1>6. ASSUME NEW q \in Partitions, q # p PROVE Untouched(q)
  <2>1. SameQueues(q) /\ SameSent(q) /\ checkpoint'[q] = checkpoint[q]
      BY <1>3, Zenon DEF writerVars, queueVars, sentVars, SameQueues, SameSent
  <2>2. SameBroker(q) /\ late'[q] = late[q] /\ call'[q] = call[q]
      BY <1>1, <1>5, <1>6, Zenon DEF Types, BrokerTypes, SameBroker
  <2> QED
      BY <2>1, <2>2, Zenon DEF Untouched
<1> QED
    BY <1>2, <1>4, <1>6, OnePartition, Zenon

\* The invariant holds at the start.
LEMMA InitInv == Init => WriterInv
<1> SUFFICES ASSUME Init PROVE WriterInv
    BY Zenon
<1>1. Types
    BY InitTypes, Zenon
<1>2. ASSUME NEW p \in Partitions PROVE PartInv(p)
  <2>1. /\ writeQueue[p] = <<>> /\ toMerge[p] = <<>> /\ sendQueue[p] = <<>> /\ uncommitted[p] = <<>>
        /\ log[p] = <<>> /\ minInMerge[p] = None /\ cursor[p] = 0 /\ committed[p] = 0
        /\ checkpoint[p] = Invalid /\ call[p] = Idle /\ late[p] = {}
      BY Zenon DEF Init
  <2>2. Total = 0
      BY Zenon DEF Init, Total
  <2>3. (\A i \in 1 .. Len(<<>>) : FALSE) /\ (\A i \in 1 .. 0 : FALSE) /\ Len(<<>>) = 0
      OBVIOUS
  <2>4. Sorted(<<>>) /\ Before(<<>>, <<>>)
      BY <2>3, Zenon DEF Sorted, Before
  <2>5. QueueOK(p) /\ MergeOK(p)
      BY <2>1, <2>3, <2>4, Zenon DEF QueueOK, MergeOK
  <2>6. LostNothing(p) /\ CheckpointOK(p)
      BY <2>1, <2>2, <2>3 DEF LostNothing, CheckpointOK, Invalid
  <2>7. LogOK(p) /\ CursorOK(p)
      BY <2>1, <2>3 DEF LogOK, CursorOK
  <2>8. SentOK(p) /\ AddedOK(p) /\ AnswerOK(p) /\ LateOK(p)
    <3>1. Idle \notin Requests /\ Idle \notin Addeds /\ Idle \notin Answers
        BY Zenon DEF Idle, Requests, Addeds, Answers
    <3> QED
        BY <2>1, <3>1, Zenon DEF SentOK, AddedOK, AnswerOK, LateOK
  <2> QED
      BY <2>5, <2>6, <2>7, <2>8, Zenon DEF PartInv
<1> QED
    BY <1>1, <1>2, Zenon DEF WriterInv

\* No step breaks the invariant.
LEMMA StepKeeps ==
    ASSUME CountsPrefix, WriterInv, [Next]_vars
    PROVE  WriterInv'
<1>1. CASE UNCHANGED vars
    BY <1>1, NothingMoves, Zenon DEF vars, clientVars
<1>2. CASE Client
    BY <1>2, ClientKeeps, Zenon DEF Client
<1>3. CASE sendRequest
    BY <1>3, NothingMoves, Zenon DEF sendRequest, clientVars
<1>4. CASE \E p \in Partitions :
              handleStep(p) \/ postSendMessageRequest(p) \/ skipPost(p) \/ scanStep(p)
    BY <1>4, HandleKeeps, LoopKeeps, Zenon
<1>5. CASE Broker
    BY <1>5, BrokersKeep, Zenon DEF Broker
<1> QED
    BY <1>1, <1>2, <1>3, <1>4, <1>5, Zenon DEF Next, SendLoop
=============================================================================
