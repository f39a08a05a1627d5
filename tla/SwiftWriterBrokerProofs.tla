---------------------- MODULE SwiftWriterBrokerProofs -----------------------
(***************************************************************************)
(* The inductive invariant of the writer and its brokers, and that the     *)
(* broker, the network and the answers they give keep it.                  *)
(*                                                                         *)
(* WriterInv is stated partition by partition: what an outstanding call, a *)
(* late request and a response not yet handled know of the log and of the  *)
(* send queue.                                                             *)
(***************************************************************************)
EXTENDS SwiftWriter, TLAPS

Total == Len(written)

Requests == [at : {"sent"}, session : Int, msgs : Seq(Nat)]
Addeds == [at : {"added"}, ec : {"NONE", "BUSY", "ERROR"}, begin : Nat, count : Nat]
Answers == [at : {"done"}, ec : {"NONE", "BUSY", "ERROR"}, begin : Nat, count : Nat,
            committedId : Int, session : Nat]
Refusals == [at : {"done"}, ec : {"BUSY"}, begin : {None}, count : {0}, session : Nat]
SessionChanges == [at : {"done"}, ec : {"SESSION_CHANGED"}, session : Nat]
NotFound == [at |-> "done", ec |-> "NOT_FOUND"]
Calls == {Idle, Lost, NotFound} \cup Requests \cup Addeds \cup Answers
            \cup Refusals \cup SessionChanges

ClientTypes ==
    /\ Total \in Nat /\ written \in Seq(Partitions) /\ written \in [1 .. Total -> Partitions]
    /\ cleared \subseteq 1 .. Total /\ clears \in Nat

QueueTypes ==
    /\ writeQueue \in [Partitions -> Seq(Nat)]
    /\ toMerge \in [Partitions -> Seq(Nat)]
    /\ sendQueue \in [Partitions -> Seq(Nat)]
    /\ minInMerge \in [Partitions -> Int]
    /\ canAdd \in [Partitions -> BOOLEAN]

SentTypes ==
    /\ cursor \in [Partitions -> Nat]
    /\ uncommitted \in [Partitions -> Seq(Nat)]
    /\ ignoreUpdate \in [Partitions -> BOOLEAN]
    /\ session \in [Partitions -> Int]
    /\ checkpoint \in [Partitions -> Int]

BrokerTypes ==
    /\ bsession \in [Partitions -> Nat]
    /\ log \in [Partitions -> Seq(Nat)]
    /\ committed \in [Partitions -> Nat]
    /\ late \in [Partitions -> SUBSET Requests]

Types ==
    /\ ClientTypes /\ QueueTypes /\ SentTypes /\ BrokerTypes
    /\ call \in [Partitions -> Calls]

\* m is a message of partition p.
Of(p, m) == m \in 1 .. Total /\ written[m] = p

Sorted(q) == \A i, j \in 1 .. Len(q) : i < j => q[i] < q[j]
Before(q, r) == \A i \in 1 .. Len(q), j \in 1 .. Len(r) : q[i] < r[j]

\* The three queues, one behind the other, hold messages of the partition in
\* the order of writing.
QueueOK(p) ==
    /\ Sorted(sendQueue[p]) /\ Sorted(toMerge[p]) /\ Sorted(writeQueue[p])
    /\ Before(sendQueue[p], toMerge[p]) /\ Before(sendQueue[p], writeQueue[p])
    /\ Before(toMerge[p], writeQueue[p])
    /\ \A i \in 1 .. Len(sendQueue[p]) : Of(p, sendQueue[p][i])
    /\ \A i \in 1 .. Len(toMerge[p]) : Of(p, toMerge[p][i])
    /\ \A i \in 1 .. Len(writeQueue[p]) : Of(p, writeQueue[p][i])

\* _minCheckpointIdInMerge is not behind the messages in merge.
MergeOK(p) ==
    /\ toMerge[p] = <<>> => minInMerge[p] = None
    /\ toMerge[p] # <<>> => Of(p, minInMerge[p])
    /\ \A i \in 1 .. Len(toMerge[p]) : minInMerge[p] <= toMerge[p][i]

InQueue(p, m) ==
    \/ \E i \in 1 .. Len(sendQueue[p]) : sendQueue[p][i] = m
    \/ \E i \in 1 .. Len(toMerge[p]) : toMerge[p][i] = m
    \/ \E i \in 1 .. Len(writeQueue[p]) : writeQueue[p][i] = m

InLog(p, m) == \E i \in 1 .. Len(log[p]) : log[p][i] = m
Committed(p, m) == \E i \in 1 .. committed[p] : log[p][i] = m

LostNothing(p) ==
    \A m \in 1 .. Total : Of(p, m) => InQueue(p, m) \/ m \in cleared \/ Committed(p, m)

CheckpointOK(p) ==
    /\ checkpoint[p] <= Total
    /\ \A m \in 1 .. Total : Of(p, m) /\ m <= checkpoint[p] => m \in cleared \/ Committed(p, m)

LogOK(p) ==
    /\ committed[p] <= Len(log[p])
    /\ \A j \in 1 .. Len(log[p]) :
          /\ Of(p, log[p][j])
          /\ \A m \in 1 .. Total :
                Of(p, m) /\ m < log[p][j] /\ m \notin cleared => \E i \in 1 .. j - 1 : log[p][i] = m

\* The ids of _uncommittedMsgs belong to the session of the writer; in a
\* later session they mean nothing.
CursorOK(p) ==
    /\ cursor[p] = Len(uncommitted[p]) /\ cursor[p] <= Len(sendQueue[p])
    /\ cursor[p] > 0 => session[p] # None /\ session[p] <= bsession[p]
    /\ session[p] = bsession[p] =>
          \A i \in 1 .. cursor[p] :
             /\ uncommitted[p][i] < Len(log[p])
             /\ log[p][uncommitted[p][i] + 1] = sendQueue[p][i]

\* A request that a broker may still accept brings messages whose
\* predecessors are in the request, committed, or in the log of the session.
RequestOK(p, r) ==
    \A i \in 1 .. Len(r.msgs) :
        /\ Of(p, r.msgs[i])
        /\ r.session = None \/ r.session >= bsession[p] =>
              \A m \in 1 .. Total :
                 Of(p, m) /\ m < r.msgs[i] /\ m \notin cleared =>
                    \/ \E j \in 1 .. i - 1 : r.msgs[j] = m
                    \/ Committed(p, m)
                    \/ r.session = bsession[p] /\ InLog(p, m)

SentOK(p) ==
    LET r == call[p] IN
    r \in Requests =>
        /\ RequestOK(p, r)
        /\ r.session = session[p]
        /\ ~ignoreUpdate[p] =>
              /\ cursor[p] + Len(r.msgs) <= Len(sendQueue[p])
              /\ \A i \in 1 .. Len(r.msgs) : r.msgs[i] = sendQueue[p][cursor[p] + i]

\* ids begin..begin+count-1 of log l are the messages of q behind cursor c.
Accepted(l, q, c, begin, count) ==
    /\ begin + count <= Len(l)
    /\ \A i \in 1 .. count : l[begin + i] = q[c + i]

AddedOK(p) ==
    LET r == call[p] IN
    r \in Addeds =>
        /\ session[p] = None \/ session[p] = bsession[p]
        /\ ~ignoreUpdate[p] =>
              /\ cursor[p] + r.count <= Len(sendQueue[p])
              /\ Accepted(log[p], sendQueue[p], cursor[p], r.begin, r.count)

\* What an answer says is committed stays so, also when the session has
\* changed since.
AnswerOK(p) ==
    LET r == call[p] IN
    r \in Answers =>
        /\ session[p] = None \/ session[p] = r.session
        /\ r.session <= bsession[p]
        /\ r.committedId < committed[p]
        /\ ~ignoreUpdate[p] =>
              /\ cursor[p] + r.count <= Len(sendQueue[p])
              /\ r.session = bsession[p] => Accepted(log[p], sendQueue[p], cursor[p], r.begin, r.count)
              /\ \A i \in 1 .. cursor[p] :
                    uncommitted[p][i] <= r.committedId =>
                       log[p][uncommitted[p][i] + 1] = sendQueue[p][i]
              /\ \A i \in 1 .. r.count :
                    r.begin + i - 1 <= r.committedId =>
                       log[p][r.begin + i] = sendQueue[p][cursor[p] + i]

LateOK(p) == \A r \in late[p] : RequestOK(p, r)

PartInv(p) ==
    /\ QueueOK(p) /\ MergeOK(p) /\ LostNothing(p) /\ CheckpointOK(p) /\ LogOK(p)
    /\ CursorOK(p) /\ SentOK(p) /\ AddedOK(p) /\ AnswerOK(p) /\ LateOK(p)

WriterInv == Types /\ \A p \in Partitions : PartInv(p)

\* updateCommitBuffer counts a prefix of ids that are all committed: what is
\* needed of CommittedCount, proved in SwiftWriterProofs (CommittedPrefix).
CountsPrefix ==
    \A ids \in Seq(Nat), c \in Int :
        /\ CommittedCount(ids, c) \in 0 .. Len(ids)
        /\ \A i \in 1 .. CommittedCount(ids, c) : ids[i] <= c

\* The ids of the messages that the broker has accepted, with those of answer r.
AcceptedIds(p, r) == uncommitted[p] \o [i \in 1 .. r.count |-> r.begin + i - 1]

\* updateBuffer has taken n messages, all committed, off the send queue.
Popped(p, r, n) ==
    /\ AcceptedIds(p, r) \in Seq(Nat) /\ Len(AcceptedIds(p, r)) = cursor[p] + r.count
    /\ \A i \in 1 .. cursor[p] : AcceptedIds(p, r)[i] = uncommitted[p][i]
    /\ \A i \in 1 .. r.count : AcceptedIds(p, r)[cursor[p] + i] = r.begin + i - 1
    /\ \A i \in 1 .. n : AcceptedIds(p, r)[i] <= r.committedId
    /\ sendQueue' = [sendQueue EXCEPT ![p] = Drop(sendQueue[p], n)]
    /\ uncommitted' = [uncommitted EXCEPT ![p] = Drop(AcceptedIds(p, r), n)]
    /\ cursor' = [cursor EXCEPT ![p] = cursor[p] + r.count - n]
    /\ checkpoint' = [checkpoint EXCEPT ![p] = IF n > 0 THEN sendQueue[p][n] ELSE checkpoint[p]]

-----------------------------------------------------------------------------
(***************************************************************************)
(* Lemmas about the operators                                              *)
(***************************************************************************)
\* Of two numbers MinOf takes the smaller.
LEMMA MinOfTwo ==
    ASSUME NEW a \in Int, NEW b \in Int
    PROVE  MinOf({a, b}) = IF a <= b THEN a ELSE b
<1> DEFINE m == IF a <= b THEN a ELSE b
<1>1. m \in {a, b} /\ \A y \in {a, b} : m <= y
    OBVIOUS
<1>2. \A x \in {a, b} : (\A y \in {a, b} : x <= y) => x = m
    OBVIOUS
<1> QED
    BY <1>1, <1>2, Zenon DEF MinOf

\* Take is the prefix of that length.
LEMMA TakeOf ==
    ASSUME NEW q \in Seq(Nat), NEW n \in 0 .. Len(q)
    PROVE  /\ Take(q, n) \in Seq(Nat) /\ Len(Take(q, n)) = n
           /\ \A i \in 1 .. n : Take(q, n)[i] = q[i]
    BY DEF Take

\* Drop is what follows the prefix.
LEMMA DropOf ==
    ASSUME NEW q \in Seq(Nat), NEW n \in 0 .. Len(q)
    PROVE  /\ Drop(q, n) \in Seq(Nat) /\ Len(Drop(q, n)) = Len(q) - n
           /\ \A i \in 1 .. Len(q) - n : Drop(q, n)[i] = q[n + i]
    BY DEF Drop

\* The elements of two sequences joined.
LEMMA JoinOf ==
    ASSUME NEW q \in Seq(Nat), NEW r \in Seq(Nat)
    PROVE  /\ q \o r \in Seq(Nat) /\ Len(q \o r) = Len(q) + Len(r)
           /\ \A i \in 1 .. Len(q) : (q \o r)[i] = q[i]
           /\ \A i \in 1 .. Len(r) : (q \o r)[Len(q) + i] = r[i]
    OBVIOUS

\* A sequence joined with a prefix of another, as a broker appends one.
LEMMA JoinTake ==
    ASSUME NEW q \in Seq(Nat), NEW r \in Seq(Nat), NEW n \in 0 .. Len(r)
    PROVE  /\ q \o Take(r, n) \in Seq(Nat) /\ Len(q \o Take(r, n)) = Len(q) + n
           /\ \A i \in 1 .. Len(q) : (q \o Take(r, n))[i] = q[i]
           /\ \A i \in 1 .. n : (q \o Take(r, n))[Len(q) + i] = r[i]
<1> DEFINE t == Take(r, n)
<1>1. t \in Seq(Nat) /\ Len(t) = n /\ \A i \in 1 .. n : t[i] = r[i]
    BY TakeOf, Zenon
<1> HIDE DEF t
<1>2. /\ q \o t \in Seq(Nat) /\ Len(q \o t) = Len(q) + Len(t)
      /\ \A i \in 1 .. Len(q) : (q \o t)[i] = q[i]
      /\ \A i \in 1 .. Len(t) : (q \o t)[Len(q) + i] = t[i]
    BY <1>1, JoinOf, Zenon
<1>3. /\ q \o t \in Seq(Nat) /\ Len(q \o t) = Len(q) + n
      /\ \A i \in 1 .. Len(q) : (q \o t)[i] = q[i]
      /\ \A i \in 1 .. n : (q \o t)[Len(q) + i] = r[i]
    BY <1>1, <1>2, Zenon
<1> QED
    BY <1>3, Zenon DEF t

\* An id up to the committed one is an index into the committed part of
\* the log.
LEMMA CommittedIndex ==
    ASSUME NEW id \in Nat, NEW c \in Int, NEW n \in Nat, id <= c, c < n
    PROVE  id + 1 \in 1 .. n
    OBVIOUS

\* A function from 1..n is a sequence of length n.
LEMMA FunctionIsSeq ==
    ASSUME NEW n \in Nat, NEW q \in [1 .. n -> Nat]
    PROVE  q \in Seq(Nat) /\ Len(q) = n
    OBVIOUS

\* What a call is, by where it is and what it was answered.
LEMMA CallKinds ==
    ASSUME NEW c \in Calls
    PROVE  /\ c.at \in {"idle", "sent", "added", "done"}
           /\ c.at = "idle" <=> c = Idle
           /\ c.at = "sent" <=> c \in Requests
           /\ c.at = "added" <=> c \in Addeds
           /\ c \in Answers => c.at = "done"
           /\ c.at = "done" /\ c.ec = "SESSION_CHANGED" => c \in SessionChanges
           /\ c.at = "done" /\ c.ec = "NONE" => c \in Answers
           /\ c.at = "done" /\ c.ec = "BUSY" => c \in Answers \cup Refusals
    BY DEF Calls, Idle, Lost, NotFound, Requests, Addeds, Answers, Refusals, SessionChanges

-----------------------------------------------------------------------------
(***************************************************************************)
(* Types                                                                   *)
(***************************************************************************)
LEMMA InitTypes == Init => Types
<1> SUFFICES ASSUME Init PROVE Types
    BY Zenon
<1>1. Total = 0
    BY Zenon DEF Init, Total
<1>2. written \in Seq(Partitions) /\ written \in [1 .. Total -> Partitions]
    BY <1>1 DEF Init
<1>3. <<>> \in Seq(Nat) /\ Idle \in Calls /\ None \in Int /\ Invalid \in Int
    BY DEF Calls, None, Invalid
<1> QED
    BY <1>1, <1>2, <1>3, WriterConstants, Zenon DEF Init, Types, ClientTypes, QueueTypes, SentTypes, BrokerTypes

\* A conversion moves a prefix of one queue to the end of the send queue.
LEMMA ConvertTypes ==
    ASSUME QueueTypes, NEW p \in Partitions, convertMessage(p)
    PROVE  QueueTypes'
<1> DEFINE goesOn == toMerge[p] # <<>>
           src == IF goesOn THEN toMerge[p] ELSE writeQueue[p]
<1>1. src \in Seq(Nat) /\ sendQueue[p] \in Seq(Nat) /\ writeQueue[p] \in Seq(Nat)
    BY Zenon DEF QueueTypes
<1>2. CASE src = <<>>
    BY <1>2, Zenon DEF convertMessage, queueVars, QueueTypes
<1>3. CASE src # <<>>
  <2>1. PICK n \in 0 .. Len(src) :
            /\ sendQueue' = [sendQueue EXCEPT ![p] = @ \o Take(src, n)]
            /\ toMerge' = [toMerge EXCEPT ![p] = Drop(src, n)]
            /\ writeQueue' = [writeQueue EXCEPT ![p] = IF goesOn THEN @ ELSE <<>>]
            /\ minInMerge' = [minInMerge EXCEPT ![p] =
                 IF n = Len(src) THEN None ELSE IF goesOn THEN @ ELSE Head(src)]
            /\ canAdd' = [canAdd EXCEPT ![p] = n = Len(src)]
      BY <1>3, Zenon DEF convertMessage
  <2>2. Take(src, n) \in Seq(Nat) /\ Drop(src, n) \in Seq(Nat)
      BY <1>1, TakeOf, DropOf, Zenon
  <2>3. sendQueue[p] \o Take(src, n) \in Seq(Nat)
      BY <1>1, <2>2, JoinOf, Zenon
  <2>4. Head(src) \in Nat /\ None \in Int /\ <<>> \in Seq(Nat)
      BY <1>1, <1>3 DEF None
  <2>5. canAdd' \in [Partitions -> BOOLEAN]
      BY <2>1, Zenon DEF QueueTypes
  <2>6. /\ writeQueue \in [Partitions -> Seq(Nat)] /\ toMerge \in [Partitions -> Seq(Nat)]
        /\ sendQueue \in [Partitions -> Seq(Nat)] /\ minInMerge \in [Partitions -> Int]
      BY Zenon DEF QueueTypes
  <2> HIDE DEF src, goesOn
  <2>7. writeQueue' \in [Partitions -> Seq(Nat)]
      BY <2>1, <2>4, <2>6, Zenon
  <2>8. toMerge' \in [Partitions -> Seq(Nat)]
      BY <2>1, <2>2, <2>6, Zenon
  <2>9. sendQueue' \in [Partitions -> Seq(Nat)]
      BY <2>1, <2>3, <2>6, Zenon
  <2>10. minInMerge' \in [Partitions -> Int]
      BY <2>1, <2>4, <2>6
  <2> QED
      BY <2>5, <2>7, <2>8, <2>9, <2>10, Zenon DEF QueueTypes
<1> QED
    BY <1>2, <1>3, Zenon

\* updateBuffer keeps the types of the buffer.
LEMMA UpdateTypes ==
    ASSUME CountsPrefix, Types, NEW p \in Partitions, NEW r \in Answers, CursorOK(p),
           cursor[p] + r.count <= Len(sendQueue[p]), updateBuffer(p, r)
    PROVE  \E n \in 0 .. cursor[p] + r.count : Popped(p, r, n)
<1> DEFINE new == [i \in 1 .. r.count |-> r.begin + i - 1]
           ids == uncommitted[p] \o new
           n == CommittedCount(ids, r.committedId)
<1>1. /\ r.count \in Nat /\ r.begin \in Nat /\ r.committedId \in Int
      /\ uncommitted[p] \in Seq(Nat) /\ cursor[p] = Len(uncommitted[p]) /\ cursor[p] \in Nat
      /\ sendQueue[p] \in Seq(Nat)
    BY Zenon DEF Answers, Types, SentTypes, QueueTypes, CursorOK
<1>2. new \in [1 .. r.count -> Nat] /\ \A i \in 1 .. r.count : new[i] = r.begin + i - 1
  <2>1. ASSUME NEW c \in Nat, NEW b \in Nat, NEW i \in 1 .. c PROVE b + i - 1 \in Nat
      BY <2>1
  <2> QED
      BY <1>1, <2>1, Zenon
<1> HIDE DEF new
<1>a. new \in Seq(Nat) /\ Len(new) = r.count
    BY <1>1, <1>2, FunctionIsSeq, Zenon
<1>3. /\ ids \in Seq(Nat) /\ Len(ids) = cursor[p] + r.count
      /\ \A i \in 1 .. cursor[p] : ids[i] = uncommitted[p][i]
      /\ \A i \in 1 .. r.count : ids[cursor[p] + i] = r.begin + i - 1
  <2>1. /\ ids \in Seq(Nat) /\ Len(ids) = Len(uncommitted[p]) + Len(new)
        /\ \A i \in 1 .. Len(uncommitted[p]) : ids[i] = uncommitted[p][i]
        /\ \A i \in 1 .. Len(new) : ids[Len(uncommitted[p]) + i] = new[i]
      BY <1>1, <1>a, JoinOf, Zenon
  <2> HIDE DEF ids
  <2> QED
      BY <1>1, <1>2, <1>a, <2>1, Zenon
<1> HIDE DEF ids
<1>4. n \in 0 .. cursor[p] + r.count /\ \A i \in 1 .. n : ids[i] <= r.committedId
    BY <1>1, <1>3, Zenon DEF CountsPrefix
<1>5. n \in Int /\ Len(sendQueue[p]) \in Int /\ n <= Len(sendQueue[p])
    BY <1>1, <1>4
<1> HIDE DEF n
<1>6. MinOf({n, Len(sendQueue[p])}) = n
    BY <1>5, MinOfTwo, Zenon
<1>7. /\ sendQueue' = [sendQueue EXCEPT ![p] = Drop(sendQueue[p], n)]
      /\ uncommitted' = [uncommitted EXCEPT ![p] = Drop(ids, n)]
      /\ cursor' = [cursor EXCEPT ![p] = cursor[p] + r.count - n]
      /\ checkpoint' = [checkpoint EXCEPT ![p] = IF n > 0 THEN sendQueue[p][n] ELSE checkpoint[p]]
    BY <1>6, Zenon DEF updateBuffer, n, ids, new
<1>8. ids = AcceptedIds(p, r)
    BY Zenon DEF ids, new, AcceptedIds
<1>9. Popped(p, r, n)
    BY <1>3, <1>4, <1>7, <1>8, Zenon DEF Popped
<1> QED
    BY <1>4, <1>9, Zenon

\* Types of variables that do not change.
LEMMA SameTypes ==
    /\ ClientTypes /\ UNCHANGED <<written, cleared, clears>> => ClientTypes'
    /\ QueueTypes /\ UNCHANGED queueVars => QueueTypes'
    /\ SentTypes /\ UNCHANGED <<sentVars, checkpoint>> => SentTypes'
    /\ BrokerTypes /\ UNCHANGED brokerVars => BrokerTypes'
    BY Zenon DEF ClientTypes, Total, QueueTypes, queueVars, SentTypes, sentVars, BrokerTypes, brokerVars

\* write makes the function of partitions one longer.
LEMMA WriteTypes ==
    ASSUME Types, NEW p \in Partitions, write(p)
    PROVE  /\ Types' /\ Total' = Total + 1 /\ written'[Total + 1] = p
           /\ \A m \in 1 .. Total : written'[m] = written[m]
           /\ writeQueue' = [writeQueue EXCEPT ![p] = Append(@, Total + 1)]
<1>1. Total \in Nat /\ written \in Seq(Partitions) /\ cleared \subseteq 1 .. Total /\ clears \in Nat
    BY Zenon DEF Types, ClientTypes
<1>2. written' = Append(written, p)
    BY Zenon DEF write
<1>3. written' \in Seq(Partitions) /\ Len(written') = Len(written) + 1
    BY <1>1, <1>2
<1>4. Total' = Total + 1 /\ written' \in [1 .. Total' -> Partitions]
    BY <1>3 DEF Total
<1>5. written'[Total + 1] = p /\ \A m \in 1 .. Total : written'[m] = written[m]
    BY <1>1, <1>2 DEF Total
<1> HIDE DEF Total
<1>6. ClientTypes'
    BY <1>1, <1>3, <1>4 DEF ClientTypes, write
<1>7. writeQueue' = [writeQueue EXCEPT ![p] = Append(@, Total + 1)]
    BY Zenon DEF write, addWriteMessage, Total
<1>8. QueueTypes'
  <2>1. writeQueue[p] \in Seq(Nat) /\ writeQueue \in [Partitions -> Seq(Nat)]
      BY Zenon DEF Types, QueueTypes
  <2>2. Append(writeQueue[p], Total + 1) \in Seq(Nat)
      BY <1>1, <2>1
  <2>3. writeQueue' \in [Partitions -> Seq(Nat)]
      BY <1>7, <2>1, <2>2, Zenon
  <2> QED
      BY <2>3, Zenon DEF Types, QueueTypes, write, addWriteMessage
<1>9. SentTypes' /\ BrokerTypes' /\ call' \in [Partitions -> Calls]
    BY SameTypes, Zenon DEF Types, write
<1> QED
    BY <1>4, <1>5, <1>6, <1>7, <1>8, <1>9, Zenon DEF Types

\* clearBuffer keeps the types.
LEMMA ClearTypes ==
    ASSUME WriterInv, NEW p \in Partitions, clearBuffer(p)
    PROVE  Types'
<1>1. Types /\ QueueOK(p)
    BY Zenon DEF WriterInv, PartInv
<1>2. Queued(p) \subseteq 1 .. Total
  <2>1. /\ DOMAIN sendQueue[p] = 1 .. Len(sendQueue[p])
        /\ DOMAIN toMerge[p] = 1 .. Len(toMerge[p])
        /\ DOMAIN writeQueue[p] = 1 .. Len(writeQueue[p])
      BY <1>1 DEF Types, QueueTypes
  <2>2. /\ \A i \in DOMAIN sendQueue[p] : sendQueue[p][i] \in 1 .. Total
        /\ \A i \in DOMAIN toMerge[p] : toMerge[p][i] \in 1 .. Total
        /\ \A i \in DOMAIN writeQueue[p] : writeQueue[p][i] \in 1 .. Total
      BY <1>1, <2>1, Zenon DEF QueueOK, Of
  <2> QED
      BY <2>2, Zenon DEF Queued, Elements
<1>3. ClientTypes'
  <2>1. written' = written /\ cleared' = cleared \cup Queued(p) /\ clears' = clears + 1
      BY Zenon DEF clearBuffer
  <2>2. Total' = Total
      BY <2>1, Zenon DEF Total
  <2>3. /\ Total \in Nat /\ written \in Seq(Partitions) /\ written \in [1 .. Total -> Partitions]
        /\ cleared \subseteq 1 .. Total /\ clears \in Nat
      BY <1>1, Zenon DEF Types, ClientTypes
  <2>4. cleared' \subseteq 1 .. Total'
      BY <1>2, <2>1, <2>2, <2>3, Zenon
  <2>5. clears' \in Nat
      BY <2>1, <2>3
  <2> QED
      BY <2>1, <2>2, <2>3, <2>4, <2>5, Zenon DEF ClientTypes
<1>4. <<>> \in Seq(Nat) /\ None \in Int
    BY DEF None
<1>5. QueueTypes'
    BY <1>1, <1>4, Zenon DEF clearBuffer, Types, QueueTypes
<1>6. SentTypes'
    BY <1>1, <1>4, Zenon DEF clearBuffer, Types, SentTypes
<1>7. BrokerTypes' /\ call' = call
    BY <1>1, SameTypes, Zenon DEF clearBuffer, Types
<1> QED
    BY <1>1, <1>3, <1>5, <1>6, <1>7, Zenon DEF Types

\* Handling a response keeps the types.
LEMMA HandleTypes ==
    ASSUME CountsPrefix, WriterInv, NEW p \in Partitions, handleStep(p)
    PROVE  Types'
<1>1. Types /\ CursorOK(p) /\ AnswerOK(p) /\ call[p] \in Calls
    BY Zenon DEF WriterInv, PartInv, Types
<1>2. ClientTypes' /\ BrokerTypes'
    BY <1>1, SameTypes, Zenon DEF handleStep, Types, clientVars
<1>3. CASE UNCHANGED <<queueVars, sentVars, checkpoint, call>>
    BY <1>1, <1>2, <1>3, SameTypes, Zenon DEF Types
<1>4. CASE handleSendMessageResponse(p)
  <2>1. call' \in [Partitions -> Calls]
    <3>1. Idle \in Calls
        BY Zenon DEF Calls
    <3> QED
        BY <1>1, <1>4, <3>1, Zenon DEF handleSendMessageResponse, Types
  <2>2. CASE UNCHANGED <<queueVars, sentVars, checkpoint>>
      BY <1>1, <1>2, <2>1, <2>2, SameTypes, Zenon DEF Types
  <2>3. CASE resetUnsendCursor(p) /\ ((takeSession(p, call[p]) /\ call[p] \in SessionChanges) \/ UNCHANGED session)
    <3>1. QueueTypes'
        BY <1>1, <2>3, SameTypes, Zenon DEF resetUnsendCursor, Types
    <3>2. call[p] \in SessionChanges => call[p].session \in Int
        BY DEF SessionChanges
    <3>3. <<>> \in Seq(Nat)
        OBVIOUS
    <3>4. SentTypes'
        BY <1>1, <2>3, <3>2, <3>3, Zenon DEF resetUnsendCursor, takeSession, Types, SentTypes
    <3> QED
        BY <1>2, <2>1, <3>1, <3>4, Zenon DEF Types
  <2>4. CASE /\ call[p].at = "done" /\ call[p].ec \in {"NONE", "BUSY"}
             /\ IF session[p] = None THEN takeSession(p, call[p]) ELSE UNCHANGED session
             /\ IF call[p].begin = None \/ ignoreUpdate[p]
                THEN UNCHANGED <<queueVars, cursor, uncommitted, ignoreUpdate, checkpoint>>
                ELSE updateBuffer(p, call[p])
    <3>1. call[p] \in Answers \cup Refusals
        BY <1>1, <2>4, CallKinds, Zenon
    <3>2. session' \in [Partitions -> Int]
      <4>1. call[p].session \in Int
          BY <3>1 DEF Answers, Refusals
      <4> QED
          BY <1>1, <2>4, <4>1, Zenon DEF takeSession, Types, SentTypes
    <3>3. CASE UNCHANGED <<queueVars, cursor, uncommitted, ignoreUpdate, checkpoint>>
      <4>1. QueueTypes' /\ SentTypes'
          BY <1>1, <3>2, <3>3, SameTypes, Zenon DEF Types, SentTypes
      <4> QED
          BY <1>2, <2>1, <4>1, Zenon DEF Types
    <3>4. CASE ~(call[p].begin = None \/ ignoreUpdate[p])
      <4>1. call[p] \in Answers
          BY <3>1, <3>4, Zenon DEF Refusals
      <4>2. updateBuffer(p, call[p]) /\ cursor[p] + call[p].count <= Len(sendQueue[p])
          BY <1>1, <2>4, <3>4, <4>1, Zenon DEF AnswerOK
      <4>3. /\ call[p].count \in Nat /\ cursor[p] \in Nat
            /\ sendQueue \in [Partitions -> Seq(Nat)] /\ sendQueue[p] \in Seq(Nat)
            /\ uncommitted \in [Partitions -> Seq(Nat)]
            /\ cursor \in [Partitions -> Nat] /\ checkpoint \in [Partitions -> Int]
          BY <1>1, <4>1, Zenon DEF Answers, Types, QueueTypes, SentTypes
      <4>4. PICK n \in 0 .. cursor[p] + call[p].count : Popped(p, call[p], n)
          BY <1>1, <4>1, <4>2, UpdateTypes, Zenon
      <4> DEFINE ids == AcceptedIds(p, call[p])
      <4>5. ids \in Seq(Nat) /\ Len(ids) = cursor[p] + call[p].count
          BY <4>4, Zenon DEF Popped
      <4>6. /\ uncommitted' = [uncommitted EXCEPT ![p] = Drop(ids, n)]
            /\ sendQueue' = [sendQueue EXCEPT ![p] = Drop(sendQueue[p], n)]
            /\ cursor' = [cursor EXCEPT ![p] = cursor[p] + call[p].count - n]
            /\ checkpoint' = [checkpoint EXCEPT ![p] = IF n > 0 THEN sendQueue[p][n] ELSE checkpoint[p]]
          BY <4>4, Zenon DEF Popped
      <4> HIDE DEF ids
      <4>7. Drop(ids, n) \in Seq(Nat) /\ Drop(sendQueue[p], n) \in Seq(Nat)
        <5>1. n \in 0 .. Len(ids) /\ n \in 0 .. Len(sendQueue[p])
            BY <4>2, <4>3, <4>5
        <5> QED
            BY <4>3, <4>5, <5>1, DropOf, Zenon
      <4>8. uncommitted' \in [Partitions -> Seq(Nat)]
          BY <4>3, <4>6, <4>7, Zenon
      <4>9. sendQueue' \in [Partitions -> Seq(Nat)]
          BY <4>3, <4>6, <4>7, Zenon
      <4>10. cursor' \in [Partitions -> Nat]
        <5>1. cursor[p] + call[p].count - n \in Nat
            BY <4>3
        <5> QED
            BY <4>3, <4>6, <5>1, Zenon
      <4>11. checkpoint' \in [Partitions -> Int]
        <5>1. n > 0 => sendQueue[p][n] \in Int
            BY <4>2, <4>3
        <5> QED
            BY <4>3, <4>6, <5>1, Zenon
      <4>12. QueueTypes'
          BY <1>1, <4>2, <4>9, Zenon DEF updateBuffer, Types, QueueTypes
      <4>13. SentTypes'
          BY <1>1, <3>2, <4>2, <4>8, <4>10, <4>11, Zenon DEF updateBuffer, Types, SentTypes
      <4> QED
          BY <1>2, <2>1, <4>12, <4>13, Zenon DEF Types
    <3> QED
        BY <2>4, <3>3, <3>4, Zenon
  <2>5. call[p].at = "done" /\ call[p].ec = "SESSION_CHANGED" => call[p] \in SessionChanges
      BY <1>1, CallKinds, Zenon
  <2> QED
      BY <1>4, <2>2, <2>3, <2>4, <2>5, Zenon DEF handleSendMessageResponse
<1> QED
    BY <1>3, <1>4, Zenon DEF handleStep

\* A request takes messages of the send queue from the cursor on.
LEMMA FilledRequest ==
    ASSUME Types, QueueTypes', NEW p \in Partitions, cursor[p] <= Len(sendQueue'[p]), fillRequest(p)
    PROVE  \E r \in Requests :
              /\ call' = [call EXCEPT ![p] = r]
              /\ r.session = session[p]
              /\ cursor[p] + Len(r.msgs) <= Len(sendQueue'[p])
              /\ \A i \in 1 .. Len(r.msgs) : r.msgs[i] = sendQueue'[p][cursor[p] + i]
<1> DEFINE rest == Drop(sendQueue'[p], cursor[p])
           k == MinOf({BatchSize, Len(rest)})
           r == [at |-> "sent", session |-> session[p], msgs |-> Take(rest, k)]
<1>1. sendQueue'[p] \in Seq(Nat) /\ cursor[p] \in 0 .. Len(sendQueue'[p]) /\ session[p] \in Int
      /\ cursor[p] \in Nat
    BY DEF Types, SentTypes, QueueTypes
<1>2. /\ rest \in Seq(Nat) /\ Len(rest) = Len(sendQueue'[p]) - cursor[p]
      /\ \A i \in 1 .. Len(rest) : rest[i] = sendQueue'[p][cursor[p] + i]
    BY <1>1, DropOf, Zenon
<1>3. call' = [call EXCEPT ![p] = r]
    BY Zenon DEF fillRequest
<1> HIDE DEF rest
<1>4. k \in 0 .. Len(rest)
    BY <1>2, MinOfTwo, WriterConstants
<1> HIDE DEF k
<1>5. /\ Take(rest, k) \in Seq(Nat) /\ Len(Take(rest, k)) = k
      /\ \A i \in 1 .. k : Take(rest, k)[i] = rest[i]
    BY <1>2, <1>4, TakeOf, Zenon
<1>6. r \in Requests
    BY <1>1, <1>5, Zenon DEF Requests
<1>7. r.session = session[p] /\ r.msgs = Take(rest, k)
    BY Zenon
<1>8. k \in Nat /\ k <= Len(rest) /\ Len(rest) \in Nat
    BY <1>2, <1>4
<1> HIDE DEF r
<1>9. cursor[p] + Len(r.msgs) <= Len(sendQueue'[p])
    BY <1>1, <1>2, <1>5, <1>7, <1>8
<1>10. \A i \in 1 .. Len(r.msgs) : r.msgs[i] = sendQueue'[p][cursor[p] + i]
    BY <1>2, <1>5, <1>7, <1>8
<1> QED
    BY <1>3, <1>6, <1>7, <1>9, <1>10, Zenon

\* What the send queue and the other queues are after a conversion: the send
\* queue has grown at the end by n messages of another queue.
LEMMA ConvertMoves ==
    ASSUME Types, NEW p \in Partitions, convertMessage(p)
    PROVE  /\ \A q \in Partitions \ {p} :
                 /\ writeQueue'[q] = writeQueue[q] /\ toMerge'[q] = toMerge[q]
                 /\ sendQueue'[q] = sendQueue[q] /\ minInMerge'[q] = minInMerge[q]
                 /\ canAdd'[q] = canAdd[q]
           /\ \/ UNCHANGED <<writeQueue, toMerge, sendQueue, minInMerge, canAdd>>
              \/ \E n \in Nat : \E src \in Seq(Nat) :
                    /\ n <= Len(src) /\ src # <<>>
                    /\ Len(sendQueue'[p]) = Len(sendQueue[p]) + n
                    /\ \A i \in 1 .. Len(sendQueue[p]) : sendQueue'[p][i] = sendQueue[p][i]
                    /\ \A i \in 1 .. n : sendQueue'[p][Len(sendQueue[p]) + i] = src[i]
                    /\ Len(toMerge'[p]) = Len(src) - n
                    /\ \A i \in 1 .. Len(src) - n : toMerge'[p][i] = src[n + i]
                    /\ \/ toMerge[p] # <<>> /\ src = toMerge[p] /\ writeQueue'[p] = writeQueue[p]
                       \/ toMerge[p] = <<>> /\ src = writeQueue[p] /\ writeQueue'[p] = <<>>
                    /\ minInMerge'[p] = IF n = Len(src) THEN None
                                        ELSE IF toMerge[p] # <<>> THEN minInMerge[p] ELSE src[1]
                    /\ canAdd'[p] = (n = Len(src))
<1> DEFINE goesOn == toMerge[p] # <<>>
           src == IF goesOn THEN toMerge[p] ELSE writeQueue[p]
<1>1. src \in Seq(Nat) /\ sendQueue[p] \in Seq(Nat) /\ writeQueue[p] \in Seq(Nat)
    BY Zenon DEF Types, QueueTypes
<1>2. CASE src = <<>>
    BY <1>2, Zenon DEF convertMessage, queueVars
<1>3. CASE src # <<>>
  <2>1. PICK n \in 0 .. Len(src) :
            /\ sendQueue' = [sendQueue EXCEPT ![p] = @ \o Take(src, n)]
            /\ toMerge' = [toMerge EXCEPT ![p] = Drop(src, n)]
            /\ writeQueue' = [writeQueue EXCEPT ![p] = IF goesOn THEN @ ELSE <<>>]
            /\ minInMerge' = [minInMerge EXCEPT ![p] =
                 IF n = Len(src) THEN None ELSE IF goesOn THEN @ ELSE Head(src)]
            /\ canAdd' = [canAdd EXCEPT ![p] = n = Len(src)]
      BY <1>3, Zenon DEF convertMessage
  <2>2. \A q \in Partitions \ {p} :
            /\ writeQueue'[q] = writeQueue[q] /\ toMerge'[q] = toMerge[q]
            /\ sendQueue'[q] = sendQueue[q] /\ minInMerge'[q] = minInMerge[q]
            /\ canAdd'[q] = canAdd[q]
    <3> HIDE DEF src, goesOn
    <3> QED
        BY <2>1, Zenon DEF Types, QueueTypes
  <2>3. /\ sendQueue'[p] = sendQueue[p] \o Take(src, n) /\ toMerge'[p] = Drop(src, n)
        /\ writeQueue'[p] = IF goesOn THEN writeQueue[p] ELSE <<>>
        /\ minInMerge'[p] = IF n = Len(src) THEN None ELSE IF goesOn THEN minInMerge[p] ELSE Head(src)
        /\ canAdd'[p] = (n = Len(src))
    <3> HIDE DEF src, goesOn
    <3> QED
        BY <2>1, Zenon DEF Types, QueueTypes
  <2>4. Head(src) = src[1] /\ Len(src) \in Nat /\ n \in Nat
      BY <1>1, <1>3
  <2>5. src = IF goesOn THEN toMerge[p] ELSE writeQueue[p]
      BY Zenon
  <2> HIDE DEF src
  <2>7. /\ Len(Drop(src, n)) = Len(src) - n
        /\ \A i \in 1 .. Len(src) - n : Drop(src, n)[i] = src[n + i]
      BY <1>1, DropOf, Zenon
  <2>8. /\ Len(sendQueue[p] \o Take(src, n)) = Len(sendQueue[p]) + n
        /\ \A i \in 1 .. Len(sendQueue[p]) : (sendQueue[p] \o Take(src, n))[i] = sendQueue[p][i]
        /\ \A i \in 1 .. n : (sendQueue[p] \o Take(src, n))[Len(sendQueue[p]) + i] = src[i]
      BY <1>1, JoinTake
  <2>9. /\ Len(sendQueue'[p]) = Len(sendQueue[p]) + n
        /\ \A i \in 1 .. Len(sendQueue[p]) : sendQueue'[p][i] = sendQueue[p][i]
        /\ \A i \in 1 .. n : sendQueue'[p][Len(sendQueue[p]) + i] = src[i]
        /\ Len(toMerge'[p]) = Len(src) - n
        /\ \A i \in 1 .. Len(src) - n : toMerge'[p][i] = src[n + i]
      BY <2>3, <2>7, <2>8, Zenon
  <2>10. \/ toMerge[p] # <<>> /\ src = toMerge[p] /\ writeQueue'[p] = writeQueue[p]
         \/ toMerge[p] = <<>> /\ src = writeQueue[p] /\ writeQueue'[p] = <<>>
      BY <2>3, <2>5, Zenon
  <2>11. minInMerge'[p] = IF n = Len(src) THEN None
                          ELSE IF toMerge[p] # <<>> THEN minInMerge[p] ELSE src[1]
      BY <2>3, <2>4, Zenon
  <2>12. n <= Len(src)
      BY <2>4
  <2>13. /\ n <= Len(src) /\ src # <<>>
         /\ Len(sendQueue'[p]) = Len(sendQueue[p]) + n
         /\ \A i \in 1 .. Len(sendQueue[p]) : sendQueue'[p][i] = sendQueue[p][i]
         /\ \A i \in 1 .. n : sendQueue'[p][Len(sendQueue[p]) + i] = src[i]
         /\ Len(toMerge'[p]) = Len(src) - n
         /\ \A i \in 1 .. Len(src) - n : toMerge'[p][i] = src[n + i]
         /\ \/ toMerge[p] # <<>> /\ src = toMerge[p] /\ writeQueue'[p] = writeQueue[p]
            \/ toMerge[p] = <<>> /\ src = writeQueue[p] /\ writeQueue'[p] = <<>>
         /\ minInMerge'[p] = IF n = Len(src) THEN None
                             ELSE IF toMerge[p] # <<>> THEN minInMerge[p] ELSE src[1]
         /\ canAdd'[p] = (n = Len(src))
      BY <1>3, <2>3, <2>9, <2>10, <2>11, <2>12, Zenon
  <2> QED
      BY <1>1, <2>2, <2>4, <2>13, Zenon
<1> QED
    BY <1>2, <1>3, Zenon

\* Posting a request keeps the types.
LEMMA PostTypes ==
    ASSUME WriterInv, NEW p \in Partitions, postSendMessageRequest(p)
    PROVE  /\ Types' /\ (convertMessage(p) \/ UNCHANGED queueVars)
           /\ cursor[p] <= Len(sendQueue'[p])
<1>1. Types /\ CursorOK(p)
    BY Zenon DEF WriterInv, PartInv
<1>2. convertMessage(p) \/ UNCHANGED queueVars
    BY Zenon DEF postSendMessageRequest, fillRequest
<1>3. QueueTypes'
    BY <1>1, <1>2, ConvertTypes, SameTypes, Zenon DEF Types
<1>4. cursor[p] <= Len(sendQueue'[p])
  <2>1. Len(sendQueue[p]) \in Nat /\ cursor[p] \in Nat /\ cursor[p] <= Len(sendQueue[p])
      BY <1>1 DEF Types, QueueTypes, SentTypes, CursorOK
  <2>2. CASE UNCHANGED <<writeQueue, toMerge, sendQueue, minInMerge, canAdd>>
      BY <2>1, <2>2, Zenon
  <2>3. CASE \E n \in Nat : Len(sendQueue'[p]) = Len(sendQueue[p]) + n
      BY <2>1, <2>3
  <2> QED
      BY <1>1, <1>2, <2>2, <2>3, ConvertMoves, Zenon DEF queueVars
<1>5. PICK r \in Requests : call' = [call EXCEPT ![p] = r]
    BY <1>1, <1>3, <1>4, FilledRequest, Zenon DEF postSendMessageRequest
<1>6. call' \in [Partitions -> Calls]
    BY <1>1, <1>5, Zenon DEF Types, Calls
<1>7. SentTypes'
    BY <1>1, Zenon DEF Types, SentTypes, postSendMessageRequest, fillRequest
<1>8. ClientTypes' /\ BrokerTypes'
    BY <1>1, SameTypes, Zenon DEF Types, postSendMessageRequest, clientVars
<1> QED
    BY <1>2, <1>3, <1>4, <1>6, <1>7, <1>8, Zenon DEF Types

\* Looking at the checkpoint keeps the types.
LEMMA ScanTypes ==
    ASSUME WriterInv, NEW p \in Partitions, scanStep(p)
    PROVE  Types'
<1>1. Types
    BY Zenon DEF WriterInv
<1>2. PartCheckpoint(p) \in Int
  <2>1. latestCheckPointId(p) \in Int
    <3>1. sendQueue[p] \in Seq(Nat) /\ writeQueue[p] \in Seq(Nat) /\ minInMerge[p] \in Int /\ None \in Int
        BY <1>1 DEF Types, QueueTypes, None
    <3>2. /\ sendQueue[p] # <<>> => Head(sendQueue[p]) \in Int
          /\ writeQueue[p] # <<>> => Head(writeQueue[p]) \in Int
        BY <3>1
    <3> QED
        BY <3>1, <3>2, Zenon DEF latestCheckPointId
  <2>2. checkpoint[p] \in Int
      BY <1>1, Zenon DEF Types, SentTypes
  <2> QED
      BY <2>1, <2>2 DEF PartCheckpoint
<1>3. SentTypes'
    BY <1>1, <1>2, Zenon DEF Types, SentTypes, scanStep, sentVars
<1>4. ClientTypes' /\ QueueTypes' /\ BrokerTypes' /\ call' = call
    BY <1>1, SameTypes, Zenon DEF Types, scanStep, clientVars
<1> QED
    BY <1>1, <1>3, <1>4, Zenon DEF Types

\* What a broker does with a request.
LEMMA SendMoves ==
    ASSUME Types, NEW p \in Partitions, sendMessage(p)
    PROVE  /\ Types' /\ UNCHANGED <<writerVars, bsession, committed, late>>
           /\ call[p] \in Requests
           /\ \/ /\ ~sessionChanged(p, call[p])
                 /\ \E k \in 0 .. Len(call[p].msgs) : \E ec \in {"NONE", "BUSY", "ERROR"} :
                       /\ log' = [log EXCEPT ![p] = @ \o Take(call[p].msgs, k)]
                       /\ call' = [call EXCEPT ![p] = [at |-> "added", ec |-> ec,
                                                       begin |-> Len(log[p]), count |-> k]]
              \/ /\ log' = log
                 /\ call'[p] \notin Requests \cup Addeds \cup Answers
                 /\ \A q \in Partitions \ {p} : call'[q] = call[q]
<1>1. /\ call \in [Partitions -> Calls] /\ call[p] \in Requests
      /\ log[p] \in Seq(Nat) /\ log \in [Partitions -> Seq(Nat)] /\ bsession[p] \in Nat
  <2>1. call[p] \in Calls /\ call[p].at = "sent"
      BY Zenon DEF Types, sendMessage
  <2> QED
      BY <2>1, CallKinds, Zenon DEF Types, BrokerTypes
<1>2. UNCHANGED <<writerVars, bsession, committed, late>>
    BY Zenon DEF sendMessage
<1>3. ClientTypes' /\ QueueTypes' /\ SentTypes'
    BY <1>2, SameTypes, Zenon DEF Types, writerVars, clientVars
<1>4. ASSUME ~sessionChanged(p, call[p]), NEW k \in 0 .. Len(call[p].msgs), NEW ec \in {"NONE", "BUSY", "ERROR"},
             log' = [log EXCEPT ![p] = @ \o Take(call[p].msgs, k)],
             Answer(p, [at |-> "added", ec |-> ec, begin |-> Len(log[p]), count |-> k])
      PROVE  Types'
  <2>1. call[p].msgs \in Seq(Nat) /\ k \in Nat
      BY <1>1 DEF Requests
  <2>2. log[p] \o Take(call[p].msgs, k) \in Seq(Nat)
      BY <1>1, <2>1, JoinTake, Zenon
  <2>3. log' \in [Partitions -> Seq(Nat)]
      BY <1>1, <1>4, <2>2, Zenon
  <2>4. [at |-> "added", ec |-> ec, begin |-> Len(log[p]), count |-> k] \in Calls
      BY <1>1, <2>1 DEF Calls, Addeds
  <2>5. call' \in [Partitions -> Calls]
      BY <1>1, <1>4, <2>4, Zenon DEF Answer
  <2> QED
      BY <1>2, <1>3, <2>3, <2>5, Zenon DEF Types, BrokerTypes
<1>5. ASSUME log' = log, NEW a \in SessionChanges \cup Refusals \cup {NotFound}, Answer(p, a)
      PROVE  /\ Types' /\ call'[p] \notin Requests \cup Addeds \cup Answers
             /\ \A q \in Partitions \ {p} : call'[q] = call[q]
  <2>1. a \in Calls /\ a \notin Requests \cup Addeds \cup Answers
      BY DEF Calls, SessionChanges, Refusals, NotFound, Requests, Addeds, Answers, None
  <2>2. call' = [call EXCEPT ![p] = a]
      BY <1>5, Zenon DEF Answer
  <2>3. BrokerTypes'
      BY <1>2, <1>5, SameTypes, Zenon DEF Types, brokerVars
  <2> QED
      BY <1>1, <1>3, <2>1, <2>2, <2>3, Zenon DEF Types
<1>6. [at |-> "done", ec |-> "SESSION_CHANGED", session |-> bsession[p]] \in SessionChanges
    BY <1>1, Zenon DEF SessionChanges
<1>7. [at |-> "done", ec |-> "BUSY", begin |-> None, count |-> 0, session |-> bsession[p]] \in Refusals
    BY <1>1, Zenon DEF Refusals
<1>8. [at |-> "done", ec |-> "NOT_FOUND"] = NotFound
    BY Zenon DEF NotFound
<1>9. CASE \E k \in 0 .. Len(call[p].msgs), ec \in {"NONE", "BUSY", "ERROR"} :
                /\ ~sessionChanged(p, call[p])
                /\ log' = [log EXCEPT ![p] = @ \o Take(call[p].msgs, k)]
                /\ Answer(p, [at |-> "added", ec |-> ec, begin |-> Len(log[p]), count |-> k])
    BY <1>1, <1>2, <1>4, <1>9, Zenon DEF Answer
<1>10. CASE log' = log /\ \E a \in SessionChanges \cup Refusals \cup {NotFound} : Answer(p, a)
    BY <1>1, <1>2, <1>5, <1>10, Zenon
<1> QED
    BY <1>6, <1>7, <1>8, <1>9, <1>10, Zenon DEF sendMessage

\* The steps of brokers and network keep the types.
LEMMA BrokerStepTypes ==
    ASSUME Types, NEW p \in Partitions,
           doneRunForProductRequest(p) \/ Timeout(p) \/ ArriveLate(p) \/ Commit(p) \/ Reload(p)
    PROVE  Types'
<1>1. /\ call \in [Partitions -> Calls] /\ call[p] \in Calls /\ Lost \in Calls
      /\ log[p] \in Seq(Nat) /\ log \in [Partitions -> Seq(Nat)]
      /\ committed \in [Partitions -> Nat] /\ committed[p] \in Nat
      /\ bsession \in [Partitions -> Nat] /\ bsession[p] \in Nat
      /\ late \in [Partitions -> SUBSET Requests] /\ late[p] \subseteq Requests
    BY Zenon DEF Types, BrokerTypes, Calls
<1>2. ClientTypes' /\ QueueTypes' /\ SentTypes'
    BY SameTypes, Zenon DEF doneRunForProductRequest, Timeout, ArriveLate, Commit, Reload,
                     Types, writerVars, clientVars
<1>3. CASE doneRunForProductRequest(p)
  <2> DEFINE r == call[p]
             a == [at |-> "done", ec |-> r.ec, begin |-> r.begin, count |-> r.count,
                   committedId |-> committed[p] - 1, session |-> bsession[p]]
  <2>1. r \in Addeds
      BY <1>1, <1>3, CallKinds, Zenon DEF doneRunForProductRequest
  <2>2. a \in Answers
      BY <1>1, <2>1 DEF Addeds, Answers
  <2>3. call' = [call EXCEPT ![p] = a]
      BY <1>3, Zenon DEF doneRunForProductRequest, Answer
  <2> HIDE DEF a
  <2>4. call' \in [Partitions -> Calls]
      BY <1>1, <2>2, <2>3, Zenon DEF Calls
  <2> QED
      BY <1>2, <1>3, <2>4, SameTypes, Zenon DEF doneRunForProductRequest, Types
<1>4. CASE Timeout(p)
  <2>1. call' \in [Partitions -> Calls]
      BY <1>1, <1>4, Zenon DEF Timeout, Answer
  <2>2. call[p].at = "sent" => call[p] \in Requests
      BY <1>1, CallKinds, Zenon
  <2>3. late' \in [Partitions -> SUBSET Requests]
    <3>1. late \in [Partitions -> SUBSET Requests]
        BY <1>1, Zenon
    <3> QED
        BY <1>4, <2>2, <3>1, Zenon DEF Timeout
  <2> QED
      BY <1>2, <1>4, <2>1, <2>3, Zenon DEF Timeout, Types, BrokerTypes
<1>5. CASE ArriveLate(p)
  <2>1. PICK r \in late[p] :
           /\ late' = [late EXCEPT ![p] = @ \ {r}]
           /\ \E k \in 1 .. Len(r.msgs) : log' = [log EXCEPT ![p] = @ \o Take(r.msgs, k)]
      BY <1>5, Zenon DEF ArriveLate
  <2>2. PICK k \in 1 .. Len(r.msgs) : log' = [log EXCEPT ![p] = @ \o Take(r.msgs, k)]
      BY <2>1, Zenon
  <2>3. r.msgs \in Seq(Nat) /\ k \in 0 .. Len(r.msgs)
      BY <1>1 DEF Requests
  <2>4. log[p] \o Take(r.msgs, k) \in Seq(Nat)
      BY <1>1, <2>3, JoinTake, Zenon
  <2>5. log' \in [Partitions -> Seq(Nat)]
      BY <1>1, <2>2, <2>4, Zenon
  <2>6. late' \in [Partitions -> SUBSET Requests]
      BY <1>1, <2>1, Zenon
  <2> QED
      BY <1>2, <1>5, <2>5, <2>6, Zenon DEF ArriveLate, Types, BrokerTypes
<1>6. CASE Commit(p)
  <2>1. PICK n \in committed[p] + 1 .. Len(log[p]) : committed' = [committed EXCEPT ![p] = n]
      BY <1>6, Zenon DEF Commit
  <2>2. n \in Nat
      BY <1>1
  <2>3. committed' \in [Partitions -> Nat]
      BY <1>1, <2>1, <2>2, Zenon
  <2> QED
      BY <1>2, <1>6, <2>3, Zenon DEF Commit, Types, BrokerTypes
<1>7. CASE Reload(p)
  <2>1. PICK n \in committed[p] .. Len(log[p]) :
           log' = [log EXCEPT ![p] = Take(@, n)] /\ committed' = [committed EXCEPT ![p] = n]
      BY <1>7, Zenon DEF Reload
  <2>2. n \in Nat /\ n \in 0 .. Len(log[p])
      BY <1>1
  <2>3. Take(log[p], n) \in Seq(Nat)
      BY <1>1, <2>2, TakeOf, Zenon
  <2>4. committed' \in [Partitions -> Nat]
      BY <1>1, <2>1, <2>2, Zenon
  <2>5. log' \in [Partitions -> Seq(Nat)]
      BY <1>1, <2>1, <2>3, Zenon
  <2>6. bsession' \in [Partitions -> Nat]
      BY <1>1, <1>7 DEF Reload
  <2>7. call' \in [Partitions -> Calls]
      BY <1>1, <1>7, Zenon DEF Reload, Answer
  <2> QED
      BY <1>2, <1>7, <2>4, <2>5, <2>6, <2>7, Zenon DEF Reload, Types, BrokerTypes
<1> QED
    BY <1>3, <1>4, <1>5, <1>6, <1>7, Zenon

-----------------------------------------------------------------------------
(***************************************************************************)
(* What a step leaves alone                                                *)
(***************************************************************************)
SameQueues(p) ==
    /\ writeQueue'[p] = writeQueue[p] /\ toMerge'[p] = toMerge[p]
    /\ sendQueue'[p] = sendQueue[p] /\ minInMerge'[p] = minInMerge[p]

SameSent(p) ==
    /\ cursor'[p] = cursor[p] /\ uncommitted'[p] = uncommitted[p]
    /\ ignoreUpdate'[p] = ignoreUpdate[p] /\ session'[p] = session[p]

SameBroker(p) ==
    /\ bsession'[p] = bsession[p] /\ log'[p] = log[p] /\ committed'[p] = committed[p]

Untouched(p) ==
    /\ SameQueues(p) /\ SameSent(p) /\ SameBroker(p)
    /\ checkpoint'[p] = checkpoint[p] /\ call'[p] = call[p] /\ late'[p] = late[p]

\* Written messages stay written and cleared ones cleared.
SameMessages == written' = written /\ cleared \subseteq cleared'

\* What a broker may do to its log: committed messages stay, and the others
\* while the session lasts.
LogMoves(p) ==
    /\ committed[p] <= committed'[p] /\ committed'[p] <= Len(log'[p])
    /\ \A i \in 1 .. committed[p] : log'[p][i] = log[p][i]
    /\ bsession[p] <= bsession'[p]
    /\ bsession'[p] = bsession[p] =>
          /\ Len(log[p]) <= Len(log'[p])
          /\ \A i \in 1 .. Len(log[p]) : log'[p][i] = log[p][i]

\* The types of the variables of one partition.
LEMMA Numbers ==
    ASSUME Types, NEW p \in Partitions
    PROVE  /\ Total \in Nat /\ committed[p] \in Nat /\ bsession[p] \in Nat /\ session[p] \in Int
           /\ cursor[p] \in Nat /\ checkpoint[p] \in Int /\ minInMerge[p] \in Int
           /\ log[p] \in Seq(Nat) /\ Len(log[p]) \in Nat /\ uncommitted[p] \in Seq(Nat)
           /\ sendQueue[p] \in Seq(Nat) /\ toMerge[p] \in Seq(Nat) /\ writeQueue[p] \in Seq(Nat)
           /\ call[p] \in Calls /\ late[p] \subseteq Requests
    BY DEF Types, ClientTypes, QueueTypes, SentTypes, BrokerTypes

\* Messages keep their partitions.
LEMMA SameOf ==
    ASSUME SameMessages
    PROVE  Total' = Total /\ \A p, m : Of(p, m)' <=> Of(p, m)
    BY Zenon DEF SameMessages, Total, Of

\* A log that stays as it is stays in order.
LEMMA OrderStays ==
    ASSUME NEW p \in Partitions, SameMessages, log'[p] = log[p], LogOK(p),
           committed'[p] <= Len(log'[p])
    PROVE  LogOK(p)'
<1>1. Total' = Total /\ \A m : Of(p, m)' <=> Of(p, m)
    BY SameOf
<1>2. ASSUME NEW j \in 1 .. Len(log'[p])
      PROVE  /\ Of(p, log[p][j])'
             /\ \A m \in 1 .. Total' : Of(p, m)' /\ m < log'[p][j] /\ m \notin cleared' =>
                                         \E i \in 1 .. j - 1 : log'[p][i] = m
  <2>1. /\ Of(p, log[p][j])
        /\ \A m \in 1 .. Total : Of(p, m) /\ m < log[p][j] /\ m \notin cleared =>
                                   \E i \in 1 .. j - 1 : log[p][i] = m
      BY <1>2, Zenon DEF LogOK
  <2>2. Of(p, log[p][j])'
      BY <2>1, Zenon DEF SameMessages, Of, Total
  <2> QED
      BY <1>1, <2>1, <2>2, Zenon DEF SameMessages
<1> QED
    BY <1>2, Zenon DEF LogOK

\* A step that leaves the broker alone moves its log nowhere.
LEMMA LogStays ==
    ASSUME Types, NEW p \in Partitions, SameMessages, SameBroker(p), LogOK(p)
    PROVE  LogMoves(p) /\ LogOK(p)'
<1>1. /\ committed[p] \in Nat /\ bsession[p] \in Nat /\ Len(log[p]) \in Nat
      /\ committed[p] <= Len(log[p])
    BY Numbers, Zenon DEF LogOK
<1>2. committed[p] <= committed[p] /\ bsession[p] <= bsession[p] /\ Len(log[p]) <= Len(log[p])
    BY <1>1
<1>3. LogMoves(p)
    BY <1>1, <1>2, Zenon DEF LogMoves, SameBroker
<1>4. LogOK(p)'
    BY <1>1, OrderStays, Zenon DEF SameBroker
<1> QED
    BY <1>3, <1>4

\* A committed message stays committed.
LEMMA CommittedStays ==
    ASSUME Types, Types', NEW p \in Partitions, LogMoves(p)
    PROVE  \A m : Committed(p, m) => Committed(p, m)'
<1>1. committed[p] \in Nat /\ committed'[p] \in Nat /\ committed[p] <= committed'[p]
    BY Zenon DEF Types, BrokerTypes, LogMoves
<1> QED
    BY <1>1 DEF Committed, LogMoves

\* A request that may be accepted may be accepted later.
LEMMA RequestStays ==
    ASSUME Types, Types', NEW p \in Partitions, LogMoves(p), SameMessages,
           NEW r \in Requests, RequestOK(p, r)
    PROVE  RequestOK(p, r)'
<1>1. /\ r.session \in Int /\ bsession[p] \in Nat /\ bsession'[p] \in Nat
      /\ Len(log[p]) \in Nat /\ Len(log'[p]) \in Nat /\ bsession[p] <= bsession'[p]
    BY DEF Types, BrokerTypes, Requests, LogMoves
<1>2. Total' = Total /\ \A m : Of(p, m)' <=> Of(p, m)
    BY SameOf, Zenon
<1>3. \A m : Committed(p, m) => Committed(p, m)'
    BY CommittedStays, Zenon
<1>4. r.session = bsession'[p] /\ r.session = bsession[p] => \A m : InLog(p, m) => InLog(p, m)'
    BY <1>1 DEF InLog, LogMoves
<1>5. r.session = None \/ r.session >= bsession'[p] => r.session = None \/ r.session >= bsession[p]
    BY <1>1
<1>6. r.session >= bsession'[p] /\ r.session = bsession[p] => r.session = bsession'[p]
    BY <1>1
<1>7. r.session = bsession[p] => r.session # None
    BY <1>1 DEF None
<1>8. ASSUME NEW i \in 1 .. Len(r.msgs), r.session = None \/ r.session >= bsession'[p],
             NEW m \in 1 .. Total, Of(p, m), m < r.msgs[i], m \notin cleared'
      PROVE  \/ \E j \in 1 .. i - 1 : r.msgs[j] = m
             \/ Committed(p, m)'
             \/ r.session = bsession'[p] /\ InLog(p, m)'
  <2>1. m \notin cleared
      BY <1>8, Zenon DEF SameMessages
  <2>2. \/ \E j \in 1 .. i - 1 : r.msgs[j] = m
        \/ Committed(p, m)
        \/ r.session = bsession[p] /\ InLog(p, m)
      BY <1>5, <1>8, <2>1, Zenon DEF RequestOK
  <2> QED
      BY <1>3, <1>4, <1>6, <1>7, <1>8, <2>2, Zenon
<1>9. \A i \in 1 .. Len(r.msgs) : Of(p, r.msgs[i])'
    BY <1>2, Zenon DEF RequestOK
<1> QED
    BY <1>2, <1>8, <1>9, Zenon DEF RequestOK

\* What is known of the queues and the checkpoint stays true when they stay.
LEMMA QueuesKeep ==
    ASSUME Types, Types', NEW p \in Partitions, PartInv(p), LogMoves(p), SameMessages,
           SameQueues(p), checkpoint'[p] = checkpoint[p]
    PROVE  QueueOK(p)' /\ MergeOK(p)' /\ LostNothing(p)' /\ CheckpointOK(p)'
<1>1. Total' = Total /\ \A m : Of(p, m)' <=> Of(p, m)
    BY SameOf, Zenon
<1>2. \A m : Committed(p, m) => Committed(p, m)'
    BY CommittedStays, Zenon
<1>3. QueueOK(p)' /\ MergeOK(p)'
    BY <1>1, Zenon DEF PartInv, QueueOK, MergeOK, SameQueues, Sorted, Before
<1>4. LostNothing(p)'
  <2>1. \A m : InQueue(p, m) => InQueue(p, m)'
      BY Zenon DEF InQueue, SameQueues
  <2> QED
      BY <1>1, <1>2, <2>1, Zenon DEF PartInv, LostNothing, SameMessages
<1>5. CheckpointOK(p)'
    BY <1>1, <1>2, Zenon DEF PartInv, CheckpointOK, SameMessages
<1> QED
    BY <1>3, <1>4, <1>5, Zenon

\* The writer's part of the invariant is kept by what a broker does.
LEMMA BrokerKeeps ==
    ASSUME Types, Types', NEW p \in Partitions, PartInv(p), LogMoves(p), SameMessages,
           SameQueues(p), SameSent(p), checkpoint'[p] = checkpoint[p]
    PROVE  QueueOK(p)' /\ MergeOK(p)' /\ LostNothing(p)' /\ CheckpointOK(p)' /\ CursorOK(p)'
<1>1. QueueOK(p)' /\ MergeOK(p)' /\ LostNothing(p)' /\ CheckpointOK(p)'
    BY QueuesKeep, Zenon
<1>2. CursorOK(p)'
  <2>0. CursorOK(p)
      BY Zenon DEF PartInv
  <2>1. /\ cursor[p] \in Nat /\ session[p] \in Int /\ bsession[p] \in Nat /\ bsession'[p] \in Nat
        /\ Len(log[p]) \in Nat /\ Len(log'[p]) \in Nat /\ uncommitted[p] \in Seq(Nat)
        /\ cursor[p] = Len(uncommitted[p])
    <3>1. /\ cursor[p] \in Nat /\ session[p] \in Int /\ bsession[p] \in Nat
          /\ Len(log[p]) \in Nat /\ uncommitted[p] \in Seq(Nat)
        BY Numbers, Zenon
    <3>2. bsession'[p] \in Nat /\ log'[p] \in Seq(Nat)
        BY Zenon DEF Types, BrokerTypes
    <3> QED
        BY <2>0, <3>1, <3>2 DEF CursorOK
  <2>2. ASSUME session[p] = bsession'[p], NEW i \in 1 .. cursor[p]
        PROVE  /\ uncommitted[p][i] < Len(log'[p])
               /\ log'[p][uncommitted[p][i] + 1] = sendQueue[p][i]
    <3>1. session[p] = bsession[p] /\ bsession'[p] = bsession[p]
      <4>1. session[p] <= bsession[p] /\ bsession[p] <= bsession'[p]
          BY <2>0, <2>1, <2>2 DEF CursorOK, LogMoves
      <4> QED
          BY <2>1, <2>2, <4>1
    <3>2. /\ uncommitted[p][i] \in Nat /\ uncommitted[p][i] < Len(log[p])
          /\ log[p][uncommitted[p][i] + 1] = sendQueue[p][i]
      <4>1. i \in 1 .. Len(uncommitted[p]) /\ uncommitted[p] \in Seq(Nat)
          BY <2>1, <2>2, Zenon
      <4>2. uncommitted[p][i] \in Nat
          BY <4>1
      <4> QED
          BY <2>0, <2>2, <3>1, <4>2, Zenon DEF CursorOK
    <3>3. /\ Len(log[p]) <= Len(log'[p])
          /\ \A k \in 1 .. Len(log[p]) : log'[p][k] = log[p][k]
        BY <3>1, Zenon DEF LogMoves
    <3>4. uncommitted[p][i] + 1 \in 1 .. Len(log[p]) /\ uncommitted[p][i] < Len(log'[p])
      <4>1. ASSUME NEW u \in Nat, NEW l \in Nat, NEW k \in Nat, u < l, l <= k
            PROVE  u + 1 \in 1 .. l /\ u < k
          BY <4>1
      <4> QED
          BY <2>1, <3>2, <3>3, <4>1, Zenon
    <3> QED
        BY <3>2, <3>3, <3>4, Zenon
  <2>3. cursor[p] > 0 => session[p] # None /\ session[p] <= bsession'[p]
      BY <2>0, <2>1 DEF CursorOK, LogMoves
  <2> QED
      BY <2>1, <2>2, <2>3, Zenon DEF PartInv, CursorOK, SameSent, SameQueues
<1> QED
    BY <1>1, <1>2, Zenon

\* What a call knows is kept too; a call being served ends with the session.
LEMMA CallStays ==
    ASSUME Types, Types', NEW p \in Partitions, PartInv(p), LogMoves(p), SameMessages,
           SameQueues(p), SameSent(p), call'[p] = call[p],
           bsession'[p] = bsession[p] \/ call[p] \notin Addeds
    PROVE  SentOK(p)' /\ AddedOK(p)' /\ AnswerOK(p)'
<1>1. /\ cursor[p] \in Nat /\ session[p] \in Int /\ bsession[p] \in Nat /\ bsession'[p] \in Nat
      /\ Len(log[p]) \in Nat /\ Len(log'[p]) \in Nat /\ uncommitted[p] \in Seq(Nat)
      /\ committed[p] \in Nat /\ committed'[p] \in Nat /\ cursor[p] = Len(uncommitted[p])
      /\ committed[p] <= committed'[p] /\ bsession[p] <= bsession'[p]
  <2>1. /\ cursor[p] \in Nat /\ session[p] \in Int /\ bsession[p] \in Nat /\ committed[p] \in Nat
        /\ Len(log[p]) \in Nat /\ uncommitted[p] \in Seq(Nat)
      BY Numbers, Zenon
  <2>2. bsession'[p] \in Nat /\ log'[p] \in Seq(Nat) /\ committed'[p] \in Nat
      BY Zenon DEF Types, BrokerTypes
  <2>3. cursor[p] = Len(uncommitted[p]) /\ committed[p] <= committed'[p] /\ bsession[p] <= bsession'[p]
      BY Zenon DEF PartInv, CursorOK, LogMoves
  <2> QED
      BY <2>1, <2>2, <2>3
<1>2. SentOK(p)'
  <2>1. SentOK(p)
      BY Zenon DEF PartInv
  <2>2. \A r \in Requests : RequestOK(p, r) => RequestOK(p, r)'
      BY RequestStays, Zenon
  <2>3. ASSUME call[p] \in Requests PROVE RequestOK(p, call[p])'
    <3>1. RequestOK(p, call[p])
        BY <2>1, <2>3, Zenon DEF SentOK
    <3> QED
        BY <2>2, <2>3, <3>1, Zenon DEF RequestOK
  <2> QED
      BY <2>1, <2>3, Zenon DEF SentOK, SameSent, SameQueues
<1>3. ASSUME bsession'[p] = bsession[p], NEW begin \in Nat, NEW count \in Nat,
             Accepted(log[p], sendQueue[p], cursor[p], begin, count)
      PROVE  Accepted(log'[p], sendQueue[p], cursor[p], begin, count)
  <2>1. /\ begin + count <= Len(log[p]) /\ Len(log[p]) <= Len(log'[p])
        /\ \A i \in 1 .. Len(log[p]) : log'[p][i] = log[p][i]
        /\ \A i \in 1 .. count : log[p][begin + i] = sendQueue[p][cursor[p] + i]
      BY <1>3, Zenon DEF Accepted, LogMoves
  <2>2. \A i \in 1 .. count : begin + i \in 1 .. Len(log[p])
      BY <1>1, <2>1
  <2>3. begin + count <= Len(log'[p])
      BY <1>1, <2>1
  <2> QED
      BY <2>1, <2>2, <2>3, Zenon DEF Accepted
<1>4. AddedOK(p)'
  <2>1. AddedOK(p)
      BY Zenon DEF PartInv
  <2>2. call[p] \in Addeds => call[p].begin \in Nat /\ call[p].count \in Nat
      BY Zenon DEF Addeds
  <2> QED
      BY <1>3, <2>1, <2>2, Zenon DEF AddedOK, SameSent, SameQueues
<1>5. AnswerOK(p)'
  <2> DEFINE r == call[p]
  <2> SUFFICES ASSUME r \in Answers PROVE AnswerOK(p)'
      BY Zenon DEF AnswerOK
  <2>1. /\ r.begin \in Nat /\ r.count \in Nat /\ r.committedId \in Int /\ r.session \in Nat
      BY Zenon DEF Answers
  <2>2. /\ session[p] = None \/ session[p] = r.session
        /\ r.session <= bsession[p] /\ r.committedId < committed[p]
      BY Zenon DEF PartInv, AnswerOK
  <2>3. r.session <= bsession'[p] /\ r.committedId < committed'[p]
      BY <1>1, <2>1, <2>2
  <2>4. ASSUME ~ignoreUpdate[p]
        PROVE  /\ cursor[p] + r.count <= Len(sendQueue[p])
               /\ r.session = bsession'[p] => Accepted(log'[p], sendQueue[p], cursor[p], r.begin, r.count)
               /\ \A i \in 1 .. cursor[p] :
                     uncommitted[p][i] <= r.committedId =>
                        log'[p][uncommitted[p][i] + 1] = sendQueue[p][i]
               /\ \A i \in 1 .. r.count :
                     r.begin + i - 1 <= r.committedId =>
                        log'[p][r.begin + i] = sendQueue[p][cursor[p] + i]
    <3>1. /\ cursor[p] + r.count <= Len(sendQueue[p])
          /\ r.session = bsession[p] => Accepted(log[p], sendQueue[p], cursor[p], r.begin, r.count)
          /\ \A i \in 1 .. cursor[p] :
                uncommitted[p][i] <= r.committedId =>
                   log[p][uncommitted[p][i] + 1] = sendQueue[p][i]
          /\ \A i \in 1 .. r.count :
                r.begin + i - 1 <= r.committedId =>
                   log[p][r.begin + i] = sendQueue[p][cursor[p] + i]
        BY <2>4, Zenon DEF PartInv, AnswerOK
    <3>2. r.session = bsession'[p] => Accepted(log'[p], sendQueue[p], cursor[p], r.begin, r.count)
      <4>1. r.session = bsession'[p] => bsession'[p] = bsession[p] /\ r.session = bsession[p]
          BY <1>1, <2>1, <2>2
      <4> QED
          BY <1>3, <2>1, <3>1, <4>1, Zenon
    <3>3. ASSUME NEW i \in 1 .. cursor[p], uncommitted[p][i] <= r.committedId
          PROVE  log'[p][uncommitted[p][i] + 1] = sendQueue[p][i]
      <4>1. uncommitted[p][i] \in Nat
        <5>1. i \in 1 .. Len(uncommitted[p]) /\ uncommitted[p] \in Seq(Nat)
            BY <1>1, Zenon
        <5> QED
            BY <5>1
      <4>2. uncommitted[p][i] + 1 \in 1 .. committed[p]
        <5>1. committed[p] \in Nat /\ r.committedId \in Int /\ r.committedId < committed[p]
            BY <1>1, <2>1, <2>2, Zenon
        <5> QED
            BY <3>3, <4>1, <5>1, CommittedIndex, Zenon
      <4> QED
          BY <3>1, <3>3, <4>2, Zenon DEF LogMoves
    <3>4. ASSUME NEW i \in 1 .. r.count, r.begin + i - 1 <= r.committedId
          PROVE  log'[p][r.begin + i] = sendQueue[p][cursor[p] + i]
      <4>1. r.begin + i \in 1 .. committed[p]
        <5>1. committed[p] \in Nat /\ r.committedId \in Int /\ r.committedId < committed[p]
            BY <1>1, <2>1, <2>2, Zenon
        <5>2. r.begin + i - 1 \in Nat /\ r.begin + i = (r.begin + i - 1) + 1
            BY <2>1
        <5> QED
            BY <3>4, <5>1, <5>2, CommittedIndex, Zenon
      <4> QED
          BY <3>1, <3>4, <4>1, Zenon DEF LogMoves
    <3> QED
        BY <3>1, <3>2, <3>3, <3>4, Zenon
  <2> QED
      BY <2>2, <2>3, <2>4, Zenon DEF AnswerOK, SameSent, SameQueues
<1> QED
    BY <1>2, <1>4, <1>5, Zenon

\* A partition that a step does not touch.
LEMMA UntouchedStays ==
    ASSUME Types, Types', NEW p \in Partitions, PartInv(p), Untouched(p), SameMessages
    PROVE  PartInv(p)'
<1>1. LogMoves(p) /\ SameQueues(p) /\ SameSent(p)
    BY LogStays, Zenon DEF PartInv, Untouched
<1>2. QueueOK(p)' /\ MergeOK(p)' /\ LostNothing(p)' /\ CheckpointOK(p)' /\ CursorOK(p)'
    BY <1>1, BrokerKeeps, Zenon DEF Untouched
<1>3. SentOK(p)' /\ AddedOK(p)' /\ AnswerOK(p)'
    BY <1>1, CallStays, Zenon DEF Untouched, SameBroker
<1>4. LogOK(p)'
    BY LogStays, Zenon DEF PartInv, Untouched
<1>5. LateOK(p)'
  <2>1. \A r \in Requests : RequestOK(p, r) => RequestOK(p, r)'
      BY <1>1, RequestStays, Zenon
  <2>2. late[p] \subseteq Requests
      BY Numbers, Zenon
  <2> QED
      BY <2>1, <2>2, Zenon DEF PartInv, LateOK, Untouched
<1> QED
    BY <1>2, <1>3, <1>4, <1>5, Zenon DEF PartInv

-----------------------------------------------------------------------------
(***************************************************************************)
(* Brokers and network                                                     *)
(***************************************************************************)
\* Messages of a request that the broker accepts come in order.
LEMMA AcceptInOrder ==
    ASSUME Types, Types', NEW p \in Partitions, LogOK(p), NEW r \in Requests, RequestOK(p, r),
           ~sessionChanged(p, r), NEW k \in 0 .. Len(r.msgs),
           log'[p] = log[p] \o Take(r.msgs, k), SameMessages, cleared' = cleared,
           committed'[p] = committed[p], bsession'[p] = bsession[p]
    PROVE  /\ LogOK(p)' /\ LogMoves(p)
           /\ Len(log'[p]) = Len(log[p]) + k
           /\ \A i \in 1 .. k : log'[p][Len(log[p]) + i] = r.msgs[i]
<1>l. PICK l : l = log'[p]
    BY Zenon
<1>m. PICK n : n = Len(log[p])
    BY Zenon
<1>1. /\ log[p] \in Seq(Nat) /\ n \in Nat /\ r.msgs \in Seq(Nat) /\ k \in Nat /\ k <= Len(r.msgs)
      /\ committed[p] \in Nat /\ committed[p] <= n /\ bsession[p] \in Nat
      /\ r.session \in Int
    BY <1>m DEF Types, BrokerTypes, Requests, LogOK
<1>2. /\ l \in Seq(Nat) /\ Len(l) = n + k
      /\ \A i \in 1 .. n : l[i] = log[p][i]
      /\ \A i \in 1 .. k : l[n + i] = r.msgs[i]
  <2>1. /\ log[p] \o Take(r.msgs, k) \in Seq(Nat) /\ Len(log[p] \o Take(r.msgs, k)) = Len(log[p]) + k
        /\ \A i \in 1 .. Len(log[p]) : (log[p] \o Take(r.msgs, k))[i] = log[p][i]
        /\ \A i \in 1 .. k : (log[p] \o Take(r.msgs, k))[Len(log[p]) + i] = r.msgs[i]
      BY <1>1, JoinTake, Zenon
  <2>2. l = log[p] \o Take(r.msgs, k)
      BY <1>l, Zenon
  <2> QED
      BY <1>m, <2>1, <2>2, Zenon
<1>3. Total' = Total /\ \A m : Of(p, m)' <=> Of(p, m)
    BY SameOf, Zenon
<1>4. r.session = None \/ r.session = bsession[p]
    BY Zenon DEF sessionChanged
<1>5. LogMoves(p)
  <2>1. committed[p] <= Len(l) /\ n <= Len(l)
      BY <1>1, <1>2
  <2>2. \A i \in 1 .. committed[p] : i \in 1 .. n
      BY <1>1
  <2> QED
    <3>1. \A i \in 1 .. n : log'[p][i] = log[p][i]
        BY <1>l, <1>2, Zenon
    <3>2. \A i \in 1 .. committed[p] : log'[p][i] = log[p][i]
        BY <2>2, <3>1, Zenon
    <3>3. Len(log[p]) <= Len(log'[p]) /\ \A i \in 1 .. Len(log[p]) : log'[p][i] = log[p][i]
        BY <1>l, <1>m, <2>1, <3>1, Zenon
    <3>4. committed[p] <= committed'[p] /\ bsession[p] <= bsession'[p]
        BY <1>1
    <3> QED
        BY <1>l, <2>1, <3>2, <3>3, <3>4, Zenon DEF LogMoves
<1>6. ASSUME NEW j \in 1 .. Len(l)
      PROVE  /\ Of(p, l[j])
             /\ \A m \in 1 .. Total :
                   Of(p, m) /\ m < l[j] /\ m \notin cleared => \E i \in 1 .. j - 1 : l[i] = m
  <2>1. CASE j \in 1 .. n
    <3>1. l[j] = log[p][j] /\ \A i \in 1 .. j - 1 : l[i] = log[p][i]
      <4>1. j \in Nat /\ j <= n /\ \A i \in 1 .. j - 1 : i \in 1 .. n
          BY <1>1, <2>1
      <4> QED
          BY <1>2, <2>1, <4>1, Zenon
    <3> QED
      <4>1. j \in 1 .. Len(log[p])
          BY <1>m, <2>1, Zenon
      <4>2. /\ Of(p, log[p][j])
            /\ \A m \in 1 .. Total :
                  Of(p, m) /\ m < log[p][j] /\ m \notin cleared => \E i \in 1 .. j - 1 : log[p][i] = m
          BY <4>1, Zenon DEF LogOK
      <4> QED
          BY <3>1, <4>2, Zenon
  <2>2. CASE j \notin 1 .. n
    <3>1. PICK i0 \in 1 .. k : j = n + i0
      <4>1. j \in Nat /\ j > n /\ j <= n + k
          BY <1>1, <1>2, <2>2
      <4>2. j - n \in 1 .. k /\ j = n + (j - n)
          BY <1>1, <4>1
      <4> QED
          BY <4>2, Zenon
    <3>2. l[j] = r.msgs[i0] /\ i0 \in 1 .. Len(r.msgs) /\ i0 \in Nat
      <4>1. l[n + i0] = r.msgs[i0]
          BY <1>2, <3>1, Zenon
      <4>2. i0 \in 1 .. Len(r.msgs) /\ i0 \in Nat
          BY <1>1, <3>1
      <4> QED
          BY <3>1, <4>1, <4>2, Zenon
    <3>3. ASSUME NEW m \in 1 .. Total, Of(p, m), m < l[j], m \notin cleared
          PROVE  \E i \in 1 .. j - 1 : l[i] = m
      <4>1. \/ \E i \in 1 .. i0 - 1 : r.msgs[i] = m
            \/ Committed(p, m)
            \/ r.session = bsession[p] /\ InLog(p, m)
        <5>1. r.session = None \/ r.session >= bsession[p]
            BY <1>1, <1>4
        <5>2. m < r.msgs[i0]
            BY <3>2, <3>3, Zenon
        <5> QED
            BY <3>2, <3>3, <5>1, <5>2, Zenon DEF RequestOK
      <4>2. CASE \E i \in 1 .. i0 - 1 : r.msgs[i] = m
        <5>1. PICK i \in 1 .. i0 - 1 : r.msgs[i] = m
            BY <4>2, Zenon
        <5>2. i \in 1 .. k /\ n + i \in 1 .. j - 1
            BY <1>1, <3>1, <3>2
        <5>3. l[n + i] = m
            BY <1>2, <5>1, <5>2, Zenon
        <5> QED
            BY <5>2, <5>3, Zenon
      <4>3. CASE Committed(p, m) \/ InLog(p, m)
        <5>1. PICK i \in 1 .. n : log[p][i] = m
          <6>1. CASE Committed(p, m)
            <7>1. PICK i \in 1 .. committed[p] : log[p][i] = m
                BY <6>1, Zenon DEF Committed
            <7>2. i \in 1 .. n
                BY <1>1
            <7> QED
                BY <7>1, <7>2, Zenon
          <6>2. CASE InLog(p, m)
              BY <1>m, <6>2, Zenon DEF InLog
          <6> QED
              BY <4>3, <6>1, <6>2, Zenon
        <5>2. i \in 1 .. j - 1
            BY <1>1, <3>1, <3>2
        <5>3. l[i] = m
            BY <1>2, <5>1, Zenon
        <5> QED
            BY <5>2, <5>3, Zenon
      <4> QED
          BY <4>1, <4>2, <4>3, Zenon
    <3>4. Of(p, l[j])
        BY <3>2, Zenon DEF RequestOK
    <3> QED
        BY <3>3, <3>4, Zenon
  <2> QED
      BY <2>1, <2>2, Zenon
<1>7. committed'[p] <= Len(l)
    BY <1>1, <1>2
<1>8. LogOK(p)'
  <2>1. \A j \in 1 .. Len(log'[p]) :
           /\ Of(p, log'[p][j])
           /\ \A m \in 1 .. Total :
                 Of(p, m) /\ m < log'[p][j] /\ m \notin cleared => \E i \in 1 .. j - 1 : log'[p][i] = m
      BY <1>l, <1>6, Zenon
  <2>2. committed'[p] <= Len(log'[p])
      BY <1>l, <1>7, Zenon
  <2> QED
      BY <1>3, <2>1, <2>2, Zenon DEF LogOK
<1> QED
    BY <1>l, <1>m, <1>2, <1>5, <1>8, Zenon

\* Requests that may still arrive may arrive later.
LEMMA LateStays ==
    ASSUME Types, Types', NEW p \in Partitions, LogMoves(p), SameMessages, LateOK(p),
           late'[p] \subseteq late[p]
    PROVE  LateOK(p)'
<1>1. \A r \in Requests : RequestOK(p, r) => RequestOK(p, r)'
    BY RequestStays, Zenon
<1>2. late[p] \subseteq Requests
    BY Numbers, Zenon
<1> QED
    BY <1>1, <1>2, Zenon DEF LateOK

\* sendMessage of TransporterImpl keeps what is known of its partition.
LEMMA SendStep ==
    ASSUME WriterInv, Types', NEW p \in Partitions, sendMessage(p)
    PROVE  PartInv(p)'
<1>1. Types /\ PartInv(p)
    BY Zenon DEF WriterInv
<1>2. /\ UNCHANGED <<writerVars, bsession, committed, late>> /\ call[p] \in Requests
      /\ \/ /\ ~sessionChanged(p, call[p])
            /\ \E k \in 0 .. Len(call[p].msgs) : \E ec \in {"NONE", "BUSY", "ERROR"} :
                  /\ log' = [log EXCEPT ![p] = @ \o Take(call[p].msgs, k)]
                  /\ call' = [call EXCEPT ![p] = [at |-> "added", ec |-> ec,
                                                  begin |-> Len(log[p]), count |-> k]]
         \/ log' = log /\ call'[p] \notin Requests \cup Addeds \cup Answers
    BY <1>1, SendMoves, Zenon
<1>3. /\ SameMessages /\ SameQueues(p) /\ SameSent(p) /\ checkpoint'[p] = checkpoint[p]
      /\ committed'[p] = committed[p] /\ bsession'[p] = bsession[p] /\ late'[p] = late[p]
      /\ cleared' = cleared
    BY <1>2, Zenon DEF writerVars, clientVars, queueVars, sentVars, SameMessages, SameQueues, SameSent
<1>4. CASE log' = log /\ call'[p] \notin Requests \cup Addeds \cup Answers
  <2>1. LogMoves(p) /\ LogOK(p)'
      BY <1>1, <1>3, <1>4, LogStays, Zenon DEF PartInv, SameBroker
  <2>2. SentOK(p)' /\ AddedOK(p)' /\ AnswerOK(p)'
      BY <1>4, Zenon DEF SentOK, AddedOK, AnswerOK
  <2>3. QueueOK(p)' /\ MergeOK(p)' /\ LostNothing(p)' /\ CheckpointOK(p)' /\ CursorOK(p)'
      BY <1>1, <1>3, <2>1, BrokerKeeps, Zenon
  <2>4. LateOK(p)'
      BY <1>1, <1>3, <2>1, LateStays, Zenon DEF PartInv
  <2> QED
      BY <2>1, <2>2, <2>3, <2>4, Zenon DEF PartInv
<1>5. ASSUME ~sessionChanged(p, call[p]),
             NEW k \in 0 .. Len(call[p].msgs), NEW ec \in {"NONE", "BUSY", "ERROR"},
             log' = [log EXCEPT ![p] = @ \o Take(call[p].msgs, k)],
             call' = [call EXCEPT ![p] = [at |-> "added", ec |-> ec,
                                          begin |-> Len(log[p]), count |-> k]]
      PROVE  PartInv(p)'
  <2> DEFINE a == [at |-> "added", ec |-> ec, begin |-> Len(log[p]), count |-> k]
  <2>1. log'[p] = log[p] \o Take(call[p].msgs, k) /\ call'[p] = a
      BY <1>1, <1>5, Zenon DEF Types, BrokerTypes
  <2>2. /\ RequestOK(p, call[p]) /\ call[p].session = session[p] /\ call[p].msgs \in Seq(Nat)
        /\ ~ignoreUpdate[p] =>
              /\ cursor[p] + Len(call[p].msgs) <= Len(sendQueue[p])
              /\ \A i \in 1 .. Len(call[p].msgs) : call[p].msgs[i] = sendQueue[p][cursor[p] + i]
      BY <1>1, <1>2, Zenon DEF PartInv, SentOK, Requests
  <2>3. /\ LogOK(p)' /\ LogMoves(p) /\ Len(log'[p]) = Len(log[p]) + k
        /\ \A i \in 1 .. k : log'[p][Len(log[p]) + i] = call[p].msgs[i]
    <3>1. PICK r \in Requests : r = call[p]
        BY <1>2, Zenon
    <3>2. RequestOK(p, r) /\ ~sessionChanged(p, r) /\ k \in 0 .. Len(r.msgs) /\ LogOK(p)
          /\ log'[p] = log[p] \o Take(r.msgs, k)
        BY <1>1, <1>5, <2>1, <2>2, <3>1, Zenon DEF PartInv
    <3>3. /\ LogOK(p)' /\ LogMoves(p) /\ Len(log'[p]) = Len(log[p]) + k
          /\ \A i \in 1 .. k : log'[p][Len(log[p]) + i] = r.msgs[i]
        BY <1>1, <1>3, <3>2, AcceptInOrder, Zenon
    <3> QED
        BY <3>1, <3>3, Zenon
  <2>4. QueueOK(p)' /\ MergeOK(p)' /\ LostNothing(p)' /\ CheckpointOK(p)' /\ CursorOK(p)'
      BY <1>1, <1>3, <2>3, BrokerKeeps, Zenon
  <2>5. LateOK(p)'
      BY <1>1, <1>3, <2>3, LateStays, Zenon DEF PartInv
  <2>6. a.begin = Len(log[p]) /\ a.count = k /\ a \notin Requests /\ a \notin Answers
      BY Zenon DEF Requests, Answers
  <2> HIDE DEF a
  <2>7. SentOK(p)' /\ AnswerOK(p)'
      BY <2>1, <2>6, Zenon DEF SentOK, AnswerOK
  <2>8. AddedOK(p)'
    <3>1. session[p] = None \/ session[p] = bsession[p]
        BY <1>5, <2>2, Zenon DEF sessionChanged
    <3>2. ASSUME ~ignoreUpdate[p]
          PROVE  /\ cursor[p] + k <= Len(sendQueue[p])
                 /\ Accepted(log'[p], sendQueue[p], cursor[p], Len(log[p]), k)
      <4>1. /\ Len(call[p].msgs) \in Nat /\ k \in Nat /\ k <= Len(call[p].msgs)
            /\ cursor[p] \in Nat /\ Len(sendQueue[p]) \in Nat /\ Len(log[p]) \in Nat
          BY <1>1, <2>2, Numbers
      <4>2. cursor[p] + k <= Len(sendQueue[p])
          BY <2>2, <3>2, <4>1
      <4>3. \A i \in 1 .. k : log'[p][Len(log[p]) + i] = sendQueue[p][cursor[p] + i]
          BY <2>2, <2>3, <3>2, <4>1
      <4>4. Len(log[p]) + k <= Len(log'[p])
          BY <2>3, <4>1
      <4> QED
          BY <4>2, <4>3, <4>4, Zenon DEF Accepted
    <3> QED
        BY <1>3, <2>1, <2>6, <3>1, <3>2, Zenon DEF AddedOK, SameSent, SameQueues
  <2> QED
      BY <2>3, <2>4, <2>5, <2>7, <2>8, Zenon DEF PartInv
<1> QED
    BY <1>2, <1>4, <1>5, Zenon

\* Steps of brokers and network other than the acceptance of a request.
LEMMA NetworkStep ==
    ASSUME WriterInv, Types', NEW p \in Partitions,
           doneRunForProductRequest(p) \/ Timeout(p) \/ ArriveLate(p) \/ Commit(p) \/ Reload(p)
    PROVE  PartInv(p)'
<1>1. Types /\ PartInv(p)
    BY Zenon DEF WriterInv
<1>2. UNCHANGED writerVars
    BY Zenon DEF doneRunForProductRequest, Timeout, ArriveLate, Commit, Reload
<1>3. /\ SameMessages /\ SameQueues(p) /\ SameSent(p) /\ checkpoint'[p] = checkpoint[p]
      /\ cleared' = cleared
    BY <1>2, Zenon DEF writerVars, clientVars, queueVars, sentVars, SameMessages, SameQueues, SameSent
<1>n. /\ committed[p] \in Nat /\ bsession[p] \in Nat /\ session[p] \in Int
      /\ cursor[p] \in Nat /\ log[p] \in Seq(Nat) /\ Len(log[p]) \in Nat
      /\ call[p] \in Calls /\ late[p] \subseteq Requests
      /\ committed[p] <= Len(log[p])
    BY <1>1, Numbers, Zenon DEF PartInv, LogOK
<1>of. Total' = Total /\ \A m : Of(p, m)' <=> Of(p, m)
    BY <1>3, SameOf, Zenon
<1>s. ASSUME LogMoves(p), LogOK(p)', LateOK(p)', SentOK(p)', AddedOK(p)', AnswerOK(p)'
      PROVE  PartInv(p)'
  <2>1. QueueOK(p)' /\ MergeOK(p)' /\ LostNothing(p)' /\ CheckpointOK(p)' /\ CursorOK(p)'
      BY <1>1, <1>3, <1>s, BrokerKeeps, Zenon
  <2> QED
      BY <1>s, <2>1, Zenon DEF PartInv
<1>u. ASSUME UNCHANGED <<bsession, log, committed>>
      PROVE  LogMoves(p) /\ LogOK(p)'
    BY <1>1, <1>3, <1>u, LogStays, Zenon DEF PartInv, SameBroker
<1>4. CASE doneRunForProductRequest(p)
  <2> DEFINE a == [at |-> "done", ec |-> call[p].ec, begin |-> call[p].begin, count |-> call[p].count,
                   committedId |-> committed[p] - 1, session |-> bsession[p]]
  <2>1. /\ call'[p] = a /\ UNCHANGED <<bsession, log, committed, late>> /\ call[p] \in Addeds
    <3>1. call[p] \in Addeds
        BY <1>n, <1>4, CallKinds, Zenon DEF doneRunForProductRequest
    <3> QED
        BY <1>1, <1>4, <3>1, Zenon DEF doneRunForProductRequest, Answer, brokerVars, Types
  <2>2. LogMoves(p) /\ LogOK(p)' /\ LateOK(p)'
    <3>1. LogMoves(p) /\ LogOK(p)'
        BY <1>u, <2>1, Zenon
    <3> QED
        BY <1>1, <1>3, <2>1, <3>1, LateStays, Zenon DEF PartInv
  <2>3. /\ a.begin = call[p].begin /\ a.count = call[p].count /\ a.committedId = committed[p] - 1
        /\ a.session = bsession[p] /\ a \notin Requests /\ a \notin Addeds
        /\ call[p].count \in Nat /\ call[p].begin \in Nat
      BY <2>1, Zenon DEF Requests, Addeds
  <2> HIDE DEF a
  <2>4. SentOK(p)' /\ AddedOK(p)'
      BY <2>1, <2>3, Zenon DEF SentOK, AddedOK
  <2>5. /\ session[p] = None \/ session[p] = bsession[p]
        /\ ~ignoreUpdate[p] =>
              /\ cursor[p] + call[p].count <= Len(sendQueue[p])
              /\ Accepted(log[p], sendQueue[p], cursor[p], call[p].begin, call[p].count)
      BY <1>1, <2>1, Zenon DEF PartInv, AddedOK
  <2>6. \A i \in 1 .. cursor[p] : log[p][uncommitted[p][i] + 1] = sendQueue[p][i]
    <3>1. CursorOK(p)
        BY <1>1, Zenon DEF PartInv
    <3>2. session[p] = None => cursor[p] = 0
        BY <1>n, <3>1 DEF CursorOK
    <3>3. CASE session[p] = None
        BY <3>2, <3>3
    <3>4. CASE session[p] = bsession[p]
        BY <3>1, <3>4, Zenon DEF CursorOK
    <3> QED
        BY <2>5, <3>3, <3>4, Zenon
  <2>7. committed[p] - 1 < committed[p] /\ bsession[p] <= bsession[p]
      BY <1>n
  <2>8. AnswerOK(p)'
      BY <1>3, <2>1, <2>3, <2>5, <2>6, <2>7, Zenon DEF AnswerOK, Accepted, SameSent, SameQueues
  <2> QED
      BY <1>s, <2>2, <2>4, <2>8, Zenon
<1>5. CASE Timeout(p)
  <2>1. UNCHANGED <<bsession, log, committed>> /\ call'[p] = Lost
      BY <1>1, <1>5, Zenon DEF Timeout, Answer, Types
  <2>2. SentOK(p)' /\ AddedOK(p)' /\ AnswerOK(p)'
    <3>1. Lost \notin Requests /\ Lost \notin Addeds /\ Lost \notin Answers
        BY Zenon DEF Lost, Requests, Addeds, Answers
    <3> QED
        BY <2>1, <3>1, Zenon DEF SentOK, AddedOK, AnswerOK
  <2>3. LogMoves(p) /\ LogOK(p)'
      BY <1>u, <2>1, Zenon
  <2>4. LateOK(p)'
    <3>1. late'[p] \subseteq late[p] \/ (call[p] \in Requests /\ late'[p] = late[p] \cup {call[p]})
      <4>1. call[p].at = "sent" => call[p] \in Requests
          BY <1>n, CallKinds, Zenon
      <4> QED
          BY <1>1, <1>5, <4>1, Zenon DEF Timeout, Types, BrokerTypes
    <3>2. \A r \in Requests : RequestOK(p, r) => RequestOK(p, r)'
        BY <1>1, <1>3, <2>3, RequestStays, Zenon
    <3>3. \A r \in late[p] : RequestOK(p, r)
        BY <1>1, Zenon DEF PartInv, LateOK
    <3>4. call[p] \in Requests => RequestOK(p, call[p])
        BY <1>1, Zenon DEF PartInv, SentOK
    <3>5. ASSUME NEW r \in late'[p] PROVE RequestOK(p, r)'
      <4>1. r \in late[p] \/ (r = call[p] /\ call[p] \in Requests)
          BY <3>1, Zenon
      <4>2. r \in Requests /\ RequestOK(p, r)
          BY <1>n, <3>3, <3>4, <4>1, Zenon
      <4> QED
          BY <3>2, <4>2, Zenon
    <3> QED
        BY <3>5, Zenon DEF LateOK
  <2> QED
      BY <1>s, <2>2, <2>3, <2>4, Zenon
<1>6. CASE ArriveLate(p)
  <2>1. PICK r \in late[p] :
           /\ late' = [late EXCEPT ![p] = @ \ {r}]
           /\ ~sessionChanged(p, r)
           /\ \E k \in 1 .. Len(r.msgs) : log' = [log EXCEPT ![p] = @ \o Take(r.msgs, k)]
      BY <1>6, Zenon DEF ArriveLate
  <2>2. PICK k \in 1 .. Len(r.msgs) : log' = [log EXCEPT ![p] = @ \o Take(r.msgs, k)]
      BY <2>1, Zenon
  <2>3. /\ r \in Requests /\ k \in 0 .. Len(r.msgs) /\ RequestOK(p, r)
        /\ log'[p] = log[p] \o Take(r.msgs, k) /\ late'[p] \subseteq late[p]
        /\ UNCHANGED <<call, bsession, committed>>
    <3>1. r \in Requests /\ RequestOK(p, r)
        BY <1>1, <1>n, Zenon DEF PartInv, LateOK
    <3>2. k \in 0 .. Len(r.msgs)
        BY <3>1 DEF Requests
    <3>3. log'[p] = log[p] \o Take(r.msgs, k) /\ late'[p] = late[p] \ {r}
        BY <1>1, <2>1, <2>2, Zenon DEF Types, BrokerTypes
    <3>4. UNCHANGED <<call, bsession, committed>>
        BY <1>6, Zenon DEF ArriveLate
    <3> QED
        BY <3>1, <3>2, <3>3, <3>4, Zenon
  <2>4. LogOK(p)' /\ LogMoves(p)
    <3>1. LogOK(p) /\ committed'[p] = committed[p] /\ bsession'[p] = bsession[p]
        BY <1>1, <2>3, Zenon DEF PartInv
    <3> QED
        BY <1>1, <1>3, <2>1, <2>3, <3>1, AcceptInOrder, Zenon
  <2>5. LateOK(p)'
      BY <1>1, <1>3, <2>3, <2>4, LateStays, Zenon DEF PartInv
  <2>6. SentOK(p)' /\ AddedOK(p)' /\ AnswerOK(p)'
      BY <1>1, <1>3, <2>3, <2>4, CallStays, Zenon
  <2> QED
      BY <1>s, <2>4, <2>5, <2>6, Zenon
<1>7. CASE Commit(p)
  <2>1. PICK n \in committed[p] + 1 .. Len(log[p]) : committed' = [committed EXCEPT ![p] = n]
      BY <1>7, Zenon DEF Commit
  <2>2. committed'[p] = n /\ n \in Nat /\ committed[p] <= n /\ n <= Len(log[p])
      BY <1>1, <1>n, <2>1 DEF Types, BrokerTypes
  <2>3. UNCHANGED <<call, bsession, log, late>>
      BY <1>7, Zenon DEF Commit
  <2>4. LogMoves(p)
      BY <1>n, <2>2, <2>3 DEF LogMoves
  <2>5. LogOK(p)'
    <3>1. LogOK(p) /\ committed'[p] <= Len(log'[p])
        BY <1>1, <2>2, <2>3, Zenon DEF PartInv
    <3> QED
        BY <1>3, <2>3, <3>1, OrderStays, Zenon
  <2>6. LateOK(p)'
      BY <1>1, <1>3, <2>3, <2>4, LateStays, Zenon DEF PartInv
  <2>7. SentOK(p)' /\ AddedOK(p)' /\ AnswerOK(p)'
      BY <1>1, <1>3, <2>3, <2>4, CallStays, Zenon
  <2> QED
      BY <1>s, <2>4, <2>5, <2>6, <2>7, Zenon
<1>8. CASE Reload(p)
  <2>1. PICK n \in committed[p] .. Len(log[p]) :
           log' = [log EXCEPT ![p] = Take(@, n)] /\ committed' = [committed EXCEPT ![p] = n]
      BY <1>8, Zenon DEF Reload
  <2>2. /\ committed'[p] = n /\ n \in Nat /\ committed[p] <= n /\ n <= Len(log[p])
        /\ log'[p] = Take(log[p], n) /\ n \in 0 .. Len(log[p])
      BY <1>1, <1>n, <2>1 DEF Types, BrokerTypes
  <2>3. bsession'[p] = bsession[p] + 1 /\ late' = late
      BY <1>1, <1>8, Zenon DEF Reload, Types, BrokerTypes
  <2>4. Len(log'[p]) = n /\ \A i \in 1 .. n : log'[p][i] = log[p][i]
    <3>1. log[p] \in Seq(Nat) /\ n \in 0 .. Len(log[p]) /\ log'[p] = Take(log[p], n)
        BY <1>n, <2>2, Zenon
    <3> QED
        BY <3>1, TakeOf, Zenon
  <2>5. LogMoves(p)
      BY <1>n, <2>2, <2>3, <2>4 DEF LogMoves
  <2>6. LogOK(p)'
    <3>1. ASSUME NEW j \in 1 .. n
          PROVE  /\ Of(p, log'[p][j])
                 /\ \A m \in 1 .. Total :
                       Of(p, m) /\ m < log'[p][j] /\ m \notin cleared => \E i \in 1 .. j - 1 : log'[p][i] = m
      <4>1. j \in 1 .. Len(log[p]) /\ \A i \in 1 .. j - 1 : i \in 1 .. n
          BY <1>n, <2>2
      <4>2. log'[p][j] = log[p][j] /\ \A i \in 1 .. j - 1 : log'[p][i] = log[p][i]
          BY <2>4, <4>1, Zenon
      <4>3. /\ Of(p, log[p][j])
            /\ \A m \in 1 .. Total :
                  Of(p, m) /\ m < log[p][j] /\ m \notin cleared => \E i \in 1 .. j - 1 : log[p][i] = m
          BY <1>1, <4>1, Zenon DEF PartInv, LogOK
      <4> QED
          BY <4>2, <4>3, Zenon
    <3>2. committed'[p] <= Len(log'[p])
        BY <2>2, <2>4
    <3> QED
        BY <1>3, <1>of, <2>4, <3>1, <3>2 DEF LogOK
  <2>7. LateOK(p)'
      BY <1>1, <1>3, <2>3, <2>5, LateStays, Zenon DEF PartInv
  <2>8. CASE call[p].at = "added"
    <3>1. call'[p] = Lost
        BY <1>1, <1>8, <2>8, Zenon DEF Reload, Answer, Types
    <3>2. Lost \notin Requests /\ Lost \notin Addeds /\ Lost \notin Answers
        BY Zenon DEF Lost, Requests, Addeds, Answers
    <3>3. SentOK(p)' /\ AddedOK(p)' /\ AnswerOK(p)'
        BY <3>1, <3>2, Zenon DEF SentOK, AddedOK, AnswerOK
    <3> QED
        BY <1>s, <2>5, <2>6, <2>7, <3>3, Zenon
  <2>9. CASE call[p].at # "added"
    <3>1. call'[p] = call[p] /\ call[p] \notin Addeds
        BY <1>n, <1>8, <2>9, CallKinds, Zenon DEF Reload
    <3>2. SentOK(p)' /\ AddedOK(p)' /\ AnswerOK(p)'
        BY <1>1, <1>3, <2>5, <3>1, CallStays, Zenon
    <3> QED
        BY <1>s, <2>5, <2>6, <2>7, <3>2, Zenon
  <2> QED
      BY <2>8, <2>9, Zenon
<1> QED
    BY <1>4, <1>5, <1>6, <1>7, <1>8, Zenon
=============================================================================
