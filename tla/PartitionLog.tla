---------------------------- MODULE PartitionLog ----------------------------
(***************************************************************************)
(* What a swift partition promises its writers and readers, with no memory *)
(* queue, no committer and no files: one log of messages with consecutive  *)
(* ids, of which a prefix is committed and the oldest may have expired.    *)
(* MessageBrain (the storage of a loaded partition) is shown to implement  *)
(* it.                                                                     *)
(*                                                                         *)
(* The log is a function from an interval of message ids to messages; a    *)
(* message is a payload and the timestamp the broker gave it.  Messages    *)
(* before begin have expired: they are not read any more, but may still be *)
(* stored.                                                                 *)
(***************************************************************************)
EXTENDS Integers

VARIABLES
    log,        \* the messages that are stored, by message id
    begin,      \* the first message id that can be read
    committed   \* the largest committed message id, -1 when there is none

logVars == <<log, begin, committed>>

LogInit ==
    /\ log = [i \in {} |-> i]
    /\ begin = 0
    /\ committed = -1

\* Messages are only added behind the last one; a new message is younger
\* than every message before it.
Append ==
    /\ DOMAIN log \subseteq DOMAIN log'
    /\ \A i \in DOMAIN log : log'[i] = log[i]
    /\ \A i \in DOMAIN log' \ DOMAIN log :
          /\ i > committed
          /\ \A j \in DOMAIN log' : j < i => log'[j].ts < log'[i].ts
          /\ i = 0 \/ i - 1 \in DOMAIN log'
    /\ UNCHANGED <<begin, committed>>

\* The committed prefix only grows, and only over messages of the log.
Commit ==
    /\ committed' \in DOMAIN log
    /\ committed' > committed
    /\ UNCHANGED <<log, begin>>

\* A crash, or an unload, loses messages from the end of the log, never a
\* committed one; whatever is left is committed and can be read, expired
\* messages that are still stored included.
Restart ==
    \E last \in (DOMAIN log) \cup {committed} :
        /\ last >= committed
        /\ committed' = last
        /\ log' = [i \in {j \in DOMAIN log : j <= last} |-> log[i]]
        /\ begin' <= begin
        /\ \A i \in DOMAIN log' : begin' <= i

\* The oldest messages expire, but never the last committed one; expired
\* messages leave the log from its front, at once or later.
Expire ==
    /\ UNCHANGED committed
    /\ begin <= begin' /\ begin' <= committed
    /\ \E lo \in DOMAIN log :
          /\ lo <= begin'
          /\ log' = [i \in {j \in DOMAIN log : j >= lo} |-> log[i]]

LogNext == Append \/ Commit \/ Restart \/ Expire

LogSpec == LogInit /\ [][LogNext]_logVars
=============================================================================
