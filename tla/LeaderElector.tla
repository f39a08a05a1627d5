---------------------------- MODULE LeaderElector ----------------------------
(***************************************************************************)
(* The lease election of worker_framework: the workers of a role compete   *)
(* for a lease file in ZooKeeper.  A worker runs two threads.  The lock    *)
(* thread (tryLock) campaigns for the lease or renews it; it reads the     *)
(* clock once, at the beginning of a loop, and then makes one ZooKeeper    *)
(* call after the other, all writes under an ephemeral lock node.  The     *)
(* check thread (checkLeader) gives the leadership up when the lease has   *)
(* less than half its time left.  Between any two calls the other workers  *)
(* and the other thread run on, time passes, calls fail, sessions end and  *)
(* workers crash.                                                          *)
(*                                                                         *)
(* Nothing in the code makes a loop end before the lease it writes is      *)
(* over; what the lease relies on is the timing in Timely, and the delays  *)
(* it allows are constants.                                                *)
(***************************************************************************)
EXTENDS Integers

CONSTANTS
    Workers,        \* the processes that compete
    Keyed,          \* those with a progress key of their own
    NoOne, Gone,    \* no worker; a session nobody uses any more
    Lease,          \* _leaseTimeoutUs
    ForbidTime,     \* _forbidCampaignTimeMs
    Skew,           \* how far each worker's clock is ahead of the slowest
    MaxSkew,        \* bound of the skew
    Interval,       \* _loopIntervalUs: from one loop's start to the next one's
    MaxInterval,    \* the longest it can take
    LockDelay,      \* longest time from reading the clock to the loop's end
    CheckDelay,     \* how late the check thread can be
    MaxTime,        \* bound of the clock
    MaxFaults       \* bound: failed calls, lost sessions, crashes and stops

ASSUME ElectorAssumption ==
    /\ Keyed \subseteq Workers
    /\ NoOne \notin Workers /\ Gone \notin Workers /\ NoOne # Gone
    /\ {Lease, ForbidTime, MaxSkew, Interval, MaxInterval, LockDelay,
        CheckDelay, MaxTime, MaxFaults} \subseteq Nat
    /\ Skew \in [Workers -> 0..MaxSkew]

VARIABLES
    now,            \* the slowest clock
    lease,          \* the lease file: its end, -1 when absent, and its writer
    lock,           \* the session that holds the lock node
    info,           \* the worker the leader info file names
    connected,      \* whether a worker's session is alive
    isLeader, exp,  \* _state: isLeader and leaseExpirationTime
    nextTime,       \* _nextCanCampaignTime
    pc,             \* where the lock thread, or stop(), is
    cur,            \* currentTime of its loop
    chk,            \* currentTime of a check that found too little time, or -1
    faults,         \* how many faults there were
    quietSince      \* when the last of them happened

zkVars == <<lease, lock, info, connected>>
stateVars == <<isLeader, exp, nextTime>>
threadVars == <<pc, cur, chk>>
faultVars == <<faults, quietSince>>
vars == <<now, zkVars, stateVars, threadVars, faultVars>>

Half == Lease \div 2
Clock(w) == now + Skew[w]
NoLease == [end |-> -1, by |-> NoOne]

LockSteps == {"lockCampaign", "lockHold", "stop"}
HoldsLock == {"doubleCheck", "reletCampaign", "reletHold", "announce",
              "setState", "unlock", "removeLease", "removeInfo", "unlockStop"}
Steps == {"off", "idle", "work", "read", "demote"} \cup LockSteps \cup HoldsLock

Init ==
    /\ now = 0 /\ lease = NoLease /\ lock = NoOne /\ info = NoOne
    /\ connected = [w \in Workers |-> FALSE]
    /\ isLeader = [w \in Workers |-> FALSE]
    /\ exp = [w \in Workers |-> -1]
    /\ nextTime = [w \in Workers |-> 0]
    /\ pc = [w \in Workers |-> "idle"]
    /\ cur = [w \in Workers |-> Skew[w] - Interval]
    /\ chk = [w \in Workers |-> -1]
    /\ faults = 0 /\ quietSince = 0

-----------------------------------------------------------------------------
(***************************************************************************)
(* Helpers                                                                 *)
(***************************************************************************)
Goto(w, step) == pc' = [pc EXCEPT ![w] = step]

Fault == /\ faults < MaxFaults
         /\ faults' = faults + 1
         /\ quietSince' = now
NoFault == UNCHANGED faultVars

\* A ZooKeeper call answers with an error: because the session is gone, or
\* because the connection was lost on the way.
CallFails(w) == IF connected[w] THEN Fault ELSE NoFault

\* The session of w ends; its lock node goes with it, at once or when
\* ZooKeeper times the session out.
EndSession(w) ==
    /\ connected' = [connected EXCEPT ![w] = FALSE]
    /\ lock' \in IF lock = w THEN {NoOne, Gone} ELSE {lock}

\* updateLeaderInfo: the state it sets
SetState(w, leader, end) ==
    /\ isLeader' = [isLeader EXCEPT ![w] = leader]
    /\ exp' = [exp EXCEPT ![w] = end]

progressKeyEqual(w) == w \in Keyed /\ lease.by = w

\* Whether a worker may take the lease, as campaignLeader and doCampaign ask.
MayCampaign(w) == cur[w] > lease.end \/ progressKeyEqual(w)

\* Variant of checkStillLeader's test that leaves no spare time.
EnoughTimeNoSpare(w, t) == exp[w] - t > 0

\* The test of checkStillLeader
EnoughTime(w, t) == exp[w] - t > Half

\* checkStillLeader when the time is too short
Demote(w, t) ==
    /\ nextTime' = IF ForbidTime > 0
                     THEN [nextTime EXCEPT ![w] = t + ForbidTime] ELSE nextTime
    /\ SetState(w, FALSE, -1)

-----------------------------------------------------------------------------
(***************************************************************************)
(* The lock thread                                                         *)
(***************************************************************************)
\* The loop thread calls tryLock, which reads the clock; workLoop returns while campaigning is forbidden.
tryLock(w) ==
    /\ pc[w] = "idle"
    /\ Clock(w) >= cur[w] + Interval
    /\ cur' = [cur EXCEPT ![w] = Clock(w)]
    /\ IF Clock(w) < nextTime[w] THEN pc' = pc ELSE Goto(w, "work")
    /\ UNCHANGED <<now, zkVars, stateVars, chk, faultVars>>

\* workLoop: connect if needed, then campaign or hold.  holdLeader begins
\* with checkStillLeader, as does the path of a failed connect.
workLoop(w) ==
    /\ pc[w] = "work"
    /\ \/ /\ connected' = [connected EXCEPT ![w] = TRUE]
          /\ Goto(w, IF isLeader[w]
                       THEN IF EnoughTime(w, cur[w]) THEN "lockHold" ELSE "demote"
                       ELSE IF cur[w] < nextTime[w] THEN "idle" ELSE "read")
          /\ NoFault
       \/ /\ ~connected[w]
          /\ UNCHANGED connected
          /\ Goto(w, IF isLeader[w] /\ ~EnoughTime(w, cur[w])
                       THEN "demote" ELSE "idle")
          /\ Fault
    /\ UNCHANGED <<now, lease, lock, info, stateVars, cur, chk>>

demoteInLoop(w) ==
    /\ pc[w] = "demote"
    /\ Demote(w, cur[w])
    /\ Goto(w, "idle")
    /\ UNCHANGED <<now, zkVars, cur, chk, faultVars>>

\* campaignLeader up to the lock
campaignLeader(w) ==
    /\ pc[w] = "read"
    /\ \/ /\ connected[w]
          /\ Goto(w, IF MayCampaign(w) THEN "lockCampaign" ELSE "idle")
          /\ NoFault
       \/ /\ CallFails(w)
          /\ Goto(w, "idle")
    /\ UNCHANGED <<now, zkVars, stateVars, cur, chk>>

\* Variant of lockForLease's callers that keep the session when it fails.
lockForLeaseNoClose(w) ==
    /\ pc[w] \in LockSteps
    /\ \/ /\ connected[w] /\ lock = NoOne
          /\ lock' = w
          /\ Goto(w, CASE pc[w] = "lockCampaign" -> "doubleCheck"
                       [] pc[w] = "lockHold" -> "reletHold"
                       [] pc[w] = "stop" -> "removeLease")
          /\ NoFault
       \/ /\ IF lock = NoOne THEN CallFails(w) ELSE NoFault
          /\ UNCHANGED lock
          /\ Goto(w, IF pc[w] = "stop" THEN "off" ELSE "idle")
    /\ UNCHANGED <<now, lease, info, connected, stateVars, cur, chk>>

\* lockForLease, in campaignLeader, holdLeader and unlock.  When it fails the
\* session is closed.
lockForLease(w) ==
    /\ pc[w] \in LockSteps
    /\ \/ /\ connected[w] /\ lock = NoOne
          /\ lock' = w
          /\ Goto(w, CASE pc[w] = "lockCampaign" -> "doubleCheck"
                       [] pc[w] = "lockHold" -> "reletHold"
                       [] pc[w] = "stop" -> "removeLease")
          /\ UNCHANGED connected
          /\ NoFault
       \/ /\ IF lock = NoOne THEN CallFails(w) ELSE NoFault
          /\ EndSession(w)
          /\ Goto(w, IF pc[w] = "stop" THEN "off" ELSE "idle")
    /\ UNCHANGED <<now, lease, info, stateVars, cur, chk>>

\* Variant of the double check that trusts the read made before the lock.
doCampaignUnchecked(w) ==
    /\ pc[w] = "doubleCheck"
    /\ Goto(w, "reletCampaign")
    /\ UNCHANGED <<now, zkVars, stateVars, cur, chk, faultVars>>

\* doCampaign: the double check in the lock
doCampaign(w) ==
    /\ pc[w] = "doubleCheck"
    /\ \/ /\ connected[w]
          /\ Goto(w, IF MayCampaign(w) THEN "reletCampaign" ELSE "unlock")
          /\ NoFault
       \/ /\ CallFails(w)
          /\ Goto(w, "unlock")
    /\ UNCHANGED <<now, zkVars, stateVars, cur, chk>>

\* reletLeaderTime, in doCampaign and doHoldLeader: write the lease file.
\* The answer to a write that was made may be lost.
reletLeaderTime(w) ==
    /\ pc[w] \in {"reletCampaign", "reletHold"}
    /\ \/ /\ connected[w]
          /\ lease' = [end |-> cur[w] + Lease, by |-> w]
          /\ \/ Goto(w, "announce") /\ NoFault
             \/ Goto(w, "unlock") /\ Fault
       \/ /\ CallFails(w)
          /\ Goto(w, "unlock")
          /\ UNCHANGED lease
    /\ UNCHANGED <<now, lock, info, connected, stateVars, cur, chk>>

\* Variant that goes on although the leader info was not written.
updateLeaderInfoAnyway(w) ==
    /\ pc[w] = "announce"
    /\ \/ info' = w /\ NoFault
       \/ UNCHANGED info /\ CallFails(w)
    /\ Goto(w, "setState")
    /\ UNCHANGED <<now, lease, lock, connected, stateVars, cur, chk>>

\* Variant that sets the state only when the worker becomes leader.
updateLeaderInfoOnce(w) ==
    /\ pc[w] = "announce"
    /\ IF isLeader[w] THEN UNCHANGED info /\ Goto(w, "unlock")
         ELSE connected[w] /\ info' = w /\ Goto(w, "setState")
    /\ UNCHANGED <<now, lease, lock, connected, stateVars, cur, chk, faultVars>>

\* updateLeaderInfo(true, ...): a worker that is not leader yet writes the
\* leader info first and does not become leader when that fails ...
updateLeaderInfo(w) ==
    /\ pc[w] = "announce"
    /\ \/ /\ isLeader[w] \/ connected[w]
          /\ info' = IF isLeader[w] THEN info ELSE w
          /\ Goto(w, "setState")
          /\ NoFault
       \/ /\ ~isLeader[w]
          /\ CallFails(w)
          /\ info' \in IF connected[w] THEN {info, w} ELSE {info}
          /\ Goto(w, "unlock")
    /\ UNCHANGED <<now, lease, lock, connected, stateVars, cur, chk>>

\* ... and then sets the state, also when the check thread has just reset it.
setLeader(w) ==
    /\ pc[w] = "setState"
    /\ SetState(w, TRUE, cur[w] + Lease)
    /\ Goto(w, "unlock")
    /\ UNCHANGED <<now, zkVars, nextTime, cur, chk, faultVars>>

\* unlockForLease
unlockForLease(w) ==
    /\ pc[w] \in {"unlock", "unlockStop"}
    /\ \/ /\ connected[w]
          /\ lock' = NoOne
          /\ NoFault
       \/ /\ CallFails(w)
          /\ UNCHANGED lock
    /\ Goto(w, IF pc[w] = "unlockStop" THEN "off" ELSE "idle")
    /\ UNCHANGED <<now, lease, info, connected, stateVars, cur, chk>>

-----------------------------------------------------------------------------
(***************************************************************************)
(* The check thread, and start and stop                                    *)
(***************************************************************************)
\* checkLeader reads the clock and the state ...
checkLeader(w) ==
    /\ pc[w] # "off" /\ pc[w] \notin {"stop", "removeLease", "removeInfo", "unlockStop"}
    /\ chk[w] = -1
    /\ isLeader[w] /\ ~EnoughTime(w, Clock(w))
    /\ chk' = [chk EXCEPT ![w] = Clock(w)]
    /\ UNCHANGED <<now, zkVars, stateVars, pc, cur, faultVars>>

\* ... and then gives up, whatever the lock thread did in between.
demoteInCheck(w) ==
    /\ chk[w] # -1
    /\ Demote(w, chk[w])
    /\ chk' = [chk EXCEPT ![w] = -1]
    /\ UNCHANGED <<now, zkVars, pc, cur, faultVars>>

\* stop() joins both threads; unlock() gives the lease of a leader back.
stop(w) ==
    /\ pc[w] = "idle" /\ chk[w] = -1
    /\ Fault
    /\ IF isLeader[w]
         THEN /\ SetState(w, FALSE, -1)
              /\ cur' = [cur EXCEPT ![w] = Clock(w)]
              /\ Goto(w, "stop")
         ELSE /\ Goto(w, "off")
              /\ UNCHANGED <<isLeader, exp, cur>>
    /\ UNCHANGED <<now, zkVars, nextTime, chk>>

\* unlock() removes the lease file and the leader info.
unlockRemoves(w) ==
    /\ pc[w] \in {"removeLease", "removeInfo"}
    /\ \/ /\ connected[w]
          /\ IF pc[w] = "removeLease" THEN lease' = NoLease /\ UNCHANGED info
                                      ELSE info' = NoOne /\ UNCHANGED lease
          /\ NoFault
       \/ /\ CallFails(w)
          /\ UNCHANGED <<lease, info>>
    /\ Goto(w, IF pc[w] = "removeLease" THEN "removeInfo" ELSE "unlockStop")
    /\ UNCHANGED <<now, lock, connected, stateVars, cur, chk>>

start(w) ==
    /\ pc[w] = "off"
    /\ Goto(w, "idle")
    /\ cur' = [cur EXCEPT ![w] = Clock(w) - Interval]
    /\ quietSince' = now
    /\ UNCHANGED <<now, zkVars, stateVars, chk, faults>>

-----------------------------------------------------------------------------
(***************************************************************************)
(* Faults and time                                                         *)
(***************************************************************************)
Crash(w) ==
    /\ pc[w] # "off"
    /\ Fault
    /\ EndSession(w)
    /\ SetState(w, FALSE, -1)
    /\ nextTime' = [nextTime EXCEPT ![w] = 0]
    /\ chk' = [chk EXCEPT ![w] = -1]
    /\ Goto(w, "off")
    /\ UNCHANGED <<now, lease, info, cur>>

LoseSession(w) ==
    /\ connected[w]
    /\ Fault
    /\ EndSession(w)
    /\ UNCHANGED <<now, lease, info, stateVars, threadVars>>

\* ZooKeeper removes the lock node of a session that timed out.
ExpireLock ==
    /\ lock = Gone
    /\ lock' = NoOne
    /\ quietSince' = now
    /\ UNCHANGED <<now, lease, info, connected, stateVars, threadVars, faults>>

\* What may not wait any longer when the clock of w is about to move on.
Timely(w) ==
    /\ pc[w] \notin {"off", "idle"} => Clock(w) < cur[w] + LockDelay
    /\ pc[w] = "idle" => Clock(w) < cur[w] + MaxInterval
    /\ isLeader[w] => EnoughTime(w, Clock(w) - CheckDelay)
    /\ chk[w] # -1 => Clock(w) < chk[w] + CheckDelay

Tick ==
    /\ now < MaxTime
    /\ \A w \in Workers : Timely(w)
    /\ now' = now + 1
    /\ UNCHANGED <<zkVars, stateVars, threadVars, faultVars>>

LockThread(w) ==
    \/ tryLock(w) \/ workLoop(w) \/ demoteInLoop(w) \/ campaignLeader(w)
    \/ lockForLease(w) \/ doCampaign(w) \/ reletLeaderTime(w)
    \/ updateLeaderInfo(w) \/ setLeader(w) \/ unlockForLease(w)
    \/ unlockRemoves(w)

Next ==
    \/ \E w \in Workers :
          \/ LockThread(w)
          \/ checkLeader(w) \/ demoteInCheck(w)
          \/ stop(w) \/ start(w)
          \/ Crash(w) \/ LoseSession(w)
    \/ ExpireLock
    \/ Tick

Spec == Init /\ [][Next]_vars

-----------------------------------------------------------------------------
(***************************************************************************)
(* Properties                                                              *)
(***************************************************************************)
\* The types of the ZooKeeper files and of a worker's fields.
TypeOK ==
    /\ now \in Nat
    /\ lease \in [end : Nat \cup {-1}, by : Workers \cup {NoOne}]
    /\ lock \in Workers \cup {NoOne, Gone}
    /\ info \in Workers \cup {NoOne}
    /\ connected \in [Workers -> BOOLEAN]
    /\ isLeader \in [Workers -> BOOLEAN]
    /\ exp \in [Workers -> Nat \cup {-1}]
    /\ nextTime \in [Workers -> Nat]
    /\ pc \in [Workers -> Steps]
    /\ cur \in [Workers -> Int]
    /\ chk \in [Workers -> Nat \cup {-1}]
    /\ faults \in Nat /\ quietSince \in Nat

\* Two workers never answer isLeader() with true at the same time, however
\* their two threads, failed calls and lost sessions interleave.
OneLeader ==
    \A v, w \in Workers : isLeader[v] /\ isLeader[w] => v = w

\* The leader info file, from which clients learn where the leader is, names
\* the worker whose isLeader() is true: updateLeaderInfo writes it before it
\* sets the flag and nobody else writes or removes it until the flag is gone.
LeaderIsPublished ==
    \A w \in Workers : isLeader[w] => info = w

\* A lease file of one worker is replaced by another's, or removed by another,
\* only after it has run out on its owner's clock, up to the skew: no
\* campaign, renewal or release of one worker takes a running lease from
\* another.
LeaseIsNotStolen ==
    [][\A v, w \in Workers :
          lease.by = v /\ v # w /\ lease' # lease /\ pc'[w] # pc[w]
             => Clock(v) + MaxSkew > lease.end]_vars

\* How long the role can be without a leader once the faults have stopped.
Outage == Lease + Half + CheckDelay + ForbidTime + MaxInterval + LockDelay + 1

\* The lock node belongs to a worker that runs, or to nobody.  stop() does not
\* close the session, so a worker that is stopped after unlockForLease failed
\* keeps the node for as long as its process lives.
LockIsInUse == lock # Gone /\ (lock \in Workers => pc[lock] # "off")

\* Some worker is leader again at most this long after the last fault: no
\* contention for the lock node, stale demotion or forbidden campaign keeps
\* the workers from electing one, as long as LockIsInUse.
OutageIsBounded ==
    (/\ now - quietSince > Outage
     /\ LockIsInUse
     /\ \E w \in Workers : pc[w] # "off")
       => \E w \in Workers : isLeader[w]

\* A leader keeps the lease: it loses the flag by being stopped, by a crash or
\* within a lease time of a fault, but never because its own check thread
\* overtakes a lock thread that renews in time.
LeaderIsStable ==
    [][\A w \in Workers :
          isLeader[w] /\ ~isLeader'[w] /\ faults' = faults
             => now - quietSince <= Lease]_vars
=============================================================================
