------------------------- MODULE LeaderElectorProofs -------------------------
(***************************************************************************)
(* At most one worker is leader, for every set of workers, every lease and *)
(* every number of faults, provided the delays fit into half a lease.      *)
(*                                                                         *)
(* OneLeader alone is not inductive: that a worker is leader says nothing  *)
(* about the lease file a second worker looks at.  WorkerInv ties the two  *)
(* together, for a leader and for every step of the lock thread that is    *)
(* about to rely on what an earlier step found out.                        *)
(***************************************************************************)
EXTENDS LeaderElector, TLAPS

\* The timing the lease relies on: a check thread that is late, a lock thread
\* that is slow and clocks that disagree fit together into half a lease.
Punctual == LockDelay + CheckDelay + MaxSkew <= Half

StopSteps == {"stop", "removeLease", "removeInfo", "unlockStop"}

WorkerInv(w) ==
    /\ pc[w] \in HoldsLock /\ connected[w] => lock = w
    /\ pc[w] \notin {"off", "idle"} =>
          cur[w] \in Nat /\ cur[w] <= Clock(w) /\ Clock(w) <= cur[w] + LockDelay
    /\ isLeader[w] =>
          /\ pc[w] # "off" /\ pc[w] \notin StopSteps
          /\ lease.by = w /\ info = w
          /\ exp[w] <= lease.end /\ exp[w] <= cur[w] + Lease
          /\ Clock(w) <= exp[w] - Half + CheckDelay
    /\ pc[w] \in {"lockHold", "reletHold"} =>
          lease.by = w /\ cur[w] + Half < lease.end
    /\ pc[w] \in {"announce", "setState"} =>
          lease.by = w /\ cur[w] + Lease <= lease.end
    /\ pc[w] = "setState" => info = w
    /\ pc[w] = "reletCampaign" /\ connected[w] =>
          lease.end < cur[w] \/ lease.by = w
    /\ pc[w] \in {"stop", "removeLease"} =>
          lease.by = w /\ cur[w] <= lease.end - Half + CheckDelay
    /\ pc[w] = "removeInfo" /\ connected[w] => lease.by \in {w, NoOne}

IInv == TypeOK /\ \A w \in Workers : WorkerInv(w)

-----------------------------------------------------------------------------
\* Half is half of Lease, rounded down.
LEMMA HalfFacts == Half \in Nat /\ 2 * Half <= Lease
  BY ElectorAssumption DEF Half

\* The delays are natural numbers.
LEMMA ConstFacts ==
  /\ Lease \in Nat /\ Interval \in Nat /\ MaxSkew \in Nat
  /\ LockDelay \in Nat /\ CheckDelay \in Nat
  /\ \A w \in Workers : Skew[w] \in Nat
  BY ElectorAssumption

\* The times a worker works with are integers.
LEMMA TimeFacts ==
  ASSUME TypeOK, NEW w \in Workers
  PROVE  now \in Nat /\ cur[w] \in Int /\ exp[w] \in Int /\ lease.end \in Int
  BY DEF TypeOK

\* Two clocks differ by at most MaxSkew.
LEMMA ClockFacts ==
  ASSUME now \in Nat
  PROVE  \A v, w \in Workers : /\ Clock(v) \in Nat
                               /\ Clock(w) <= Clock(v) + MaxSkew
  BY ElectorAssumption DEF Clock

\* The invariant holds at the start: every worker is idle and none is leader.
LEMMA InitInv == Init => IInv
  <1> SUFFICES ASSUME Init PROVE IInv
    OBVIOUS
  <1>1. TypeOK
    BY ElectorAssumption DEF Init, TypeOK, NoLease, Steps, LockSteps, HoldsLock
  <1>2. ASSUME NEW w \in Workers PROVE WorkerInv(w)
    BY DEF Init, WorkerInv, HoldsLock, StopSteps
  <1> QED
    BY <1>1, <1>2 DEF IInv

\* OneLeader and LeaderIsPublished follow: the lease file names one worker.
LEMMA InvImplies == IInv => OneLeader /\ LeaderIsPublished
  BY DEF IInv, WorkerInv, OneLeader, LeaderIsPublished

\* A worker whose own state, lock, lease and leader info a step leaves alone
\* keeps its invariant.
LEMMA Frame ==
  ASSUME NEW w \in Workers, WorkerInv(w),
         pc'[w] = pc[w], cur'[w] = cur[w], isLeader'[w] = isLeader[w],
         exp'[w] = exp[w], connected'[w] = connected[w],
         UNCHANGED <<now, lease, info>>, lock' = lock \/ lock # w
  PROVE  WorkerInv(w)'
  BY DEF WorkerInv, Clock

\* tryLock reads the clock, so its loop starts with a time that is right.
LEMMA TryLockInv ==
  ASSUME IInv, Punctual, NEW u \in Workers, tryLock(u)
  PROVE  IInv'
  <1> USE DEF Goto
  <1>0. TypeOK /\ WorkerInv(u)
    BY DEF IInv
  <1>1. TypeOK'
    BY <1>0, ClockFacts, ElectorAssumption
       DEF TypeOK, tryLock, zkVars, stateVars, faultVars, Steps, LockSteps,
           HoldsLock
  <1>2. ASSUME NEW w \in Workers, w # u PROVE WorkerInv(w)'
    <2>1. UNCHANGED <<now, lease, info>> /\ (lock' = lock \/ lock # w)
      BY <1>2
         DEF tryLock, zkVars, stateVars, faultVars
    <2>2. /\ pc'[w] = pc[w] /\ cur'[w] = cur[w] /\ isLeader'[w] = isLeader[w]
          /\ exp'[w] = exp[w] /\ connected'[w] = connected[w]
      BY <1>0, <1>2
         DEF TypeOK, tryLock, zkVars, stateVars, faultVars
    <2> QED
      BY <2>1, <2>2, Frame DEF IInv
  <1>3. WorkerInv(u)'
    BY <1>0, ClockFacts, HalfFacts, ConstFacts
       DEF WorkerInv, TypeOK, tryLock, Clock, zkVars, stateVars, faultVars,
           StopSteps, HoldsLock
  <1> QED
    BY <1>1, <1>2, <1>3 DEF IInv

\* holdLeader goes on only with more than half of the lease left.
LEMMA WorkLoopInv ==
  ASSUME IInv, Punctual, NEW u \in Workers, workLoop(u)
  PROVE  IInv'
  <1> USE DEF Goto
  <1>0. TypeOK /\ WorkerInv(u)
    BY DEF IInv
  <1>1. TypeOK'
    <2>1. pc' \in [Workers -> Steps]
      BY DEF IInv, TypeOK, workLoop, EnoughTime, Steps, LockSteps, HoldsLock
    <2>2. /\ isLeader' \in [Workers -> BOOLEAN] /\ connected' \in [Workers -> BOOLEAN]
          /\ lock' \in Workers \cup {NoOne, Gone}
      BY Zenon DEF IInv, TypeOK, workLoop, zkVars, stateVars, threadVars, faultVars
    <2>3. faults' \in Nat /\ quietSince' \in Nat
      BY DEF IInv, TypeOK, workLoop, Fault, NoFault, CallFails, zkVars, stateVars, threadVars, faultVars
    <2> QED
      BY <2>1, <2>2, <2>3, ClockFacts DEF IInv, TypeOK, workLoop, zkVars, stateVars, threadVars, faultVars
  <1>2. ASSUME NEW w \in Workers, w # u PROVE WorkerInv(w)'
    <2>1. UNCHANGED <<now, lease, info>> /\ (lock' = lock \/ lock # w)
      BY <1>2
         DEF workLoop, NoFault, Fault, stateVars, faultVars
    <2>2. /\ pc'[w] = pc[w] /\ cur'[w] = cur[w] /\ isLeader'[w] = isLeader[w]
          /\ exp'[w] = exp[w] /\ connected'[w] = connected[w]
      BY <1>0, <1>2
         DEF TypeOK, workLoop, NoFault, Fault, stateVars, faultVars
    <2> QED
      BY <2>1, <2>2, Frame DEF IInv
  <1>3. WorkerInv(u)'
    BY <1>0, ClockFacts, HalfFacts, ConstFacts
       DEF WorkerInv, TypeOK, workLoop, EnoughTime, NoFault, Fault, stateVars,
           faultVars, StopSteps, Clock, HoldsLock
  <1> QED
    BY <1>1, <1>2, <1>3 DEF IInv

\* A lock thread that gives up is no longer leader.
LEMMA DemoteInLoopInv ==
  ASSUME IInv, Punctual, NEW u \in Workers, demoteInLoop(u)
  PROVE  IInv'
  <1> USE DEF Goto
  <1>0. TypeOK /\ WorkerInv(u)
    BY DEF IInv
  <1>1. TypeOK'
    BY <1>0, ClockFacts, ElectorAssumption
       DEF TypeOK, WorkerInv, demoteInLoop, Demote, zkVars, faultVars,
           SetState, Steps, LockSteps, HoldsLock
  <1>2. ASSUME NEW w \in Workers, w # u PROVE WorkerInv(w)'
    <2>1. UNCHANGED <<now, lease, info>> /\ (lock' = lock \/ lock # w)
      BY <1>2
         DEF demoteInLoop, Demote, zkVars, faultVars, SetState
    <2>2. /\ pc'[w] = pc[w] /\ cur'[w] = cur[w] /\ isLeader'[w] = isLeader[w]
          /\ exp'[w] = exp[w] /\ connected'[w] = connected[w]
      BY <1>0, <1>2
         DEF TypeOK, demoteInLoop, Demote, zkVars, faultVars, SetState
    <2> QED
      BY <2>1, <2>2, Frame DEF IInv
  <1>3. WorkerInv(u)'
    BY <1>0
       DEF WorkerInv, TypeOK, demoteInLoop, Demote, zkVars, faultVars,
           SetState, StopSteps, Clock, HoldsLock
  <1> QED
    BY <1>1, <1>2, <1>3 DEF IInv

\* The first read of the lease promises nothing.
LEMMA CampaignLeaderInv ==
  ASSUME IInv, Punctual, NEW u \in Workers, campaignLeader(u)
  PROVE  IInv'
  <1> USE DEF Goto
  <1>0. TypeOK /\ WorkerInv(u)
    BY DEF IInv
  <1>1. TypeOK'
    BY <1>0
       DEF TypeOK, campaignLeader, NoFault, CallFails, zkVars, stateVars,
           faultVars, Fault, Steps, LockSteps, HoldsLock
  <1>2. ASSUME NEW w \in Workers, w # u PROVE WorkerInv(w)'
    <2>1. UNCHANGED <<now, lease, info>> /\ (lock' = lock \/ lock # w)
      BY <1>2
         DEF campaignLeader, NoFault, CallFails, zkVars, stateVars, faultVars,
             Fault
    <2>2. /\ pc'[w] = pc[w] /\ cur'[w] = cur[w] /\ isLeader'[w] = isLeader[w]
          /\ exp'[w] = exp[w] /\ connected'[w] = connected[w]
      BY <1>0, <1>2
         DEF TypeOK, campaignLeader, NoFault, CallFails, zkVars, stateVars,
             faultVars, Fault
    <2> QED
      BY <2>1, <2>2, Frame DEF IInv
  <1>3. WorkerInv(u)'
    BY <1>0
       DEF WorkerInv, TypeOK, campaignLeader, MayCampaign, NoFault, CallFails,
           zkVars, stateVars, progressKeyEqual, faultVars, Fault, StopSteps,
           Clock, HoldsLock
  <1> QED
    BY <1>1, <1>2, <1>3 DEF IInv

\* The lock is taken when it is free and lost with the session.
LEMMA LockForLeaseInv ==
  ASSUME IInv, Punctual, NEW u \in Workers, lockForLease(u)
  PROVE  IInv'
  <1> USE DEF Goto
  <1>0. TypeOK /\ WorkerInv(u)
    BY DEF IInv
  <1>1. TypeOK'
    <2>1. pc' \in [Workers -> Steps]
      BY DEF IInv, TypeOK, lockForLease, Steps, LockSteps, HoldsLock
    <2>2. /\ isLeader' \in [Workers -> BOOLEAN] /\ connected' \in [Workers -> BOOLEAN]
          /\ lock' \in Workers \cup {NoOne, Gone}
      BY Zenon DEF IInv, TypeOK, lockForLease, EndSession, zkVars, stateVars, threadVars, faultVars
    <2>3. faults' \in Nat /\ quietSince' \in Nat
      BY DEF IInv, TypeOK, lockForLease, Fault, NoFault, CallFails, zkVars, stateVars, threadVars, faultVars
    <2> QED
      BY <2>1, <2>2, <2>3, ClockFacts DEF IInv, TypeOK, lockForLease, EndSession, zkVars, stateVars, threadVars, faultVars
  <1>2. ASSUME NEW w \in Workers, w # u PROVE WorkerInv(w)'
    <2>1. UNCHANGED <<now, lease, info>> /\ (lock' = lock \/ lock # w)
      BY <1>2, ElectorAssumption
         DEF lockForLease, stop, NoFault, CallFails, EndSession, stateVars,
             Fault, SetState, zkVars, faultVars
    <2>2. /\ pc'[w] = pc[w] /\ cur'[w] = cur[w] /\ isLeader'[w] = isLeader[w]
          /\ exp'[w] = exp[w] /\ connected'[w] = connected[w]
      BY <1>0, <1>2
         DEF TypeOK, lockForLease, stop, NoFault, CallFails, EndSession,
             stateVars, Fault, SetState, zkVars, faultVars
    <2> QED
      BY <2>1, <2>2, Frame DEF IInv
  <1>3. WorkerInv(u)'
    BY <1>0
       DEF WorkerInv, TypeOK, lockForLease, LockSteps, stop, NoFault,
           CallFails, EndSession, stateVars, Fault, SetState, Clock, zkVars,
           faultVars, StopSteps, HoldsLock
  <1> QED
    BY <1>1, <1>2, <1>3 DEF IInv

\* The double check in the lock finds a lease that is over or its own.
LEMMA DoCampaignInv ==
  ASSUME IInv, Punctual, NEW u \in Workers, doCampaign(u)
  PROVE  IInv'
  <1> USE DEF Goto
  <1>0. TypeOK /\ WorkerInv(u)
    BY DEF IInv
  <1>1. TypeOK'
    BY <1>0
       DEF TypeOK, doCampaign, NoFault, CallFails, zkVars, stateVars,
           faultVars, Fault, Steps, LockSteps, HoldsLock
  <1>2. ASSUME NEW w \in Workers, w # u PROVE WorkerInv(w)'
    <2>1. UNCHANGED <<now, lease, info>> /\ (lock' = lock \/ lock # w)
      BY <1>2
         DEF doCampaign, NoFault, CallFails, zkVars, stateVars, faultVars,
             Fault
    <2>2. /\ pc'[w] = pc[w] /\ cur'[w] = cur[w] /\ isLeader'[w] = isLeader[w]
          /\ exp'[w] = exp[w] /\ connected'[w] = connected[w]
      BY <1>0, <1>2
         DEF TypeOK, doCampaign, NoFault, CallFails, zkVars, stateVars,
             faultVars, Fault
    <2> QED
      BY <2>1, <2>2, Frame DEF IInv
  <1>3. WorkerInv(u)'
    BY <1>0
       DEF WorkerInv, TypeOK, doCampaign, MayCampaign, NoFault, CallFails,
           zkVars, stateVars, progressKeyEqual, faultVars, Fault, StopSteps,
           Clock, HoldsLock
  <1> QED
    BY <1>1, <1>2, <1>3 DEF IInv

\* Only the holder of the lock removes it.
LEMMA UnlockForLeaseInv ==
  ASSUME IInv, Punctual, NEW u \in Workers, unlockForLease(u)
  PROVE  IInv'
  <1> USE DEF Goto
  <1>0. TypeOK /\ WorkerInv(u)
    BY DEF IInv
  <1>1. TypeOK'
    BY <1>0
       DEF TypeOK, unlockForLease, NoFault, CallFails, stateVars, faultVars,
           Fault, Steps, LockSteps, HoldsLock
  <1>2. ASSUME NEW w \in Workers, w # u PROVE WorkerInv(w)'
    <2>1. UNCHANGED <<now, lease, info>> /\ (lock' = lock \/ lock # w)
      BY <1>2
         DEF unlockForLease, NoFault, CallFails, stateVars, faultVars, Fault,
             IInv, WorkerInv, HoldsLock
    <2>2. /\ pc'[w] = pc[w] /\ cur'[w] = cur[w] /\ isLeader'[w] = isLeader[w]
          /\ exp'[w] = exp[w] /\ connected'[w] = connected[w]
      BY <1>0, <1>2
         DEF TypeOK, unlockForLease, NoFault, CallFails, stateVars, faultVars,
             Fault
    <2> QED
      BY <2>1, <2>2, Frame DEF IInv
  <1>3. WorkerInv(u)'
    BY <1>0
       DEF WorkerInv, TypeOK, unlockForLease, NoFault, CallFails, stateVars,
           faultVars, Fault, StopSteps, Clock, HoldsLock
  <1> QED
    BY <1>1, <1>2, <1>3 DEF IInv

\* Reading the state changes nothing.
LEMMA CheckLeaderInv ==
  ASSUME IInv, Punctual, NEW u \in Workers, checkLeader(u)
  PROVE  IInv'
  <1> USE DEF Goto
  <1>0. TypeOK /\ WorkerInv(u)
    BY DEF IInv
  <1>1. TypeOK'
    BY <1>0, ClockFacts, ElectorAssumption
       DEF TypeOK, checkLeader, stop, zkVars, stateVars, faultVars, Fault,
           SetState, Steps, LockSteps, HoldsLock
  <1>2. ASSUME NEW w \in Workers, w # u PROVE WorkerInv(w)'
    <2>1. UNCHANGED <<now, lease, info>> /\ (lock' = lock \/ lock # w)
      BY <1>2
         DEF checkLeader, stop, zkVars, stateVars, faultVars, Fault, SetState
    <2>2. /\ pc'[w] = pc[w] /\ cur'[w] = cur[w] /\ isLeader'[w] = isLeader[w]
          /\ exp'[w] = exp[w] /\ connected'[w] = connected[w]
      BY <1>0, <1>2
         DEF TypeOK, checkLeader, stop, zkVars, stateVars, faultVars, Fault,
             SetState
    <2> QED
      BY <2>1, <2>2, Frame DEF IInv
  <1>3. WorkerInv(u)'
    BY <1>0
       DEF WorkerInv, TypeOK, checkLeader, stop, EnoughTime, Clock, zkVars,
           stateVars, faultVars, Fault, SetState, StopSteps, HoldsLock
  <1> QED
    BY <1>1, <1>2, <1>3 DEF IInv

\* A check thread that gives up leaves no leader behind.
LEMMA DemoteInCheckInv ==
  ASSUME IInv, Punctual, NEW u \in Workers, demoteInCheck(u)
  PROVE  IInv'
  <1> USE DEF Goto
  <1>0. TypeOK /\ WorkerInv(u)
    BY DEF IInv
  <1>1. TypeOK'
    BY <1>0, ClockFacts, ElectorAssumption
       DEF TypeOK, demoteInCheck, Demote, zkVars, faultVars, SetState, Steps,
           LockSteps, HoldsLock
  <1>2. ASSUME NEW w \in Workers, w # u PROVE WorkerInv(w)'
    <2>1. UNCHANGED <<now, lease, info>> /\ (lock' = lock \/ lock # w)
      BY <1>2
         DEF demoteInCheck, Demote, zkVars, faultVars, SetState
    <2>2. /\ pc'[w] = pc[w] /\ cur'[w] = cur[w] /\ isLeader'[w] = isLeader[w]
          /\ exp'[w] = exp[w] /\ connected'[w] = connected[w]
      BY <1>0, <1>2
         DEF TypeOK, demoteInCheck, Demote, zkVars, faultVars, SetState
    <2> QED
      BY <2>1, <2>2, Frame DEF IInv
  <1>3. WorkerInv(u)'
    BY <1>0
       DEF WorkerInv, TypeOK, demoteInCheck, Demote, zkVars, faultVars,
           SetState, StopSteps, Clock, HoldsLock
  <1> QED
    BY <1>1, <1>2, <1>3 DEF IInv

\* stop() begins with a lease that has almost half its time left.
LEMMA StopInv ==
  ASSUME IInv, Punctual, NEW u \in Workers, stop(u)
  PROVE  IInv'
  <1> USE DEF Goto
  <1>0. TypeOK /\ WorkerInv(u)
    BY DEF IInv
  <1>1. TypeOK'
    <2>1. pc' \in [Workers -> Steps]
      <3>1. \E step \in {"stop", "off"} : pc' = [pc EXCEPT ![u] = step]
        BY Zenon DEF stop
      <3> QED
        BY <3>1 DEF IInv, TypeOK, Steps, LockSteps
    <2>2. /\ isLeader' \in [Workers -> BOOLEAN] /\ connected' \in [Workers -> BOOLEAN]
          /\ lock' \in Workers \cup {NoOne, Gone}
      BY Zenon DEF IInv, TypeOK, stop, SetState, zkVars, stateVars, threadVars, faultVars
    <2>3. faults' \in Nat /\ quietSince' \in Nat
      BY DEF IInv, TypeOK, stop, Fault, NoFault, CallFails, zkVars, stateVars, threadVars, faultVars
    <2> QED
      BY <2>1, <2>2, <2>3, ClockFacts DEF IInv, TypeOK, stop, SetState, zkVars, stateVars, threadVars, faultVars
  <1>2. ASSUME NEW w \in Workers, w # u PROVE WorkerInv(w)'
    <2>1. UNCHANGED <<now, lease, info>> /\ (lock' = lock \/ lock # w)
      BY <1>2
         DEF stop, Fault, SetState, zkVars
    <2>2. /\ pc'[w] = pc[w] /\ cur'[w] = cur[w] /\ isLeader'[w] = isLeader[w]
          /\ exp'[w] = exp[w] /\ connected'[w] = connected[w]
      BY <1>0, <1>2
         DEF TypeOK, stop, Fault, SetState, zkVars
    <2> QED
      BY <2>1, <2>2, Frame DEF IInv
  <1>3. WorkerInv(u)'
    BY <1>0, ClockFacts, HalfFacts, ConstFacts
       DEF WorkerInv, TypeOK, stop, Fault, SetState, Clock, zkVars, StopSteps,
           HoldsLock
  <1> QED
    BY <1>1, <1>2, <1>3 DEF IInv

\* A worker that starts is a follower.
LEMMA StartInv ==
  ASSUME IInv, Punctual, NEW u \in Workers, start(u)
  PROVE  IInv'
  <1> USE DEF Goto
  <1>0. TypeOK /\ WorkerInv(u)
    BY DEF IInv
  <1>1. TypeOK'
    BY <1>0, ClockFacts, ElectorAssumption
       DEF TypeOK, start, zkVars, stateVars, Steps, LockSteps, HoldsLock
  <1>2. ASSUME NEW w \in Workers, w # u PROVE WorkerInv(w)'
    <2>1. UNCHANGED <<now, lease, info>> /\ (lock' = lock \/ lock # w)
      BY <1>2
         DEF start, zkVars, stateVars
    <2>2. /\ pc'[w] = pc[w] /\ cur'[w] = cur[w] /\ isLeader'[w] = isLeader[w]
          /\ exp'[w] = exp[w] /\ connected'[w] = connected[w]
      BY <1>0, <1>2
         DEF TypeOK, start, zkVars, stateVars
    <2> QED
      BY <2>1, <2>2, Frame DEF IInv
  <1>3. WorkerInv(u)'
    BY <1>0
       DEF WorkerInv, TypeOK, start, Clock, zkVars, stateVars, StopSteps,
           HoldsLock
  <1> QED
    BY <1>1, <1>2, <1>3 DEF IInv

\* A worker that crashed is a follower.
LEMMA CrashInv ==
  ASSUME IInv, Punctual, NEW u \in Workers, Crash(u)
  PROVE  IInv'
  <1> USE DEF Goto
  <1>0. TypeOK /\ WorkerInv(u)
    BY DEF IInv
  <1>1. TypeOK'
    BY <1>0
       DEF TypeOK, Crash, Fault, EndSession, SetState, Steps, LockSteps,
           HoldsLock
  <1>2. ASSUME NEW w \in Workers, w # u PROVE WorkerInv(w)'
    <2>1. UNCHANGED <<now, lease, info>> /\ (lock' = lock \/ lock # w)
      BY <1>2
         DEF Crash, Fault, EndSession, SetState
    <2>2. /\ pc'[w] = pc[w] /\ cur'[w] = cur[w] /\ isLeader'[w] = isLeader[w]
          /\ exp'[w] = exp[w] /\ connected'[w] = connected[w]
      BY <1>0, <1>2
         DEF TypeOK, Crash, Fault, EndSession, SetState
    <2> QED
      BY <2>1, <2>2, Frame DEF IInv
  <1>3. WorkerInv(u)'
    BY <1>0
       DEF WorkerInv, TypeOK, Crash, Fault, EndSession, SetState, StopSteps,
           Clock, HoldsLock
  <1> QED
    BY <1>1, <1>2, <1>3 DEF IInv

\* A lost session loses the lock.
LEMMA LoseSessionInv ==
  ASSUME IInv, Punctual, NEW u \in Workers, LoseSession(u)
  PROVE  IInv'
  <1> USE DEF Goto
  <1>0. TypeOK /\ WorkerInv(u)
    BY DEF IInv
  <1>1. TypeOK'
    BY <1>0
       DEF TypeOK, LoseSession, Fault, EndSession, stateVars, threadVars,
           Steps, LockSteps, HoldsLock
  <1>2. ASSUME NEW w \in Workers, w # u PROVE WorkerInv(w)'
    <2>1. UNCHANGED <<now, lease, info>> /\ (lock' = lock \/ lock # w)
      BY <1>2
         DEF LoseSession, Fault, EndSession, stateVars, threadVars
    <2>2. /\ pc'[w] = pc[w] /\ cur'[w] = cur[w] /\ isLeader'[w] = isLeader[w]
          /\ exp'[w] = exp[w] /\ connected'[w] = connected[w]
      BY <1>0, <1>2
         DEF TypeOK, LoseSession, Fault, EndSession, stateVars, threadVars
    <2> QED
      BY <2>1, <2>2, Frame DEF IInv
  <1>3. WorkerInv(u)'
    BY <1>0
       DEF WorkerInv, TypeOK, LoseSession, Fault, EndSession, stateVars,
           threadVars, StopSteps, Clock, HoldsLock
  <1> QED
    BY <1>1, <1>2, <1>3 DEF IInv

-----------------------------------------------------------------------------
\* Where the argument is: while another worker v is leader, renews, announces
\* or releases its lease, no clock shows a time after the end of that lease,
\* so a worker that may write the lease found its own.
LEMMA NoTakeOver ==
  ASSUME IInv, Punctual, NEW u \in Workers, NEW v \in Workers, u # v,
         connected[u], pc[u] \in {"reletCampaign", "reletHold", "removeLease"},
         lease.by = v
  PROVE  /\ ~isLeader[v]
         /\ pc[v] \notin {"lockHold", "reletHold", "announce", "setState",
                          "stop", "removeLease"}
  <1>1. pc[u] = "reletCampaign" /\ lease.end < cur[u]
    BY DEF IInv, WorkerInv
  <1>2. lease.end < Clock(v) + MaxSkew
    BY <1>1, ClockFacts, ElectorAssumption DEF IInv, TypeOK, WorkerInv
  <1>3. /\ Clock(v) \in Nat /\ lease.end \in Int /\ exp[v] \in Int
        /\ cur[v] \in Int /\ LockDelay \in Nat /\ CheckDelay \in Nat
        /\ MaxSkew \in Nat /\ Lease \in Nat
    BY TimeFacts, ClockFacts, ConstFacts DEF IInv
  <1>4. ~isLeader[v]
    BY <1>2, <1>3, HalfFacts DEF IInv, WorkerInv, Punctual
  <1>5. pc[v] \notin {"lockHold", "reletHold"}
    BY <1>2, <1>3, HalfFacts DEF IInv, WorkerInv, Punctual
  <1>6. pc[v] \notin {"announce", "setState"}
    BY <1>2, <1>3, HalfFacts DEF IInv, WorkerInv, Punctual
  <1>7. pc[v] \notin {"stop", "removeLease"}
    BY <1>2, <1>3, HalfFacts DEF IInv, WorkerInv, Punctual
  <1> QED
    BY <1>4, <1>5, <1>6, <1>7

\* Writing the lease file takes it from no worker that relies on it.
LEMMA ReletLeaderTimeInv ==
  ASSUME IInv, Punctual, NEW u \in Workers, reletLeaderTime(u)
  PROVE  IInv'
  <1> USE DEF Goto
  <1>a. WorkerInv(u) /\ pc[u] \in {"reletCampaign", "reletHold"}
    BY DEF IInv, reletLeaderTime
  <1>0. cur[u] \in Nat /\ Lease \in Nat /\ cur[u] + Lease \in Nat
    BY <1>a, ConstFacts DEF WorkerInv
  <1>1. TypeOK'
    <2>1. pc' \in [Workers -> Steps]
      BY DEF IInv, TypeOK, reletLeaderTime, Steps, LockSteps, HoldsLock
    <2>2. lease' \in [end : Nat \cup {-1}, by : Workers \cup {NoOne}]
      BY <1>0 DEF IInv, TypeOK, reletLeaderTime
    <2>3. faults' \in Nat /\ quietSince' \in Nat
      BY DEF IInv, TypeOK, reletLeaderTime, Fault, NoFault, CallFails, faultVars
    <2> QED
      BY <2>1, <2>2, <2>3 DEF IInv, TypeOK, reletLeaderTime, stateVars
  <1>2. ASSUME NEW w \in Workers, w # u PROVE WorkerInv(w)'
    <2>1. /\ pc'[w] = pc[w] /\ cur'[w] = cur[w] /\ isLeader'[w] = isLeader[w]
          /\ exp'[w] = exp[w] /\ connected'[w] = connected[w]
          /\ now' = now /\ info' = info /\ lock' = lock
      BY <1>2 DEF reletLeaderTime, stateVars, IInv, TypeOK
    <2>2. CASE lease' = lease
      BY <2>1, <2>2, Frame DEF IInv
    <2>3. CASE lease' # lease
      <3>1. connected[u] /\ lease' = [end |-> cur[u] + Lease, by |-> u]
        BY <2>3 DEF reletLeaderTime
      <3>2. ~(pc[w] \in HoldsLock /\ connected[w])
        BY <1>2, <3>1 DEF IInv, WorkerInv, HoldsLock, reletLeaderTime
      <3>3. /\ ~isLeader[w]
            /\ pc[w] \notin {"lockHold", "reletHold", "announce", "setState",
                             "stop", "removeLease"}
        <4>1. CASE lease.by = w
          BY <4>1, <1>2, <3>1, NoTakeOver DEF reletLeaderTime
        <4>2. CASE lease.by # w
          BY <4>2 DEF IInv, WorkerInv
        <4> QED
          BY <4>1, <4>2
      <3> QED
        BY <2>1, <3>2, <3>3 DEF IInv, WorkerInv, HoldsLock, Clock
    <2> QED
      BY <2>2, <2>3
  <1>3. WorkerInv(u)'
    <2>1. /\ pc'[u] \in {"announce", "unlock"}
          /\ UNCHANGED <<now, cur, isLeader, exp, connected, lock, info>>
      BY DEF reletLeaderTime, stateVars, IInv, TypeOK
    <2>2. \/ lease' = [end |-> cur[u] + Lease, by |-> u]
          \/ lease' = lease /\ pc'[u] = "unlock"
      BY DEF reletLeaderTime, IInv, TypeOK
    <2>3. pc[u] \in HoldsLock /\ pc[u] \notin {"off", "idle"}
      BY DEF reletLeaderTime, HoldsLock
    <2>4. exp[u] \in Int
      BY DEF IInv, TypeOK
    <2> QED
      BY <1>a, <1>0, <2>1, <2>2, <2>3, <2>4 DEF WorkerInv, StopSteps, Clock, HoldsLock
  <1> QED
    BY <1>1, <1>2, <1>3 DEF IInv

\* The leader info is written by the worker the lease file names; nobody else
\* is leader or about to become it then.
LEMMA UpdateLeaderInfoInv ==
  ASSUME IInv, Punctual, NEW u \in Workers, updateLeaderInfo(u)
  PROVE  IInv'
  <1> USE DEF Goto
  <1>0. WorkerInv(u) /\ pc[u] = "announce" /\ lease.by = u
    BY DEF IInv, WorkerInv, updateLeaderInfo
  <1>1. TypeOK'
    <2>1. pc' \in [Workers -> Steps] /\ info' \in Workers \cup {NoOne}
      BY DEF IInv, TypeOK, updateLeaderInfo, Steps, LockSteps, HoldsLock
    <2>2. faults' \in Nat /\ quietSince' \in Nat
      <3>1. NoFault \/ CallFails(u)
        BY DEF updateLeaderInfo
      <3> QED
        BY <3>1 DEF IInv, TypeOK, Fault, NoFault, CallFails, faultVars
    <2> QED
      BY <2>1, <2>2 DEF IInv, TypeOK, updateLeaderInfo, stateVars
  <1>2. ASSUME NEW w \in Workers, w # u PROVE WorkerInv(w)'
    <2>1. /\ pc'[w] = pc[w] /\ cur'[w] = cur[w] /\ isLeader'[w] = isLeader[w]
          /\ exp'[w] = exp[w] /\ connected'[w] = connected[w]
          /\ now' = now /\ lease' = lease /\ lock' = lock
      BY <1>2 DEF updateLeaderInfo, stateVars, IInv, TypeOK
    <2>2. ~isLeader[w] /\ pc[w] # "setState"
      BY <1>0, <1>2 DEF IInv, WorkerInv
    <2> QED
      BY <2>1, <2>2 DEF IInv, WorkerInv, Clock
  <1>3. WorkerInv(u)'
    <2>1. /\ pc'[u] \in {"setState", "unlock"}
          /\ UNCHANGED <<now, lease, lock, connected, cur, isLeader, exp>>
      BY DEF updateLeaderInfo, stateVars, IInv, TypeOK
    <2>2. pc'[u] = "setState" \/ isLeader[u] => info' = u
      BY <1>0 DEF updateLeaderInfo, WorkerInv, IInv, TypeOK
    <2> QED
      BY <1>0, <2>1, <2>2 DEF WorkerInv, StopSteps, Clock, HoldsLock
  <1> QED
    BY <1>1, <1>2, <1>3 DEF IInv

\* A worker sets the flag while the lease file names it and has more than half
\* its time left; nobody else is leader then.
LEMMA SetLeaderInv ==
  ASSUME IInv, Punctual, NEW u \in Workers, setLeader(u)
  PROVE  IInv'
  <1> USE DEF Goto
  <1>0. /\ cur[u] \in Nat /\ Lease \in Nat /\ cur[u] + Lease \in Nat
        /\ lease.by = u /\ cur[u] + Lease <= lease.end /\ info = u
        /\ Clock(u) <= cur[u] + LockDelay
    <2>1. WorkerInv(u) /\ pc[u] = "setState"
      BY DEF IInv, setLeader
    <2> QED
      BY <2>1, ConstFacts DEF WorkerInv
  <1>1. TypeOK'
    <2>1. pc' \in [Workers -> Steps] /\ isLeader' \in [Workers -> BOOLEAN]
      BY DEF IInv, TypeOK, setLeader, SetState, Steps, LockSteps, HoldsLock
    <2>2. exp' \in [Workers -> Nat \cup {-1}]
      BY <1>0 DEF IInv, TypeOK, setLeader, SetState
    <2> QED
      BY <2>1, <2>2 DEF IInv, TypeOK, setLeader, zkVars, faultVars
  <1>2. ASSUME NEW w \in Workers, w # u PROVE WorkerInv(w)'
    <2>1. UNCHANGED <<now, lease, info, lock>>
      BY DEF setLeader, zkVars
    <2>2. /\ pc'[w] = pc[w] /\ cur'[w] = cur[w] /\ isLeader'[w] = isLeader[w]
          /\ exp'[w] = exp[w] /\ connected'[w] = connected[w]
      BY <1>2 DEF setLeader, SetState, zkVars, IInv, TypeOK
    <2> QED
      BY <2>1, <2>2, Frame DEF IInv
  <1>3. WorkerInv(u)'
    <2>1. /\ pc'[u] = "unlock" /\ pc[u] \in HoldsLock
          /\ UNCHANGED <<now, lease, lock, connected, cur, info>>
      BY DEF setLeader, zkVars, HoldsLock, IInv, TypeOK
    <2>2. isLeader'[u] /\ exp'[u] = cur[u] + Lease
      BY DEF setLeader, SetState, IInv, TypeOK
    <2>3. Clock(u) <= cur[u] + Lease - Half + CheckDelay
      <3>1. Clock(u) \in Nat /\ LockDelay \in Nat /\ CheckDelay \in Nat
        BY ClockFacts, ElectorAssumption DEF IInv, TypeOK
      <3>2. LockDelay <= Half
        BY <3>1, HalfFacts, ElectorAssumption DEF Punctual
      <3> QED
        BY <1>0, <3>1, <3>2, HalfFacts
    <2>4. Clock(u)' = Clock(u) /\ cur[u] <= Clock(u)
      BY <2>1 DEF IInv, WorkerInv, HoldsLock, Clock
    <2>5. isLeader'[u] => /\ exp'[u] <= lease'.end /\ exp'[u] <= cur'[u] + Lease
                          /\ Clock(u)' <= exp'[u] - Half + CheckDelay
      <3> SUFFICES ASSUME isLeader'[u]
                   PROVE  /\ exp'[u] <= lease'.end /\ exp'[u] <= cur'[u] + Lease
                          /\ Clock(u)' <= exp'[u] - Half + CheckDelay
        OBVIOUS
      <3>1. exp'[u] = cur[u] + Lease
        BY <2>2
      <3>2. lease' = lease /\ cur' = cur
        BY <2>1
      <3>3. exp'[u] <= lease'.end /\ exp'[u] <= cur'[u] + Lease
        BY <1>0, <3>1, <3>2
      <3>4. Clock(u)' <= exp'[u] - Half + CheckDelay
        BY <1>0, <2>3, <2>4, <3>1, HalfFacts, ElectorAssumption
      <3> QED
        BY <3>3, <3>4
    <2>6. pc'[u] \in HoldsLock /\ connected'[u] => lock' = u
      BY <2>1 DEF IInv, WorkerInv
    <2> QED
      BY <1>0, <2>1, <2>2, <2>4, <2>5, <2>6 DEF WorkerInv, StopSteps
  <1> QED
    BY <1>1, <1>2, <1>3 DEF IInv

\* A worker that stops removes its own lease, and the leader info while nobody
\* else is leader.
LEMMA UnlockRemovesInv ==
  ASSUME IInv, Punctual, NEW u \in Workers, unlockRemoves(u)
  PROVE  IInv'
  <1> USE DEF Goto
  <1>1. TypeOK'
    <2>1. pc' \in [Workers -> Steps]
      BY DEF IInv, TypeOK, unlockRemoves, Steps, LockSteps, HoldsLock
    <2>2. /\ lease' \in [end : Nat \cup {-1}, by : Workers \cup {NoOne}]
          /\ info' \in Workers \cup {NoOne}
      BY DEF IInv, TypeOK, unlockRemoves, NoLease
    <2>3. faults' \in Nat /\ quietSince' \in Nat
      BY DEF IInv, TypeOK, unlockRemoves, Fault, NoFault, CallFails, faultVars
    <2> QED
      BY <2>1, <2>2, <2>3 DEF IInv, TypeOK, unlockRemoves, stateVars
  <1>2. ASSUME NEW w \in Workers, w # u PROVE WorkerInv(w)'
    <2>1. /\ pc'[w] = pc[w] /\ cur'[w] = cur[w] /\ isLeader'[w] = isLeader[w]
          /\ exp'[w] = exp[w] /\ connected'[w] = connected[w]
          /\ now' = now /\ lock' = lock
      BY <1>2 DEF unlockRemoves, stateVars, IInv, TypeOK
    <2>2. CASE UNCHANGED <<lease, info>>
      BY <2>1, <2>2, Frame DEF IInv
    <2>3. CASE ~UNCHANGED <<lease, info>>
      <3>1. connected[u] /\ pc[u] \in HoldsLock
        BY <2>3 DEF unlockRemoves, HoldsLock
      <3>2. ~(pc[w] \in HoldsLock /\ connected[w])
        BY <1>2, <3>1 DEF IInv, WorkerInv
      <3>3. lease.by # w
        BY <1>2, <3>1, ElectorAssumption DEF IInv, WorkerInv, unlockRemoves
      <3> QED
        BY <2>1, <3>2, <3>3 DEF IInv, WorkerInv, HoldsLock, Clock
    <2> QED
      BY <2>2, <2>3
  <1>3. WorkerInv(u)'
    <2>1. /\ pc'[u] = IF pc[u] = "removeLease" THEN "removeInfo" ELSE "unlockStop"
          /\ pc[u] \in {"removeLease", "removeInfo"}
          /\ UNCHANGED <<now, cur, isLeader, exp, connected, lock>>
      BY DEF unlockRemoves, stateVars, IInv, TypeOK
    <2>2. lease' = lease \/ lease'.by = NoOne
      <3>1. lease' = lease \/ lease' = NoLease
        BY DEF unlockRemoves
      <3> QED
        BY <3>1 DEF NoLease
    <2>3. WorkerInv(u)
      BY DEF IInv
    <2> QED
      BY <2>1, <2>2, <2>3 DEF WorkerInv, StopSteps, Clock, HoldsLock
  <1> QED
    BY <1>1, <1>2, <1>3 DEF IInv

\* The lock node of a session that is gone protected nobody.
LEMMA ExpireLockInv ==
  ASSUME IInv, ExpireLock
  PROVE  IInv'
  <1>1. TypeOK'
    BY DEF IInv, TypeOK, ExpireLock, stateVars, threadVars
  <1>2. ASSUME NEW w \in Workers PROVE WorkerInv(w)'
    BY Frame, ElectorAssumption DEF IInv, ExpireLock, stateVars, threadVars
  <1> QED
    BY <1>1, <1>2 DEF IInv

\* The clock moves on only when nobody is late.
LEMMA TickInv ==
  ASSUME IInv, Tick
  PROVE  IInv'
  <1>1. TypeOK'
    BY DEF IInv, TypeOK, Tick, zkVars, stateVars, threadVars, faultVars
  <1>2. ASSUME NEW w \in Workers PROVE WorkerInv(w)'
    <2>1. UNCHANGED <<lease, lock, info, pc, cur, isLeader, exp, connected>>
      BY DEF Tick, zkVars, stateVars, threadVars
    <2>a. now' = now + 1 /\ Timely(w)
      BY DEF Tick
    <2>b. Clock(w)' = Clock(w) + 1 /\ Clock(w) \in Nat
      BY <2>a, TimeFacts, ConstFacts DEF IInv, Clock
    <2>4. /\ cur[w] \in Int /\ exp[w] \in Int /\ Half \in Int
          /\ LockDelay \in Int /\ CheckDelay \in Int
      BY TimeFacts, ConstFacts, HalfFacts DEF IInv
    <2>2. pc[w] \notin {"off", "idle"} => Clock(w) + 1 <= cur[w] + LockDelay
      <3>1. pc[w] \notin {"off", "idle"} => Clock(w) < cur[w] + LockDelay
        BY <2>a DEF Timely
      <3> QED
        BY <2>b, <2>4, <3>1
    <2>3. isLeader[w] => Clock(w) + 1 <= exp[w] - Half + CheckDelay
      <3>1. isLeader[w] => exp[w] - (Clock(w) - CheckDelay) > Half
        BY <2>a DEF Timely, EnoughTime
      <3> QED
        BY <2>b, <2>4, <3>1
    <2>5. WorkerInv(w)
      BY DEF IInv
    <2>6. (pc[w] \notin {"off", "idle"} =>
             /\ cur[w] \in Nat /\ cur[w] <= Clock(w)
             /\ Clock(w) <= cur[w] + LockDelay)'
      BY <2>1, <2>b, <2>2, <2>4, <2>5 DEF WorkerInv
    <2>7. (isLeader[w] => Clock(w) <= exp[w] - Half + CheckDelay)'
      BY <2>1, <2>b, <2>3
    <2> QED
      BY <2>1, <2>5, <2>6, <2>7 DEF WorkerInv
  <1> QED
    BY <1>1, <1>2 DEF IInv

-----------------------------------------------------------------------------
\* Every step keeps the invariant.
LEMMA NextInv == ASSUME IInv, Punctual, Next PROVE IInv'
  <1>1. CASE \E w \in Workers : LockThread(w)
    BY <1>1, TryLockInv, WorkLoopInv, DemoteInLoopInv, CampaignLeaderInv,
       LockForLeaseInv, DoCampaignInv, ReletLeaderTimeInv, UpdateLeaderInfoInv,
       SetLeaderInv, UnlockForLeaseInv, UnlockRemovesInv DEF LockThread
  <1>2. CASE \E w \in Workers : \/ checkLeader(w) \/ demoteInCheck(w)
                                \/ stop(w) \/ start(w)
                                \/ Crash(w) \/ LoseSession(w)
    BY <1>2, CheckLeaderInv, DemoteInCheckInv, StopInv, StartInv, CrashInv,
       LoseSessionInv
  <1>3. CASE ExpireLock
    BY <1>3, ExpireLockInv
  <1>4. CASE Tick
    BY <1>4, TickInv
  <1> QED
    BY <1>1, <1>2, <1>3, <1>4 DEF Next

\* A stuttering step changes nothing the invariant speaks of.
LEMMA StutterInv == ASSUME IInv, UNCHANGED vars PROVE IInv'
  <1>1. TypeOK'
    BY DEF IInv, TypeOK, vars, zkVars, stateVars, threadVars, faultVars
  <1>2. ASSUME NEW w \in Workers PROVE WorkerInv(w)'
    BY Frame DEF IInv, vars, zkVars, stateVars, threadVars
  <1> QED
    BY <1>1, <1>2 DEF IInv

\* The invariant holds in every state.
THEOREM ElectorInvariant == ASSUME Punctual PROVE Spec => []IInv
  <1>1. IInv /\ [Next]_vars => IInv'
    BY NextInv, StutterInv
  <1> QED
    BY InitInv, <1>1, PTL DEF Spec

\* When the delays fit into half a lease, two workers never answer isLeader()
\* with true at the same time, whatever calls fail and workers crash.
THEOREM AtMostOneLeader == ASSUME Punctual PROVE Spec => []OneLeader
  BY ElectorInvariant, InvImplies, PTL

\* Under the same timing the leader info file names the leader.
THEOREM LeaderInfoIsRight == ASSUME Punctual PROVE Spec => []LeaderIsPublished
  BY ElectorInvariant, InvImplies, PTL

\* Under the same timing a worker replaces or removes another's lease only
\* after its end.
THEOREM NoLeaseStolen == ASSUME Punctual PROVE Spec => LeaseIsNotStolen
  <1> DEFINE Kept == \A v, w \in Workers :
                        lease.by = v /\ v # w /\ lease' # lease /\ pc'[w] # pc[w]
                           => Clock(v) + MaxSkew > lease.end
  <1>1. IInv /\ Next => Kept
    <2> SUFFICES ASSUME IInv, Next, NEW v \in Workers, NEW w \in Workers,
                        lease.by = v, v # w, lease' # lease, pc'[w] # pc[w]
                 PROVE  Clock(v) + MaxSkew > lease.end
      OBVIOUS
    <2>1. PICK u \in Workers : reletLeaderTime(u) \/ unlockRemoves(u)
      BY Zenon DEF Next, LockThread, tryLock, workLoop, demoteInLoop, campaignLeader,
             lockForLease, doCampaign, updateLeaderInfo, setLeader,
             unlockForLease, checkLeader, demoteInCheck, stop, start, Crash, LoseSession,
             ExpireLock, Tick, zkVars
    <2>2. u = w
      BY <2>1 DEF reletLeaderTime, unlockRemoves, Goto, IInv, TypeOK
    <2>3. pc[w] = "reletCampaign" /\ connected[w]
      BY <2>1, <2>2 DEF reletLeaderTime, unlockRemoves, IInv, WorkerInv
    <2>4. lease.end < cur[w] /\ cur[w] <= Clock(w)
      BY <2>3 DEF IInv, WorkerInv
    <2> QED
      BY <2>4, ClockFacts, ElectorAssumption DEF IInv, TypeOK
  <1>2. IInv /\ [Next]_vars => [Kept]_vars
    BY <1>1
  <1> QED
    BY ElectorInvariant, <1>2, PTL DEF Spec, LeaseIsNotStolen
=============================================================================
