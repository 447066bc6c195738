------------------------ MODULE StoreTransactionsProofs ------------------------
(* The lock of the stores lets one operation in at a time, whatever dies or    *)
(* sleeps, unless a rename takes a lock that is no longer the one judged; and  *)
(* as long as none does, a store keeps the contract its callers rely on.       *)
EXTENDS StoreTransactions, FiniteSetTheorems, TLAPS

-----------------------------------------------------------------------------
(* The lock                                                                  *)

\* From taking the lock to removing its owner file the file is one's own.
Guarding == {"held", "release", "unlink"}
OwnsGuarded ==
  \A p \in Procs : contender[p].pc \in Guarding => lockDir.owner = p /\ lockDir.written

\* The dead wait for nothing.
DeadRest == \A p \in Procs : contender[p].pc # "idle" => alive[p]

\* The inductive invariant: without a misfire a lock in use names its user.
LockInv == LockTypeOK /\ DeadRest /\ (misfired \/ OwnsGuarded)

USE DEF Guarding

LEMMA LockInvInit == LockInit => LockInv
<1> SUFFICES ASSUME LockInit PROVE LockInv
  OBVIOUS
<1>1. Free \in LockDir /\ Resting \in Contender /\ Resting.pc = "idle"
  BY DEF Free, LockDir, Resting, Contender, Calls, NoDir
<1>2. LockTypeOK
  BY <1>1 DEF LockInit, LockTypeOK
<1>3. DeadRest /\ OwnsGuarded
  BY <1>1 DEF LockInit, DeadRest, OwnsGuarded
<1> QED BY <1>2, <1>3 DEF LockInv

\* A step of p that moves its pc outside the guarded part, and leaves the
\* directory alone, keeps the invariant.
LEMMA MovesOnly ==
  ASSUME LockInv, NEW p \in Procs, alive[p], lockDir' = lockDir, UNCHANGED <<alive, misfired>>,
         NEW c \in Contender, contender' = [contender EXCEPT ![p] = c],
         c.pc \in Guarding => lockDir.owner = p /\ lockDir.written
  PROVE  LockInv'
  BY DEF LockInv, LockTypeOK, DeadRest, OwnsGuarded

\* The successors of a pc are contender records.
LEMMA Records ==
  ASSUME LockTypeOK, NEW p \in Procs
  PROVE  /\ \A pc \in Calls : [contender[p] EXCEPT !.pc = pc] \in Contender
         /\ \A pc \in Calls : [Resting EXCEPT !.pc = pc] \in Contender
  BY LockAssumption DEF LockTypeOK, Contender, Resting, Calls, NoDir

LEMMA LockInvStep ==
  ASSUME LockInv, NEW p \in Procs, LockStep(p)
  PROVE  LockInv'
<1>t. LockTypeOK BY DEF LockInv
<1>r. contender[p] \in Contender /\ lockDir \in LockDir /\ alive[p] \in BOOLEAN
  BY <1>t DEF LockTypeOK
<1>1. CASE MkdirCreates(p)
  <2>1. PICK ino \in Inodes : lockDir' = [Free EXCEPT !.ino = ino]
    BY <1>1 DEF MkdirCreates
  <2>2. lockDir' \in LockDir
    BY <2>1, LockAssumption DEF Free, LockDir, NoDir
  <2>3. contender' = [contender EXCEPT ![p].pc = "stat"] /\ UNCHANGED <<alive, misfired>>
        /\ lockDir = Free /\ alive[p]
    BY <1>1 DEF MkdirCreates, Goes, At
  <2>4. misfired \/ \A q \in Procs : contender[q].pc \notin Guarding
    BY <2>3, LockAssumption DEF LockInv, OwnsGuarded, Free
  <2> QED
    BY <1>t, <2>2, <2>3, <2>4 DEF LockInv, LockTypeOK, DeadRest, OwnsGuarded, Contender, Calls
<1>2. CASE MkdirExists(p) \/ StatCreated(p) \/ CreateFails(p) \/ Inspect(p)
  <2>1. lockDir' = lockDir /\ UNCHANGED <<alive, misfired>> /\ alive[p]
    BY <1>2 DEF MkdirExists, StatCreated, CreateFails, Inspect, At
  <2>2. CASE MkdirExists(p)
    <3> DEFINE c == [contender[p] EXCEPT !.pc = "inspect"]
    <3>1. contender' = [contender EXCEPT ![p] = c]
      BY <1>t, <2>2 DEF MkdirExists, Goes, LockTypeOK
    <3>2. c \in Contender /\ c.pc \notin Guarding
      BY <1>r DEF Contender, Calls, LockDir
    <3> QED BY <2>1, <3>1, <3>2, MovesOnly
  <2>3. CASE StatCreated(p)
    <3> DEFINE c == [contender[p] EXCEPT !.made = lockDir.ino,
                          !.pc = IF lockDir = Free THEN "failed" ELSE "create"]
    <3>1. contender' = [contender EXCEPT ![p] = c]
      BY <1>t, <2>3 DEF StatCreated, LockTypeOK
    <3>2. c \in Contender /\ c.pc \notin Guarding
      BY <1>r DEF Contender, Calls, LockDir
    <3> QED BY <2>1, <3>1, <3>2, MovesOnly
  <2>4. CASE CreateFails(p)
    <3> DEFINE c == [contender[p] EXCEPT !.pc = "cleanup", !.after = "failed"]
    <3>1. contender' = [contender EXCEPT ![p] = c]
      BY <1>t, <2>4 DEF CreateFails, LockTypeOK
    <3>2. c \in Contender /\ c.pc \notin Guarding
      BY <1>r DEF Contender, Calls, LockDir
    <3> QED BY <2>1, <3>1, <3>2, MovesOnly
  <2>5. CASE Inspect(p)
    <3> DEFINE c == [contender[p] EXCEPT !.sawOld = lockDir.old,
                          !.pc = IF lockDir = Free THEN "mkdir" ELSE "judge"]
    <3>1. contender' = [contender EXCEPT ![p] = c]
      BY <1>t, <2>5 DEF Inspect, LockTypeOK
    <3>2. c \in Contender /\ c.pc \notin Guarding
      BY <1>r DEF Contender, Calls, LockDir
    <3> QED BY <2>1, <3>1, <3>2, MovesOnly
  <2> QED BY <1>2, <2>2, <2>3, <2>4, <2>5
<1>3. CASE CreateOwner(p)
  <2>1. /\ lockDir' = [lockDir EXCEPT !.owner = p, !.old = FALSE] /\ lockDir.owner = NoProc
        /\ contender' = [contender EXCEPT ![p].pc = "write"] /\ UNCHANGED <<alive, misfired>>
        /\ alive[p]
    BY <1>3 DEF CreateOwner, Goes, At
  <2>2. misfired \/ \A q \in Procs : contender[q].pc \notin Guarding
    BY <2>1, LockAssumption DEF LockInv, OwnsGuarded
  <2> QED
    BY <1>t, <1>r, <2>1, <2>2
    DEF LockInv, LockTypeOK, LockDir, DeadRest, OwnsGuarded, Contender, Calls
<1>4. CASE WriteOwner(p)
  <2>1. /\ lockDir' = IF lockDir.owner = p THEN [lockDir EXCEPT !.written = TRUE] ELSE lockDir
        /\ contender' = [contender EXCEPT ![p].pc = "verify"] /\ UNCHANGED <<alive, misfired>>
        /\ alive[p]
    BY <1>4 DEF WriteOwner, Goes, At
  <2>2. lockDir' \in LockDir /\ lockDir'.owner = lockDir.owner
        /\ (lockDir.written => lockDir'.written)
    BY <1>r, <2>1 DEF LockDir
  <2> QED
    BY <1>t, <1>r, <2>1, <2>2 DEF LockInv, LockTypeOK, DeadRest, OwnsGuarded, Contender, Calls
<1>5. CASE Verify(p)
  <2>1. lockDir' = lockDir /\ UNCHANGED <<alive, misfired>> /\ alive[p]
    BY <1>5 DEF Verify, At
  <2>2. CASE lockDir.ino = contender[p].made /\ ReadOwner = p
    <3>1. lockDir.owner = p /\ lockDir.written
      BY <2>2, LockAssumption DEF ReadOwner
    <3>2. contender' = [contender EXCEPT ![p] = [Resting EXCEPT !.pc = "held"]]
      BY <1>5, <2>2 DEF Verify, StartsOver
    <3>3. [Resting EXCEPT !.pc = "held"] \in Contender
      BY <1>t, Records DEF Calls
    <3> QED BY <2>1, <3>1, <3>2, <3>3, MovesOnly
  <2>3. CASE ~(lockDir.ino = contender[p].made /\ ReadOwner = p)
    <3>1. contender' = [contender EXCEPT ![p] =
                          [contender[p] EXCEPT !.pc = "cleanup", !.after = "mkdir"]]
      BY <1>t, <1>5, <2>3 DEF Verify, LockTypeOK
    <3>2. [contender[p] EXCEPT !.pc = "cleanup", !.after = "mkdir"] \in Contender
      BY <1>r DEF Contender, Calls
    <3>3. [contender[p] EXCEPT !.pc = "cleanup", !.after = "mkdir"].pc \notin Guarding
      BY <1>r DEF Contender
    <3> QED BY <2>1, <3>1, <3>2, <3>3, MovesOnly
  <2> QED BY <2>2, <2>3
<1>6. CASE Cleanup(p)
  <2>1. lockDir' = lockDir /\ UNCHANGED <<alive, misfired>> /\ alive[p]
    BY <1>6 DEF Cleanup, At
  <2>2. CASE lockDir.ino = contender[p].made /\ ReadOwner \in {NoProc, p}
    <3> DEFINE c == [contender[p] EXCEPT !.made = NoDir,
                                         !.pc = IF ReadOwner = p THEN "unlink" ELSE "rmdir"]
    <3>1. contender' = [contender EXCEPT ![p] = c]
      BY <1>t, <1>6, <2>2 DEF Cleanup, LockTypeOK
    <3>2. c \in Contender
      BY <1>r DEF Contender, Calls
    <3>3. c.pc \in Guarding => lockDir.owner = p /\ lockDir.written
      BY <1>r, LockAssumption DEF Contender, ReadOwner
    <3> QED BY <2>1, <3>1, <3>2, <3>3, MovesOnly
  <2>3. CASE ~(lockDir.ino = contender[p].made /\ ReadOwner \in {NoProc, p})
    <3>1. contender' = [contender EXCEPT ![p] = [Resting EXCEPT !.pc = "mkdir"]]
      BY <1>6, <2>3 DEF Cleanup, StartsOver
    <3>2. [Resting EXCEPT !.pc = "mkdir"] \in Contender
      BY <1>t, Records DEF Calls
    <3>3. [Resting EXCEPT !.pc = "mkdir"].pc \notin Guarding BY DEF Resting
    <3> QED BY <2>1, <3>1, <3>2, <3>3, MovesOnly
  <2> QED BY <2>2, <2>3
<1>7. CASE Judge(p)
  <2>1. lockDir' = lockDir /\ UNCHANGED <<alive, misfired>> /\ alive[p]
    BY <1>7 DEF Judge, At
  <2>2. PICK pc \in {"steal", "mkdir"} :
          contender' = [contender EXCEPT ![p] = [Resting EXCEPT !.pc = pc]]
    BY <1>7 DEF Judge, StartsOver
  <2>3. [Resting EXCEPT !.pc = pc] \in Contender
    BY <1>t, Records DEF Calls
  <2>4. [Resting EXCEPT !.pc = pc].pc \notin Guarding BY DEF Resting
  <2> QED BY <2>1, <2>2, <2>3, <2>4, MovesOnly
<1>8. CASE Steal(p)
  <2>1. /\ lockDir' = Free /\ alive' = alive /\ alive[p]
        /\ misfired' = (misfired \/ (lockDir # Free /\ ~StaleNow))
        /\ contender' = [contender EXCEPT ![p].pc = "mkdir"]
    BY <1>8 DEF Steal, Goes, At
  <2>2. misfired' \/ \A q \in Procs : contender[q].pc \notin Guarding
    <3>1. SUFFICES ASSUME ~misfired', NEW q \in Procs, contender[q].pc \in Guarding
                   PROVE  FALSE
      OBVIOUS
    <3>2. ~misfired /\ (lockDir = Free \/ StaleNow)
      BY <2>1, <3>1
    <3>3. lockDir.owner = q /\ lockDir.written /\ alive[q]
      BY <3>1, <3>2 DEF LockInv, OwnsGuarded, DeadRest
    <3>4. ~StaleNow
      BY <3>3, LockAssumption DEF StaleNow, ReadOwner
    <3>5. lockDir # Free
      BY <3>3, LockAssumption DEF Free
    <3> QED BY <3>2, <3>4, <3>5
  <2>3. Free \in LockDir
    BY DEF Free, LockDir, NoDir
  <2>4. misfired' \in BOOLEAN
    BY <1>t, <2>1 DEF LockTypeOK
  <2> QED
    BY <1>t, <1>r, <2>1, <2>2, <2>3, <2>4
    DEF LockInv, LockTypeOK, DeadRest, OwnsGuarded, Contender, Calls
<1>9. CASE Release(p)
  <2>1. lockDir' = lockDir /\ UNCHANGED <<alive, misfired>> /\ alive[p]
    BY <1>9 DEF Release, At
  <2>2. CASE ReadOwner = p
    <3> DEFINE c == [contender[p] EXCEPT !.pc = "unlink", !.after = "idle"]
    <3>1. contender' = [contender EXCEPT ![p] = c]
      BY <1>t, <1>9, <2>2 DEF Release, LockTypeOK
    <3>2. c \in Contender BY <1>r DEF Contender, Calls
    <3>3. lockDir.owner = p /\ lockDir.written
      BY <2>2, LockAssumption DEF ReadOwner
    <3> QED BY <2>1, <3>1, <3>2, <3>3, MovesOnly
  <2>3. CASE ReadOwner # p
    <3>1. contender' = [contender EXCEPT ![p] = Resting]
      BY <1>9, <2>3 DEF Release
    <3>2. Resting \in Contender /\ Resting.pc \notin Guarding
      BY DEF Resting, Contender, Calls, NoDir
    <3> QED BY <2>1, <3>1, <3>2, MovesOnly
  <2> QED BY <2>2, <2>3
<1>10. CASE Unlink(p)
  <2>1. /\ lockDir' = [lockDir EXCEPT !.owner = NoProc, !.written = FALSE, !.old = FALSE]
        /\ contender' = [contender EXCEPT ![p].pc = "rmdir"] /\ UNCHANGED <<alive, misfired>>
        /\ alive[p] /\ contender[p].pc = "unlink"
    BY <1>10 DEF Unlink, Goes, At
  <2>2. misfired \/ \A q \in Procs \ {p} : contender[q].pc \notin Guarding
    BY <2>1 DEF LockInv, OwnsGuarded
  <2> QED
    BY <1>t, <1>r, <2>1, <2>2
    DEF LockInv, LockTypeOK, LockDir, DeadRest, OwnsGuarded, Contender, Calls
<1>11. CASE Rmdir(p)
  <2>1. /\ lockDir' = IF lockDir.owner = NoProc THEN Free ELSE lockDir
        /\ contender' = [contender EXCEPT ![p] = [Resting EXCEPT !.pc = contender[p].after]]
        /\ UNCHANGED <<alive, misfired>> /\ alive[p]
    BY <1>11 DEF Rmdir, StartsOver, At
  <2>2. contender[p].after \in Calls /\ contender[p].after \notin Guarding
    BY <1>r DEF Contender, Calls
  <2>3. [Resting EXCEPT !.pc = contender[p].after] \in Contender
        /\ [Resting EXCEPT !.pc = contender[p].after].pc \notin Guarding
    BY <1>t, <2>2, Records DEF Resting
  <2>4. CASE lockDir.owner = NoProc
    <3>1. misfired \/ \A q \in Procs : contender[q].pc \notin Guarding
      BY <2>4, LockAssumption DEF LockInv, OwnsGuarded
    <3>2. Free \in LockDir
      BY DEF Free, LockDir, NoDir
    <3> QED
      BY <1>t, <2>1, <2>3, <2>4, <3>1, <3>2 DEF LockInv, LockTypeOK, DeadRest, OwnsGuarded
  <2>5. CASE lockDir.owner # NoProc
    BY <2>1, <2>3, <2>5, MovesOnly
  <2> QED BY <2>4, <2>5
<1> QED
  BY <1>1, <1>2, <1>3, <1>4, <1>5, <1>6, <1>7, <1>8, <1>9, <1>10, <1>11 DEF LockStep

\* The other steps: asking for the lock, letting go, giving up, dying, ageing.
LEMMA LockInvRest ==
  ASSUME LockInv, NEW p \in Procs, Acquire(p) \/ LetGo(p) \/ GiveUp(p) \/ Dies(p) \/ Age
  PROVE  LockInv'
<1>t. LockTypeOK /\ contender[p] \in Contender /\ lockDir \in LockDir BY DEF LockInv, LockTypeOK
<1>1. CASE Acquire(p) \/ LetGo(p) \/ GiveUp(p)
  <2>1. /\ lockDir' = lockDir /\ UNCHANGED <<alive, misfired>> /\ alive[p]
        /\ \E pc \in {"mkdir", "release", "failed"} :
             /\ contender' = [contender EXCEPT ![p] = [contender[p] EXCEPT !.pc = pc]]
             /\ pc = "release" => contender[p].pc = "held"
    BY <1>1, <1>t DEF Acquire, LetGo, GiveUp, Goes, At, LockTypeOK
  <2>2. PICK pc \in {"mkdir", "release", "failed"} :
             /\ contender' = [contender EXCEPT ![p] = [contender[p] EXCEPT !.pc = pc]]
             /\ pc = "release" => contender[p].pc = "held"
    BY <2>1
  <2>3. [contender[p] EXCEPT !.pc = pc] \in Contender /\ [contender[p] EXCEPT !.pc = pc].pc = pc
    BY <1>t DEF Contender, Calls
  <2> QED
    BY <1>t, <2>1, <2>2, <2>3 DEF LockInv, LockTypeOK, DeadRest, OwnsGuarded
<1>2. CASE Dies(p)
  <2>1. Resting \in Contender
    BY DEF Resting, Contender, Calls, NoDir
  <2> QED
    BY <1>2, <1>t, <2>1 DEF Dies, LockInv, LockTypeOK, DeadRest, OwnsGuarded, Resting
<1>3. CASE Age
  <2>1. lockDir' = [lockDir EXCEPT !.old = TRUE] /\ UNCHANGED <<contender, alive, misfired>>
    BY <1>3 DEF Age
  <2> QED
    BY <1>t, <2>1 DEF LockInv, LockTypeOK, LockDir, DeadRest, OwnsGuarded
<1> QED BY <1>1, <1>2, <1>3

LEMMA LockInvNext == LockInv /\ [Next]_vars => LockInv'
<1> SUFFICES ASSUME LockInv, [Next]_vars PROVE LockInv'
  OBVIOUS
<1>1. CASE UNCHANGED lockVars
  BY <1>1 DEF lockVars, LockInv, LockTypeOK, DeadRest, OwnsGuarded
<1>2. ASSUME NEW p \in Procs, NEW kind \in Kinds, NEW k \in Keys, Begin(p, kind, k)
      PROVE  LockInv'
  BY <1>2, LockInvRest DEF Begin
<1>3. ASSUME NEW p \in Procs, Works(p)
      PROVE  LockInv'
  <2>1. CASE Locks(p)
    BY <2>1, LockInvStep DEF Locks
  <2>2. CASE Ends(p)
    BY <2>2, LockInvRest DEF Ends
  <2>3. CASE Refused(p)
    <3>1. /\ contender' = [contender EXCEPT ![p] = Resting] /\ lockDir' = lockDir
          /\ UNCHANGED <<alive, misfired>> /\ alive[p]
      BY <2>3 DEF Refused, At
    <3>2. Resting \in Contender /\ Resting.pc \notin Guarding
      BY DEF Resting, Contender, Calls, NoDir
    <3> QED BY <3>1, <3>2, MovesOnly
  <2>4. CASE Read(p) \/ Throws(p) \/ Write(p) \/ WriteFails(p) \/ Returns(p)
    BY <2>4, <1>1 DEF Read, Throws, Write, WriteFails, Returns
  <2> QED BY <1>3, <2>1, <2>2, <2>3, <2>4 DEF Works
<1>4. ASSUME NEW p \in Procs, TimesOut(p) \/ Crash(p)
      PROVE  LockInv'
  BY <1>4, LockInvRest DEF TimesOut, Crash
<1>5. CASE Ages
  <2>1. CASE Procs = {}
    BY <1>5, <2>1 DEF Ages, Age, LockInv, LockTypeOK, LockDir, DeadRest, OwnsGuarded
  <2>2. CASE \E p \in Procs : TRUE
    BY <1>5, <2>2, LockInvRest DEF Ages
  <2> QED BY <2>1, <2>2
<1>6. CASE Tick
  BY <1>6, <1>1 DEF Tick
<1>7. CASE UNCHANGED vars
  BY <1>7, <1>1 DEF vars
<1> QED BY <1>2, <1>3, <1>4, <1>5, <1>6, <1>7 DEF Next

\* Operations never run side by side, for any number of processes, deaths and
\* sleeping creators, unless a rename has taken a live lock.
THEOREM LockIsExclusive == Spec => []Exclusive
<1>1. Init => LockInv
  BY LockInvInit DEF Init
<1>2. LockInv => Exclusive
  BY DEF LockInv, OwnsGuarded, Exclusive, Holders
<1> QED
  BY <1>1, <1>2, LockInvNext, PTL DEF Spec

\* Whatever happens next, a misfire is not forgotten.
LEMMA MisfireStays ==
  ASSUME [Next]_vars, misfired
  PROVE  misfired'
<1>1. ASSUME NEW q \in Procs, LockStep(q) PROVE misfired'
  BY <1>1 DEF LockStep, MkdirCreates, MkdirExists, StatCreated, CreateOwner, CreateFails, WriteOwner,
     Verify, Cleanup, Inspect, Judge, Steal, Release, Unlink, Rmdir
<1>2. ASSUME NEW q \in Procs, \/ \E kind \in Kinds, k \in Keys : Begin(q, kind, k)
                              \/ Works(q) \/ TimesOut(q) \/ Crash(q)
      PROVE  misfired'
  BY <1>1, <1>2 DEF Begin, Works, Locks, Read, Throws, Write, WriteFails, Ends, Returns, Refused,
     TimesOut, Crash, Acquire, GiveUp, LetGo, Dies, lockVars
<1> QED BY <1>2 DEF Next, Ages, Age, Tick, vars, lockVars

\* No release, clean-up, creation or rename of others takes the lock of a live
\* holder away, whatever died, slept or was replaced before: the one step that
\* can is a rename of a lock that is no longer the one judged stale.
THEOREM LiveLockLostOnlyByMisfire ==
  Spec => [][ \A p \in Holders : alive[p] =>
                misfired' \/ (lockDir'.ino = lockDir.ino /\ lockDir'.owner = p) ]_lockVars
<1>1. ASSUME LockInv, [Next]_vars, NEW p \in Holders, alive[p], ~misfired'
      PROVE  lockDir'.ino = lockDir.ino /\ lockDir'.owner = p
  <2>1. ~misfired
    BY <1>1, MisfireStays
  <2>2. /\ p \in Procs /\ contender[p].pc = "held"
        /\ lockDir \in LockDir /\ lockDir.owner = p /\ lockDir.written
    BY <1>1, <2>1 DEF Holders, LockInv, LockTypeOK, OwnsGuarded
  <2>3. p # NoProc /\ ReadOwner = p /\ lockDir # Free /\ ~StaleNow
    BY <1>1, <2>2, LockAssumption DEF ReadOwner, Free, StaleNow
  <2>4. \A q \in Procs : ~Unlink(q)
    BY <2>1, <2>2, <1>1 DEF Unlink, At, LockInv, OwnsGuarded
  <2>5. ASSUME NEW q \in Procs, LockStep(q)
        PROVE  lockDir'.ino = lockDir.ino /\ lockDir'.owner = p
    <3>1. CASE Steal(q)
      BY <1>1, <2>3, <3>1 DEF Steal
    <3>2. CASE WriteOwner(q)
      BY <2>2, <3>2 DEF WriteOwner, LockDir
    <3>3. CASE Rmdir(q)
      BY <2>2, <2>3, <3>3 DEF Rmdir, ReadOwner
    <3>4. ~MkdirCreates(q) /\ ~CreateOwner(q)
      BY <2>2, <2>3 DEF MkdirCreates, CreateOwner
    <3>5. CASE \/ MkdirExists(q) \/ StatCreated(q) \/ CreateFails(q) \/ Verify(q) \/ Cleanup(q)
               \/ Inspect(q) \/ Judge(q) \/ Release(q)
      BY <2>2, <3>5 DEF MkdirExists, StatCreated, CreateFails, Verify, Cleanup, Inspect, Judge,
         Release
    <3> QED BY <2>4, <2>5, <3>1, <3>2, <3>3, <3>4, <3>5 DEF LockStep
  <2>6. CASE \E q \in Procs : Locks(q)
    BY <2>5, <2>6 DEF Locks
  <2>7. CASE Ages
    BY <2>2, <2>7 DEF Ages, Age, LockDir
  <2>8. CASE \E q \in Procs :
               \/ \E kind \in Kinds, k \in Keys : Begin(q, kind, k)
               \/ Read(q) \/ Throws(q) \/ Write(q) \/ WriteFails(q) \/ Ends(q)
               \/ Returns(q) \/ Refused(q) \/ TimesOut(q) \/ Crash(q)
    <3>1. lockDir' = lockDir
      BY <2>8 DEF Begin, Read, Throws, Write, WriteFails, Ends, Returns, Refused, TimesOut,
         Crash, Acquire, GiveUp, LetGo, Dies, lockVars
    <3> QED BY <2>2, <3>1
  <2>9. CASE Tick \/ UNCHANGED vars
    BY <2>2, <2>9 DEF Tick, vars, lockVars
  <2> QED BY <1>1, <2>6, <2>7, <2>8, <2>9 DEF Next, Works
<1>2. LockInv /\ [Next]_vars =>
        [ \A p \in Holders : alive[p] =>
            misfired' \/ (lockDir'.ino = lockDir.ino /\ lockDir'.owner = p) ]_lockVars
  BY <1>1
<1>3. Init => LockInv
  BY LockInvInit DEF Init
<1> QED BY <1>2, <1>3, LockInvNext, PTL DEF Spec

-----------------------------------------------------------------------------
(* What the operations make of the contents                                  *)

LEMMA MinPair ==
  ASSUME NEW a \in Int, NEW b \in Int
  PROVE  Min({a, b}) = IF a <= b THEN a ELSE b
<1>1. \E x \in {a, b} : \A y \in {a, b} : x <= y OBVIOUS
<1>2. Min({a, b}) \in {a, b} /\ \A y \in {a, b} : Min({a, b}) <= y
  BY <1>1 DEF Min
<1> QED BY <1>2

LEMMA AbsentIsNoEntry == Absent \notin Entry /\ \A e \in Entry : e # Absent
  BY DEF Absent, Entry, Never

LEMMA RetainedEntry ==
  ASSUME NEW e \in Entry
  PROVE  /\ Retained(e) \in Entry
         /\ Retained(e).createdAt = e.createdAt /\ Retained(e).value = e.value
<1>1. CASE e.expiresAt = Never /\ Ttl # Never
  <2>1. Ttl \in Nat BY <1>1, StoreAssumption
  <2>2. e.createdAt + Ttl \in Nat BY <2>1 DEF Entry
  <2>3. Retained(e) = [e EXCEPT !.expiresAt = e.createdAt + Ttl] BY <1>1 DEF Retained
  <2> QED BY <2>2, <2>3 DEF Entry
<1>2. CASE ~(e.expiresAt = Never /\ Ttl # Never)
  BY <1>2 DEF Retained
<1> QED BY <1>1, <1>2

LEMMA FreshEntry ==
  ASSUME NEW v \in Nat, NEW at \in Nat
  PROVE  Fresh(v, at) \in Entry
<1>1. CASE Ttl = Never
  BY <1>1 DEF Fresh, Entry
<1>2. CASE Ttl # Never
  <2>1. at + Ttl \in Nat BY <1>2, StoreAssumption
  <2> QED BY <1>2, <2>1 DEF Fresh, Entry
<1> QED BY <1>1, <1>2

\* Pruning keeps a record, perhaps with the retention it lacked, or drops one
\* that has expired.
LEMMA Pruned ==
  ASSUME NEW s \in Contents, NEW at \in Nat
  PROVE  /\ Prune(s, at) \in Contents
         /\ \A j \in Keys :
              \/ ~Has(s, j) /\ Prune(s, at)[j] = Absent
              \/ Has(s, j) /\ s[j] \in Entry /\ Has(Prune(s, at), j) /\ Prune(s, at)[j] = Retained(s[j])
              \/ /\ Has(s, j) /\ Prune(s, at)[j] = Absent
                 /\ Retained(s[j]).expiresAt \in 0 .. at
<1>1. ASSUME NEW j \in Keys
      PROVE  /\ Prune(s, at)[j] \in Entry \cup {Absent}
             /\ \/ ~Has(s, j) /\ Prune(s, at)[j] = Absent
                \/ /\ Has(s, j) /\ s[j] \in Entry /\ Has(Prune(s, at), j)
                   /\ Prune(s, at)[j] = Retained(s[j])
                \/ /\ Has(s, j) /\ Prune(s, at)[j] = Absent
                   /\ Retained(s[j]).expiresAt \in 0 .. at
  <2>0. Prune(s, at)[j] = IF Has(s, j) /\ (Retained(s[j]).expiresAt = Never \/ Retained(s[j]).expiresAt > at)
                          THEN Retained(s[j]) ELSE Absent
    BY DEF Prune
  <2>1. CASE ~Has(s, j)
    BY <2>0, <2>1
  <2>2. CASE Has(s, j)
    <3>1. s[j] \in Entry BY <2>2 DEF Contents, Has
    <3>2. Retained(s[j]) \in Entry BY <3>1, RetainedEntry
    <3>3. Retained(s[j]).expiresAt \in Nat \cup {Never} BY <3>2 DEF Entry
    <3>4. CASE Retained(s[j]).expiresAt = Never \/ Retained(s[j]).expiresAt > at
      <4>1. Prune(s, at)[j] = Retained(s[j]) BY <2>0, <2>2, <3>4
      <4>2. Has(Prune(s, at), j) BY <3>2, <4>1, AbsentIsNoEntry DEF Has
      <4> QED BY <2>2, <3>1, <3>2, <4>1, <4>2
    <3>5. CASE ~(Retained(s[j]).expiresAt = Never \/ Retained(s[j]).expiresAt > at)
      <4>1. Retained(s[j]).expiresAt \in 0 .. at BY <3>3, <3>5
      <4> QED BY <2>0, <2>2, <3>5, <4>1
    <3> QED BY <3>4, <3>5
  <2> QED BY <2>1, <2>2
<1>2. DOMAIN Prune(s, at) = Keys /\ Prune(s, at) = [j \in Keys |-> Prune(s, at)[j]]
  BY DEF Prune
<1>3. Prune(s, at) \in Contents
  BY <1>1, <1>2 DEF Contents
<1> QED BY <1>1, <1>3

\* A full store makes room by dropping records that none it keeps is older than.
LEMMA RoomIsMade ==
  ASSUME NEW s \in Contents, NEW k \in Keys, NEW t \in Evicted(s, k)
  PROVE  /\ t \in Contents /\ t[k] = s[k]
         /\ \A j \in Keys \ {k} :
              \/ t[j] = s[j]
              \/ /\ t[j] = Absent /\ Has(s, j) /\ Cardinality(Stored(t)) = MaxEntries
                 /\ \A i \in Stored(t) : t[i] = s[i] /\ s[j].createdAt <= s[i].createdAt
<1>1. PICK d \in SUBSET (Stored(s) \ {k}) :
        /\ Cardinality(Stored(s) \ d) = Min({Cardinality(Stored(s)), MaxEntries})
        /\ \A i \in d, j \in Stored(s) \ d : s[i].createdAt <= s[j].createdAt
        /\ t = [j \in Keys |-> IF j \in d THEN Absent ELSE s[j]]
  BY DEF Evicted
<1>2. t \in Contents /\ t[k] = s[k] /\ \A j \in Keys : t[j] = IF j \in d THEN Absent ELSE s[j]
  BY <1>1 DEF Contents
<1>3. Stored(t) = Stored(s) \ d
  BY <1>2 DEF Stored, Has
<1>4. IsFiniteSet(Stored(s)) /\ Cardinality(Stored(s)) \in Nat
  <2>1. Stored(s) \in SUBSET Keys BY DEF Stored
  <2>2. IsFiniteSet(Stored(s)) BY <2>1, StoreAssumption, FS_Subset
  <2> QED BY <2>2, FS_CardinalityType
<1>5. ASSUME NEW j \in d
      PROVE  /\ t[j] = Absent /\ Has(s, j) /\ Cardinality(Stored(t)) = MaxEntries
             /\ \A i \in Stored(t) : t[i] = s[i] /\ s[j].createdAt <= s[i].createdAt
  <2>1. t[j] = Absent /\ Has(s, j) BY <1>2 DEF Stored
  <2>2. Stored(s) \ d \in SUBSET Stored(s) /\ Stored(s) \ d # Stored(s)
    BY <1>5
  <2>3. Cardinality(Stored(s) \ d) # Cardinality(Stored(s))
    BY <1>4, <2>2, FS_Subset
  <2>4. Min({Cardinality(Stored(s)), MaxEntries}) = MaxEntries
    <3>1. MaxEntries \in Int BY StoreAssumption
    <3>2. Min({Cardinality(Stored(s)), MaxEntries}) =
            IF Cardinality(Stored(s)) <= MaxEntries THEN Cardinality(Stored(s)) ELSE MaxEntries
      BY <1>4, <3>1, MinPair
    <3> QED BY <1>1, <2>3, <3>2
  <2>5. \A i \in Stored(t) : t[i] = s[i] /\ s[j].createdAt <= s[i].createdAt
    BY <1>1, <1>2, <1>3 DEF Stored
  <2> QED BY <1>1, <1>3, <2>1, <2>4, <2>5
<1> QED BY <1>2, <1>5

LEMMA OutcomesTyped ==
  ASSUME NEW s \in Contents, NEW k \in Keys, NEW at \in Nat, NEW kind \in Kinds,
         NEW o \in Outcomes(kind, s, k, at)
  PROVE  o.next \in Contents /\ o.result \in Nat
<1>0. Fresh(0, at) \in Entry /\ [s EXCEPT ![k] = Fresh(0, at)] \in Contents
      /\ [s EXCEPT ![k] = Absent] \in Contents
  BY FreshEntry DEF Contents
<1>1. CASE kind = "register"
  <2>1. PICK t \in Evicted([s EXCEPT ![k] = Fresh(0, at)], k) : o = [next |-> t, result |-> 0]
    BY <1>1 DEF Outcomes, Register
  <2>2. t \in Contents BY <1>0, <2>1, RoomIsMade
  <2> QED BY <2>1, <2>2
<1>2. CASE kind = "registerIfAbsent" /\ ~Has(s, k)
  <2>1. PICK t \in Evicted([s EXCEPT ![k] = Fresh(0, at)], k) : o = [next |-> t, result |-> 1]
    BY <1>2 DEF Outcomes, RegisterIfAbsent
  <2>2. t \in Contents BY <1>0, <2>1, RoomIsMade
  <2> QED BY <2>1, <2>2
<1>3. CASE kind = "registerIfAbsent" /\ Has(s, k)
  BY <1>3 DEF Outcomes, RegisterIfAbsent
<1>4. CASE kind = "update"
  <2> DEFINE v == IF Has(s, k) THEN s[k].value + 1 ELSE 0
  <2>1. v \in Nat BY DEF Has, Contents, Entry
  <2>2. o = [next |-> [s EXCEPT ![k] = Fresh(v, at)], result |-> 1]
    BY <1>4 DEF Outcomes, Update
  <2> HIDE DEF v
  <2>3. Fresh(v, at) \in Entry BY <2>1, FreshEntry
  <2> QED BY <2>2, <2>3 DEF Contents
<1>5. CASE kind \in {"consume", "delete"}
  BY <1>0, <1>5 DEF Outcomes, Drop
<1>6. CASE kind = "lookup"
  BY <1>6 DEF Outcomes, Lookup
<1>7. CASE kind = "clear"
  BY <1>7 DEF Outcomes, Empty, Contents
<1>8. CASE kind = "reencrypt"
  <2>1. o.next = s /\ o.result = Cardinality(Stored(s)) BY <1>8 DEF Outcomes
  <2>2. Stored(s) \in SUBSET Keys BY DEF Stored
  <2>3. Cardinality(Stored(s)) \in Nat BY <2>2, StoreAssumption, FS_Subset, FS_CardinalityType
  <2> QED BY <2>1, <2>3
<1> QED BY <1>1, <1>2, <1>3, <1>4, <1>5, <1>6, <1>7, <1>8 DEF Kinds

\* The contract's words for what a write does to a record, said of the file.
KeptInFile(j) == file'[j] = file[j] \/ (Has(file, j) /\ file'[j] = Retained(file[j]))
ExpiredInFile(j) == Has(file, j) /\ Retained(file[j]).expiresAt \in 0 .. now
MadeInFile(k, revision) == \E at \in 0 .. now : file'[k] = Fresh(revision, at)
RoomInFile(j, k) ==
  /\ Cardinality(Stored(file')) = MaxEntries
  /\ \A i \in Stored(file') \ {k} : file[j].createdAt <= file[i].createdAt

LEMMA ContractWords ==
  /\ Contract!Absent = Absent /\ Contract!Empty = Empty
  /\ \A k \in Keys : /\ Contract!Has(file, k) <=> Has(file, k)
                     /\ Contract!Kept(k) <=> KeptInFile(k)
                     /\ Contract!Expired(k) <=> ExpiredInFile(k)
                     /\ Contract!Gone(k) <=> file'[k] = Absent
                     /\ \A v : Contract!Made(k, v) <=> MadeInFile(k, v)
                     /\ \A j : Contract!MadeRoom(j, k) <=> RoomInFile(j, k)
<1>1. Contract!Absent = Absent /\ Contract!Empty = Empty
  BY DEF Contract!Absent, Absent, Contract!Empty, Empty, Contract!Never, Never
<1>2. ASSUME NEW k \in Keys
      PROVE  /\ Contract!Has(file, k) <=> Has(file, k)
             /\ Contract!Kept(k) <=> KeptInFile(k)
             /\ Contract!Expired(k) <=> ExpiredInFile(k)
             /\ Contract!Gone(k) <=> file'[k] = Absent
             /\ \A v : Contract!Made(k, v) <=> MadeInFile(k, v)
             /\ \A j : Contract!MadeRoom(j, k) <=> RoomInFile(j, k)
  <2>1. Contract!Has(file, k) <=> Has(file, k)
    BY <1>1 DEF Contract!Has, Has
  <2>2. Contract!Retained(file[k]) = Retained(file[k])
    BY DEF Contract!Retained, Retained, Contract!Never, Never
  <2>3. Contract!Kept(k) <=> KeptInFile(k)
    BY <2>1, <2>2 DEF Contract!Kept, KeptInFile
  <2>4. Contract!Expired(k) <=> ExpiredInFile(k)
    BY <2>1, <2>2 DEF Contract!Expired, ExpiredInFile
  <2>5. Contract!Gone(k) <=> file'[k] = Absent
    BY <1>1 DEF Contract!Gone
  <2>6. \A v : Contract!Made(k, v) <=> MadeInFile(k, v)
    BY DEF Contract!Made, MadeInFile, Contract!Fresh, Fresh, Contract!Never, Never
  <2>7. Contract!Stored(file') = Stored(file')
    BY <1>1 DEF Contract!Stored, Stored, Contract!Has, Has
  <2>8. \A j : Contract!MadeRoom(j, k) <=> RoomInFile(j, k)
    <3>1. Contract!Cardinality(Stored(file')) = Cardinality(Stored(file'))
      BY Zenon DEF Contract!Cardinality, Cardinality
    <3> QED BY <2>7, <3>1 DEF Contract!MadeRoom, RoomInFile
  <2> QED BY <2>1, <2>3, <2>4, <2>5, <2>6, <2>8
<1> QED BY <1>1, <1>2

\* An operation that starts from what the file holds does what the contract says,
\* although it prunes and may make room on the way.
LEMMA OutcomeKeepsContract ==
  ASSUME file \in Contents, now \in Nat, NEW at \in 0 .. now, NEW k \in Keys, NEW kind \in Kinds,
         NEW o \in Outcomes(kind, Prune(file, at), k, at), file' = o.next
  PROVE  Contract!Own(kind, k) /\ Contract!Others(kind, k)
<1> DEFINE u == Prune(file, at)
<1>1. /\ u \in Contents
      /\ \A j \in Keys :
           \/ ~Has(file, j) /\ u[j] = Absent
           \/ Has(file, j) /\ file[j] \in Entry /\ Has(u, j) /\ u[j] = Retained(file[j])
           \/ Has(file, j) /\ u[j] = Absent /\ Retained(file[j]).expiresAt \in 0 .. at
  BY Pruned
<1> HIDE DEF u
<1>2. ASSUME NEW j \in Keys
      PROVE  /\ ~Has(file, j) => u[j] = Absent
             /\ Has(u, j) => Has(file, j) /\ file[j] \in Entry /\ u[j] = Retained(file[j])
             /\ ~Has(u, j) => u[j] = Absent /\ (ExpiredInFile(j) \/ ~Has(file, j))
  BY <1>1, <1>2 DEF Has, ExpiredInFile
\* Records that stay as the pruned contents have them.
<1>3. ASSUME NEW j \in Keys, file'[j] = u[j]
      PROVE  IF Has(file, j) THEN KeptInFile(j) \/ (file'[j] = Absent /\ ExpiredInFile(j))
                             ELSE file'[j] = Absent /\ KeptInFile(j)
  BY <1>2, <1>3 DEF KeptInFile, Has
<1>4. o \in Outcomes(kind, u, k, at) BY DEF u
<1>5. ASSUME \A j \in Keys \ {k} : file'[j] = u[j]
      PROVE  Contract!Others(kind, k)
  BY <1>3, <1>5, ContractWords DEF Contract!Others
<1>6. ASSUME file'[k] = u[k], kind \in {"lookup", "reencrypt"}
      PROVE  Contract!Own(kind, k)
  <2>1. Contract!Kept(k) \/ (Contract!Expired(k) /\ Contract!Gone(k))
    BY <1>3, <1>6, ContractWords
  <2> QED BY <1>6, <2>1 DEF Contract!Own
<1>7. ASSUME NEW w, w = [u EXCEPT ![k] = Fresh(0, at)], o.next \in Evicted(w, k),
             kind \in {"register", "registerIfAbsent"}
      PROVE  Contract!Others(kind, k) /\ MadeInFile(k, 0)
  <2>1. w \in Contents /\ w[k] = Fresh(0, at) /\ \A j \in Keys \ {k} : w[j] = u[j]
    BY <1>1, <1>7, FreshEntry DEF Contents
  <2>2. /\ file' \in Contents /\ file'[k] = w[k]
        /\ \A j \in Keys \ {k} :
             \/ file'[j] = w[j]
             \/ /\ file'[j] = Absent /\ Has(w, j) /\ Cardinality(Stored(file')) = MaxEntries
                /\ \A i \in Stored(file') : file'[i] = w[i] /\ w[j].createdAt <= w[i].createdAt
    <3>1. o.next \in Evicted(w, k) BY <1>7
    <3>2. /\ o.next \in Contents /\ o.next[k] = w[k]
          /\ \A j \in Keys \ {k} :
             \/ o.next[j] = w[j]
             \/ /\ o.next[j] = Absent /\ Has(w, j) /\ Cardinality(Stored(o.next)) = MaxEntries
                /\ \A i \in Stored(o.next) : o.next[i] = w[i] /\ w[j].createdAt <= w[i].createdAt
      BY <2>1, <3>1, RoomIsMade
    <3> QED BY <3>2
  <2>3. ASSUME NEW j \in Keys \ {k}
        PROVE  IF Has(file, j)
               THEN \/ KeptInFile(j)
                    \/ file'[j] = Absent /\ ExpiredInFile(j)
                    \/ file'[j] = Absent /\ RoomInFile(j, k)
               ELSE file'[j] = Absent
    <3>1. CASE file'[j] = w[j]
      BY <1>3, <2>1, <3>1
    <3>2. CASE file'[j] # w[j]
      <4>1. /\ file'[j] = Absent /\ Has(u, j) /\ Cardinality(Stored(file')) = MaxEntries
            /\ \A i \in Stored(file') : file'[i] = w[i] /\ u[j].createdAt <= w[i].createdAt
        BY <2>1, <2>2, <3>2 DEF Has
      <4>2. u[j].createdAt = file[j].createdAt
        BY <1>2, <4>1, RetainedEntry
      <4>3. ASSUME NEW i \in Stored(file') \ {k}
            PROVE  file[j].createdAt <= file[i].createdAt
        <5>1. file'[i] = u[i] /\ Has(u, i) /\ u[j].createdAt <= u[i].createdAt /\ i \in Keys
          BY <2>1, <4>1 DEF Stored, Has
        <5>2. u[i].createdAt = file[i].createdAt
          BY <1>2, <5>1, RetainedEntry
        <5> QED BY <4>2, <5>1, <5>2
      <4> QED BY <1>2, <4>1, <4>3 DEF RoomInFile
    <3> QED BY <3>1, <3>2
  <2>4. Contract!Others(kind, k)
    BY <1>7, <2>3, ContractWords DEF Contract!Others
  <2>5. MadeInFile(k, 0)
    BY <2>1, <2>2 DEF MadeInFile
  <2> QED BY <2>4, <2>5
<1>8. CASE kind = "register"
  <2>1. PICK t \in Evicted([u EXCEPT ![k] = Fresh(0, at)], k) : o = [next |-> t, result |-> 0]
    BY <1>4, <1>8 DEF Outcomes, Register
  <2>2. o.next \in Evicted([u EXCEPT ![k] = Fresh(0, at)], k) BY <2>1
  <2>3. Contract!Others(kind, k) /\ MadeInFile(k, 0) BY <1>7, <1>8, <2>2
  <2> QED BY <1>8, <2>3, ContractWords DEF Contract!Own
<1>9. CASE kind = "registerIfAbsent" /\ Has(u, k)
  <2>1. \A j \in Keys : file'[j] = u[j]
    BY <1>4, <1>9 DEF Outcomes, RegisterIfAbsent
  <2>2. Has(file, k) /\ KeptInFile(k)
    BY <1>2, <1>9, <2>1 DEF KeptInFile
  <2> QED BY <1>5, <1>9, <2>1, <2>2, ContractWords DEF Contract!Own
<1>10. CASE kind = "registerIfAbsent" /\ ~Has(u, k)
  <2>1. PICK t \in Evicted([u EXCEPT ![k] = Fresh(0, at)], k) : o = [next |-> t, result |-> 1]
    BY <1>4, <1>10 DEF Outcomes, RegisterIfAbsent
  <2>2. o.next \in Evicted([u EXCEPT ![k] = Fresh(0, at)], k) BY <2>1
  <2>3. Contract!Others(kind, k) /\ MadeInFile(k, 0) BY <1>7, <1>10, <2>2
  <2>4. ExpiredInFile(k) \/ ~Has(file, k) BY <1>2, <1>10
  <2> QED BY <1>10, <2>3, <2>4, ContractWords DEF Contract!Own
<1>11. CASE kind = "update"
  <2> DEFINE v == IF Has(u, k) THEN u[k].value + 1 ELSE 0
  <2>1. o.next = [u EXCEPT ![k] = Fresh(v, at)]
    BY <1>4, <1>11 DEF Outcomes, Update
  <2> HIDE DEF v
  <2>2. file'[k] = Fresh(v, at) /\ \A j \in Keys \ {k} : file'[j] = u[j]
    BY <1>1, <2>1 DEF Contents
  <2>3. MadeInFile(k, v) BY <2>2 DEF MadeInFile
  <2>4. \/ Has(file, k) /\ v = file[k].value + 1
        \/ (ExpiredInFile(k) \/ ~Has(file, k)) /\ v = 0
    BY <1>2, RetainedEntry DEF v
  <2>5. Contract!Own(kind, k) BY <1>11, <2>3, <2>4, ContractWords DEF Contract!Own
  <2> QED BY <1>5, <2>2, <2>5
<1>12. CASE kind \in {"consume", "delete"}
  <2>1. o.next = [u EXCEPT ![k] = Absent]
    BY <1>4, <1>12 DEF Outcomes, Drop
  <2>2. file'[k] = Absent /\ \A j \in Keys \ {k} : file'[j] = u[j]
    BY <1>1, <2>1 DEF Contents
  <2>3. Contract!Own(kind, k) BY <1>12, <2>2, ContractWords DEF Contract!Own
  <2> QED BY <1>5, <2>2, <2>3
<1>13. CASE kind \in {"lookup", "reencrypt"}
  <2>1. o.next = u
    BY <1>4, <1>13 DEF Outcomes, Lookup
  <2> QED BY <1>5, <1>6, <1>13, <2>1
<1>14. CASE kind = "clear"
  <2>1. file' = Empty
    BY <1>4, <1>14 DEF Outcomes
  <2> QED BY <1>14, <2>1, ContractWords DEF Contract!Own, Contract!Others
<1> QED BY <1>8, <1>9, <1>10, <1>11, <1>12, <1>13, <1>14 DEF Kinds

-----------------------------------------------------------------------------
(* What is written comes from what the file holds                            *)

\* Only the holder has read, and an operation under way has a name.
Begun ==
  \A p \in Procs : /\ op[p].phase = "read" => contender[p].pc = "held"
                   /\ op[p].phase \in {"queued", "read"} => op[p].kind \in Kinds

\* What is to be written is an outcome of the contents as they still are.
FromFile ==
  \A p \in Procs : op[p].phase = "read" =>
    \E at \in 0 .. now : \E o \in Outcomes(op[p].kind, Prune(file, at), op[p].key, at) :
      op[p].next = o.next /\ op[p].result = o.result

StoreInv == LockInv /\ TypeOK /\ Begun /\ (misfired \/ FromFile)

LEMMA NoOpTyped == NoOp \in Operation /\ NoOp.phase = "none" /\ NoOp.key \in Keys /\ NoOp.kind = "none"
<1>1. (CHOOSE k \in Keys : TRUE) \in Keys BY StoreAssumption
<1>2. Empty \in Contents BY DEF Empty, Contents
<1> QED BY <1>1, <1>2 DEF NoOp, Operation

LEMMA StoreInvInit == Init => StoreInv
<1> SUFFICES ASSUME Init PROVE StoreInv
  OBVIOUS
<1>1. LockInv BY LockInvInit DEF Init
<1>2. file \in Contents
  <2>1. [value |-> 0, createdAt |-> 0, expiresAt |-> Never] \in Entry BY DEF Entry
  <2> QED BY <2>1 DEF Init, Empty, Contents
<1>3. ClockTypeOK BY ClockAssumption DEF Init, ClockInit, ClockTypeOK
<1>4. TypeOK BY <1>1, <1>2, <1>3, NoOpTyped DEF TypeOK, Init, LockInv
<1>5. Begun /\ FromFile BY NoOpTyped DEF Init, Begun, FromFile
<1> QED BY <1>1, <1>4, <1>5 DEF StoreInv

\* A step of the lock does not concern the one who holds it.
LEMMA LockStepsElsewhere ==
  ASSUME NEW p \in Procs, contender \in [Procs -> Contender],
         LockStep(p) \/ Acquire(p) \/ GiveUp(p)
  PROVE  contender[p].pc # "held" /\ \A q \in Procs \ {p} : contender'[q] = contender[q]
<1>1. contender[p].pc # "held" /\ \E c : contender' = [contender EXCEPT ![p] = c]
  <2>1. CASE MkdirCreates(p) \/ MkdirExists(p) \/ StatCreated(p) \/ CreateOwner(p)
    BY <2>1 DEF MkdirCreates, MkdirExists, StatCreated, CreateOwner, At, Goes
  <2>2. CASE CreateFails(p) \/ WriteOwner(p) \/ Verify(p) \/ Cleanup(p)
    BY <2>2 DEF CreateFails, WriteOwner, Verify, Cleanup, At, Goes, StartsOver
  <2>3. CASE Inspect(p) \/ Judge(p) \/ Steal(p)
    BY <2>3 DEF Inspect, Judge, Steal, At, Goes, StartsOver
  <2>4. CASE Release(p) \/ Unlink(p) \/ Rmdir(p) \/ Acquire(p) \/ GiveUp(p)
    BY <2>4 DEF Release, Unlink, Rmdir, Acquire, GiveUp, At, Goes, StartsOver
  <2> QED BY <2>1, <2>2, <2>3, <2>4 DEF LockStep
<1> QED BY <1>1

\* One process begins, reads, or ends an operation; the others and the file stay.
LEMMA OneMoves ==
  ASSUME StoreInv, LockInv', NEW p \in Procs, NEW o \in Operation, op' = [op EXCEPT ![p] = o],
         UNCHANGED <<now, file, misfired>>, calls' \in [Procs -> Nat],
         \A q \in Procs \ {p} : contender[q].pc = "held" => contender'[q].pc = "held",
         /\ o.phase = "read" => contender'[p].pc = "held"
         /\ o.phase \in {"queued", "read"} => o.kind \in Kinds
         /\ o.phase = "read" =>
              \E at \in 0 .. now : \E r \in Outcomes(o.kind, Prune(file, at), o.key, at) :
                o.next = r.next /\ o.result = r.result
  PROVE  StoreInv'
<1>1. op \in [Procs -> Operation] BY DEF StoreInv, TypeOK
<1>2. op'[p] = o /\ \A q \in Procs \ {p} : op'[q] = op[q] BY <1>1
<1>3. TypeOK' BY <1>1 DEF StoreInv, TypeOK, ClockTypeOK, LockInv
<1>4. Begun' BY <1>2 DEF StoreInv, Begun
<1>5. misfired' \/ FromFile' BY <1>2 DEF StoreInv, FromFile
<1> QED BY <1>3, <1>4, <1>5 DEF StoreInv

\* The lock, the clock or a death moves; operations but those of the dead stay.
LEMMA LockMoves ==
  ASSUME StoreInv, LockInv', UNCHANGED <<file, op>>, now' \in now .. MaxTime, calls' = calls,
         misfired => misfired',
         \A q \in Procs : contender[q].pc = "held" /\ op[q].phase = "read" => contender'[q].pc = "held"
  PROVE  StoreInv'
<1>1. now \in Nat /\ now' \in Nat /\ now <= now' /\ ClockTypeOK'
  BY ClockAssumption DEF StoreInv, TypeOK, ClockTypeOK
<1>2. TypeOK' BY <1>1 DEF StoreInv, TypeOK, LockInv
<1>3. Begun' BY DEF StoreInv, Begun
<1>4. misfired' \/ FromFile' BY <1>1 DEF StoreInv, FromFile
<1> QED BY <1>2, <1>3, <1>4 DEF StoreInv

LEMMA StoreInvNext == StoreInv /\ [Next]_vars => StoreInv'
<1> SUFFICES ASSUME StoreInv, [Next]_vars PROVE StoreInv'
  OBVIOUS
<1>l. LockInv' BY LockInvNext DEF StoreInv
<1>t. /\ contender \in [Procs -> Contender] /\ op \in [Procs -> Operation] /\ file \in Contents
      /\ now \in 0 .. MaxTime /\ now \in Nat /\ calls \in [Procs -> Nat]
  BY ClockAssumption DEF StoreInv, TypeOK, LockTypeOK, ClockTypeOK
<1>1. ASSUME NEW p \in Procs, NEW kind \in Kinds, NEW k \in Keys, Begin(p, kind, k)
      PROVE  StoreInv'
  <2> DEFINE o == [NoOp EXCEPT !.kind = kind, !.key = k, !.phase = "queued"]
  <2>1. o \in Operation /\ o.phase = "queued" /\ o.kind = kind BY NoOpTyped DEF Operation
  <2>2. op' = [op EXCEPT ![p] = o] /\ UNCHANGED <<now, file, misfired>> /\ calls' \in [Procs -> Nat]
    BY <1>1, <1>t DEF Begin, Acquire
  <2>3. \A q \in Procs \ {p} : contender'[q] = contender[q]
    BY <1>1, <1>t, LockStepsElsewhere DEF Begin
  <2> HIDE DEF o
  <2> QED BY <1>l, <2>1, <2>2, <2>3, OneMoves
<1>2. ASSUME NEW p \in Procs, Works(p)
      PROVE  StoreInv'
  <2>0. op[p] \in Operation BY <1>t
  <2>1. CASE Locks(p)
    <3>1. contender[p].pc # "held" /\ \A q \in Procs \ {p} : contender'[q] = contender[q]
      BY <1>t, <2>1, LockStepsElsewhere DEF Locks
    <3>2. misfired => misfired'
      BY <2>1 DEF Locks, LockStep, MkdirCreates, MkdirExists, StatCreated, CreateOwner, CreateFails,
         WriteOwner, Verify, Cleanup, Inspect, Judge, Steal, Release, Unlink, Rmdir
    <3>3. UNCHANGED <<file, op>> /\ now' \in now .. MaxTime /\ calls' = calls
      BY <1>t, <2>1 DEF Locks
    <3> QED BY <1>l, <3>1, <3>2, <3>3, LockMoves
  <2>2. CASE Read(p)
    <3>1. PICK r \in Outcomes(op[p].kind, Prune(file, now), op[p].key, now) :
            op' = [op EXCEPT ![p].next = r.next, ![p].result = r.result,
                ![p].phase = IF op[p].kind = "lookup" /\ Prune(file, now) = file THEN "done" ELSE "read"]
      BY <2>2 DEF Read
    <3>2. PICK phase \in {"done", "read"} :
            op' = [op EXCEPT ![p] = [op[p] EXCEPT !.next = r.next, !.result = r.result, !.phase = phase]]
      BY <1>t, <3>1
    <3> DEFINE o == [op[p] EXCEPT !.next = r.next, !.result = r.result, !.phase = phase]
    <3>3. op[p].kind \in Kinds /\ op[p].key \in Keys /\ contender[p].pc = "held"
      BY <2>0, <2>2 DEF Read, At, StoreInv, Begun, Operation
    <3>4. r.next \in Contents /\ r.result \in Nat
      <4>1. Prune(file, now) \in Contents BY <1>t, Pruned
      <4> QED BY <1>t, <3>3, <4>1, OutcomesTyped
    <3>5. /\ o \in Operation /\ o.kind = op[p].kind /\ o.key = op[p].key /\ o.next = r.next
          /\ o.result = r.result
      BY <2>0, <3>4 DEF Operation
    <3>6. UNCHANGED <<now, file, misfired, contender>> /\ calls' \in [Procs -> Nat]
      BY <1>t, <2>2 DEF Read, lockVars
    <3>7. op' = [op EXCEPT ![p] = o] BY <3>2
    <3> HIDE DEF o
    <3>8. now \in 0 .. now BY <1>t
    <3>9. \E at \in 0 .. now : \E q \in Outcomes(o.kind, Prune(file, at), o.key, at) :
            o.next = q.next /\ o.result = q.result
      BY <3>5, <3>8
    <3> QED BY <1>l, <3>3, <3>5, <3>6, <3>7, <3>9, OneMoves
  <2>3. CASE Throws(p) \/ WriteFails(p)
    <3> DEFINE o == [op[p] EXCEPT !.phase = "failed"]
    <3>1. op' = [op EXCEPT ![p] = o] /\ UNCHANGED <<now, file, misfired, contender>>
          /\ calls' \in [Procs -> Nat]
      BY <1>t, <2>3 DEF Throws, WriteFails, Phase, lockVars
    <3>2. o \in Operation /\ o.phase = "failed" BY <2>0 DEF Operation
    <3> HIDE DEF o
    <3> QED BY <1>l, <3>1, <3>2, OneMoves
  <2>4. CASE Write(p)
    <3>1. /\ contender[p].pc = "held" /\ op[p].phase = "read" /\ file' = op[p].next
          /\ UNCHANGED <<now, misfired, contender, calls>>
      BY <2>4 DEF Write, At, lockVars
    <3>2. PICK phase \in {"done", "failed"} : op' = [op EXCEPT ![p].phase = phase]
      BY <2>4 DEF Write, Phase
    <3>3. /\ op'[p] = [op[p] EXCEPT !.phase = phase] /\ op'[p].phase = phase
          /\ \A q \in Procs \ {p} : op'[q] = op[q]
      BY <1>t, <2>0, <3>2 DEF Operation
    <3>4. op' \in [Procs -> Operation] /\ file' \in Contents
      BY <1>t, <2>0, <3>1, <3>2 DEF Operation
    <3>5. TypeOK' BY <1>l, <3>1, <3>4 DEF StoreInv, TypeOK, ClockTypeOK, LockInv
    <3>6. Begun' BY <3>1, <3>3 DEF StoreInv, Begun
    <3>7. misfired \/ \A q \in Procs \ {p} : op[q].phase # "read"
      BY <3>1 DEF StoreInv, Begun, LockInv, OwnsGuarded
    <3>8. misfired' \/ FromFile'
      <4>1. misfired' \/ \A q \in Procs : op'[q].phase # "read" BY ONLY <3>1, <3>2, <3>3, <3>7
      <4> QED BY ONLY <4>1 DEF FromFile
    <3> QED BY <1>l, <3>5, <3>6, <3>8 DEF StoreInv
  <2>5. CASE Ends(p)
    <3>1. /\ op[p].phase \in {"done", "failed"} /\ UNCHANGED <<file, op, now, calls, misfired>>
          /\ contender' = [contender EXCEPT ![p].pc = "release"]
      BY <2>5 DEF Ends, LetGo, Goes
    <3>2. \A q \in Procs \ {p} : contender'[q] = contender[q] BY <1>t, <3>1
    <3>3. now' \in now .. MaxTime BY <1>t, <3>1
    <3> QED BY <1>l, <3>1, <3>2, <3>3, LockMoves
  <2>6. CASE Returns(p) \/ Refused(p)
    <3>1. op' = [op EXCEPT ![p] = NoOp] /\ UNCHANGED <<now, file, misfired>> /\ calls' \in [Procs -> Nat]
      BY <1>t, <2>6 DEF Returns, Refused, lockVars
    <3>2. \A q \in Procs \ {p} : contender'[q] = contender[q]
      BY <1>t, <2>6 DEF Returns, Refused, lockVars
    <3> QED BY <1>l, <3>1, <3>2, NoOpTyped, OneMoves
  <2> QED BY <1>2, <2>1, <2>2, <2>3, <2>4, <2>5, <2>6 DEF Works
<1>3. ASSUME NEW p \in Procs, TimesOut(p)
      PROVE  StoreInv'
  <2>1. contender[p].pc # "held" /\ \A q \in Procs \ {p} : contender'[q] = contender[q]
    BY <1>t, <1>3, LockStepsElsewhere DEF TimesOut
  <2>2. UNCHANGED <<file, op, misfired, calls>> /\ now' \in now .. MaxTime
    BY <1>t, <1>3 DEF TimesOut, GiveUp
  <2> QED BY <1>l, <2>1, <2>2, LockMoves
<1>4. ASSUME NEW p \in Procs, Crash(p)
      PROVE  StoreInv'
  <2>1. op' = [op EXCEPT ![p] = NoOp] /\ UNCHANGED <<now, file, misfired>> /\ calls' \in [Procs -> Nat]
    BY <1>t, <1>4 DEF Crash, Dies
  <2>2. \A q \in Procs \ {p} : contender'[q] = contender[q]
    BY <1>t, <1>4 DEF Crash, Dies
  <2> QED BY <1>l, <2>1, <2>2, NoOpTyped, OneMoves
<1>5. CASE Ages \/ Tick
  <2>1. UNCHANGED <<file, op, misfired, calls, contender>> /\ now' \in now .. MaxTime
    BY <1>t, <1>5, ClockAssumption DEF Ages, Age, Tick, ClockTicks, lockVars
  <2> QED BY <1>l, <2>1, LockMoves
<1>6. CASE UNCHANGED vars
  <2>1. UNCHANGED <<file, op, misfired, calls, contender>> /\ now' \in now .. MaxTime
    BY <1>t, <1>6 DEF vars, lockVars
  <2> QED BY <1>l, <2>1, LockMoves
<1> QED BY <1>1, <1>2, <1>3, <1>4, <1>5, <1>6 DEF Next

\* Every variable of the stores keeps its type: whatever is written is whole.
THEOREM StoreTypeCorrect == Spec => []TypeOK
<1>1. StoreInv => TypeOK
  BY DEF StoreInv
<1> QED BY <1>1, StoreInvInit, StoreInvNext, PTL DEF Spec

-----------------------------------------------------------------------------
(* One winner                                                                *)

\* What a write in progress claims of the record, the file bears out.
LEMMA WriterIsRight ==
  ASSUME StoreInv, ~misfired, NEW p \in Procs, op[p].phase = "read", op[p].result = 1
  PROVE  /\ op[p].kind = "consume" => Has(file, op[p].key)
         /\ op[p].kind = "registerIfAbsent" =>
              (~Has(file, op[p].key) \/ ~Has(Prune(file, now), op[p].key))
<1> DEFINE k == op[p].key
<1>1. /\ op[p] \in Operation /\ k \in Keys /\ file \in Contents /\ now \in Nat
  BY ClockAssumption DEF StoreInv, TypeOK, Operation, ClockTypeOK
<1>2. PICK at \in 0 .. now : \E o \in Outcomes(op[p].kind, Prune(file, at), k, at) : o.result = 1
  BY DEF StoreInv, FromFile
<1>3. PICK o \in Outcomes(op[p].kind, Prune(file, at), k, at) : o.result = 1
  BY <1>2
<1> DEFINE u == Prune(file, at)
           v == Prune(file, now)
<1>4. \/ ~Has(file, k) /\ u[k] = Absent
      \/ Has(file, k) /\ file[k] \in Entry /\ Has(u, k) /\ u[k] = Retained(file[k])
      \/ Has(file, k) /\ u[k] = Absent /\ Retained(file[k]).expiresAt \in 0 .. at
  BY <1>1, Pruned
<1>5. \/ ~Has(file, k) /\ v[k] = Absent
      \/ Has(file, k) /\ v[k] = Absent
      \/ Has(v, k) /\ ~(Retained(file[k]).expiresAt \in 0 .. now)
  BY <1>1 DEF Prune, Has, Never
<1>6. o \in Outcomes(op[p].kind, u, k, at) BY <1>3
<1> HIDE DEF k, u, v
<1>7. CASE op[p].kind = "consume"
  <2>1. Has(u, k) BY <1>3, <1>6, <1>7 DEF Outcomes, Drop
  <2>2. Has(file, k) BY <1>4, <2>1 DEF Has
  <2> QED BY <1>7, <2>2 DEF k
<1>8. CASE op[p].kind = "registerIfAbsent"
  <2>1. ~Has(u, k) BY <1>3, <1>6, <1>8 DEF Outcomes, RegisterIfAbsent
  <2>2. ~Has(file, k) \/ Retained(file[k]).expiresAt \in 0 .. now
    BY <1>1, <1>4, <2>1
  <2>3. ~Has(file, k) \/ ~Has(v, k) BY <1>5, <2>2 DEF Has
  <2> QED BY <1>8, <2>3 DEF k, v
<1> QED BY <1>7, <1>8

\* As long as no live lock has been taken, a one-time record is handed out only
\* while the file holds it, and a guard is reserved only where none stands: of
\* any number of callers, at any number of processes, one wins.
THEOREM OneCallerWins == Spec /\ []~misfired => OneWinner
<1>1. StoreInv /\ ~misfired =>
        [ \A p \in Procs :
            /\ Wins(p, "consume") => Has(file, op[p].key)
            /\ Wins(p, "registerIfAbsent") =>
                 (~Has(file, op[p].key) \/ ~Has(Prune(file, now), op[p].key)) ]_vars
  BY WriterIsRight DEF Wins
<1> QED BY <1>1, StoreInvInit, StoreInvNext, PTL DEF Spec, OneWinner

-----------------------------------------------------------------------------
(* The contract                                                              *)

\* A request stands from the call until the write that decides it.
Waits(o) == o.phase \in {"queued", "read"}
RequestOf(o) == IF Waits(o) THEN [kind |-> o.kind, key |-> o.key] ELSE Unasked

LEMMA OneRequestMoves ==
  ASSUME op \in [Procs -> Operation], NEW p \in Procs, NEW o, op' = [op EXCEPT ![p] = o]
  PROVE  /\ Requested' = [Requested EXCEPT ![p] = RequestOf(o)]
         /\ Requested[p] = RequestOf(op[p])
BY DEF Requested, RequestOf, Waits, Unasked, NoOp, Empty, Absent, Never

\* A caller whose operation no longer waits has been decided.
LEMMA Settled ==
  ASSUME op \in [Procs -> Operation], Begun, NEW p \in Procs, NEW o, op' = [op EXCEPT ![p] = o],
         Waits(op[p]), ~Waits(o)
  PROVE  /\ Requested[p] # Unasked /\ Contract!Decided(p)
         /\ Requested[p].kind = op[p].kind /\ Requested[p].key = op[p].key
<1>1. Requested' = [Requested EXCEPT ![p] = Unasked]
  BY OneRequestMoves DEF RequestOf
<1>2. Requested[p] = [kind |-> op[p].kind, key |-> op[p].key]
  BY OneRequestMoves DEF RequestOf
<1>3. op[p].kind \in Kinds BY DEF Begun, Waits
<1>4. Requested[p].kind = op[p].kind /\ Requested[p].key = op[p].key BY <1>2
<1>5. Unasked.kind = "none" /\ "none" \notin Kinds BY DEF Unasked, Kinds
<1> QED BY <1>1, <1>3, <1>4, <1>5 DEF Contract!Decided

\* A step of the code that changes what one process is doing and not the file
\* asks, leaves a request, or is no step of the contract.
LEMMA QuietStep ==
  ASSUME op \in [Procs -> Operation], Begun, NEW p \in Procs, NEW o \in Operation,
         op' = [op EXCEPT ![p] = o], UNCHANGED <<now, file>>,
         Waits(o) => o.kind \in Kinds,
         Waits(op[p]) /\ Waits(o) => o.kind = op[p].kind /\ o.key = op[p].key
  PROVE  [Contract!ContractNext]_Contract!contractVars
<1>1. CASE Waits(op[p]) /\ ~Waits(o)
  <2>1. Contract!Leave(p) BY <1>1, Settled DEF Contract!Leave
  <2> QED BY <2>1 DEF Contract!ContractNext
<1>2. CASE Waits(op[p]) <=> Waits(o)
  <2>1. RequestOf(o) = RequestOf(op[p]) BY <1>2 DEF RequestOf
  <2>2. Requested' = [Requested EXCEPT ![p] = Requested[p]]
    BY <2>1, OneRequestMoves
  <2>3. Requested' = Requested
    BY <2>2 DEF Requested
  <2> QED BY <2>3 DEF Contract!contractVars
<1>3. CASE ~Waits(op[p]) /\ Waits(o)
  <2>1. Requested' = [Requested EXCEPT ![p] = [kind |-> o.kind, key |-> o.key]]
        /\ Requested[p] = Unasked
    BY <1>3, OneRequestMoves DEF RequestOf
  <2>2. [kind |-> o.kind, key |-> o.key] \in Contract!Request
    BY <1>3 DEF Contract!Request, Contract!Kinds, Kinds, Operation
  <2>3. Contract!Ask(p) BY <2>1, <2>2 DEF Contract!Ask
  <2> QED BY <2>3 DEF Contract!ContractNext
<1> QED BY <1>1, <1>2, <1>3

\* The rename of the new file is the operation, applied to what the file held.
LEMMA WriteApplies ==
  ASSUME StoreInv, ~misfired, NEW p \in Procs, Write(p)
  PROVE  Contract!Apply(p)
<1>1. /\ op \in [Procs -> Operation] /\ Begun /\ FromFile /\ file \in Contents
      /\ now \in Nat /\ op[p] \in Operation
  BY ClockAssumption DEF StoreInv, TypeOK, ClockTypeOK
<1>2. op[p].phase = "read" /\ file' = op[p].next /\ now' = now BY DEF Write
<1>3. PICK phase \in {"done", "failed"} : op' = [op EXCEPT ![p].phase = phase]
  BY DEF Write, Phase
<1> DEFINE o == [op[p] EXCEPT !.phase = phase]
<1>4. op' = [op EXCEPT ![p] = o] BY <1>1, <1>3
<1>5. Waits(op[p]) /\ ~Waits(o) BY <1>1, <1>2 DEF Waits, Operation
<1> HIDE DEF o
<1>6. /\ Requested[p] # Unasked /\ Contract!Decided(p)
      /\ Requested[p].kind = op[p].kind /\ Requested[p].key = op[p].key
  BY <1>1, <1>4, <1>5, Settled
<1>7. PICK at \in 0 .. now : \E r \in Outcomes(op[p].kind, Prune(file, at), op[p].key, at) :
        op[p].next = r.next /\ op[p].result = r.result
  BY <1>1, <1>2 DEF FromFile
<1>8. PICK r \in Outcomes(op[p].kind, Prune(file, at), op[p].key, at) : file' = r.next
  BY <1>2, <1>7
<1>9. op[p].kind \in Kinds /\ op[p].key \in Keys BY <1>1, <1>2 DEF Begun, Operation
<1>10. Contract!Own(op[p].kind, op[p].key) /\ Contract!Others(op[p].kind, op[p].key)
  BY <1>1, <1>8, <1>9, OutcomeKeepsContract
<1> QED BY <1>2, <1>6, <1>10 DEF Contract!Apply

LEMMA StepKeepsContract ==
  StoreInv /\ ~misfired /\ [Next]_vars => [Contract!ContractNext]_Contract!contractVars
<1> SUFFICES ASSUME StoreInv, ~misfired, [Next]_vars
             PROVE  [Contract!ContractNext]_Contract!contractVars
  OBVIOUS
<1>t. op \in [Procs -> Operation] /\ Begun /\ \A p \in Procs : op[p] \in Operation
  BY DEF StoreInv, TypeOK
<1>s. ASSUME UNCHANGED <<now, file, op>> PROVE [Contract!ContractNext]_Contract!contractVars
  BY <1>s DEF Contract!contractVars, Requested
<1>1. ASSUME NEW p \in Procs, NEW kind \in Kinds, NEW k \in Keys, Begin(p, kind, k)
      PROVE  [Contract!ContractNext]_Contract!contractVars
  <2> DEFINE o == [NoOp EXCEPT !.kind = kind, !.key = k, !.phase = "queued"]
  <2>1. o \in Operation /\ o.kind = kind BY NoOpTyped DEF Operation
  <2>2. op' = [op EXCEPT ![p] = o] /\ UNCHANGED <<now, file>> /\ ~Waits(op[p])
    BY <1>1, NoOpTyped DEF Begin, Waits
  <2> HIDE DEF o
  <2> QED BY <1>t, <2>1, <2>2, QuietStep
<1>2. ASSUME NEW p \in Procs, Works(p)
      PROVE  [Contract!ContractNext]_Contract!contractVars
  <2>1. CASE Locks(p) \/ Ends(p)
    BY <1>s, <2>1 DEF Locks, Ends
  <2>2. CASE Read(p)
    <3>1. PICK r \in Outcomes(op[p].kind, Prune(file, now), op[p].key, now),
               phase \in {"done", "read"} :
            op' = [op EXCEPT ![p].next = r.next, ![p].result = r.result, ![p].phase = phase]
      BY <2>2 DEF Read
    <3> DEFINE o == [op[p] EXCEPT !.next = r.next, !.result = r.result, !.phase = phase]
    <3>2. op' = [op EXCEPT ![p] = o] BY <1>t, <3>1
    <3>3. op[p].phase = "queued" /\ op[p].kind \in Kinds /\ op[p].key \in Keys
      BY <1>t, <2>2 DEF Read, Begun, Operation
    <3>4. r.next \in Contents /\ r.result \in Nat
      <4>1. file \in Contents /\ now \in Nat BY ClockAssumption DEF StoreInv, TypeOK, ClockTypeOK
      <4>2. Prune(file, now) \in Contents BY <4>1, Pruned
      <4> QED BY <3>3, <4>1, <4>2, OutcomesTyped
    <3>5. o \in Operation /\ o.kind = op[p].kind /\ o.key = op[p].key
      BY <1>t, <3>4 DEF Operation
    <3>6. UNCHANGED <<now, file>> BY <2>2 DEF Read
    <3> HIDE DEF o
    <3> QED BY <1>t, <3>2, <3>3, <3>5, <3>6, QuietStep
  <2>3. CASE Throws(p) \/ WriteFails(p)
    <3> DEFINE o == [op[p] EXCEPT !.phase = "failed"]
    <3>1. op' = [op EXCEPT ![p] = o] /\ UNCHANGED <<now, file>>
      BY <1>t, <2>3 DEF Throws, WriteFails, Phase
    <3>2. o \in Operation /\ ~Waits(o) BY <1>t DEF Operation, Waits
    <3> HIDE DEF o
    <3> QED BY <1>t, <3>1, <3>2, QuietStep
  <2>4. CASE Write(p)
    BY <2>4, WriteApplies DEF Contract!ContractNext
  <2>5. CASE Returns(p) \/ Refused(p)
    <3>1. op' = [op EXCEPT ![p] = NoOp] /\ UNCHANGED <<now, file>>
      BY <2>5 DEF Returns, Refused
    <3> QED BY <1>t, <3>1, NoOpTyped, QuietStep DEF Waits
  <2> QED BY <1>2, <2>1, <2>2, <2>3, <2>4, <2>5 DEF Works
<1>3. ASSUME NEW p \in Procs, TimesOut(p)
      PROVE  [Contract!ContractNext]_Contract!contractVars
  BY <1>3, <1>s DEF TimesOut
<1>4. ASSUME NEW p \in Procs, Crash(p)
      PROVE  [Contract!ContractNext]_Contract!contractVars
  <2>1. op' = [op EXCEPT ![p] = NoOp] /\ UNCHANGED <<now, file>>
    BY <1>4 DEF Crash
  <2> QED BY <1>t, <2>1, NoOpTyped, QuietStep DEF Waits
<1>5. CASE Ages
  BY <1>5, <1>s DEF Ages
<1>6. CASE Tick
  <2>1. Contract!Pass
    BY <1>6 DEF Tick, ClockTicks, Contract!Pass, Contract!ClockTicks, Requested
  <2> QED BY <2>1 DEF Contract!ContractNext
<1>7. CASE UNCHANGED vars
  BY <1>7, <1>s DEF vars
<1> QED BY <1>1, <1>2, <1>3, <1>4, <1>5, <1>6, <1>7 DEF Next

\* The promise to the callers, for any number of processes, records and deaths:
\* as long as no live lock has been taken, every change of the file is one
\* requested operation, applied once to what the file then holds.
THEOREM StoreKeepsContract == Spec /\ []~misfired => ImplementsContract
<1>1. Init => Contract!ContractInit
  <2> SUFFICES ASSUME Init PROVE Contract!ContractInit
    OBVIOUS
  <2>1. StoreInv BY StoreInvInit
  <2>2. Contract!Contents = Contents
    BY DEF Contract!Contents, Contents, Contract!Entry, Entry, Contract!Absent, Absent,
       Contract!Never, Never
  <2>3. Contract!ClockInit BY DEF Init, ClockInit, Contract!ClockInit
  <2>4. \A p \in Procs : op[p].phase = "none" BY NoOpTyped DEF Init
  <2>5. Requested = [p \in Procs |-> Unasked] BY <2>4 DEF Requested
  <2> QED BY <2>1, <2>2, <2>3, <2>5 DEF Contract!ContractInit, StoreInv, TypeOK
<1> QED
  BY <1>1, StepKeepsContract, StoreInvInit, StoreInvNext, PTL
     DEF Spec, ImplementsContract, Contract!ContractSpec

-----------------------------------------------------------------------------
(* Where nothing dies and nothing sleeps                                     *)

\* No process dies, and a live one never needs 30 s for a few system calls.
Prompt == ~CanStall /\ MaxDeaths = 0

\* From making the directory to removing it the lock path is one's own.
Using == {"stat", "create", "write", "verify", "held", "release", "unlink", "rmdir"}
OwnDir(p) ==
  LET c == contender[p] IN
  /\ lockDir.ino # NoDir
  /\ c.pc \in {"create", "write", "verify"} => c.made = lockDir.ino
  /\ c.pc \in {"stat", "create", "rmdir"} => lockDir.owner = NoProc
  /\ c.pc \in {"write", "verify", "held", "release", "unlink"} => lockDir.owner = p
  /\ c.pc \in {"verify", "held", "release", "unlink"} => lockDir.written

\* The inductive invariant: a lock directory always has one user, who is alive
\* and in a hurry, so that it grows no older and nobody takes it for stale.
NobodyWaits == \A p \in Procs :
  alive[p] /\ ~contender[p].sawOld /\ contender[p].pc \notin {"steal", "cleanup"}
OneUser ==
  /\ lockDir = Free \/ \E p \in Procs : contender[p].pc \in Using
  /\ \A p, q \in Procs : contender[p].pc \in Using /\ contender[q].pc \in Using => p = q
  /\ \A p \in Procs : contender[p].pc \in Using => OwnDir(p)
Calm == LockTypeOK /\ ~misfired /\ ~lockDir.old /\ NobodyWaits /\ OneUser

LEMMA CalmInit == LockInit => Calm
<1> SUFFICES ASSUME LockInit PROVE Calm
  OBVIOUS
<1>1. LockTypeOK
  BY LockInvInit DEF LockInv
<1>2. \A p \in Procs : contender[p] = Resting /\ alive[p]
  BY DEF LockInit
<1> QED
  BY <1>1, <1>2 DEF LockInit, Calm, NobodyWaits, OneUser, Using, Resting, Free

\* A step of a process that uses the lock before or after it, or never does.
LEMMA CalmMove ==
  ASSUME Calm, NEW p \in Procs, lockDir' \in LockDir, ~lockDir'.old,
         UNCHANGED <<alive, misfired>>,
         NEW c \in Contender, contender' = [contender EXCEPT ![p] = c],
         ~c.sawOld, c.pc \notin {"steal", "cleanup"},
         c.pc \in Using => OwnDir(p)',
         \A q \in Procs \ {p} :
           contender[q].pc \in Using => lockDir' = lockDir /\ c.pc \notin Using,
         \/ lockDir' = Free \/ c.pc \in Using
         \/ lockDir' = lockDir /\ contender[p].pc \notin Using
  PROVE  Calm'
<1>1. contender'[p] = c /\ \A q \in Procs \ {p} : contender'[q] = contender[q]
  BY DEF Calm, LockTypeOK
<1>2. LockTypeOK'
  BY DEF Calm, LockTypeOK
<1>3. NobodyWaits'
  BY <1>1 DEF Calm, NobodyWaits
<1>4. \A q, r \in Procs : contender'[q].pc \in Using /\ contender'[r].pc \in Using => q = r
  BY <1>1 DEF Calm, OneUser
<1>5. lockDir' = Free \/ \E q \in Procs : contender'[q].pc \in Using
  <2>1. CASE lockDir' = Free \/ c.pc \in Using
    BY <1>1, <2>1
  <2>2. CASE lockDir' = lockDir /\ contender[p].pc \notin Using
    BY <1>1, <2>2 DEF Calm, OneUser
  <2> QED BY <2>1, <2>2
<1>6. ASSUME NEW q \in Procs, contender'[q].pc \in Using PROVE OwnDir(q)'
  <2>1. CASE q = p
    BY <1>1, <1>6, <2>1
  <2>2. CASE q # p
    BY <1>1, <1>6, <2>2 DEF Calm, OneUser, OwnDir
  <2> QED BY <2>1, <2>2
<1> QED
  BY <1>2, <1>3, <1>4, <1>5, <1>6 DEF Calm, OneUser

LEMMA CalmStep ==
  ASSUME Calm, NEW p \in Procs, LockStep(p)
  PROVE  Calm'
<1>t. LockTypeOK /\ contender[p] \in Contender /\ lockDir \in LockDir /\ ~contender[p].sawOld
      /\ contender[p].pc \notin {"steal", "cleanup"} /\ ~lockDir.old
  BY DEF Calm, LockTypeOK, NobodyWaits
<1>o. contender[p].pc \in Using =>
        OwnDir(p) /\ \A q \in Procs \ {p} : contender[q].pc \notin Using
  BY DEF Calm, OneUser
<1>f. lockDir = Free => \A q \in Procs : contender[q].pc \notin Using
  BY DEF Calm, OneUser, OwnDir, Free
<1>1. CASE MkdirCreates(p)
  <2> DEFINE c == [contender[p] EXCEPT !.pc = "stat"]
  <2>1. PICK ino \in Inodes : lockDir' = [Free EXCEPT !.ino = ino]
    BY <1>1 DEF MkdirCreates
  <2>2. lockDir' \in LockDir /\ ~lockDir'.old /\ lockDir'.ino # NoDir /\ lockDir'.owner = NoProc
    BY <2>1, LockAssumption DEF Free, LockDir, NoDir
  <2>3. contender' = [contender EXCEPT ![p] = c] /\ UNCHANGED <<alive, misfired>> /\ lockDir = Free
    BY <1>1, <1>t DEF MkdirCreates, Goes, LockTypeOK
  <2>4. c \in Contender /\ c.pc = "stat" /\ ~c.sawOld
    BY <1>t DEF Contender, Calls
  <2>5. contender'[p] = c
    BY <1>t, <2>3 DEF LockTypeOK
  <2>6. OwnDir(p)'
    BY <2>2, <2>4, <2>5 DEF OwnDir
  <2> QED BY <1>f, <2>2, <2>3, <2>4, <2>6, CalmMove DEF Using
<1>2. CASE MkdirExists(p) \/ Inspect(p)
  <2> DEFINE c == [contender[p] EXCEPT !.pc = contender'[p].pc]
  <2>1. /\ contender' = [contender EXCEPT ![p] = c] /\ UNCHANGED <<lockDir, alive, misfired>>
        /\ c.pc \in {"inspect", "mkdir", "judge"} /\ contender[p].pc \in {"mkdir", "inspect"}
    <3>1. CASE MkdirExists(p)
      BY <1>t, <3>1 DEF MkdirExists, Goes, At, LockTypeOK, Contender
    <3>2. CASE Inspect(p)
      <4> DEFINE d == [contender[p] EXCEPT !.sawOld = lockDir.old,
                                           !.pc = IF lockDir = Free THEN "mkdir" ELSE "judge"]
      <4>1. contender' = [contender EXCEPT ![p] = d]
        BY <1>t, <3>2 DEF Inspect, LockTypeOK
      <4>2. contender'[p] = d
        BY <1>t, <4>1 DEF LockTypeOK
      <4>3. lockDir.old = FALSE /\ contender[p].sawOld = FALSE
        BY <1>t DEF LockDir, Contender
      <4>4. d = c
        BY <1>t, <4>2, <4>3 DEF Contender
      <4>5. d.pc \in {"mkdir", "judge"}
        BY <1>t DEF Contender
      <4> QED BY <3>2, <4>1, <4>4, <4>5 DEF Inspect, At
    <3> QED BY <1>2, <3>1, <3>2
  <2>2. c \in Contender /\ ~c.sawOld
    BY <1>t, <2>1 DEF Contender, Calls
  <2> QED BY <1>t, <2>1, <2>2, CalmMove DEF Using
<1>3. CASE StatCreated(p)
  <2>1. contender[p].pc = "stat" /\ UNCHANGED <<lockDir, alive, misfired>>
    BY <1>3 DEF StatCreated, At
  <2>2. lockDir # Free /\ OwnDir(p)
    BY <1>o, <2>1 DEF Using, OwnDir, Free
  <2> DEFINE c == [contender[p] EXCEPT !.made = lockDir.ino, !.pc = "create"]
  <2>3. contender' = [contender EXCEPT ![p] = c]
    BY <1>t, <1>3, <2>2 DEF StatCreated, LockTypeOK
  <2>4. c \in Contender /\ ~c.sawOld /\ c.pc = "create" /\ c.made = lockDir.ino
    BY <1>t DEF Contender, Calls, LockDir
  <2>5. contender'[p] = c
    BY <1>t, <2>3 DEF LockTypeOK
  <2>6. OwnDir(p)'
    BY <2>1, <2>2, <2>4, <2>5 DEF OwnDir
  <2>7. lockDir' \in LockDir /\ ~lockDir'.old /\ contender[p].pc \in Using /\ c.pc \in Using
    BY <1>t, <2>1, <2>4 DEF Using
  <2> HIDE DEF c
  <2> QED BY <1>o, <2>1, <2>3, <2>4, <2>6, <2>7, CalmMove
<1>4. CASE CreateOwner(p)
  <2>1. contender[p].pc = "create" /\ UNCHANGED <<alive, misfired>>
    BY <1>4 DEF CreateOwner, At
  <2>2. OwnDir(p)
    BY <1>o, <2>1 DEF Using
  <2> DEFINE c == [contender[p] EXCEPT !.pc = "write"]
  <2>3. contender' = [contender EXCEPT ![p] = c]
        /\ lockDir' = [lockDir EXCEPT !.owner = p, !.old = FALSE]
    BY <1>t, <1>4 DEF CreateOwner, Goes, LockTypeOK
  <2>4. c \in Contender /\ ~c.sawOld /\ c.pc = "write" /\ c.made = contender[p].made
    BY <1>t DEF Contender, Calls
  <2>5. contender'[p] = c
    BY <1>t, <2>3 DEF LockTypeOK
  <2>6. lockDir' \in LockDir /\ ~lockDir'.old /\ lockDir'.ino = lockDir.ino /\ lockDir'.owner = p
    BY <1>t, <2>3 DEF LockDir
  <2>7. OwnDir(p)'
    BY <2>1, <2>2, <2>4, <2>5, <2>6 DEF OwnDir
  <2> QED BY <1>o, <2>1, <2>3, <2>4, <2>6, <2>7, CalmMove DEF Using
<1>5. CASE CreateFails(p)
  BY <1>5, <1>o DEF CreateFails, At, Using, OwnDir, Free
<1>6. CASE WriteOwner(p)
  <2>1. contender[p].pc = "write" /\ UNCHANGED <<alive, misfired>>
    BY <1>6 DEF WriteOwner, At
  <2>2. OwnDir(p)
    BY <1>o, <2>1 DEF Using
  <2> DEFINE c == [contender[p] EXCEPT !.pc = "verify"]
  <2>3. contender' = [contender EXCEPT ![p] = c] /\ lockDir' = [lockDir EXCEPT !.written = TRUE]
    BY <1>t, <1>6, <2>1, <2>2 DEF WriteOwner, Goes, LockTypeOK, OwnDir
  <2>4. c \in Contender /\ ~c.sawOld /\ c.pc = "verify" /\ c.made = contender[p].made
    BY <1>t DEF Contender, Calls
  <2>5. contender'[p] = c
    BY <1>t, <2>3 DEF LockTypeOK
  <2>6. lockDir' \in LockDir /\ ~lockDir'.old /\ lockDir'.ino = lockDir.ino
        /\ lockDir'.owner = lockDir.owner /\ lockDir'.written
    BY <1>t, <2>3 DEF LockDir
  <2>7. OwnDir(p)'
    BY <2>1, <2>2, <2>4, <2>5, <2>6 DEF OwnDir
  <2> QED BY <1>o, <2>1, <2>3, <2>4, <2>6, <2>7, CalmMove DEF Using
<1>7. CASE Verify(p)
  <2>1. contender[p].pc = "verify" /\ UNCHANGED <<lockDir, alive, misfired>>
    BY <1>7 DEF Verify, At
  <2>2. OwnDir(p)
    BY <1>o, <2>1 DEF Using
  <2>3. lockDir.ino = contender[p].made /\ ReadOwner = p
    BY <2>1, <2>2 DEF OwnDir, ReadOwner
  <2> DEFINE c == [Resting EXCEPT !.pc = "held"]
  <2>4. contender' = [contender EXCEPT ![p] = c]
    BY <1>7, <2>3 DEF Verify, StartsOver
  <2>5. c \in Contender /\ ~c.sawOld /\ c.pc = "held"
    BY <1>t, Records DEF Resting, Calls
  <2>6. contender'[p] = c
    BY <1>t, <2>4 DEF LockTypeOK
  <2>7. OwnDir(p)'
    BY <2>1, <2>2, <2>5, <2>6 DEF OwnDir
  <2> QED BY <1>t, <1>o, <2>1, <2>4, <2>5, <2>7, CalmMove DEF Using
<1>8. CASE Cleanup(p) \/ Steal(p)
  BY <1>8, <1>t DEF Cleanup, Steal, At
<1>9. CASE Judge(p)
  <2>1. contender[p].pc = "judge" /\ UNCHANGED <<lockDir, alive, misfired>>
    BY <1>9 DEF Judge, At
  <2>2. ~Stale(p)
    BY <1>t DEF Stale, ReadOwner, Calm, NobodyWaits, LockDir
  <2> DEFINE c == [Resting EXCEPT !.pc = "mkdir"]
  <2>3. contender' = [contender EXCEPT ![p] = c]
    BY <1>9, <2>2 DEF Judge, StartsOver
  <2>4. c \in Contender /\ ~c.sawOld /\ c.pc = "mkdir"
    BY <1>t, Records DEF Resting, Calls
  <2> QED BY <1>t, <2>1, <2>3, <2>4, CalmMove DEF Using
<1>10. CASE Release(p)
  <2>1. contender[p].pc = "release" /\ UNCHANGED <<lockDir, alive, misfired>>
    BY <1>10 DEF Release, At
  <2>2. OwnDir(p)
    BY <1>o, <2>1 DEF Using
  <2>3. ReadOwner = p
    BY <2>1, <2>2 DEF OwnDir, ReadOwner
  <2> DEFINE c == [contender[p] EXCEPT !.pc = "unlink", !.after = "idle"]
  <2>4. contender' = [contender EXCEPT ![p] = c]
    BY <1>t, <1>10, <2>3 DEF Release, LockTypeOK
  <2>5. c \in Contender /\ ~c.sawOld /\ c.pc = "unlink"
    BY <1>t DEF Contender, Calls
  <2>6. contender'[p] = c
    BY <1>t, <2>4 DEF LockTypeOK
  <2>7. OwnDir(p)'
    BY <2>1, <2>2, <2>5, <2>6 DEF OwnDir
  <2>8. lockDir' \in LockDir /\ ~lockDir'.old /\ contender[p].pc \in Using /\ c.pc \in Using
    BY <1>t, <2>1, <2>5 DEF Using
  <2> HIDE DEF c
  <2> QED BY <1>o, <2>1, <2>4, <2>5, <2>7, <2>8, CalmMove
<1>11. CASE Unlink(p)
  <2>1. contender[p].pc = "unlink" /\ UNCHANGED <<alive, misfired>>
    BY <1>11 DEF Unlink, At
  <2>2. OwnDir(p)
    BY <1>o, <2>1 DEF Using
  <2> DEFINE c == [contender[p] EXCEPT !.pc = "rmdir"]
  <2>3. contender' = [contender EXCEPT ![p] = c]
        /\ lockDir' = [lockDir EXCEPT !.owner = NoProc, !.written = FALSE, !.old = FALSE]
    BY <1>t, <1>11 DEF Unlink, Goes, LockTypeOK
  <2>4. c \in Contender /\ ~c.sawOld /\ c.pc = "rmdir"
    BY <1>t DEF Contender, Calls
  <2>5. contender'[p] = c
    BY <1>t, <2>3 DEF LockTypeOK
  <2>6. lockDir' \in LockDir /\ ~lockDir'.old /\ lockDir'.ino = lockDir.ino
        /\ lockDir'.owner = NoProc
    BY <1>t, <2>3 DEF LockDir
  <2>7. OwnDir(p)'
    BY <2>2, <2>4, <2>5, <2>6 DEF OwnDir
  <2> QED BY <1>o, <2>1, <2>3, <2>4, <2>6, <2>7, CalmMove DEF Using
<1>12. CASE Rmdir(p)
  <2>1. contender[p].pc = "rmdir" /\ UNCHANGED <<alive, misfired>>
    BY <1>12 DEF Rmdir, At
  <2>2. OwnDir(p)
    BY <1>o, <2>1 DEF Using
  <2> DEFINE c == [Resting EXCEPT !.pc = contender[p].after]
  <2>3. contender' = [contender EXCEPT ![p] = c] /\ lockDir' = Free
    BY <1>12, <2>1, <2>2 DEF Rmdir, StartsOver, OwnDir
  <2>4. contender[p].after \in {"idle", "mkdir", "failed"}
    BY <1>t DEF Contender
  <2>5. c \in Contender /\ ~c.sawOld /\ c.pc \in {"idle", "mkdir", "failed"}
    BY <1>t, <2>4, Records DEF Resting, Calls
  <2>6. Free \in LockDir /\ ~Free.old
    BY DEF Free, LockDir, NoDir
  <2> QED BY <1>o, <2>1, <2>3, <2>5, <2>6, CalmMove DEF Using
<1> QED
  BY <1>1, <1>2, <1>3, <1>4, <1>5, <1>6, <1>7, <1>8, <1>9, <1>10, <1>11, <1>12 DEF LockStep

\* The other steps of a process.
LEMMA CalmRest ==
  ASSUME Calm, NEW p \in Procs,
         \/ Acquire(p) \/ LetGo(p) \/ GiveUp(p)
         \/ /\ At(p, "failed") /\ contender' = [contender EXCEPT ![p] = Resting]
            /\ UNCHANGED <<lockDir, alive, misfired>>
  PROVE  Calm'
<1>t. LockTypeOK /\ contender[p] \in Contender /\ lockDir \in LockDir /\ ~contender[p].sawOld
      /\ ~lockDir.old
  BY DEF Calm, LockTypeOK, NobodyWaits
<1>1. CASE Acquire(p) \/ GiveUp(p)
  <2> DEFINE c == [contender[p] EXCEPT !.pc = IF contender[p].pc = "idle" THEN "mkdir" ELSE "failed"]
  <2>1. /\ contender[p].pc \in {"idle", "mkdir"} /\ UNCHANGED <<lockDir, alive, misfired>>
        /\ contender' = [contender EXCEPT ![p] = c]
    BY <1>1, <1>t DEF Acquire, GiveUp, At, Goes, LockTypeOK
  <2>2. c \in Contender /\ ~c.sawOld /\ c.pc \in {"mkdir", "failed"}
    BY <1>t DEF Contender, Calls
  <2> HIDE DEF c
  <2> QED BY <1>t, <2>1, <2>2, CalmMove DEF Using
<1>2. CASE LetGo(p)
  <2> DEFINE c == [contender[p] EXCEPT !.pc = "release"]
  <2>1. /\ contender[p].pc = "held" /\ UNCHANGED <<lockDir, alive, misfired>>
        /\ contender' = [contender EXCEPT ![p] = c]
    BY <1>2, <1>t DEF LetGo, At, Goes, LockTypeOK
  <2>2. c \in Contender /\ ~c.sawOld /\ c.pc = "release" /\ contender'[p] = c
    BY <1>t, <2>1 DEF Contender, Calls, LockTypeOK
  <2>3. OwnDir(p) /\ \A q \in Procs \ {p} : contender[q].pc \notin Using
    BY <2>1 DEF Calm, OneUser, Using
  <2>4. OwnDir(p)'
    BY <2>1, <2>2, <2>3 DEF OwnDir
  <2> HIDE DEF c
  <2> QED BY <1>t, <2>1, <2>2, <2>3, <2>4, CalmMove DEF Using
<1>3. CASE /\ At(p, "failed") /\ contender' = [contender EXCEPT ![p] = Resting]
           /\ UNCHANGED <<lockDir, alive, misfired>>
  <2>1. Resting \in Contender /\ ~Resting.sawOld /\ Resting.pc = "idle"
    BY DEF Resting, Contender, Calls, NoDir
  <2> QED BY <1>t, <1>3, <2>1, CalmMove DEF Using, At
<1> QED BY <1>1, <1>2, <1>3

\* While there is a lock its user is in a hurry, and no lock grows old.
LEMMA NeverOld ==
  ASSUME Prompt, Calm
  PROVE  ~Age
  BY DEF Prompt, Calm, OneUser, NobodyWaits, Age, Using, Hurried

LEMMA NoneDies ==
  ASSUME Prompt, Calm, NEW p \in Procs
  PROVE  ~Crash(p)
<1>1. {q \in Procs : ~alive[q]} = {}
  BY DEF Calm, NobodyWaits
<1>2. Cardinality({q \in Procs : ~alive[q]}) = 0
  BY <1>1, FS_EmptySet
<1> QED BY <1>2 DEF Prompt, Crash

LEMMA CalmNext ==
  ASSUME Prompt, Calm, [Next]_vars
  PROVE  Calm'
<1>1. CASE UNCHANGED lockVars
  BY <1>1 DEF lockVars, Calm, LockTypeOK, NobodyWaits, OneUser, OwnDir
<1>2. ASSUME NEW p \in Procs, NEW kind \in Kinds, NEW k \in Keys, Begin(p, kind, k)
      PROVE  Calm'
  BY <1>2, CalmRest DEF Begin
<1>3. ASSUME NEW p \in Procs, Works(p)
      PROVE  Calm'
  <2>1. CASE Locks(p)
    BY <2>1, CalmStep DEF Locks
  <2>2. CASE Ends(p) \/ Refused(p)
    BY <2>2, CalmRest DEF Ends, Refused
  <2>3. CASE Read(p) \/ Throws(p) \/ Write(p) \/ WriteFails(p) \/ Returns(p)
    BY <2>3, <1>1 DEF Read, Throws, Write, WriteFails, Returns
  <2> QED BY <1>3, <2>1, <2>2, <2>3 DEF Works
<1>4. ASSUME NEW p \in Procs, TimesOut(p)
      PROVE  Calm'
  BY <1>4, CalmRest DEF TimesOut
<1>5. CASE Tick \/ UNCHANGED vars
  BY <1>5, <1>1 DEF Tick, vars
<1> QED BY <1>2, <1>3, <1>4, <1>5, NeverOld, NoneDies DEF Next, Ages

LEMMA CalmAlways ==
  ASSUME Prompt
  PROVE  Spec => []Calm
<1>1. Init => Calm
  BY CalmInit DEF Init
<1>2. Calm /\ [Next]_vars => Calm'
  BY CalmNext
<1> QED BY <1>1, <1>2, PTL DEF Spec

\* As long as no process dies and none sleeps over a few system calls, no lock
\* is ever taken from its holder: of two operations one waits, any number of
\* processes contending.
THEOREM PromptlyExclusive == Prompt => (Spec => [](\A p, q \in Holders : p = q))
<1> SUFFICES ASSUME Prompt PROVE Spec => [](\A p, q \in Holders : p = q)
  OBVIOUS
<1>1. Calm => \A p, q \in Holders : p = q
  BY DEF Calm, OneUser, Holders, Using
<1> QED BY <1>1, CalmAlways, PTL

\* Then the store keeps its contract without further conditions.
THEOREM PromptStoreKeepsContract == Prompt => (Spec => ImplementsContract /\ OneWinner)
<1> SUFFICES ASSUME Prompt PROVE Spec => ImplementsContract /\ OneWinner
  OBVIOUS
<1>1. Calm => ~misfired
  BY DEF Calm
<1>2. Spec => []~misfired
  BY <1>1, CalmAlways, PTL
<1> QED BY <1>2, StoreKeepsContract, OneCallerWins

===============================================================================
