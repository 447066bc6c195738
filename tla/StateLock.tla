------------------------------ MODULE StateLock -------------------------------
(* The cross-process lock under the encrypted stores (acquireFileLock and      *)
(* serialized of lib/file-keyed-store.mjs) and under the evidence vault        *)
(* (lib/state-transaction-lock.mjs): a directory made with mkdir, an owner     *)
(* file inside it, and the removal of a lock left behind by a dead process.    *)
(* One action is one file-system call, the steps between which another process *)
(* may run.  A contender is a store instance in a process of its own; within   *)
(* an instance a promise chain admits one operation at a time.                 *)
EXTENDS Naturals

CONSTANTS
  Procs,      \* the contending store instances
  NoProc,     \* no owner file
  Inodes,     \* inode numbers, which a file system uses again
  CanStall    \* whether a live process may need 30 s where it needs milliseconds

NoDir == 0

ASSUME LockAssumption ==
  /\ NoProc \notin Procs
  /\ Inodes \subseteq Nat \ {NoDir} /\ Inodes # {}
  /\ CanStall \in BOOLEAN

VARIABLES
  lockDir,     \* what the lock path names
  contender,   \* where each acquisition or release stands
  alive,       \* the processes that run
  misfired     \* history: a rename took a lock that was no longer stale

lockVars == <<lockDir, contender, alive, misfired>>

Free == [ino |-> NoDir, owner |-> NoProc, written |-> FALSE, old |-> FALSE]
LockDir == [ino : Inodes \cup {NoDir}, owner : Procs \cup {NoProc}, written : BOOLEAN,
            old : BOOLEAN]

Calls == {"idle", "mkdir", "stat", "create", "write", "verify", "held", "inspect", "judge",
          "steal", "cleanup", "release", "unlink", "rmdir", "failed"}
\* made: identity of the directory created; sawOld: its mtime is 30 s ago;
\* after: where the removal of the own directory leads.
Contender == [pc : Calls, made : Inodes \cup {NoDir}, sawOld : BOOLEAN,
              after : {"idle", "mkdir", "failed"}]
Resting == [pc |-> "idle", made |-> NoDir, sawOld |-> FALSE, after |-> "idle"]

LockTypeOK ==
  /\ lockDir \in LockDir
  /\ contender \in [Procs -> Contender]
  /\ alive \in [Procs -> BOOLEAN]
  /\ misfired \in BOOLEAN

LockInit ==
  /\ lockDir = Free
  /\ contender = [p \in Procs |-> Resting]
  /\ alive = [p \in Procs |-> TRUE]
  /\ misfired = FALSE

\* readLockOwner: undefined as long as the owner file is missing or unreadable.
ReadOwner == IF lockDir.written THEN lockDir.owner ELSE NoProc

At(p, pc) == alive[p] /\ contender[p].pc = pc
Goes(p, pc) == contender' = [contender EXCEPT ![p].pc = pc]
\* A call of acquireFileLock remembers nothing of its earlier attempts.
StartsOver(p, pc) == contender' = [contender EXCEPT ![p] = [Resting EXCEPT !.pc = pc]]

-----------------------------------------------------------------------------
(* Acquiring                                                                 *)

Acquire(p) ==
  /\ At(p, "idle")
  /\ Goes(p, "mkdir")
  /\ UNCHANGED <<lockDir, alive, misfired>>

MkdirCreates(p) ==
  /\ At(p, "mkdir") /\ lockDir = Free
  /\ \E ino \in Inodes : lockDir' = [Free EXCEPT !.ino = ino]
  /\ Goes(p, "stat")
  /\ UNCHANGED <<alive, misfired>>

MkdirExists(p) ==
  /\ At(p, "mkdir") /\ lockDir # Free
  /\ Goes(p, "inspect")
  /\ UNCHANGED <<lockDir, alive, misfired>>

\* lstat of the directory just made; if it is gone the operation is refused.
StatCreated(p) ==
  /\ At(p, "stat")
  /\ contender' = [contender EXCEPT
       ![p].made = lockDir.ino, ![p].pc = IF lockDir = Free THEN "failed" ELSE "create"]
  /\ UNCHANGED <<lockDir, alive, misfired>>

\* Fault: the owner file is opened without O_EXCL.
CreateShared(p) ==
  /\ At(p, "create") /\ lockDir # Free
  /\ lockDir' = [lockDir EXCEPT !.owner = p, !.written = FALSE, !.old = FALSE]
  /\ Goes(p, "write")
  /\ UNCHANGED <<alive, misfired>>

\* O_CREAT | O_EXCL, by path: the file may land in the directory of another.
CreateOwner(p) ==
  /\ At(p, "create") /\ lockDir # Free /\ lockDir.owner = NoProc
  /\ lockDir' = [lockDir EXCEPT !.owner = p, !.old = FALSE]
  /\ Goes(p, "write")
  /\ UNCHANGED <<alive, misfired>>

CreateFails(p) ==
  /\ At(p, "create") /\ (lockDir = Free \/ lockDir.owner # NoProc)
  /\ contender' = [contender EXCEPT ![p].pc = "cleanup", ![p].after = "failed"]
  /\ UNCHANGED <<lockDir, alive, misfired>>

\* Through the open handle, wherever the file has been moved.
WriteOwner(p) ==
  /\ At(p, "write")
  /\ lockDir' = IF lockDir.owner = p THEN [lockDir EXCEPT !.written = TRUE] ELSE lockDir
  /\ Goes(p, "verify")
  /\ UNCHANGED <<alive, misfired>>

\* Fault: the lock is taken on the word of the write alone.
VerifyTrusts(p) ==
  /\ At(p, "verify")
  /\ StartsOver(p, "held")
  /\ UNCHANGED <<lockDir, alive, misfired>>

\* Identity and owner are read again before the lock counts as taken.
Verify(p) ==
  /\ At(p, "verify")
  /\ IF lockDir.ino = contender[p].made /\ ReadOwner = p
     THEN StartsOver(p, "held")
     ELSE contender' = [contender EXCEPT ![p].pc = "cleanup", ![p].after = "mkdir"]
  /\ UNCHANGED <<lockDir, alive, misfired>>

\* cleanupCreatedLock: "replaced" and "contended" leave the directory alone.
Cleanup(p) ==
  /\ At(p, "cleanup")
  /\ IF lockDir.ino = contender[p].made /\ ReadOwner \in {NoProc, p}
     THEN contender' = [contender EXCEPT
            ![p].made = NoDir, ![p].pc = IF ReadOwner = p THEN "unlink" ELSE "rmdir"]
     ELSE StartsOver(p, "mkdir")
  /\ UNCHANGED <<lockDir, alive, misfired>>

-----------------------------------------------------------------------------
(* Waiting for, and removing, the lock of another                            *)

Inspect(p) ==
  /\ At(p, "inspect")
  /\ contender' = [contender EXCEPT ![p].sawOld = lockDir.old,
                                    ![p].pc = IF lockDir = Free THEN "mkdir" ELSE "judge"]
  /\ UNCHANGED <<lockDir, alive, misfired>>

\* The owner is dead, or there is none and the directory was 30 s old.
Stale(p) == IF ReadOwner # NoProc THEN ~alive[ReadOwner] ELSE contender[p].sawOld

Judge(p) ==
  /\ At(p, "judge")
  /\ StartsOver(p, IF Stale(p) THEN "steal" ELSE "mkdir")
  /\ UNCHANGED <<lockDir, alive, misfired>>

StaleNow == IF ReadOwner # NoProc THEN ~alive[ReadOwner] ELSE lockDir.old

\* removeDeadLock: the rename takes whatever the path names by now.
Steal(p) ==
  /\ At(p, "steal")
  /\ lockDir' = Free
  /\ misfired' = (misfired \/ (lockDir # Free /\ ~StaleNow))
  /\ Goes(p, "mkdir")
  /\ UNCHANGED alive

\* The 400 attempts are used up.
GiveUp(p) ==
  /\ At(p, "mkdir")
  /\ Goes(p, "failed")
  /\ UNCHANGED <<lockDir, alive, misfired>>

-----------------------------------------------------------------------------
(* Releasing                                                                 *)

\* The holder's operation is over, well or not: finally { await release() }.
LetGo(p) ==
  /\ At(p, "held")
  /\ Goes(p, "release")
  /\ UNCHANGED <<lockDir, alive, misfired>>

\* Only the owner's own file may be removed.
Release(p) ==
  /\ At(p, "release")
  /\ contender' = IF ReadOwner = p
                  THEN [contender EXCEPT ![p].pc = "unlink", ![p].after = "idle"]
                  ELSE [contender EXCEPT ![p] = Resting]
  /\ UNCHANGED <<lockDir, alive, misfired>>

\* By path: the owner file that is there now.
Unlink(p) ==
  /\ At(p, "unlink")
  /\ lockDir' = [lockDir EXCEPT !.owner = NoProc, !.written = FALSE, !.old = FALSE]
  /\ Goes(p, "rmdir")
  /\ UNCHANGED <<alive, misfired>>

\* A directory that is not empty stays; the error is swallowed.
Rmdir(p) ==
  /\ At(p, "rmdir")
  /\ lockDir' = IF lockDir.owner = NoProc THEN Free ELSE lockDir
  /\ StartsOver(p, contender[p].after)
  /\ UNCHANGED <<alive, misfired>>

-----------------------------------------------------------------------------
(* Time and faults                                                           *)

\* What a live process does within 30 s, the grace of an ownerless directory.
Hurried == {"stat", "create", "write", "verify", "cleanup", "held", "release", "unlink", "rmdir"}

Age ==
  /\ lockDir # Free /\ ~lockDir.old
  /\ CanStall \/ \A p \in Procs : alive[p] => contender[p].pc \notin Hurried
  /\ lockDir' = [lockDir EXCEPT !.old = TRUE]
  /\ UNCHANGED <<contender, alive, misfired>>

Dies(p) ==
  /\ alive[p]
  /\ alive' = [alive EXCEPT ![p] = FALSE]
  /\ contender' = [contender EXCEPT ![p] = Resting]
  /\ UNCHANGED <<lockDir, misfired>>

LockStep(p) ==
  \/ MkdirCreates(p) \/ MkdirExists(p) \/ StatCreated(p)
  \/ CreateOwner(p) \/ CreateFails(p) \/ WriteOwner(p) \/ Verify(p) \/ Cleanup(p)
  \/ Inspect(p) \/ Judge(p) \/ Steal(p)
  \/ Release(p) \/ Unlink(p) \/ Rmdir(p)

-----------------------------------------------------------------------------
Holders == {p \in Procs : contender[p].pc = "held"}

\* docs/architecture.md: "serialized behind one state-directory-wide cross-process
\* transaction lock".  Dead owners, sleeping creators and directories replaced
\* between two calls never let two operations in, except through the one gap
\* between judging a lock stale and renaming it away.
Exclusive == misfired \/ \A p, q \in Holders : p = q

\* file-keyed-store.test.mjs: "an old live-process lock is never stolen by
\* another store instance": while its holder lives the directory stays.
LiveLockKept ==
  [][ \A p \in Holders : (alive[p] /\ ReadOwner = p) => lockDir'.ino = lockDir.ino /\
        lockDir'.owner = p ]_lockVars

===============================================================================
