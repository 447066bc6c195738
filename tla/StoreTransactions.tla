--------------------------- MODULE StoreTransactions ---------------------------
(* Several processes operate on one encrypted store file: each operation takes *)
(* the lock, reads and prunes the file, computes, replaces the file and lets   *)
(* go (serialized and mutate of lib/file-keyed-store.mjs).  A process may die  *)
(* between any two steps; its successor is one more process.                   *)
EXTENDS KeyedStore, StateLock

CONSTANTS
  MaxCalls,    \* bound: operations a process is asked for
  MaxDeaths    \* bound: processes that die

ASSUME TransactionAssumption == {MaxCalls, MaxDeaths} \subseteq Nat

VARIABLES
  file,    \* what the file holds
  op,      \* the operation of each process
  calls    \* operations begun so far

vars == <<now, lockVars, file, op, calls>>

NoOp == [kind |-> "none", key |-> CHOOSE k \in Keys : TRUE, phase |-> "none", next |-> Empty,
         result |-> 0]
Operation == [kind : Kinds \cup {"none"}, key : Keys,
              phase : {"none", "queued", "read", "done", "failed"}, next : Contents,
              result : Nat]

TypeOK ==
  /\ ClockTypeOK /\ LockTypeOK
  /\ file \in Contents
  /\ op \in [Procs -> Operation]
  /\ calls \in [Procs -> Nat]

\* A record written before retention was introduced carries no expiry.
Init ==
  /\ ClockInit /\ LockInit
  /\ \E k \in Keys :
       file \in {Empty, [Empty EXCEPT ![k] = [value |-> 0, createdAt |-> 0, expiresAt |-> Never]]}
  /\ op = [p \in Procs |-> NoOp]
  /\ calls = [p \in Procs |-> 0]

Phase(p, phase) == op' = [op EXCEPT ![p].phase = phase]

-----------------------------------------------------------------------------
Begin(p, kind, k) ==
  /\ op[p] = NoOp /\ calls[p] < MaxCalls
  /\ kind \in {"clear", "reencrypt"} => k = NoOp.key
  /\ Acquire(p)
  /\ op' = [op EXCEPT ![p] = [NoOp EXCEPT !.kind = kind, !.key = k, !.phase = "queued"]]
  /\ calls' = [calls EXCEPT ![p] = @ + 1]
  /\ UNCHANGED <<now, file>>

\* readState, prune and the callback, which does not wait.
Read(p) ==
  LET pruned == Prune(file, now) IN
  /\ At(p, "held") /\ op[p].phase = "queued"
  /\ \E o \in Outcomes(op[p].kind, pruned, op[p].key, now) :
       op' = [op EXCEPT ![p].next = o.next, ![p].result = o.result,
                ![p].phase = IF op[p].kind = "lookup" /\ pruned = file THEN "done" ELSE "read"]
  /\ UNCHANGED <<now, lockVars, file, calls>>

\* The callback of update, or the check of a record, throws.
Throws(p) ==
  /\ At(p, "held") /\ op[p].phase = "queued" /\ op[p].kind = "update"
  /\ Phase(p, "failed")
  /\ UNCHANGED <<now, lockVars, file, calls>>

\* writeState: the rename is the write; what follows it may still fail.
Write(p) ==
  /\ At(p, "held") /\ op[p].phase = "read"
  /\ file' = op[p].next
  /\ \E phase \in {"done", "failed"} : Phase(p, phase)
  /\ UNCHANGED <<now, lockVars, calls>>

WriteFails(p) ==
  /\ At(p, "held") /\ op[p].phase = "read"
  /\ Phase(p, "failed")
  /\ UNCHANGED <<now, lockVars, file, calls>>

Ends(p) ==
  /\ op[p].phase \in {"done", "failed"}
  /\ LetGo(p)
  /\ UNCHANGED <<now, file, op, calls>>

\* The caller has its answer only when the lock is released.
Returns(p) ==
  /\ At(p, "idle") /\ op[p].phase \in {"done", "failed"}
  /\ op' = [op EXCEPT ![p] = NoOp]
  /\ UNCHANGED <<now, lockVars, file, calls>>

\* The lock was refused or not free in time: nothing was read or written.
Refused(p) ==
  /\ At(p, "failed")
  /\ contender' = [contender EXCEPT ![p] = Resting]
  /\ op' = [op EXCEPT ![p] = NoOp]
  /\ UNCHANGED <<now, lockDir, alive, misfired, file, calls>>

Crash(p) ==
  /\ Cardinality({q \in Procs : ~alive[q]}) < MaxDeaths
  /\ Dies(p)
  /\ op' = [op EXCEPT ![p] = NoOp]
  /\ UNCHANGED <<now, file, calls>>

Locks(p) == LockStep(p) /\ UNCHANGED <<now, file, op, calls>>
TimesOut(p) == GiveUp(p) /\ UNCHANGED <<now, file, op, calls>>
Ages == Age /\ UNCHANGED <<now, file, op, calls>>
Tick == ClockTicks /\ UNCHANGED <<lockVars, file, op, calls>>

Works(p) ==
  \/ Locks(p) \/ Read(p) \/ Throws(p) \/ Write(p) \/ WriteFails(p) \/ Ends(p)
  \/ Returns(p) \/ Refused(p)

Next ==
  \/ \E p \in Procs :
       \/ \E kind \in Kinds, k \in Keys : Begin(p, kind, k)
       \/ Works(p) \/ TimesOut(p) \/ Crash(p)
  \/ Ages \/ Tick

Spec == Init /\ [][Next]_vars

-----------------------------------------------------------------------------
(* Properties                                                                *)

\* Every change of the file is one operation on what the file then holds: none
\* is lost to a write that started from older contents, and none is applied
\* twice; failed writes, waiting and deaths included.
Unasked == [kind |-> "none", key |-> NoOp.key]
Requested ==
  [p \in Procs |-> IF op[p].phase \in {"queued", "read"}
                   THEN [kind |-> op[p].kind, key |-> op[p].key] ELSE Unasked]
Contract == INSTANCE StoreContract
  WITH entries <- file, requests <- Requested, Callers <- Procs, NoRequest <- Unasked
ImplementsContract == Contract!ContractSpec

Wins(p, kind) ==
  /\ op[p].kind = kind /\ op[p].result = 1
  /\ op[p].phase = "read" /\ op'[p].phase = "done"

\* A one-time record is handed out at most once (consume), and a guard is
\* reserved by one caller only (registerIfAbsent).
OneWinner ==
  [][ \A p \in Procs :
        /\ Wins(p, "consume") => Has(file, op[p].key)
        /\ Wins(p, "registerIfAbsent") =>
             (~Has(file, op[p].key) \/ ~Has(Prune(file, now), op[p].key)) ]_vars

===============================================================================
