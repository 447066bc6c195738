---------------------------- MODULE WorkerLedger -----------------------------
(* The encrypted record of one durable autonomy worker and the operations of   *)
(* createAutonomyWorkerLedger (lib/autonomy-worker.mjs).  An operation is one  *)
(* atomic store.update: an action below is its successful path, its conjuncts  *)
(* the checks that would otherwise throw and leave the record alone.  The      *)
(* tools, hooks and turns that call them are in AutonomyWorker.                *)
EXTENDS Clock

CONSTANTS
  Commands,       \* commands of the tool/parameter grammar, by execution digest
  NoCommand,      \* plan === null
  LeaseTicks,     \* leaseMs
  BackoffTicks,   \* the first retry delay (5 minutes)
  BackoffCap,     \* the longest retry delay (24 hours)
  MaxFailures     \* maxConsecutiveFailures

ASSUME LedgerAssumption ==
  /\ NoCommand \notin Commands
  /\ {LeaseTicks, BackoffTicks, BackoffCap, MaxFailures} \subseteq Nat \ {0}

VARIABLES
  worker,         \* the stored worker record
  leases          \* how many lease identifiers randomLeaseId has handed out

\* Lease identifiers are 128 random bits; the n-th one ever drawn is n.
NoLease == [id |-> 0, expiresAt |-> 0, plan |-> NoCommand, receipt |-> "none"]

WorkerStatus == {"absent", "active", "human_gate", "done", "revoked"}
Closed == {"done", "revoked"}

Lease == [id : Nat, expiresAt : Nat, plan : Commands \cup {NoCommand},
          receipt : {"none", "completed", "human_gate"}]

LedgerTypeOK ==
  /\ worker \in [status : WorkerStatus, lease : Lease, nextWake : Nat \cup {Never},
                 failures : Nat, actions : Nat]
  /\ leases \in Nat

LedgerInit ==
  /\ worker = [status |-> "absent", lease |-> NoLease, nextWake |-> Never,
               failures |-> 0, actions |-> 0]
  /\ leases = 0

\* workerScheduleToken digests these fields (the identifier of a lease fixes
\* its expiry); a receipt does not change it.
Token == [status : WorkerStatus, nextWake : Nat \cup {Never}, id : Nat,
          plan : Commands \cup {NoCommand}]
ScheduleToken == [status |-> worker.status, nextWake |-> worker.nextWake,
                  id |-> worker.lease.id, plan |-> worker.lease.plan]
NoToken == [status |-> "absent", nextWake |-> Never, id |-> 0, plan |-> NoCommand]

\* Faults: the expiry or the identifier of the lease is not compared.
HoldsExpiredLease(l) == l # 0 /\ worker.lease.id = l
HoldsAnyLease(l) == l # 0 /\ now < worker.lease.expiresAt

\* The check every lease operation starts with: the caller's lease is the
\* stored one and has not expired.
HoldsLease(l) == l # 0 /\ worker.lease.id = l /\ now < worker.lease.expiresAt

-----------------------------------------------------------------------------
\* create: the identifier is derived from the campaign, so a second worker of
\* the same campaign is refused by registerIfAbsent.
Register ==
  /\ worker.status = "absent"
  /\ worker' = [worker EXCEPT !.status = "active", !.nextWake = now]
  /\ UNCHANGED leases

\* claim, when the campaign the caller read is no longer active: the worker is
\* closed whatever its own status was.
ClaimClosed(seen) ==
  /\ worker.status # "absent"
  /\ seen # "active"
  /\ worker' = [worker EXCEPT !.status = IF seen = "revoked" THEN "revoked" ELSE "done",
                              !.lease = NoLease, !.nextWake = Never]
  /\ UNCHANGED leases

Due == worker.nextWake = Never \/ worker.nextWake <= now
NotDue == worker.status = "active" /\ ~Due
LeaseLive == worker.lease # NoLease /\ now < worker.lease.expiresAt

\* claim, on an expired lease whose issued command has no known outcome: stop
\* for a human and keep the lease as the record of what is unresolved.
ClaimUnresolved ==
  /\ worker.status = "active" /\ Due /\ ~LeaseLive
  /\ worker.lease.plan # NoCommand
  /\ worker' = [worker EXCEPT !.status = "human_gate", !.nextWake = Never]
  /\ UNCHANGED leases

\* Fault: an expired lease is replaced whatever it had issued.
ClaimFreshAnyway ==
  /\ worker.status = "active" /\ Due /\ ~LeaseLive
  /\ leases' = leases + 1
  /\ worker' = [worker EXCEPT !.lease =
                  [NoLease EXCEPT !.id = leases + 1, !.expiresAt = now + LeaseTicks]]

\* claim, otherwise: a new lease without a plan.
ClaimFresh ==
  /\ worker.status = "active" /\ Due /\ ~LeaseLive
  /\ worker.lease.plan = NoCommand
  /\ leases' = leases + 1
  /\ worker' = [worker EXCEPT !.lease =
                  [NoLease EXCEPT !.id = leases + 1, !.expiresAt = now + LeaseTicks]]

\* issue: attach the one command of this lease.  The status is not consulted.
Issue(l, cmd) ==
  /\ HoldsLease(l)
  /\ worker.lease.plan = NoCommand
  /\ worker' = [worker EXCEPT !.lease.plan = cmd]
  /\ UNCHANGED leases

\* matchExecution: does a call of this command belong to the pending plan?
Matches(cmd) ==
  /\ worker.status = "active"
  /\ worker.lease.plan = cmd
  /\ worker.lease.receipt = "none"
  /\ now < worker.lease.expiresAt

\* Fault: the receipt is matched by the digest of the command alone.
RecordResultByDigest(l, cmd, state) ==
  /\ worker.lease.plan = cmd /\ now < worker.lease.expiresAt
  /\ worker' = [worker EXCEPT !.lease.receipt = IF @ = "none" THEN state ELSE @]
  /\ UNCHANGED leases

\* recordExecutionResult: the first receipt of the lease's plan stays.
RecordResult(l, cmd, state) ==
  /\ HoldsLease(l)
  /\ worker.lease.plan = cmd
  /\ worker' = [worker EXCEPT !.lease.receipt = IF @ = "none" THEN state ELSE @]
  /\ UNCHANGED leases

-----------------------------------------------------------------------------
\* Fault: a success takes back one failure instead of all of them.
CompleteForgivesOne(l) ==
  /\ HoldsLease(l)
  /\ worker.lease.plan # NoCommand
  /\ worker.lease.receipt = "completed"
  /\ worker' = [status |-> "active", lease |-> NoLease, nextWake |-> now,
                failures |-> worker.failures - 1, actions |-> worker.actions + 1]
  /\ UNCHANGED leases

\* complete(action_succeeded) requires the host-observed receipt.
CompleteSuccess(l) ==
  /\ HoldsLease(l)
  /\ worker.lease.plan # NoCommand
  /\ worker.lease.receipt = "completed"
  /\ worker' = [status |-> "active", lease |-> NoLease, nextWake |-> now,
                failures |-> 0, actions |-> worker.actions + 1]
  /\ UNCHANGED leases

\* complete(done_for_now): next is null or a tick in the future.
CompleteDone(l, next) ==
  /\ HoldsLease(l)
  /\ next = Never \/ now < next
  /\ worker' = [worker EXCEPT !.status = IF next = Never THEN "done" ELSE "active",
                              !.lease = NoLease, !.nextWake = next, !.failures = 0]
  /\ UNCHANGED leases

\* complete(human_gate) keeps the lease.
CompleteGate(l) ==
  /\ HoldsLease(l)
  /\ worker' = [worker EXCEPT !.status = "human_gate", !.nextWake = Never]
  /\ UNCHANGED leases

\* 2 ** Math.min(8, failures - 1), for failures >= 1.
Doubling(failures) ==
  <<1, 2, 4, 8, 16, 32, 64, 128, 256>>[IF failures < 9 THEN failures ELSE 9]

Backoff(failures) ==
  LET delay == BackoffTicks * Doubling(failures)
  IN  IF delay < BackoffCap THEN delay ELSE BackoffCap

\* Fault: one failure too many.
ExhaustedLate(failures) == failures > MaxFailures

Exhausted(failures) == failures >= MaxFailures

\* complete(transient_failure): back off, or stop when the budget is spent.
CompleteTransient(l) ==
  LET failures == worker.failures + 1 IN
  /\ HoldsLease(l)
  /\ worker.lease.plan # NoCommand
  /\ worker' = IF Exhausted(failures)
               THEN [worker EXCEPT !.status = "human_gate", !.nextWake = Never,
                                   !.failures = failures]
               ELSE [worker EXCEPT !.status = "active", !.lease = NoLease,
                                   !.nextWake = now + Backoff(failures),
                                   !.failures = failures]
  /\ UNCHANGED leases

-----------------------------------------------------------------------------
\* gateRecovery leaves a worker that is not active alone.
GateRecovery ==
  /\ worker' = IF worker.status = "active"
               THEN [worker EXCEPT !.status = "human_gate", !.nextWake = Never]
               ELSE worker
  /\ UNCHANGED leases

\* Fault: any worker can be resumed.
ResumeAnyStatus(seen) ==
  /\ worker.status # "absent"
  /\ seen = "active"
  /\ worker' = [worker EXCEPT !.status = "active", !.lease = NoLease,
                              !.nextWake = now, !.failures = 0]
  /\ UNCHANGED leases

\* resume, with the campaign status the caller read.
Resume(seen) ==
  /\ worker.status = "human_gate"
  /\ seen = "active"
  /\ worker' = [worker EXCEPT !.status = "active", !.lease = NoLease,
                              !.nextWake = now, !.failures = 0]
  /\ UNCHANGED leases

\* revoke: from any status.
RevokeWorker ==
  /\ worker.status # "absent"
  /\ worker' = [worker EXCEPT !.status = "revoked", !.lease = NoLease, !.nextWake = Never]
  /\ UNCHANGED leases

=============================================================================
