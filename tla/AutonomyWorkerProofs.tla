------------------------- MODULE AutonomyWorkerProofs -------------------------
(* Proofs about AutonomyWorker, for every set of turns, calls and commands and *)
(* every value of the bounds.                                                  *)
EXTENDS AutonomyWorker, FiniteSetTheorems, TLAPS

\* What a retry delay is made of is a natural number.
LEMMA BackoffType ==
  ASSUME NEW failures \in Nat \ {0}
  PROVE  Backoff(failures) \in Nat
<1>1. Doubling(failures) \in Nat
  <2>1. CASE failures < 9
    <3>1. failures \in 1 .. 8
      BY <2>1
    <3>2. QED
      BY <3>1 DEF Doubling
  <2>2. CASE ~(failures < 9)
    BY <2>2 DEF Doubling
  <2>3. QED
    BY <2>1, <2>2
<1>2. BackoffTicks * Doubling(failures) \in Nat
  BY <1>1, LedgerAssumption
<1>3. QED
  BY <1>2, LedgerAssumption DEF Backoff

-----------------------------------------------------------------------------
(* The operations of the ledger keep its types.                              *)

LEMMA NowType ==
  ASSUME ClockTypeOK
  PROVE  now \in Nat
BY ClockAssumption DEF ClockTypeOK

LEMMA NoLeaseType == NoLease \in Lease
BY DEF NoLease, Lease

LEMMA RegisterType ==
  ASSUME LedgerTypeOK, now \in Nat, Register
  PROVE  LedgerTypeOK'
BY DEF LedgerTypeOK, Register, WorkerStatus

LEMMA ClaimType ==
  ASSUME LedgerTypeOK, now \in Nat,
         (\E seen \in GrantStatus : ClaimClosed(seen)) \/ ClaimUnresolved \/ ClaimFresh
  PROVE  LedgerTypeOK'
<1>1. CASE \E seen \in GrantStatus : ClaimClosed(seen)
  BY <1>1, NoLeaseType DEF LedgerTypeOK, ClaimClosed, WorkerStatus
<1>2. CASE ClaimUnresolved
  BY <1>2 DEF LedgerTypeOK, ClaimUnresolved, WorkerStatus
<1>3. CASE ClaimFresh
  <2>1. leases + 1 \in Nat /\ now + LeaseTicks \in Nat
    BY LedgerAssumption DEF LedgerTypeOK
  <2>2. [NoLease EXCEPT !.id = leases + 1, !.expiresAt = now + LeaseTicks] \in Lease
    BY <2>1, NoLeaseType DEF Lease
  <2>3. QED
    BY <1>3, <2>1, <2>2 DEF LedgerTypeOK, ClaimFresh
<1>4. QED
  BY <1>1, <1>2, <1>3

LEMMA CommandType ==
  ASSUME LedgerTypeOK, NEW l \in Nat, NEW cmd \in Commands,
         NEW state \in {"completed", "human_gate"},
         Issue(l, cmd) \/ RecordResult(l, cmd, state)
  PROVE  LedgerTypeOK'
<1>1. worker.lease \in Lease
  BY DEF LedgerTypeOK
<1>2. CASE Issue(l, cmd)
  <2>1. [worker.lease EXCEPT !.plan = cmd] \in Lease
    BY <1>1 DEF Lease
  <2>2. worker' = [worker EXCEPT !.lease = [worker.lease EXCEPT !.plan = cmd]]
    BY <1>2 DEF Issue, LedgerTypeOK
  <2>3. QED
    BY <1>2, <2>1, <2>2 DEF LedgerTypeOK, Issue
<1>3. CASE RecordResult(l, cmd, state)
  <2> DEFINE receipt == IF worker.lease.receipt = "none" THEN state ELSE worker.lease.receipt
  <2>1. [worker.lease EXCEPT !.receipt = receipt] \in Lease
    BY <1>1 DEF Lease
  <2>2. worker' = [worker EXCEPT !.lease = [worker.lease EXCEPT !.receipt = receipt]]
    BY <1>3 DEF RecordResult, LedgerTypeOK
  <2>3. QED
    BY <1>3, <2>1, <2>2 DEF LedgerTypeOK, RecordResult
<1>4. QED
  BY <1>2, <1>3

LEMMA CompleteType ==
  ASSUME LedgerTypeOK, now \in Nat, NEW l \in Nat, NEW next \in Nat \cup {Never},
         \/ CompleteSuccess(l) \/ CompleteDone(l, next)
         \/ CompleteGate(l) \/ CompleteTransient(l)
  PROVE  LedgerTypeOK'
<1>1. CASE CompleteSuccess(l)
  BY <1>1, NoLeaseType DEF LedgerTypeOK, CompleteSuccess, WorkerStatus
<1>2. CASE CompleteDone(l, next)
  BY <1>2, NoLeaseType DEF LedgerTypeOK, CompleteDone, WorkerStatus
<1>3. CASE CompleteGate(l)
  BY <1>3 DEF LedgerTypeOK, CompleteGate, WorkerStatus
<1>4. CASE CompleteTransient(l)
  <2>1. worker.failures + 1 \in Nat \ {0}
    BY DEF LedgerTypeOK
  <2>2. now + Backoff(worker.failures + 1) \in Nat
    BY <2>1, BackoffType
  <2>3. QED
    BY <1>4, <2>1, <2>2, NoLeaseType DEF LedgerTypeOK, CompleteTransient, WorkerStatus
<1>5. QED
  BY <1>1, <1>2, <1>3, <1>4

LEMMA ControlType ==
  ASSUME LedgerTypeOK, now \in Nat,
         GateRecovery \/ (\E seen \in GrantStatus : Resume(seen)) \/ RevokeWorker
  PROVE  LedgerTypeOK'
<1>1. CASE GateRecovery
  <2>1. CASE worker.status = "active"
    <3>1. /\ worker' = [worker EXCEPT !.status = "human_gate", !.nextWake = Never]
          /\ leases' = leases
      BY <1>1, <2>1 DEF GateRecovery
    <3>2. QED
      BY <3>1 DEF LedgerTypeOK, WorkerStatus
  <2>2. CASE worker.status # "active"
    BY <1>1, <2>2 DEF LedgerTypeOK, GateRecovery
  <2>3. QED
    BY <2>1, <2>2
<1>2. CASE \E seen \in GrantStatus : Resume(seen)
  <2>1. /\ worker' = [worker EXCEPT !.status = "active", !.lease = NoLease,
                                    !.nextWake = now, !.failures = 0]
        /\ leases' = leases
    BY <1>2 DEF Resume
  <2>2. QED
    BY <2>1, NoLeaseType DEF LedgerTypeOK, WorkerStatus
<1>3. CASE RevokeWorker
  BY <1>3, NoLeaseType DEF LedgerTypeOK, RevokeWorker, WorkerStatus
<1>4. QED
  BY <1>1, <1>2, <1>3

-----------------------------------------------------------------------------
(* A step keeps the types if it keeps those of what it writes.               *)

LEMMA IdleType == Idle \in TurnRecord
BY DEF Idle, TurnRecord, TurnPc, GrantStatus, Outcome, Never

LEMMA BecomeType ==
  ASSUME TypeOK, NEW t \in Turns, NEW rec \in TurnRecord, Become(t, rec)
  PROVE  turn' \in [Turns -> TurnRecord]
BY DEF TypeOK, Become

\* The forms a turn takes on when it goes on.
LEMMA NextTurnType ==
  ASSUME NEW pc \in TurnPc, NEW at \in Nat \cup {Never}, NEW l \in Nat
  PROVE  /\ [Idle EXCEPT !.pc = pc] \in TurnRecord
         /\ [Idle EXCEPT !.pc = pc, !.at = at] \in TurnRecord
         /\ [Idle EXCEPT !.pc = pc, !.lease = l] \in TurnRecord
         /\ [Idle EXCEPT !.pc = pc, !.lease = l, !.at = at] \in TurnRecord
BY IdleType DEF TurnRecord

LEMMA MishapType ==
  ASSUME TypeOK, Mishap \/ UNCHANGED mishap
  PROVE  mishap' \in BOOLEAN
BY DEF TypeOK, Mishap

\* Whatever a ledger call answers, the turn goes on, ends or gates the worker.
LEMMA AnswerTurn ==
  ASSUME NEW t, NEW rec, Answer(t, rec)
  PROVE  /\ Become(t, rec) \/ Become(t, Idle) \/ Become(t, [Idle EXCEPT !.pc = "gate"])
         /\ Mishap \/ UNCHANGED mishap
BY DEF Answer, ErrorPath, GateNext, Return

LEMMA AnswerType ==
  ASSUME TypeOK, NEW t \in Turns, NEW rec \in TurnRecord, Answer(t, rec)
  PROVE  turn' \in [Turns -> TurnRecord] /\ mishap' \in BOOLEAN
<1>1. Idle \in TurnRecord /\ [Idle EXCEPT !.pc = "gate"] \in TurnRecord
  BY IdleType, NextTurnType DEF TurnPc
<1>2. QED
  BY <1>1, AnswerTurn, BecomeType, MishapType

LEMMA TurnOnlyType ==
  ASSUME TypeOK, TurnOnly, turn' \in [Turns -> TurnRecord]
  PROVE  TypeOK'
BY DEF TypeOK, TurnOnly, ClockTypeOK, LedgerTypeOK, GrantTypeOK,
       scopeVars, hostVars, historyVars

LEMMA LedgerOnlyType ==
  ASSUME TypeOK, LedgerOnly, LedgerTypeOK', mishap' \in BOOLEAN,
         turn' \in [Turns -> TurnRecord]
  PROVE  TypeOK'
BY DEF TypeOK, LedgerOnly, ClockTypeOK, GrantTypeOK, scopeVars, hostVars, historyVars

LEMMA CallOnlyType ==
  ASSUME TypeOK, CallOnly, GrantTypeOK', observed' \subseteq Nat,
         call' \in [Calls -> CallRecord]
  PROVE  TypeOK'
BY DEF TypeOK, CallOnly, ClockTypeOK, LedgerTypeOK, hostVars

-----------------------------------------------------------------------------
(* Each kind of action keeps TypeOK.                                         *)

LEMMA TurnStartsType ==
  ASSUME TypeOK, NEW t \in Turns, TurnStarts(t)
  PROVE  TypeOK'
<1> USE IdleType
<1>1. now \in Nat /\ LedgerTypeOK /\ GrantTypeOK
  BY NowType DEF TypeOK
<1>2. grant.status \in GrantStatus /\ PolicyOk \in BOOLEAN /\ worker.lease.id \in Nat
  BY <1>1 DEF GrantTypeOK, PolicyOk, LedgerTypeOK, Lease
<1>3. ASSUME NEW pc \in TurnPc, Enter(t, pc)
      PROVE  turn' \in [Turns -> TurnRecord]
  <2>1. [Idle EXCEPT !.pc = pc, !.seen = grant.status, !.policyOk = PolicyOk] \in TurnRecord
    BY <1>2 DEF TurnRecord
  <2>2. QED
    BY <1>3, <2>1, BecomeType DEF Enter
<1>4. CASE Enable(t)
  <2>1. [Idle EXCEPT !.pc = "announce", !.at = now + 1] \in TurnRecord
    <3>1. now + 1 \in Nat /\ "announce" \in TurnPc
      BY <1>1 DEF TurnPc
    <3>2. QED
      BY <3>1, NextTurnType
  <2>2. LedgerTypeOK'
    BY <1>1, <1>4, RegisterType DEF Enable
  <2>3. QED
    BY <1>4, <2>1, <2>2, AnswerType, LedgerOnlyType DEF Enable
<1>5. CASE WakeFires(t)
  <2>1. turn' \in [Turns -> TurnRecord]
    <3>1. CASE ContextOk
      BY <1>3, <1>5, <3>1 DEF WakeFires, TurnPc
    <3>2. CASE ~ContextOk
      BY <1>5, <3>2 DEF WakeFires, TypeOK
    <3>3. QED
      BY <3>1, <3>2
  <2>2. QED
    BY <1>5, <2>1
    DEF WakeFires, TypeOK, ClockTypeOK, LedgerTypeOK, GrantTypeOK, scopeVars, historyVars
<1>6. CASE TickCalled(t)
  BY <1>3, <1>6, TurnOnlyType DEF TickCalled, TurnPc
<1>7. CASE ResumeCalled(t)
  <2>1. turn' \in [Turns -> TurnRecord]
    BY <1>3, <1>7 DEF ResumeCalled, TurnPc
  <2>2. QED
    BY <1>7, <2>1
    DEF ResumeCalled, TypeOK, ClockTypeOK, LedgerTypeOK, GrantTypeOK, scopeVars, hostVars
<1>8. ASSUME NEW outcome \in Outcome \ {"none"}, CompleteCalled(t, outcome)
      PROVE  TypeOK'
  <2>1. PICK settled \in Outcome :
          Become(t, [Idle EXCEPT !.pc = "complete", !.lease = worker.lease.id,
                                 !.outcome = settled])
    BY <1>8 DEF CompleteCalled, Outcome
  <2>2. [Idle EXCEPT !.pc = "complete", !.lease = worker.lease.id, !.outcome = settled]
          \in TurnRecord
    BY <1>2 DEF TurnRecord, TurnPc
  <2>3. QED
    BY <1>8, <2>1, <2>2, BecomeType, TurnOnlyType DEF CompleteCalled
<1>9. QED
  BY <1>4, <1>5, <1>6, <1>7, <1>8 DEF TurnStarts

LEMMA TickStepType ==
  ASSUME TypeOK, NEW t \in Turns, TickStep(t)
  PROVE  TypeOK'
<1> USE IdleType
<1>1. now \in Nat /\ LedgerTypeOK /\ now + RecheckTicks \in Nat /\ now + 1 \in Nat
  BY NowType, WorkerAssumption DEF TypeOK
<1>2. turn[t] \in TurnRecord /\ turn[t].lease \in Nat /\ turn[t].seen \in GrantStatus
  BY DEF TypeOK, TurnRecord
<1>3. worker.nextWake \in Nat \cup {Never} /\ worker.lease.expiresAt + 1 \in Nat
      /\ leases + 1 \in Nat
  BY <1>1 DEF LedgerTypeOK, Lease
<1>4. CASE ClaimRefused(t)
  <2>1. LedgerTypeOK' /\ turn' \in [Turns -> TurnRecord]
    BY <1>1, <1>4, BecomeType DEF ClaimRefused, Return, LedgerTypeOK
  <2>2. QED
    BY <1>4, <2>1, MishapType, LedgerOnlyType DEF ClaimRefused
<1>5. CASE ClaimReportsClosed(t)
  BY <1>1, <1>2, <1>5, ClaimType, BecomeType, MishapType, LedgerOnlyType
  DEF ClaimReportsClosed, Return
<1>6. CASE ClaimReportsNotDue(t)
  BY <1>3, <1>6, NextTurnType, BecomeType, TurnOnlyType
  DEF ClaimReportsNotDue, ScheduleNext, Scheduling, TurnPc
<1>7. CASE ClaimReportsUnresolved(t)
  BY <1>1, <1>7, ClaimType, BecomeType, MishapType, LedgerOnlyType
  DEF ClaimReportsUnresolved, Return
<1>8. CASE ClaimGranted(t)
  <2>1. [Idle EXCEPT !.pc = "plan", !.lease = leases + 1] \in TurnRecord
    BY <1>3, NextTurnType DEF TurnPc
  <2>2. QED
    BY <1>1, <1>8, <2>1, ClaimType, AnswerType, LedgerOnlyType DEF ClaimGranted
<1>9. ASSUME NEW cmd \in Commands, PlanAction(t, cmd)
      PROVE  TypeOK'
  <2>1. [turn[t] EXCEPT !.pc = "issue", !.plan = cmd] \in TurnRecord
    BY <1>2 DEF TurnRecord, TurnPc
  <2>2. QED
    BY <1>9, <2>1, BecomeType, TurnOnlyType DEF PlanAction
<1>10. CASE PlanGates(t)
  BY <1>1, <1>2, <1>10, CompleteType, AnswerType, LedgerOnlyType DEF PlanGates
<1>11. CASE PlanTerminal(t)
  BY <1>1, <1>2, <1>11, CompleteType, AnswerType, LedgerOnlyType DEF PlanTerminal
<1>12. ASSUME NEW next \in {Never, now + RecheckTicks}, PlanWaits(t, next)
       PROVE  TypeOK'
  <2>1. next \in Nat \cup {Never}
    BY <1>1
  <2>2. turn' \in [Turns -> TurnRecord] /\ mishap' \in BOOLEAN
    <3>1. (IF next = Never THEN Idle ELSE Scheduling(next)) \in TurnRecord
      BY <2>1, NextTurnType DEF Scheduling, TurnPc
    <3>2. QED
      BY <1>12, <3>1, AnswerType DEF PlanWaits
  <2>3. LedgerTypeOK'
    BY <1>1, <1>2, <1>12, <2>1, CompleteType DEF PlanWaits
  <2>4. QED
    BY <1>12, <2>2, <2>3, LedgerOnlyType DEF PlanWaits
<1>13. CASE IssueCommand(t)
  <2>1. [Idle EXCEPT !.pc = "watch", !.lease = turn[t].lease,
                     !.at = worker.lease.expiresAt + 1] \in TurnRecord
    BY <1>2, <1>3, NextTurnType DEF TurnPc
  <2>2. LedgerTypeOK'
    <3>1. worker' = [worker EXCEPT !.lease = [worker.lease EXCEPT !.plan = turn[t].plan]]
      BY <1>1, <1>13 DEF IssueCommand, Issue, LedgerTypeOK
    <3>2. [worker.lease EXCEPT !.plan = turn[t].plan] \in Lease
      BY <1>1, <1>2 DEF LedgerTypeOK, Lease, TurnRecord
    <3>3. QED
      BY <1>1, <1>13, <3>1, <3>2 DEF LedgerTypeOK, IssueCommand, Issue
  <2>3. QED
    BY <1>13, <2>1, <2>2, AnswerType, LedgerOnlyType DEF IssueCommand
<1>14. CASE TickFails(t)
  BY <1>14, NextTurnType, BecomeType, TurnOnlyType DEF TickFails, GateNext, TurnPc
<1>15. QED
  BY <1>4, <1>5, <1>6, <1>7, <1>8, <1>9, <1>10, <1>11, <1>12, <1>13, <1>14 DEF TickStep


LEMMA RestOfTurnType ==
  ASSUME TypeOK, NEW t \in Turns,
         \/ ScheduleConfirmed(t) \/ ScheduleUnconfirmed(t) \/ GateWorker(t) \/ LedgerFails(t)
         \/ CompleteWrites(t) \/ CompleteRefused(t)
         \/ ResumeWrites(t) \/ ResumeRefused(t)
  PROVE  TypeOK'
<1> USE IdleType
<1>1. now \in Nat /\ LedgerTypeOK /\ GrantTypeOK /\ now + 1 \in Nat
  BY NowType DEF TypeOK
<1>2. /\ turn[t] \in TurnRecord /\ turn[t].lease \in Nat
      /\ turn[t].at \in Nat \cup {Never} /\ turn[t].seen \in GrantStatus
  BY DEF TypeOK, TurnRecord
<1>3. CASE ScheduleConfirmed(t)
  <2>1. wake' \in Nat \cup {Never} /\ exposed' \subseteq Nat
    BY <1>1, <1>2, <1>3 DEF ScheduleConfirmed, Reregister, TypeOK, Never
  <2>2. turn' \in [Turns -> TurnRecord]
    BY <1>3, BecomeType DEF ScheduleConfirmed, Return
  <2>3. QED
    BY <1>3, <2>1, <2>2
    DEF ScheduleConfirmed, TypeOK, ClockTypeOK, LedgerTypeOK, GrantTypeOK, scopeVars, historyVars
<1>4. CASE ScheduleUnconfirmed(t)
  <2>1. wake' \in Nat \cup {Never} /\ handoff' \in BOOLEAN
    BY <1>4 DEF ScheduleUnconfirmed, TypeOK
  <2>2. turn' \in [Turns -> TurnRecord]
    BY <1>4, NextTurnType, BecomeType DEF ScheduleUnconfirmed, Return, GateNext, TurnPc
  <2>3. QED
    BY <1>4, <2>1, <2>2
    DEF ScheduleUnconfirmed, TypeOK, ClockTypeOK, LedgerTypeOK, GrantTypeOK, scopeVars,
        historyVars
<1>5. CASE GateWorker(t)
  BY <1>1, <1>5, ControlType, BecomeType, MishapType, LedgerOnlyType DEF GateWorker, Return
<1>6. CASE CompleteWrites(t)
  <2>1. LedgerTypeOK' /\ credited' \subseteq Nat
    <3>1. Never \in Nat \cup {Never}
      OBVIOUS
    <3>2. QED
      BY <1>1, <1>2, <1>6, <3>1, CompleteType DEF CompleteWrites, TypeOK
  <2>2. worker'.nextWake \in Nat \cup {Never}
    BY <2>1 DEF LedgerTypeOK
  <2>3. turn' \in [Turns -> TurnRecord] /\ mishap' \in BOOLEAN
    <3>1. (IF worker'.status = "active" THEN Scheduling(worker'.nextWake) ELSE Idle)
            \in TurnRecord
      BY <2>2, NextTurnType DEF Scheduling, TurnPc
    <3>2. QED
      BY <1>6, <3>1, AnswerType DEF CompleteWrites
  <2>4. QED
    BY <1>6, <2>1, <2>3
    DEF CompleteWrites, TypeOK, ClockTypeOK, GrantTypeOK, scopeVars, hostVars
<1>7. CASE CompleteRefused(t)
  BY <1>7, BecomeType, TurnOnlyType DEF CompleteRefused, Return
<1>8. CASE ResumeWrites(t)
  <2>1. turn' \in [Turns -> TurnRecord] /\ mishap' \in BOOLEAN
    <3>1. Scheduling(now + 1) \in TurnRecord
      BY <1>1, NextTurnType DEF Scheduling, TurnPc
    <3>2. QED
      BY <1>8, <3>1, AnswerType DEF ResumeWrites
  <2>2. QED
    BY <1>1, <1>2, <1>8, <2>1, ControlType, LedgerOnlyType DEF ResumeWrites
<1>9. CASE ResumeRefused(t)
  BY <1>9, BecomeType, TurnOnlyType DEF ResumeRefused, Return
<1>10. CASE LedgerFails(t)
  <2>1. LedgerTypeOK' /\ turn' \in [Turns -> TurnRecord]
    BY <1>1, <1>10, BecomeType DEF LedgerFails, Return, LedgerTypeOK
  <2>2. QED
    BY <1>10, <2>1, MishapType, LedgerOnlyType DEF LedgerFails
<1>11. QED
  BY <1>3, <1>4, <1>5, <1>6, <1>7, <1>8, <1>9, <1>10

LEMMA CallStepType ==
  ASSUME TypeOK, NEW c \in Calls, CallStep(c)
  PROVE  TypeOK'
<1>1. call[c] \in CallRecord /\ NoCall \in CallRecord
  BY DEF TypeOK, NoCall, CallRecord
<1>2. /\ LedgerTypeOK /\ GrantTypeOK /\ observed \subseteq Nat
      /\ call[c].lease \in Nat /\ worker.lease.id \in Nat
  BY <1>1 DEF TypeOK, CallRecord, LedgerTypeOK, Lease
<1>3. ASSUME NEW rec \in CallRecord, CallVars(c, rec)
      PROVE  call' \in [Calls -> CallRecord]
  BY <1>3 DEF TypeOK, CallVars
<1>4. grant' = grant => GrantTypeOK'
  BY <1>2 DEF GrantTypeOK
<1>5. ASSUME NEW cmd \in Commands, CallBound(c, cmd)
      PROVE  TypeOK'
  <2>1. [state |-> "bound", lease |-> worker.lease.id, plan |-> cmd, result |-> "none"]
          \in CallRecord
    BY <1>2 DEF CallRecord
  <2>2. QED
    BY <1>2, <1>3, <1>4, <1>5, <2>1, CallOnlyType DEF CallBound
<1>6. CASE CallCharged(c)
  <2>1. [call[c] EXCEPT !.state = "running"] \in CallRecord
    BY <1>1 DEF CallRecord
  <2>2. GrantTypeOK'
    BY <1>2, <1>6, GrantAssumption DEF CallCharged, Consume, GrantTypeOK, GrantStatus
  <2>3. QED
    BY <1>2, <1>3, <1>6, <2>1, <2>2, CallOnlyType DEF CallCharged
<1>7. CASE CallRejected(c)
  <2>1. [call[c] EXCEPT !.state = "ended", !.result = "human_gate"] \in CallRecord
    BY <1>1 DEF CallRecord
  <2>2. QED
    BY <1>2, <1>3, <1>4, <1>7, <2>1, CallOnlyType DEF CallRejected
<1>8. ASSUME NEW result \in {"completed", "human_gate"}, CallEnds(c, result)
      PROVE  TypeOK'
  <2>1. [call[c] EXCEPT !.state = "ended", !.result = result] \in CallRecord
    BY <1>1 DEF CallRecord
  <2>2. observed' \subseteq Nat
    BY <1>2, <1>8 DEF CallEnds
  <2>3. QED
    BY <1>3, <1>4, <1>8, <2>1, <2>2, CallOnlyType DEF CallEnds
<1>9. CASE ResultMatched(c)
  <2>1. [call[c] EXCEPT !.state = "matched"] \in CallRecord
    BY <1>1 DEF CallRecord
  <2>2. call' \in [Calls -> CallRecord]
    BY <1>1, <1>3, <1>9, <2>1 DEF ResultMatched
  <2>3. QED
    BY <1>2, <1>4, <1>9, <2>2, CallOnlyType DEF ResultMatched
<1>10. CASE ReceiptStored(c)
  <2>1. LedgerTypeOK'
    <3> DEFINE receipt == IF worker.lease.receipt = "none" THEN call[c].result
                          ELSE worker.lease.receipt
    <3>1. [worker.lease EXCEPT !.receipt = receipt] \in Lease
      BY <1>1, <1>2 DEF LedgerTypeOK, Lease, CallRecord
    <3>2. worker' = [worker EXCEPT !.lease = [worker.lease EXCEPT !.receipt = receipt]]
      BY <1>2, <1>10 DEF ReceiptStored, RecordResult, LedgerTypeOK
    <3>3. QED
      BY <1>2, <1>10, <3>1, <3>2 DEF ReceiptStored, RecordResult, LedgerTypeOK
  <2>2. call' \in [Calls -> CallRecord]
    BY <1>1, <1>3, <1>10 DEF ReceiptStored
  <2>3. QED
    BY <1>10, <2>1, <2>2
    DEF ReceiptStored, TypeOK, ClockTypeOK, GrantTypeOK, scopeVars, hostVars, historyVars
<1>11. CASE ReceiptLost(c)
  BY <1>1, <1>2, <1>3, <1>4, <1>11, CallOnlyType DEF ReceiptLost
<1>12. QED
  BY <1>5, <1>6, <1>7, <1>8, <1>9, <1>10, <1>11 DEF CallStep

LEMMA ProcessType ==
  ASSUME TypeOK, Crash \/ Restart \/ RecoveryStep
  PROVE  TypeOK'
<1>1. now \in Nat /\ LedgerTypeOK /\ now + 1 \in Nat
  BY NowType DEF TypeOK
<1>2. NoCall \in CallRecord /\ Resting \in RecoveryRecord /\ ScheduleToken \in Token
  BY <1>1 DEF NoCall, CallRecord, Resting, RecoveryRecord, NoToken, Token, WorkerStatus,
              ScheduleToken, LedgerTypeOK, Lease, Never
<1>3. CASE Crash
  <2>1. turn' \in [Turns -> TurnRecord]
    BY <1>3, IdleType DEF Crash
  <2>2. call' \in [Calls -> CallRecord] /\ recovery' \in RecoveryRecord
    BY <1>2, <1>3 DEF Crash
  <2>3. crashes' \in Nat
    <3>1. crashes \in Nat
      BY DEF TypeOK
    <3>2. QED
      BY <1>3, <3>1 DEF Crash
  <2>4. up' \in BOOLEAN
    BY <1>3 DEF Crash
  <2>5. wake' \in Nat \cup {Never}
    BY <1>3 DEF Crash, TypeOK
  <2>6. QED
    BY <1>3, <2>1, <2>2, <2>3, <2>4, <2>5
    DEF Crash, TypeOK, ClockTypeOK, LedgerTypeOK, GrantTypeOK, scopeVars, historyVars
<1>4. CASE Restart
  <2>1. recovery' \in RecoveryRecord
    BY <1>2, <1>4 DEF Restart, RecoveryRecord
  <2>2. QED
    BY <1>4, <2>1
    DEF Restart, TypeOK, ClockTypeOK, LedgerTypeOK, GrantTypeOK, scopeVars, historyVars
<1>5. ASSUME RecoveryOnly, LedgerTypeOK', wake' \in Nat \cup {Never},
             recovery' \in RecoveryRecord, Mishap \/ UNCHANGED mishap \/ mishap' = FALSE
      PROVE  TypeOK'
  BY <1>5 DEF RecoveryOnly, TypeOK, ClockTypeOK, GrantTypeOK, scopeVars, historyVars, Mishap
<1>6. (worker' = worker /\ leases' = leases) => LedgerTypeOK'
  BY <1>1 DEF LedgerTypeOK
<1>7. wake \in Nat \cup {Never} /\ recovery \in RecoveryRecord
  BY DEF TypeOK
<1>8. CASE RecoveryReads
  <2>1. worker.nextWake + 1 \in Nat
    BY <1>1 DEF LedgerTypeOK, Never
  <2>2. worker.lease.expiresAt \in Nat
    BY <1>1 DEF LedgerTypeOK, Lease
  <2>3. PICK at \in Nat :
          recovery' = IF worker.status # "active" THEN Resting
                      ELSE [pc |-> "schedule", token |-> ScheduleToken, at |-> at]
    BY <1>8, <2>1, <2>2 DEF RecoveryReads
  <2>4. recovery' \in RecoveryRecord
    BY <1>2, <2>3 DEF RecoveryRecord
  <2>5. QED
    BY <1>5, <1>6, <1>7, <1>8, <2>4 DEF RecoveryReads
<1>9. CASE RecoveryConfirmed
  <2>1. recovery.at \in Nat \cup {Never}
    BY <1>7 DEF RecoveryRecord
  <2>2. wake' \in Nat \cup {Never}
    BY <1>1, <1>9, <2>1 DEF RecoveryConfirmed, Reregister
  <2>3. QED
    BY <1>2, <1>5, <1>6, <1>9, <2>2 DEF RecoveryConfirmed
<1>10. CASE RecoveryStale
  BY <1>2, <1>5, <1>6, <1>7, <1>10 DEF RecoveryStale
<1>11. CASE RecoveryUnconfirmed
  <2>1. recovery' \in RecoveryRecord
    BY <1>7, <1>11 DEF RecoveryUnconfirmed, RecoveryRecord, Never
  <2>2. wake' \in Nat \cup {Never}
    BY <1>7, <1>11 DEF RecoveryUnconfirmed
  <2>3. QED
    BY <1>5, <1>6, <1>11, <2>1, <2>2 DEF RecoveryUnconfirmed
<1>12. CASE RecoveryRechecks
  <2>1. recovery' \in RecoveryRecord
    BY <1>2, <1>12 DEF RecoveryRechecks, RecoveryRecord
  <2>2. QED
    BY <1>5, <1>6, <1>7, <1>12, <2>1 DEF RecoveryRechecks
<1>13. CASE RecoveryGates
  <2>1. LedgerTypeOK'
    BY <1>1, <1>13, ControlType DEF RecoveryGates
  <2>2. QED
    BY <1>2, <1>5, <1>7, <1>13, <2>1 DEF RecoveryGates
<1>14. CASE RecoveryFails
  BY <1>2, <1>5, <1>6, <1>7, <1>14 DEF RecoveryFails
<1>15. QED
  BY <1>3, <1>4, <1>8, <1>9, <1>10, <1>11, <1>12, <1>13, <1>14 DEF RecoveryStep

LEMMA EnvironmentType ==
  ASSUME TypeOK, Revoke \/ RevokeCampaign \/ Drift \/ Tick
  PROVE  TypeOK'
<1>1. now \in Nat /\ LedgerTypeOK
  BY NowType DEF TypeOK
<1>2. CASE Revoke
  <2>1. LedgerTypeOK' /\ wake' \in Nat \cup {Never}
    BY <1>1, <1>2, ControlType DEF Revoke, TypeOK
  <2>2. QED
    BY <1>2, <2>1 DEF Revoke, TypeOK, ClockTypeOK, GrantTypeOK, scopeVars, historyVars
<1>3. CASE RevokeCampaign
  <2>1. GrantTypeOK'
    BY <1>3 DEF RevokeCampaign, RevokeGrant, TypeOK, GrantTypeOK, GrantStatus
  <2>2. QED
    BY <1>3, <2>1 DEF RevokeCampaign, TypeOK, ClockTypeOK, LedgerTypeOK, hostVars, historyVars
<1>4. CASE Drift
  <2>1. drift' \in {"none", "profile", "recipe"}
    BY <1>4, WorkerAssumption DEF Drift
  <2>2. QED
    BY <1>4, <2>1
    DEF Drift, TypeOK, ClockTypeOK, LedgerTypeOK, GrantTypeOK, hostVars, historyVars
<1>5. CASE Tick
  <2>1. ClockTypeOK'
    BY <1>5, ClockAssumption DEF Tick, ClockTicks, TypeOK, ClockTypeOK
  <2>2. QED
    BY <1>5, <2>1 DEF Tick, TypeOK, LedgerTypeOK, GrantTypeOK, scopeVars, hostVars, historyVars
<1>6. QED
  BY <1>2, <1>3, <1>4, <1>5

\* Type correctness: whatever the worker's turns, hooks and recoveries do,
\* every variable keeps its type.
THEOREM TypeCorrect == Spec => []TypeOK
<1>1. Init => TypeOK
  <2> SUFFICES ASSUME Init PROVE TypeOK
    OBVIOUS
  <2>1. ClockTypeOK /\ LedgerTypeOK /\ GrantTypeOK
    BY ClockAssumption, GrantAssumption, NoLeaseType
    DEF Init, ClockInit, ClockTypeOK, LedgerInit, LedgerTypeOK, WorkerStatus, GrantInit,
        GrantTypeOK, GrantStatus
  <2>2. NoCall \in CallRecord /\ Resting \in RecoveryRecord
    BY DEF NoCall, CallRecord, Resting, RecoveryRecord, NoToken, Token, WorkerStatus, Never
  <2>3. QED
    BY <2>1, <2>2, IdleType DEF Init, TypeOK
<1>2. TypeOK /\ [Next]_vars => TypeOK'
  <2> SUFFICES ASSUME TypeOK, [Next]_vars PROVE TypeOK'
    OBVIOUS
  <2>1. ASSUME NEW t \in Turns, TurnStarts(t) \/ TurnStep(t) PROVE TypeOK'
    BY <2>1, TurnStartsType, TickStepType, RestOfTurnType DEF TurnStep
  <2>2. ASSUME NEW c \in Calls, CallStep(c) PROVE TypeOK'
    BY <2>2, CallStepType
  <2>3. CASE UNCHANGED vars
    BY <2>3 DEF vars, TypeOK, ClockTypeOK, LedgerTypeOK, GrantTypeOK
  <2>4. QED
    BY <2>1, <2>2, <2>3, ProcessType, EnvironmentType DEF Next
<1>3. QED
  BY <1>1, <1>2, PTL DEF Spec

-----------------------------------------------------------------------------
(* The safety properties, from one inductive invariant                       *)

\* What a ledger operation other than a completion with success or a receipt
\* does to the record: the count stays, and the lease is dropped, kept with
\* its receipt, or new.
QuietLedgerStep ==
  /\ worker'.actions = worker.actions
  /\ \/ leases' = leases /\ worker'.lease.id = 0 /\ worker'.lease.receipt = "none"
     \/ /\ leases' = leases /\ worker'.lease.id = worker.lease.id
        /\ worker'.lease.receipt = worker.lease.receipt
     \/ /\ leases' = leases + 1 /\ worker'.lease.id = leases + 1
        /\ worker'.lease.receipt = "none"
  /\ NoLeaseUnlessRun' /\ FailureBudgetStops'

LEMMA NoLeaseFields ==
  NoLease.id = 0 /\ NoLease.receipt = "none" /\ NoLease.plan = NoCommand
BY DEF NoLease

\* Only a run in progress holds a lease.
LEMMA HolderRuns ==
  ASSUME NoLeaseUnlessRun, LedgerTypeOK, NEW l, HoldsLease(l)
  PROVE  worker.status \in {"active", "human_gate"}
BY NoLeaseFields DEF NoLeaseUnlessRun, LedgerTypeOK, HoldsLease, WorkerStatus, Closed

LEMMA StartQuiet ==
  ASSUME WorkerInv, LedgerTypeOK, Register
  PROVE  QuietLedgerStep
BY NoLeaseFields, LedgerAssumption
DEF WorkerInv, NoLeaseUnlessRun, FailureBudgetStops, LedgerTypeOK, Register,
    QuietLedgerStep, Closed

LEMMA ClaimQuiet ==
  ASSUME WorkerInv, LedgerTypeOK, NEW seen,
         ClaimClosed(seen) \/ ClaimUnresolved \/ ClaimFresh
  PROVE  QuietLedgerStep
<1>1. CASE ClaimClosed(seen)
  BY <1>1, NoLeaseFields
  DEF WorkerInv, NoLeaseUnlessRun, FailureBudgetStops, LedgerTypeOK, ClaimClosed,
      QuietLedgerStep, Closed
<1>2. CASE ClaimUnresolved
  BY <1>2
  DEF WorkerInv, NoLeaseUnlessRun, FailureBudgetStops, LedgerTypeOK, ClaimUnresolved,
      QuietLedgerStep, Closed
<1>3. CASE ClaimFresh
  <2>1. worker'.lease.id = leases + 1 /\ worker'.lease.receipt = "none"
    BY <1>3 DEF ClaimFresh, NoLease, LedgerTypeOK
  <2>2. QED
    BY <1>3, <2>1
    DEF WorkerInv, NoLeaseUnlessRun, FailureBudgetStops, LedgerTypeOK, ClaimFresh,
        QuietLedgerStep, Closed
<1>4. QED
  BY <1>1, <1>2, <1>3

LEMMA IssueQuiet ==
  ASSUME WorkerInv, LedgerTypeOK, NEW l, NEW cmd, Issue(l, cmd)
  PROVE  QuietLedgerStep
<1>1. worker.status \in {"active", "human_gate"}
  BY HolderRuns DEF Issue, WorkerInv
<1>2. /\ worker'.lease.id = worker.lease.id /\ worker'.lease.receipt = worker.lease.receipt
      /\ worker'.status = worker.status /\ worker'.failures = worker.failures
      /\ worker'.actions = worker.actions /\ leases' = leases
  BY DEF Issue, LedgerTypeOK, Lease
<1>3. QED
  BY <1>1, <1>2 DEF WorkerInv, NoLeaseUnlessRun, FailureBudgetStops, QuietLedgerStep, Closed

LEMMA CompleteQuiet ==
  ASSUME WorkerInv, LedgerTypeOK, NEW l, NEW next,
         CompleteDone(l, next) \/ CompleteGate(l) \/ CompleteTransient(l)
  PROVE  QuietLedgerStep
<1>1. CASE CompleteDone(l, next)
  BY <1>1, NoLeaseFields, LedgerAssumption
  DEF WorkerInv, NoLeaseUnlessRun, FailureBudgetStops, LedgerTypeOK, CompleteDone,
      QuietLedgerStep, Closed
<1>2. CASE CompleteGate(l)
  BY <1>2
  DEF WorkerInv, NoLeaseUnlessRun, FailureBudgetStops, LedgerTypeOK, CompleteGate,
      QuietLedgerStep, Closed
<1>3. CASE CompleteTransient(l)
  <2>1. CASE Exhausted(worker.failures + 1)
    BY <1>3, <2>1
    DEF WorkerInv, NoLeaseUnlessRun, FailureBudgetStops, LedgerTypeOK, CompleteTransient,
        QuietLedgerStep, Closed
  <2>2. CASE ~Exhausted(worker.failures + 1)
    <3>1. worker.failures + 1 < MaxFailures
      BY <2>2, LedgerAssumption DEF Exhausted, LedgerTypeOK
    <3>2. QED
      BY <1>3, <2>2, <3>1, NoLeaseFields
      DEF NoLeaseUnlessRun, FailureBudgetStops, LedgerTypeOK, CompleteTransient,
          QuietLedgerStep, Closed
  <2>3. QED
    BY <2>1, <2>2
<1>4. QED
  BY <1>1, <1>2, <1>3

LEMMA ControlQuiet ==
  ASSUME WorkerInv, LedgerTypeOK, NEW seen, GateRecovery \/ Resume(seen) \/ RevokeWorker
  PROVE  QuietLedgerStep
<1>1. CASE GateRecovery
  <2>1. CASE worker.status = "active"
    <3>1. /\ worker' = [worker EXCEPT !.status = "human_gate", !.nextWake = Never]
          /\ leases' = leases
      BY <1>1, <2>1 DEF GateRecovery
    <3>2. QED
      BY <3>1 DEF WorkerInv, NoLeaseUnlessRun, FailureBudgetStops, LedgerTypeOK,
                  QuietLedgerStep, Closed
  <2>2. CASE worker.status # "active"
    BY <1>1, <2>2
    DEF GateRecovery, WorkerInv, NoLeaseUnlessRun, FailureBudgetStops, QuietLedgerStep
  <2>3. QED
    BY <2>1, <2>2
<1>2. CASE Resume(seen)
  BY <1>2, NoLeaseFields, LedgerAssumption
  DEF Resume, NoLeaseUnlessRun, FailureBudgetStops, LedgerTypeOK, QuietLedgerStep, Closed
<1>3. CASE RevokeWorker
  BY <1>3, NoLeaseFields
  DEF RevokeWorker, NoLeaseUnlessRun, FailureBudgetStops, LedgerTypeOK, QuietLedgerStep, Closed
<1>4. QED
  BY <1>1, <1>2, <1>3

-----------------------------------------------------------------------------
(* What the steps of turns and calls leave of the invariant.                 *)

TurnLeases == \A t \in Turns : turn[t].lease \in 0 .. leases

CallReceipts ==
  \A c \in Calls :
    /\ call[c].lease \in 0 .. leases
    /\ (call[c].state \in {"ended", "matched"} /\ call[c].result = "completed")
       => call[c].lease \in observed

LEMMA QuietStepKeeps ==
  ASSUME TypeOK, WorkerInv, QuietLedgerStep, TurnLeases', CallReceipts',
         credited' = credited, observed \subseteq observed'
  PROVE  WorkerInv'
<1>1. leases \in Nat /\ worker.lease.id \in Nat
  BY DEF TypeOK, LedgerTypeOK, Lease
<1>2. LeasesDrawn'
  BY <1>1 DEF WorkerInv, LeasesDrawn, QuietLedgerStep, TurnLeases, CallReceipts
<1>3. ReceiptsGenuine'
  BY DEF WorkerInv, ReceiptsGenuine, QuietLedgerStep, CallReceipts
<1>4. CreditCounted'
  BY <1>1 DEF WorkerInv, CreditCounted, LeasesDrawn, QuietLedgerStep
<1>5. QED
  BY <1>2, <1>3, <1>4 DEF WorkerInv, QuietLedgerStep

LEMMA SameLedgerQuiet ==
  ASSUME WorkerInv, worker' = worker, leases' = leases
  PROVE  QuietLedgerStep
BY DEF WorkerInv, NoLeaseUnlessRun, FailureBudgetStops, QuietLedgerStep

LEMMA BecomeKeepsLeases ==
  ASSUME TypeOK, WorkerInv, NEW t \in Turns, NEW rec, Become(t, rec),
         rec.lease \in 0 .. leases', leases' \in {leases, leases + 1}
  PROVE  TurnLeases'
BY DEF TypeOK, LedgerTypeOK, WorkerInv, LeasesDrawn, TurnLeases, Become

LEMMA SameTurnsKeepLeases ==
  ASSUME TypeOK, WorkerInv, turn' = turn, leases' \in {leases, leases + 1}
  PROVE  TurnLeases'
BY DEF TypeOK, LedgerTypeOK, WorkerInv, LeasesDrawn, TurnLeases

LEMMA SameCallsKeepReceipts ==
  ASSUME TypeOK, WorkerInv, call' = call, observed' = observed,
         leases' \in {leases, leases + 1}
  PROVE  CallReceipts'
BY DEF TypeOK, LedgerTypeOK, WorkerInv, LeasesDrawn, ReceiptsGenuine, CallReceipts

\* A turn's step that writes the ledger at most quietly.
LEMMA TurnStepKeeps ==
  ASSUME TypeOK, WorkerInv, QuietLedgerStep, NEW t \in Turns, NEW rec, Become(t, rec),
         rec.lease \in 0 .. leases', call' = call, credited' = credited, observed' = observed
  PROVE  WorkerInv'
<1>1. leases' \in {leases, leases + 1}
  BY DEF QuietLedgerStep
<1>2. TurnLeases' /\ CallReceipts'
  BY <1>1, BecomeKeepsLeases, SameCallsKeepReceipts
<1>3. QED
  BY <1>2, QuietStepKeeps

\* The same, whatever the ledger call answers.
LEMMA AnswerKeeps ==
  ASSUME TypeOK, WorkerInv, QuietLedgerStep, NEW t \in Turns, NEW rec, Answer(t, rec),
         rec.lease \in 0 .. leases', call' = call, credited' = credited, observed' = observed
  PROVE  WorkerInv'
<1>1. 0 \in 0 .. leases'
  BY DEF TypeOK, LedgerTypeOK, QuietLedgerStep
<1>2. Idle.lease = 0 /\ [Idle EXCEPT !.pc = "gate"].lease = 0
  BY DEF Idle
<1>3. QED
  BY <1>1, <1>2, AnswerTurn, TurnStepKeeps

\* A step that leaves the turns, the calls and the histories alone.
LEMMA LedgerStepKeeps ==
  ASSUME TypeOK, WorkerInv, QuietLedgerStep, turn' = turn, call' = call,
         credited' = credited, observed' = observed
  PROVE  WorkerInv'
<1>1. leases' \in {leases, leases + 1}
  BY DEF QuietLedgerStep
<1>2. TurnLeases' /\ CallReceipts'
  BY <1>1, SameTurnsKeepLeases, SameCallsKeepReceipts
<1>3. QED
  BY <1>2, QuietStepKeeps

\* A call's step that leaves the ledger alone.
LEMMA CallStepKeeps ==
  ASSUME TypeOK, WorkerInv, NEW c \in Calls, NEW rec, CallVars(c, rec),
         worker' = worker, leases' = leases, turn' = turn, credited' = credited,
         observed \subseteq observed', rec.lease \in 0 .. leases,
         (rec.state \in {"ended", "matched"} /\ rec.result = "completed")
           => rec.lease \in observed'
  PROVE  WorkerInv'
<1>1. QuietLedgerStep
  BY SameLedgerQuiet
<1>2. TurnLeases'
  BY SameTurnsKeepLeases
<1>3. CallReceipts'
  BY DEF TypeOK, WorkerInv, LeasesDrawn, ReceiptsGenuine, CallReceipts, CallVars
<1>4. QED
  BY <1>1, <1>2, <1>3, QuietStepKeeps

-----------------------------------------------------------------------------
(* Each kind of action keeps WorkerInv.                                      *)

LEMMA IdleLease == Idle.lease = 0
BY DEF Idle

LEMMA TurnStartsKeep ==
  ASSUME TypeOK, WorkerInv, NEW t \in Turns, TurnStarts(t)
  PROVE  WorkerInv'
<1> USE IdleLease
<1>1. leases \in Nat /\ worker.lease.id \in 0 .. leases /\ LedgerTypeOK
  BY DEF TypeOK, LedgerTypeOK, WorkerInv, LeasesDrawn
<1>2. CASE Enable(t)
  <2>1. QuietLedgerStep
    BY <1>1, <1>2, StartQuiet DEF Enable
  <2>2. leases' = leases
    BY <1>2 DEF Enable, Register
  <2>3. [Idle EXCEPT !.pc = "announce", !.at = now + 1].lease \in 0 .. leases'
    BY <1>1, <2>2 DEF Idle
  <2>4. QED
    BY <1>2, <2>1, <2>3, AnswerKeeps DEF Enable, LedgerOnly, historyVars
<1>3. ASSUME NEW pc, Enter(t, pc), leases' = leases
      PROVE  TurnLeases'
  <2>1. [Idle EXCEPT !.pc = pc, !.seen = grant.status, !.policyOk = PolicyOk].lease
          \in 0 .. leases'
    BY <1>1, <1>3 DEF Idle
  <2>2. QED
    BY <1>3, <2>1, BecomeKeepsLeases DEF Enter
<1>4. ASSUME worker' = worker, leases' = leases, call' = call, TurnLeases',
             credited' = credited, observed' = observed
      PROVE  WorkerInv'
  BY <1>4, SameLedgerQuiet, SameCallsKeepReceipts, QuietStepKeeps
<1>5. CASE WakeFires(t)
  <2>1. TurnLeases'
    <3>1. CASE ContextOk
      BY <1>3, <1>5, <3>1 DEF WakeFires
    <3>2. CASE ~ContextOk
      BY <1>5, <3>2, SameTurnsKeepLeases DEF WakeFires
    <3>3. QED
      BY <3>1, <3>2
  <2>2. QED
    BY <1>4, <1>5, <2>1 DEF WakeFires, historyVars
<1>6. CASE TickCalled(t)
  BY <1>3, <1>4, <1>6 DEF TickCalled, TurnOnly, historyVars
<1>7. CASE ResumeCalled(t)
  BY <1>3, <1>4, <1>7 DEF ResumeCalled
<1>8. ASSUME NEW outcome \in Outcome \ {"none"}, CompleteCalled(t, outcome)
      PROVE  WorkerInv'
  <2>1. PICK settled :
          Become(t, [Idle EXCEPT !.pc = "complete", !.lease = worker.lease.id,
                                 !.outcome = settled])
    BY <1>8 DEF CompleteCalled
  <2>2. [Idle EXCEPT !.pc = "complete", !.lease = worker.lease.id, !.outcome = settled].lease
          \in 0 .. leases'
    BY <1>1, <1>8 DEF Idle, CompleteCalled, TurnOnly
  <2>3. QED
    BY <1>8, <2>1, <2>2, SameLedgerQuiet, TurnStepKeeps
    DEF CompleteCalled, TurnOnly, historyVars
<1>9. QED
  BY <1>2, <1>5, <1>6, <1>7, <1>8 DEF TurnStarts

LEMMA TickStepKeeps ==
  ASSUME TypeOK, WorkerInv, NEW t \in Turns, TickStep(t)
  PROVE  WorkerInv'
<1> USE IdleLease
<1>1. /\ leases \in Nat /\ LedgerTypeOK
      /\ turn[t].lease \in 0 .. leases /\ 0 \in 0 .. leases
  BY DEF TypeOK, LedgerTypeOK, WorkerInv, LeasesDrawn
<1>2. (worker' = worker /\ leases' = leases) => QuietLedgerStep
  BY SameLedgerQuiet
<1>3. \A pc, at : /\ [Idle EXCEPT !.pc = pc].lease = 0
                  /\ [Idle EXCEPT !.pc = pc, !.at = at].lease = 0
  BY DEF Idle
<1>4. CASE ClaimRefused(t)
  BY <1>1, <1>2, <1>4, TurnStepKeeps DEF ClaimRefused, Return, LedgerOnly, historyVars
<1>5. CASE ClaimReportsClosed(t)
  <2>1. QuietLedgerStep /\ leases' = leases
    BY <1>1, <1>5, ClaimQuiet DEF ClaimReportsClosed, ClaimClosed
  <2>2. QED
    BY <1>1, <1>5, <2>1, TurnStepKeeps DEF ClaimReportsClosed, Return, LedgerOnly, historyVars
<1>6. CASE ClaimReportsNotDue(t)
  BY <1>1, <1>2, <1>3, <1>6, TurnStepKeeps
  DEF ClaimReportsNotDue, ScheduleNext, Scheduling, TurnOnly, historyVars
<1>7. CASE ClaimReportsUnresolved(t)
  <2>1. QuietLedgerStep /\ leases' = leases
    BY <1>1, <1>7, ClaimQuiet DEF ClaimReportsUnresolved, ClaimUnresolved
  <2>2. QED
    BY <1>1, <1>7, <2>1, TurnStepKeeps
    DEF ClaimReportsUnresolved, Return, LedgerOnly, historyVars
<1>8. CASE ClaimGranted(t)
  <2>1. QuietLedgerStep /\ leases' = leases + 1
    BY <1>1, <1>8, ClaimQuiet DEF ClaimGranted, ClaimFresh
  <2>2. [Idle EXCEPT !.pc = "plan", !.lease = leases + 1].lease \in 0 .. leases'
    BY <1>1, <2>1 DEF Idle
  <2>3. QED
    BY <1>8, <2>1, <2>2, AnswerKeeps DEF ClaimGranted, LedgerOnly, historyVars
<1>9. ASSUME NEW cmd \in Commands, PlanAction(t, cmd)
      PROVE  WorkerInv'
  <2>1. [turn[t] EXCEPT !.pc = "issue", !.plan = cmd].lease = turn[t].lease
    BY DEF TypeOK, TurnRecord
  <2>2. QED
    BY <1>1, <1>2, <1>9, <2>1, TurnStepKeeps DEF PlanAction, TurnOnly, historyVars
<1>10. CASE PlanGates(t)
  <2>1. QuietLedgerStep /\ leases' = leases
    BY <1>1, <1>10, CompleteQuiet DEF PlanGates, CompleteGate
  <2>2. QED
    BY <1>1, <1>10, <2>1, AnswerKeeps DEF PlanGates, LedgerOnly, historyVars
<1>11. CASE PlanTerminal(t)
  <2>1. QuietLedgerStep /\ leases' = leases
    BY <1>1, <1>11, CompleteQuiet DEF PlanTerminal, CompleteDone
  <2>2. QED
    BY <1>1, <1>11, <2>1, AnswerKeeps DEF PlanTerminal, LedgerOnly, historyVars
<1>12. ASSUME NEW next, PlanWaits(t, next)
       PROVE  WorkerInv'
  <2>1. QuietLedgerStep /\ leases' = leases
    BY <1>1, <1>12, CompleteQuiet DEF PlanWaits, CompleteDone
  <2>2. QED
    BY <1>1, <1>3, <1>12, <2>1, AnswerKeeps
    DEF PlanWaits, Scheduling, LedgerOnly, historyVars
<1>13. CASE IssueCommand(t)
  <2>1. QuietLedgerStep /\ leases' = leases
    BY <1>1, <1>13, IssueQuiet DEF IssueCommand, Issue
  <2>2. [Idle EXCEPT !.pc = "watch", !.lease = turn[t].lease,
                     !.at = worker.lease.expiresAt + 1].lease = turn[t].lease
    BY DEF Idle
  <2>3. QED
    BY <1>1, <1>13, <2>1, <2>2, AnswerKeeps DEF IssueCommand, LedgerOnly, historyVars
<1>14. CASE TickFails(t)
  BY <1>1, <1>2, <1>3, <1>14, TurnStepKeeps DEF TickFails, GateNext, TurnOnly, historyVars
<1>15. QED
  BY <1>4, <1>5, <1>6, <1>7, <1>8, <1>9, <1>10, <1>11, <1>12, <1>13, <1>14 DEF TickStep

\* A counted completion: its receipt vouches for the lease, which enters the
\* credited set for the first time.
LEMMA SuccessKeeps ==
  ASSUME TypeOK, WorkerInv, NEW l, CompleteSuccess(l), credited' = credited \cup {l},
         TurnLeases', CallReceipts', observed' = observed
  PROVE  WorkerInv'
<1>1. /\ leases' = leases /\ worker'.lease = NoLease /\ worker'.actions = worker.actions + 1
      /\ worker'.status = "active" /\ worker'.failures = 0
      /\ worker.lease.id = l /\ l # 0 /\ worker.lease.receipt = "completed"
  BY DEF CompleteSuccess, HoldsLease
<1>2. leases \in Nat /\ l \in 1 .. leases /\ l \in observed
  BY <1>1 DEF TypeOK, LedgerTypeOK, WorkerInv, LeasesDrawn, ReceiptsGenuine
<1>3. LeasesDrawn'
  BY <1>1, <1>2, NoLeaseFields
  DEF WorkerInv, LeasesDrawn, TurnLeases, CallReceipts
<1>4. ReceiptsGenuine'
  BY <1>1, NoLeaseFields DEF ReceiptsGenuine, CallReceipts
<1>5. CreditCounted'
  <2>1. IsFiniteSet(credited) /\ l \notin credited
    BY <1>1 DEF WorkerInv, CreditCounted
  <2>2. /\ IsFiniteSet(credited \cup {l})
        /\ Cardinality(credited \cup {l}) = Cardinality(credited) + 1
    BY <2>1, FS_AddElement
  <2>3. 0 \notin credited \cup {l}
    BY <1>1 DEF WorkerInv, LeasesDrawn
  <2>4. QED
    BY <1>1, <1>2, <2>2, <2>3, NoLeaseFields DEF WorkerInv, CreditCounted
<1>6. NoLeaseUnlessRun' /\ FailureBudgetStops'
  BY <1>1, LedgerAssumption DEF NoLeaseUnlessRun, FailureBudgetStops, Closed
<1>7. QED
  BY <1>3, <1>4, <1>5, <1>6 DEF WorkerInv

LEMMA RestOfTurnKeeps ==
  ASSUME TypeOK, WorkerInv, NEW t \in Turns,
         \/ ScheduleConfirmed(t) \/ ScheduleUnconfirmed(t) \/ GateWorker(t) \/ LedgerFails(t)
         \/ CompleteWrites(t) \/ CompleteRefused(t)
         \/ ResumeWrites(t) \/ ResumeRefused(t)
  PROVE  WorkerInv'
<1> USE IdleLease
<1>1. leases \in Nat /\ LedgerTypeOK /\ 0 \in 0 .. leases
  BY DEF TypeOK, LedgerTypeOK
<1>2. (worker' = worker /\ leases' = leases) => QuietLedgerStep
  BY SameLedgerQuiet
<1>3. \A pc, at : /\ [Idle EXCEPT !.pc = pc].lease = 0
                  /\ [Idle EXCEPT !.pc = pc, !.at = at].lease = 0
  BY DEF Idle
<1>4. CASE ScheduleConfirmed(t)
  BY <1>1, <1>2, <1>4, TurnStepKeeps DEF ScheduleConfirmed, Return, historyVars
<1>5. CASE ScheduleUnconfirmed(t)
  BY <1>1, <1>2, <1>3, <1>5, TurnStepKeeps
  DEF ScheduleUnconfirmed, Return, GateNext, historyVars
<1>6. CASE GateWorker(t)
  <2>1. QuietLedgerStep /\ leases' = leases
    BY <1>1, <1>6, ControlQuiet DEF GateWorker, GateRecovery
  <2>2. QED
    BY <1>1, <1>6, <2>1, TurnStepKeeps DEF GateWorker, Return, LedgerOnly, historyVars
<1>7. CASE CompleteWrites(t)
  <2>1. PICK rec : Become(t, rec) /\ rec.lease = 0
    <3> DEFINE next == IF worker'.status = "active" THEN Scheduling(worker'.nextWake) ELSE Idle
    <3>1. Answer(t, next)
      BY <1>7 DEF CompleteWrites
    <3>2. /\ next.lease = 0 /\ Idle.lease = 0
          /\ [Idle EXCEPT !.pc = "gate"].lease = 0
      BY DEF Idle, Scheduling
    <3>3. QED
      BY <3>1, <3>2, AnswerTurn
  <2>2. leases' = leases
    BY <1>7 DEF CompleteWrites, CompleteSuccess, CompleteTransient, CompleteGate
  <2>3. call' = call /\ observed' = observed
    BY <1>7 DEF CompleteWrites
  <2>4. CASE /\ CompleteSuccess(turn[t].lease)
             /\ credited' = credited \cup {turn[t].lease}
    BY <1>1, <2>1, <2>2, <2>3, <2>4, BecomeKeepsLeases, SameCallsKeepReceipts, SuccessKeeps
  <2>5. CASE /\ CompleteTransient(turn[t].lease) \/ CompleteGate(turn[t].lease)
             /\ credited' = credited
    BY <1>1, <2>1, <2>2, <2>3, <2>5, CompleteQuiet, TurnStepKeeps
  <2>6. QED
    BY <1>7, <2>4, <2>5 DEF CompleteWrites
<1>8. CASE CompleteRefused(t)
  BY <1>1, <1>2, <1>8, TurnStepKeeps DEF CompleteRefused, Return, TurnOnly, historyVars
<1>9. CASE ResumeWrites(t)
  <2>1. QuietLedgerStep /\ leases' = leases
    BY <1>1, <1>9, ControlQuiet DEF ResumeWrites, Resume
  <2>2. QED
    BY <1>1, <1>3, <1>9, <2>1, AnswerKeeps DEF ResumeWrites, Scheduling, LedgerOnly, historyVars
<1>10. CASE ResumeRefused(t)
  BY <1>1, <1>2, <1>10, TurnStepKeeps DEF ResumeRefused, Return, TurnOnly, historyVars
<1>11. CASE LedgerFails(t)
  BY <1>1, <1>2, <1>11, TurnStepKeeps DEF LedgerFails, Return, LedgerOnly, historyVars
<1>12. QED
  BY <1>4, <1>5, <1>6, <1>7, <1>8, <1>9, <1>10, <1>11

LEMMA CallsKeep ==
  ASSUME TypeOK, WorkerInv, NEW c \in Calls, CallStep(c)
  PROVE  WorkerInv'
<1>1. /\ leases \in Nat /\ 0 \in 0 .. leases /\ LedgerTypeOK
      /\ worker.lease.id \in 0 .. leases
      /\ call[c] \in CallRecord /\ call[c].lease \in 0 .. leases
  BY DEF TypeOK, LedgerTypeOK, WorkerInv, LeasesDrawn
<1>2. (call[c].state \in {"ended", "matched"} /\ call[c].result = "completed")
      => call[c].lease \in observed
  BY DEF WorkerInv, ReceiptsGenuine
<1>3. NoCall.lease = 0 /\ NoCall.state = "idle"
  BY DEF NoCall
<1>4. ASSUME NEW cmd \in Commands, CallBound(c, cmd)
      PROVE  WorkerInv'
  BY <1>1, <1>4, CallStepKeeps DEF CallBound, CallOnly
<1>5. CASE CallCharged(c)
  <2>1. [call[c] EXCEPT !.state = "running"].state = "running"
        /\ [call[c] EXCEPT !.state = "running"].lease = call[c].lease
    BY <1>1 DEF CallRecord
  <2>2. QED
    BY <1>1, <1>5, <2>1, CallStepKeeps DEF CallCharged, CallOnly
<1>6. CASE CallRejected(c)
  <2> DEFINE rec == [call[c] EXCEPT !.state = "ended", !.result = "human_gate"]
  <2>1. rec.result = "human_gate" /\ rec.lease = call[c].lease
    BY <1>1 DEF CallRecord
  <2>2. QED
    BY <1>1, <1>6, <2>1, CallStepKeeps DEF CallRejected, CallOnly
<1>7. ASSUME NEW result \in {"completed", "human_gate"}, CallEnds(c, result)
      PROVE  WorkerInv'
  <2> DEFINE rec == [call[c] EXCEPT !.state = "ended", !.result = result]
  <2>1. rec.result = result /\ rec.lease = call[c].lease
    BY <1>1 DEF CallRecord
  <2>2. observed \subseteq observed' /\ (result = "completed" => call[c].lease \in observed')
    BY <1>7 DEF CallEnds
  <2>3. QED
    BY <1>1, <1>7, <2>1, <2>2, CallStepKeeps DEF CallEnds, CallOnly
<1>8. CASE ResultMatched(c)
  <2> DEFINE rec == [call[c] EXCEPT !.state = "matched"]
  <2>1. /\ rec.lease = call[c].lease /\ rec.result = call[c].result
        /\ rec.result = "completed" => rec.lease \in observed
    BY <1>1, <1>2, <1>8 DEF CallRecord, ResultMatched
  <2>2. CASE CallVars(c, rec)
    BY <1>1, <1>8, <2>1, <2>2, CallStepKeeps DEF ResultMatched, CallOnly
  <2>3. CASE CallVars(c, NoCall)
    BY <1>1, <1>3, <1>8, <2>3, CallStepKeeps DEF ResultMatched, CallOnly
  <2>4. QED
    BY <1>8, <2>2, <2>3 DEF ResultMatched
<1>9. CASE ReceiptStored(c)
  <2>1. /\ worker.lease.id = call[c].lease
        /\ call[c].result = "completed" => call[c].lease \in observed
        /\ leases' = leases /\ turn' = turn /\ CallVars(c, NoCall)
        /\ observed' = observed /\ credited' = credited
    BY <1>2, <1>9 DEF ReceiptStored, RecordResult, HoldsLease, historyVars
  <2>2. /\ worker'.lease.id = worker.lease.id
        /\ worker'.lease.receipt \in {worker.lease.receipt, call[c].result}
        /\ worker'.status = worker.status /\ worker'.failures = worker.failures
        /\ worker'.actions = worker.actions
    BY <1>1, <1>9 DEF ReceiptStored, RecordResult, LedgerTypeOK, Lease
  <2>3. worker.status \in {"active", "human_gate"}
    BY <1>1, <1>9, HolderRuns DEF ReceiptStored, RecordResult, WorkerInv
  <2>4. TurnLeases'
    BY <2>1, SameTurnsKeepLeases
  <2>5. CallReceipts'
    BY <1>1, <1>3, <2>1
    DEF TypeOK, WorkerInv, LeasesDrawn, ReceiptsGenuine, CallReceipts, CallVars
  <2>6. LeasesDrawn'
    BY <2>1, <2>2, <2>4, <2>5 DEF WorkerInv, LeasesDrawn, TurnLeases, CallReceipts
  <2>7. ReceiptsGenuine'
    BY <2>1, <2>2, <2>5 DEF WorkerInv, ReceiptsGenuine, CallReceipts
  <2>8. CreditCounted' /\ NoLeaseUnlessRun' /\ FailureBudgetStops'
    BY <2>1, <2>2, <2>3
    DEF WorkerInv, CreditCounted, NoLeaseUnlessRun, FailureBudgetStops, Closed
  <2>9. QED
    BY <2>6, <2>7, <2>8 DEF WorkerInv
<1>10. CASE ReceiptLost(c)
  BY <1>1, <1>3, <1>10, CallStepKeeps DEF ReceiptLost, CallOnly
<1>11. QED
  BY <1>4, <1>5, <1>6, <1>7, <1>8, <1>9, <1>10 DEF CallStep

LEMMA ProcessKeeps ==
  ASSUME TypeOK, WorkerInv, Crash \/ Restart \/ RecoveryStep
  PROVE  WorkerInv'
<1>1. leases \in Nat /\ LedgerTypeOK
  BY DEF TypeOK, LedgerTypeOK
<1>2. (worker' = worker /\ leases' = leases) => QuietLedgerStep
  BY SameLedgerQuiet
<1>3. CASE Crash
  <2>1. TurnLeases'
    BY <1>1, <1>3 DEF Crash, TurnLeases, Idle
  <2>2. CallReceipts'
    BY <1>1, <1>3 DEF Crash, CallReceipts, NoCall
  <2>3. QED
    BY <1>2, <1>3, <2>1, <2>2, QuietStepKeeps DEF Crash, historyVars
<1>4. CASE Restart
  BY <1>2, <1>4, LedgerStepKeeps DEF Restart, historyVars
<1>5. CASE RecoveryGates
  <2>1. QuietLedgerStep
    BY <1>1, <1>5, ControlQuiet DEF RecoveryGates
  <2>2. QED
    BY <1>5, <2>1, LedgerStepKeeps DEF RecoveryGates, RecoveryOnly, historyVars
<1>6. CASE \/ RecoveryReads \/ RecoveryConfirmed \/ RecoveryStale
           \/ RecoveryUnconfirmed \/ RecoveryRechecks \/ RecoveryFails
  <2>1. /\ worker' = worker /\ leases' = leases /\ turn' = turn /\ call' = call
        /\ credited' = credited /\ observed' = observed
    BY <1>6
    DEF RecoveryReads, RecoveryConfirmed, RecoveryStale, RecoveryUnconfirmed,
        RecoveryRechecks, RecoveryFails, RecoveryOnly, historyVars
  <2>2. QED
    BY <1>2, <2>1, LedgerStepKeeps
<1>7. QED
  BY <1>3, <1>4, <1>5, <1>6 DEF RecoveryStep

LEMMA EnvironmentKeeps ==
  ASSUME TypeOK, WorkerInv, Revoke \/ RevokeCampaign \/ Drift \/ Tick
  PROVE  WorkerInv'
<1>1. LedgerTypeOK
  BY DEF TypeOK
<1>2. CASE Revoke
  BY <1>1, <1>2, ControlQuiet, LedgerStepKeeps DEF Revoke, historyVars
<1>3. CASE RevokeCampaign \/ Drift \/ Tick
  BY <1>3, SameLedgerQuiet, LedgerStepKeeps DEF RevokeCampaign, Drift, Tick, historyVars
<1>4. QED
  BY <1>2, <1>3

LEMMA StepKeeps ==
  ASSUME TypeOK, WorkerInv, [Next]_vars
  PROVE  WorkerInv'
<1>1. ASSUME NEW t \in Turns, TurnStarts(t) \/ TurnStep(t)
      PROVE  WorkerInv'
  BY <1>1, TurnStartsKeep, TickStepKeeps, RestOfTurnKeeps DEF TurnStep
<1>2. ASSUME NEW c \in Calls, CallStep(c)
      PROVE  WorkerInv'
  BY <1>2, CallsKeep
<1>3. CASE UNCHANGED vars
  BY <1>3, SameLedgerQuiet, LedgerStepKeeps DEF vars
<1>4. QED
  BY <1>1, <1>2, <1>3, ProcessKeeps, EnvironmentKeeps DEF Next

-----------------------------------------------------------------------------
(* The theorems.                                                             *)

\* The inductive invariant: the count of completed actions, the receipts and
\* the failure budget agree in every reachable state.
THEOREM WorkerInvariant == Spec => []WorkerInv
<1>1. Init => WorkerInv
  <2> SUFFICES ASSUME Init PROVE WorkerInv
    OBVIOUS
  <2>1. IsFiniteSet({}) /\ Cardinality({}) = 0
    BY FS_EmptySet
  <2>2. QED
    BY <2>1, LedgerAssumption
    DEF Init, LedgerInit, WorkerInv, LeasesDrawn, ReceiptsGenuine, CreditCounted,
        NoLeaseUnlessRun, FailureBudgetStops, NoLease, Idle, NoCall
<1>2. TypeOK /\ WorkerInv /\ [Next]_vars => WorkerInv'
  BY StepKeeps
<1>3. QED
  BY <1>1, <1>2, TypeCorrect, PTL DEF Spec

\* An action is counted only on the evidence of its own provider call, and
\* once: however late, repeated or concurrent hooks and completions are.
THEOREM CreditHasEvidence == Spec => []CreditNeedsEvidence
<1>1. WorkerInv => CreditNeedsEvidence
  BY DEF WorkerInv, CreditCounted, CreditNeedsEvidence
<1>2. QED
  BY <1>1, WorkerInvariant, PTL

\* After maxConsecutiveFailures failures in a row the worker does not run.
THEOREM FailureBudgetHolds == Spec => []FailureBudgetStops
<1>1. WorkerInv => FailureBudgetStops
  BY DEF WorkerInv
<1>2. QED
  BY <1>1, WorkerInvariant, PTL

-----------------------------------------------------------------------------
(* What a step may do to the record, for the action properties.              *)

LEMMA WorkerMoves ==
  ASSUME [Next]_vars
  PROVE  \/ worker' = worker
         \/ Register \/ ClaimUnresolved \/ ClaimFresh \/ GateRecovery \/ RevokeWorker
         \/ \E seen : ClaimClosed(seen)
         \/ \E l : HoldsLease(l)
         \/ ResumeInFlight /\ \E seen : Resume(seen)
<1>1. ASSUME NEW t \in Turns, TurnStarts(t)
      PROVE  worker' = worker \/ Register
  BY <1>1 DEF TurnStarts, Enable, WakeFires, TickCalled, ResumeCalled, CompleteCalled, TurnOnly
<1>2. ASSUME NEW t \in Turns, TickStep(t)
      PROVE  \/ worker' = worker \/ ClaimClosed(turn[t].seen) \/ ClaimUnresolved \/ ClaimFresh
             \/ \E l : HoldsLease(l)
  <2>1. CASE ClaimRefused(t) \/ ClaimReportsNotDue(t) \/ TickFails(t)
    BY <2>1 DEF ClaimRefused, ClaimReportsNotDue, TickFails, TurnOnly
  <2>2. CASE ClaimReportsClosed(t) \/ ClaimReportsUnresolved(t) \/ ClaimGranted(t)
    BY <2>2 DEF ClaimReportsClosed, ClaimReportsUnresolved, ClaimGranted
  <2>3. CASE \E cmd \in Commands : PlanAction(t, cmd)
    BY <2>3 DEF PlanAction, TurnOnly
  <2>4. CASE PlanGates(t) \/ PlanTerminal(t) \/ IssueCommand(t)
    BY <2>4 DEF PlanGates, PlanTerminal, IssueCommand, CompleteGate, CompleteDone, Issue
  <2>5. CASE \E next \in {Never, now + RecheckTicks} : PlanWaits(t, next)
    BY <2>5 DEF PlanWaits, CompleteDone
  <2>6. QED
    BY <1>2, <2>1, <2>2, <2>3, <2>4, <2>5 DEF TickStep
<1>3. ASSUME NEW t \in Turns, TurnStep(t)
      PROVE  \/ worker' = worker \/ ClaimClosed(turn[t].seen) \/ ClaimUnresolved \/ ClaimFresh
             \/ GateRecovery \/ (\E l : HoldsLease(l))
             \/ (ResumeInFlight /\ \E seen : Resume(seen))
  <2>1. CASE TickStep(t)
    BY <1>2, <2>1
  <2>2. CASE ScheduleConfirmed(t) \/ ScheduleUnconfirmed(t) \/ CompleteRefused(t)
             \/ ResumeRefused(t)
    BY <2>2 DEF ScheduleConfirmed, ScheduleUnconfirmed, CompleteRefused, ResumeRefused, TurnOnly
  <2>3. CASE CompleteWrites(t)
    BY <2>3 DEF CompleteWrites, CompleteSuccess, CompleteTransient, CompleteGate
  <2>4. CASE GateWorker(t) \/ LedgerFails(t)
    BY <2>4 DEF GateWorker, LedgerFails
  <2>5. CASE ResumeWrites(t)
    BY <2>5 DEF ResumeWrites, ResumeInFlight
  <2>6. QED
    BY <1>3, <2>1, <2>2, <2>3, <2>4, <2>5 DEF TurnStep
<1>4. ASSUME NEW c \in Calls, CallStep(c)
      PROVE  worker' = worker \/ \E l : HoldsLease(l)
  BY <1>4
  DEF CallStep, CallBound, CallCharged, CallRejected, CallEnds, ResultMatched, ReceiptStored,
      ReceiptLost, CallOnly, RecordResult
<1>5. ASSUME RecoveryStep
      PROVE  worker' = worker \/ GateRecovery
  BY <1>5
  DEF RecoveryStep, RecoveryReads, RecoveryConfirmed, RecoveryStale, RecoveryUnconfirmed,
      RecoveryRechecks, RecoveryGates, RecoveryFails
<1>6. CASE Crash \/ Restart \/ RevokeCampaign \/ Drift \/ Tick \/ UNCHANGED vars
  BY <1>6 DEF Crash, Restart, RevokeCampaign, Drift, Tick, vars
<1>7. CASE Revoke
  BY <1>7 DEF Revoke
<1>8. QED
  BY <1>1, <1>3, <1>4, <1>5, <1>6, <1>7 DEF Next

\* A closed worker stays closed and idle, whatever was in flight.
THEOREM ClosedForGood == Spec => ClosedStaysClosed
<1>1. TypeOK /\ WorkerInv /\ [Next]_vars
      => [worker.status \in Closed => worker'.status \in Closed /\ worker'.lease = NoLease]_vars
  <2> SUFFICES ASSUME TypeOK, WorkerInv, [Next]_vars, worker.status \in Closed
               PROVE  worker'.status \in Closed /\ worker'.lease = NoLease
    OBVIOUS
  <2>1. worker.lease = NoLease /\ LedgerTypeOK
    BY DEF TypeOK, WorkerInv, NoLeaseUnlessRun
  <2>2. \A l : ~HoldsLease(l)
    BY <2>1, NoLeaseFields DEF HoldsLease
  <2>3. CASE \E seen : ClaimClosed(seen)
    BY <2>1, <2>3 DEF ClaimClosed, LedgerTypeOK, Closed
  <2>4. CASE RevokeWorker
    BY <2>1, <2>4 DEF RevokeWorker, LedgerTypeOK, Closed
  <2>5. CASE worker' = worker \/ GateRecovery
    BY <2>1, <2>5 DEF GateRecovery, Closed
  <2>6. ~Register /\ ~ClaimUnresolved /\ ~ClaimFresh /\ \A seen : ~Resume(seen)
    BY DEF Register, ClaimUnresolved, ClaimFresh, Resume, Closed
  <2>7. QED
    BY <2>2, <2>3, <2>4, <2>5, <2>6, WorkerMoves
<1>2. QED
  BY <1>1, TypeCorrect, WorkerInvariant, PTL DEF Spec, ClosedStaysClosed

\* A command left without an outcome by an expired lease waits for a human.
THEOREM UnresolvedWaits == Spec => UnresolvedNeedsHuman
<1>1. TypeOK /\ WorkerInv /\ [Next]_vars
      => [ (worker.lease.plan # NoCommand /\ worker.lease.expiresAt <= now
            /\ worker'.lease # worker.lease)
           => (ResumeInFlight \/ worker'.status \in Closed) ]_vars
  <2> SUFFICES ASSUME TypeOK, WorkerInv, [Next]_vars,
                      worker.lease.plan # NoCommand, worker.lease.expiresAt <= now,
                      worker'.lease # worker.lease
               PROVE  ResumeInFlight \/ worker'.status \in Closed
    OBVIOUS
  <2>1. LedgerTypeOK /\ now \in Nat /\ worker.lease.expiresAt \in Nat
    BY NowType DEF TypeOK, LedgerTypeOK, Lease
  <2>2. \A l : ~HoldsLease(l)
    BY <2>1 DEF HoldsLease
  <2>3. CASE \E seen : ClaimClosed(seen)
    BY <2>1, <2>3 DEF ClaimClosed, LedgerTypeOK, Closed
  <2>4. CASE RevokeWorker
    BY <2>1, <2>4 DEF RevokeWorker, LedgerTypeOK, Closed
  <2>5. ~Register /\ ~ClaimFresh
    BY NoLeaseFields DEF Register, ClaimFresh, WorkerInv, NoLeaseUnlessRun
  <2>6. ~ClaimUnresolved
    BY <2>1 DEF ClaimUnresolved, LedgerTypeOK
  <2>7. ~GateRecovery
    <3>1. GateRecovery => worker'.lease = worker.lease
      BY <2>1 DEF GateRecovery, LedgerTypeOK
    <3>2. QED
      BY <3>1
  <2>8. QED
    BY <2>2, <2>3, <2>4, <2>5, <2>6, <2>7, WorkerMoves
<1>2. QED
  BY <1>1, TypeCorrect, WorkerInvariant, PTL DEF Spec, UnresolvedNeedsHuman

-----------------------------------------------------------------------------
(* The wake of an active worker.  A step leaves the cover as it is, replaces  *)
(* it by a turn or recovery that is to decide, or is a mishap.                *)

LEMMA TurnCovers ==
  ASSUME TypeOK, NEW t \in Turns, NEW rec, Become(t, rec),
         rec.pc \in {"claim", "plan", "issue", "watch", "schedule", "announce", "gate"}
  PROVE  ActiveWorkerCovered'
<1>1. turn'[t] = rec
  BY DEF Become, TypeOK
<1>2. Deciding(t)'
  BY <1>1 DEF Deciding
<1>3. QED
  BY <1>2 DEF ActiveWorkerCovered, Attended

LEMMA MishapCovers ==
  ASSUME Mishap, wake' = wake
  PROVE  ActiveWorkerCovered'
BY DEF Mishap, ActiveWorkerCovered

\* After a ledger call that goes on to decide, or leaves no active worker.
LEMMA AnswerCovers ==
  ASSUME TypeOK, NEW t \in Turns, NEW rec, Answer(t, rec), wake' = wake,
         \/ rec.pc \in {"claim", "plan", "issue", "watch", "schedule", "announce", "gate"}
         \/ worker'.status # "active"
  PROVE  ActiveWorkerCovered'
<1>1. CASE Become(t, rec)
  BY <1>1, TurnCovers DEF ActiveWorkerCovered
<1>2. CASE GateNext(t)
  <2>1. [Idle EXCEPT !.pc = "gate"].pc = "gate"
    BY DEF Idle
  <2>2. QED
    BY <1>2, <2>1, TurnCovers DEF GateNext
<1>3. CASE Mishap
  BY <1>3, MishapCovers
<1>4. QED
  BY <1>1, <1>2, <1>3 DEF Answer, ErrorPath

LEMMA CoverStays ==
  ASSUME ActiveWorkerCovered, worker'.status = worker.status,
         wake' = wake, mishap' = mishap, handoff' = handoff, up' = up,
         Recovering => Recovering',
         \A u \in Turns : Deciding(u) => Deciding(u)'
  PROVE  ActiveWorkerCovered'
BY DEF ActiveWorkerCovered, Attended

LEMMA SameTokenRecovers ==
  ASSUME recovery' = recovery, ScheduleToken' = ScheduleToken
  PROVE  Recovering => Recovering'
BY DEF Recovering

\* A turn that has nothing to decide starts or ends without touching the rest.
LEMMA BystanderCovers ==
  ASSUME TypeOK, ActiveWorkerCovered, NEW t \in Turns, NEW rec, Become(t, rec),
         turn[t].pc \in {"idle", "complete", "resume"},
         worker' = worker, recovery' = recovery, mishap' = mishap, UNCHANGED hostVars
  PROVE  ActiveWorkerCovered'
<1>1. ~Deciding(t)
  BY DEF Deciding
<1>2. \A u \in Turns : u # t => turn'[u] = turn[u]
  BY DEF Become, TypeOK
<1>3. \A u \in Turns : Deciding(u) => Deciding(u)'
  BY <1>1, <1>2 DEF Deciding
<1>4. ScheduleToken' = ScheduleToken
  BY DEF ScheduleToken
<1>5. QED
  BY <1>3, <1>4, SameTokenRecovers, CoverStays DEF hostVars

LEMMA TurnStartsCovered ==
  ASSUME TypeOK, ActiveWorkerCovered, NEW t \in Turns, TurnStarts(t)
  PROVE  ActiveWorkerCovered'
<1>1. Idle.pc = "idle"
  BY DEF Idle
<1>2. CASE Enable(t)
  <2>1. [Idle EXCEPT !.pc = "announce", !.at = now + 1].pc = "announce"
    BY DEF Idle
  <2>2. QED
    BY <1>2, <2>1, AnswerCovers DEF Enable, LedgerOnly, hostVars
<1>3. ASSUME Enter(t, "claim")
      PROVE  ActiveWorkerCovered'
  <2>1. [Idle EXCEPT !.pc = "claim", !.seen = grant.status, !.policyOk = PolicyOk].pc = "claim"
    BY DEF Idle
  <2>2. QED
    BY <1>3, <2>1, TurnCovers DEF Enter
<1>4. CASE WakeFires(t)
  <2>1. CASE ContextOk
    BY <1>3, <1>4, <2>1 DEF WakeFires
  <2>2. CASE ~ContextOk
    BY <1>4, <2>2 DEF WakeFires, ActiveWorkerCovered
  <2>3. QED
    BY <2>1, <2>2
<1>5. CASE TickCalled(t)
  BY <1>3, <1>5 DEF TickCalled
<1>6. CASE ResumeCalled(t)
  <2>1. PICK rec : Become(t, rec)
    BY <1>6 DEF ResumeCalled, Enter
  <2>2. QED
    BY <1>1, <1>6, <2>1, BystanderCovers DEF ResumeCalled
<1>7. ASSUME NEW outcome \in Outcome \ {"none"}, CompleteCalled(t, outcome)
      PROVE  ActiveWorkerCovered'
  <2>1. PICK rec : Become(t, rec)
    BY <1>7 DEF CompleteCalled
  <2>2. QED
    BY <1>1, <1>7, <2>1, BystanderCovers DEF CompleteCalled, TurnOnly
<1>8. QED
  BY <1>2, <1>4, <1>5, <1>6, <1>7 DEF TurnStarts

LEMMA TickStepCovered ==
  ASSUME TypeOK, ActiveWorkerCovered, NEW t \in Turns, TickStep(t)
  PROVE  ActiveWorkerCovered'
<1>1. LedgerTypeOK
  BY DEF TypeOK
<1>2. CASE ClaimRefused(t)
  BY <1>2, MishapCovers DEF ClaimRefused, LedgerOnly, hostVars
<1>3. CASE ClaimReportsClosed(t)
  BY <1>1, <1>3 DEF ClaimReportsClosed, ClaimClosed, LedgerTypeOK, ActiveWorkerCovered
<1>4. CASE ClaimReportsNotDue(t)
  <2>1. Scheduling(worker.nextWake).pc = "schedule"
    BY DEF Scheduling, Idle
  <2>2. QED
    BY <1>4, <2>1, TurnCovers DEF ClaimReportsNotDue, ScheduleNext
<1>5. CASE ClaimReportsUnresolved(t)
  BY <1>1, <1>5 DEF ClaimReportsUnresolved, ClaimUnresolved, LedgerTypeOK, ActiveWorkerCovered
<1>6. CASE ClaimGranted(t)
  <2>1. [Idle EXCEPT !.pc = "plan", !.lease = leases + 1].pc = "plan"
    BY DEF Idle
  <2>2. QED
    BY <1>6, <2>1, AnswerCovers DEF ClaimGranted, LedgerOnly, hostVars
<1>7. ASSUME NEW cmd \in Commands, PlanAction(t, cmd)
      PROVE  ActiveWorkerCovered'
  <2>1. [turn[t] EXCEPT !.pc = "issue", !.plan = cmd].pc = "issue"
    BY DEF TypeOK, TurnRecord
  <2>2. QED
    BY <1>7, <2>1, TurnCovers DEF PlanAction
<1>8. CASE PlanGates(t) \/ PlanTerminal(t)
  <2>1. worker'.status # "active"
    BY <1>1, <1>8 DEF PlanGates, PlanTerminal, CompleteGate, CompleteDone, LedgerTypeOK
  <2>2. QED
    BY <2>1 DEF ActiveWorkerCovered
<1>9. ASSUME NEW next \in {Never, now + RecheckTicks}, PlanWaits(t, next)
      PROVE  ActiveWorkerCovered'
  <2>1. CASE next = Never
    BY <1>1, <1>9, <2>1 DEF PlanWaits, CompleteDone, LedgerTypeOK, ActiveWorkerCovered
  <2>2. CASE next # Never
    <3>1. Scheduling(next).pc = "schedule"
      BY DEF Scheduling, Idle
    <3>2. QED
      BY <1>9, <2>2, <3>1, AnswerCovers DEF PlanWaits, LedgerOnly, hostVars
  <2>3. QED
    BY <2>1, <2>2
<1>10. CASE IssueCommand(t)
  <2>1. [Idle EXCEPT !.pc = "watch", !.lease = turn[t].lease,
                     !.at = worker.lease.expiresAt + 1].pc = "watch"
    BY DEF Idle
  <2>2. QED
    BY <1>10, <2>1, AnswerCovers DEF IssueCommand, LedgerOnly, hostVars
<1>11. CASE TickFails(t)
  <2>1. [Idle EXCEPT !.pc = "gate"].pc = "gate"
    BY DEF Idle
  <2>2. QED
    BY <1>11, <2>1, TurnCovers DEF TickFails, GateNext
<1>12. QED
  BY <1>2, <1>3, <1>4, <1>5, <1>6, <1>7, <1>8, <1>9, <1>10, <1>11 DEF TickStep

LEMMA RestOfTurnCovered ==
  ASSUME TypeOK, ActiveWorkerCovered, NEW t \in Turns,
         \/ ScheduleConfirmed(t) \/ ScheduleUnconfirmed(t) \/ GateWorker(t) \/ LedgerFails(t)
         \/ CompleteWrites(t) \/ CompleteRefused(t)
         \/ ResumeWrites(t) \/ ResumeRefused(t)
  PROVE  ActiveWorkerCovered'
<1>1. now \in Nat /\ LedgerTypeOK
  BY NowType DEF TypeOK
<1>2. ASSUME NEW at
      PROVE  Scheduling(at).pc = "schedule"
  BY DEF Scheduling, Idle
<1>3. CASE ScheduleConfirmed(t)
  <2>1. wake' # Never
    <3>1. turn[t].at \in Nat \cup {Never}
      BY DEF TypeOK, TurnRecord
    <3>2. QED
      BY <1>1, <1>3, <3>1 DEF ScheduleConfirmed, Reregister, Never
  <2>2. QED
    BY <2>1 DEF ActiveWorkerCovered
<1>4. CASE ScheduleUnconfirmed(t)
  <2>1. [Idle EXCEPT !.pc = "gate"].pc = "gate"
    BY DEF Idle
  <2>2. CASE turn[t].pc = "announce"
    BY <1>4, <2>2 DEF ScheduleUnconfirmed, ActiveWorkerCovered, Attended
  <2>3. CASE turn[t].pc # "announce"
    BY <1>4, <2>1, <2>3, TurnCovers DEF ScheduleUnconfirmed, GateNext
  <2>4. QED
    BY <2>2, <2>3
<1>5. CASE GateWorker(t)
  BY <1>1, <1>5 DEF GateWorker, GateRecovery, LedgerTypeOK, ActiveWorkerCovered
<1>6. CASE LedgerFails(t)
  BY <1>6, MishapCovers DEF LedgerFails, LedgerOnly, hostVars
<1>7. CASE CompleteWrites(t)
  <2>1. CASE worker'.status = "active"
    <3>1. Answer(t, Scheduling(worker'.nextWake)) /\ wake' = wake
      BY <1>7, <2>1 DEF CompleteWrites, hostVars
    <3>2. QED
      BY <1>2, <3>1, AnswerCovers
  <2>2. CASE worker'.status # "active"
    BY <2>2 DEF ActiveWorkerCovered
  <2>3. QED
    BY <2>1, <2>2
<1>8. CASE CompleteRefused(t)
  BY <1>8, BystanderCovers DEF CompleteRefused, Return, TurnOnly
<1>9. CASE ResumeWrites(t)
  BY <1>2, <1>9, AnswerCovers DEF ResumeWrites, LedgerOnly, hostVars
<1>10. CASE ResumeRefused(t)
  BY <1>10, BystanderCovers DEF ResumeRefused, Return, TurnOnly
<1>11. QED
  BY <1>3, <1>4, <1>5, <1>6, <1>7, <1>8, <1>9, <1>10

LEMMA CallsCovered ==
  ASSUME TypeOK, ActiveWorkerCovered, NEW c \in Calls, CallStep(c)
  PROVE  ActiveWorkerCovered'
<1>1. /\ worker'.status = worker.status /\ ScheduleToken' = ScheduleToken
      /\ turn' = turn /\ recovery' = recovery /\ mishap' = mishap /\ UNCHANGED hostVars
  <2>1. CASE ReceiptStored(c)
    <3>1. worker'.status = worker.status /\ worker'.nextWake = worker.nextWake
          /\ worker'.lease.id = worker.lease.id /\ worker'.lease.plan = worker.lease.plan
      BY <2>1 DEF ReceiptStored, RecordResult, TypeOK, LedgerTypeOK, Lease
    <3>2. QED
      BY <2>1, <3>1 DEF ReceiptStored, ScheduleToken
  <2>2. CASE CallOnly
    BY <2>2 DEF CallOnly, ScheduleToken
  <2>3. QED
    BY <2>1, <2>2
    DEF CallStep, CallBound, CallCharged, CallRejected, CallEnds, ResultMatched, ReceiptLost
<1>2. \A u \in Turns : Deciding(u) => Deciding(u)'
  BY <1>1 DEF Deciding
<1>3. QED
  BY <1>1, <1>2, SameTokenRecovers, CoverStays DEF hostVars

LEMMA RecoveryCovered ==
  ASSUME TypeOK, ActiveWorkerCovered, RecoveryStep
  PROVE  ActiveWorkerCovered'
<1>1. now \in Nat /\ LedgerTypeOK /\ recovery \in RecoveryRecord
  BY NowType DEF TypeOK
<1>2. turn' = turn /\ UNCHANGED <<up, handoff>>
  BY DEF RecoveryStep, RecoveryReads, RecoveryConfirmed, RecoveryStale, RecoveryUnconfirmed,
         RecoveryRechecks, RecoveryGates, RecoveryFails, RecoveryOnly
<1>3. ASSUME Recovering'
      PROVE  ActiveWorkerCovered'
  BY <1>3 DEF ActiveWorkerCovered, Attended
<1>4. ASSUME ~Recovering, UNCHANGED <<worker, wake, mishap>>
      PROVE  ActiveWorkerCovered'
  <2>1. \A u \in Turns : Deciding(u) => Deciding(u)'
    BY <1>2 DEF Deciding
  <2>2. QED
    BY <1>2, <1>4, <2>1, CoverStays
<1>5. CASE RecoveryReads
  <2>1. CASE worker.status # "active"
    BY <1>5, <2>1 DEF RecoveryReads, ActiveWorkerCovered
  <2>2. CASE worker.status = "active"
    <3>1. recovery'.pc = "schedule" /\ recovery'.token = ScheduleToken
      BY <1>5, <2>2 DEF RecoveryReads
    <3>2. ScheduleToken' = ScheduleToken
      BY <1>5 DEF RecoveryReads, ScheduleToken
    <3>3. QED
      BY <1>3, <3>1, <3>2 DEF Recovering
  <2>3. QED
    BY <2>1, <2>2
<1>6. CASE RecoveryConfirmed
  <2>1. wake' # Never
    BY <1>1, <1>6 DEF RecoveryConfirmed, Reregister, RecoveryRecord, Never
  <2>2. QED
    BY <2>1 DEF ActiveWorkerCovered
<1>7. CASE RecoveryStale
  BY <1>4, <1>7 DEF RecoveryStale, Recovering
<1>8. CASE RecoveryUnconfirmed
  <2>1. CASE recovery.token = ScheduleToken
    <3>1. recovery'.pc = "recheck" /\ recovery'.token = recovery.token
      BY <1>1, <1>8 DEF RecoveryUnconfirmed, RecoveryRecord
    <3>2. ScheduleToken' = ScheduleToken
      BY <1>8 DEF RecoveryUnconfirmed, ScheduleToken
    <3>3. QED
      BY <1>3, <2>1, <3>1, <3>2 DEF Recovering
  <2>2. CASE recovery.token # ScheduleToken
    BY <1>4, <1>8, <2>2 DEF RecoveryUnconfirmed, Recovering
  <2>3. QED
    BY <2>1, <2>2
<1>9. CASE RecoveryRechecks
  <2>1. recovery'.pc = "gate"
    BY <1>9 DEF RecoveryRechecks, Resting
  <2>2. QED
    BY <1>3, <2>1 DEF Recovering
<1>10. CASE RecoveryGates
  BY <1>1, <1>10 DEF RecoveryGates, GateRecovery, LedgerTypeOK, ActiveWorkerCovered
<1>11. CASE RecoveryFails
  BY <1>11, MishapCovers DEF RecoveryFails
<1>12. QED
  BY <1>5, <1>6, <1>7, <1>8, <1>9, <1>10, <1>11 DEF RecoveryStep

LEMMA StepCovered ==
  ASSUME TypeOK, ActiveWorkerCovered, [Next]_vars
  PROVE  ActiveWorkerCovered'
<1>1. ASSUME NEW t \in Turns, TurnStarts(t) \/ TurnStep(t)
      PROVE  ActiveWorkerCovered'
  BY <1>1, TurnStartsCovered, TickStepCovered, RestOfTurnCovered DEF TurnStep
<1>2. CASE Crash
  BY <1>2 DEF Crash, ActiveWorkerCovered, Attended
<1>3. CASE Restart
  BY <1>3 DEF Restart, ActiveWorkerCovered, Attended, Recovering
<1>4. CASE Revoke
  BY <1>4 DEF Revoke, RevokeWorker, TypeOK, LedgerTypeOK, ActiveWorkerCovered
<1>5. CASE RevokeCampaign \/ Drift \/ Tick \/ UNCHANGED vars
  <2>1. /\ worker' = worker /\ turn' = turn /\ recovery' = recovery /\ mishap' = mishap
        /\ UNCHANGED hostVars
    BY <1>5 DEF RevokeCampaign, Drift, Tick, vars, hostVars
  <2>2. \A u \in Turns : Deciding(u) => Deciding(u)'
    BY <2>1 DEF Deciding
  <2>3. ScheduleToken' = ScheduleToken
    BY <2>1 DEF ScheduleToken
  <2>4. QED
    BY <2>1, <2>2, <2>3, SameTokenRecovers, CoverStays DEF hostVars
<1>6. QED
  BY <1>1, <1>2, <1>3, <1>4, <1>5, CallsCovered, RecoveryCovered DEF Next

\* In every behaviour, with overlapping tools, expired or revoked grants, drift,
\* crashes and failing ledger calls, an active worker without a wake, a handoff
\* or a decision under way has met a mishap since its last registration.
THEOREM ActiveWorkerIsCovered == Spec => []ActiveWorkerCovered
<1>1. Init => ActiveWorkerCovered
  BY DEF Init, LedgerInit, ActiveWorkerCovered
<1>2. TypeOK /\ ActiveWorkerCovered /\ [Next]_vars => ActiveWorkerCovered'
  BY StepCovered
<1>3. QED
  BY <1>1, <1>2, TypeCorrect, PTL DEF Spec

-----------------------------------------------------------------------------
(* The watchdog of an exposed command.  A wake that stands since the last      *)
(* registration, unspoilt by a mishap, comes after the end of the lease.       *)

\* Only drawn leases are shown to the agent, and only with a command.
ExposedIssued ==
  /\ exposed \subseteq 1 .. leases
  /\ worker.lease.id \in exposed => worker.lease.plan # NoCommand

\* A turn that issued the command of the held lease is to schedule its watchdog.
WatchDated(t) ==
  turn[t].pc = "watch" =>
    /\ turn[t].lease \in 1 .. leases
    /\ turn[t].lease = worker.lease.id =>
         worker.lease.plan # NoCommand /\ turn[t].at > worker.lease.expiresAt
TurnsDated ==
  \A t \in Turns :
    /\ WatchDated(t)
    /\ turn[t].pc \in {"schedule", "announce"} => turn[t].lease = 0
    /\ turn[t].pc = "issue" => turn[t].plan # NoCommand

\* So is a recovery that read the held lease with its command.
RecoveryDated ==
  recovery.pc = "schedule" =>
    /\ recovery.token.id \in 0 .. leases
    /\ (recovery.token.id # 0 /\ recovery.token.id = worker.lease.id
        /\ recovery.token.plan # NoCommand)
       => recovery.at > worker.lease.expiresAt

WakeDated ==
  (worker.status = "active" /\ worker.lease.id \in exposed /\ ~mishap /\ wake # Never)
  => wake > worker.lease.expiresAt

WatchdogInv == ExposedIssued /\ TurnsDated /\ RecoveryDated /\ WakeDated

\* What an operation may do to the lease: it stays, and keeps its command and
\* its end; it is released; or a new one is drawn.
LeaseStays ==
  /\ leases' = leases
  /\ worker'.lease.id = worker.lease.id
  /\ worker'.lease.expiresAt = worker.lease.expiresAt
  /\ worker.lease.plan # NoCommand => worker'.lease.plan # NoCommand
  /\ worker'.status = "active" => worker.status = "active" \/ worker.lease.id = 0
LeaseReleased == leases' = leases /\ worker'.lease = NoLease
LeaseDrawn == leases' = leases + 1 /\ worker'.lease.id = leases'
LeaseMoves == LeaseStays \/ LeaseReleased \/ LeaseDrawn

LEMMA LedgerFields ==
  ASSUME TypeOK, WorkerInv
  PROVE  /\ now \in Nat /\ leases \in Nat
         /\ worker \in [status : WorkerStatus, lease : Lease, nextWake : Nat \cup {Never},
                        failures : Nat, actions : Nat]
         /\ worker.lease.id \in 0 .. leases /\ worker.lease.expiresAt \in Nat
         /\ NoLease.id = 0 /\ NoLease.expiresAt = 0 /\ NoLease.plan = NoCommand
<1>1. now \in Nat /\ leases \in Nat
      /\ worker \in [status : WorkerStatus, lease : Lease, nextWake : Nat \cup {Never},
                     failures : Nat, actions : Nat]
  BY NowType DEF TypeOK, LedgerTypeOK
<1>2. worker.lease.expiresAt \in Nat
  BY <1>1 DEF Lease
<1>3. QED
  BY <1>1, <1>2 DEF WorkerInv, LeasesDrawn, NoLease

LEMMA SameLeaseMoves ==
  ASSUME worker' = worker, leases' = leases
  PROVE  LeaseMoves
BY DEF LeaseMoves, LeaseStays

LEMMA StartMoves ==
  ASSUME TypeOK, WorkerInv, Register \/ ClaimUnresolved \/ GateRecovery \/ RevokeWorker
  PROVE  LeaseMoves
<1>1. /\ worker \in [status : WorkerStatus, lease : Lease, nextWake : Nat \cup {Never},
                     failures : Nat, actions : Nat]
      /\ NoLease.id = 0
  BY LedgerFields
<1>2. CASE Register
  <2>1. worker.lease = NoLease
    BY <1>2 DEF Register, WorkerInv, NoLeaseUnlessRun
  <2>2. QED
    BY <1>1, <1>2, <2>1 DEF Register, LeaseMoves, LeaseStays
<1>3. CASE ClaimUnresolved
  BY <1>1, <1>3 DEF ClaimUnresolved, LeaseMoves, LeaseStays
<1>4. CASE GateRecovery
  <2>1. leases' = leases /\ worker'.lease = worker.lease
        /\ (worker'.status = "active" => worker.status = "active")
    BY <1>1, <1>4 DEF GateRecovery
  <2>2. QED
    BY <2>1 DEF LeaseMoves, LeaseStays
<1>5. CASE RevokeWorker
  BY <1>1, <1>5 DEF RevokeWorker, LeaseMoves, LeaseReleased
<1>6. QED
  BY <1>2, <1>3, <1>4, <1>5

LEMMA ClaimMoves ==
  ASSUME TypeOK, WorkerInv, ClaimFresh \/ \E seen : ClaimClosed(seen) \/ Resume(seen)
  PROVE  LeaseMoves
<1>1. worker \in [status : WorkerStatus, lease : Lease, nextWake : Nat \cup {Never},
                  failures : Nat, actions : Nat]
  BY LedgerFields
<1>2. CASE ClaimFresh
  <2>1. worker'.lease = [NoLease EXCEPT !.id = leases + 1, !.expiresAt = now + LeaseTicks]
        /\ leases' = leases + 1
    BY <1>1, <1>2 DEF ClaimFresh
  <2>2. worker'.lease.id = leases + 1
    BY <2>1 DEF NoLease
  <2>3. QED
    BY <2>1, <2>2 DEF LeaseMoves, LeaseDrawn
<1>3. CASE \E seen : ClaimClosed(seen) \/ Resume(seen)
  <2>1. worker'.lease = NoLease /\ leases' = leases
    BY <1>1, <1>3 DEF ClaimClosed, Resume
  <2>2. QED
    BY <2>1 DEF LeaseMoves, LeaseReleased
<1>4. QED
  BY <1>2, <1>3

LEMMA CompleteMoves ==
  ASSUME TypeOK, WorkerInv, NEW l, NEW next,
         \/ CompleteSuccess(l) \/ CompleteDone(l, next)
         \/ CompleteGate(l) \/ CompleteTransient(l)
  PROVE  LeaseMoves
<1>1. worker \in [status : WorkerStatus, lease : Lease, nextWake : Nat \cup {Never},
                  failures : Nat, actions : Nat]
  BY LedgerFields
<1>2. CASE CompleteSuccess(l)
  BY <1>2 DEF CompleteSuccess, LeaseMoves, LeaseReleased
<1>3. CASE CompleteDone(l, next)
  BY <1>1, <1>3 DEF CompleteDone, LeaseMoves, LeaseReleased
<1>4. CASE CompleteGate(l)
  BY <1>1, <1>4 DEF CompleteGate, LeaseMoves, LeaseStays
<1>5. CASE CompleteTransient(l)
  <2>1. /\ leases' = leases
        /\ worker'.lease = NoLease
           \/ (worker'.lease = worker.lease /\ worker'.status # "active")
    BY <1>1, <1>5 DEF CompleteTransient
  <2>2. QED
    BY <2>1 DEF LeaseMoves, LeaseStays, LeaseReleased
<1>6. QED
  BY <1>2, <1>3, <1>4, <1>5

LEMMA CommandMoves ==
  ASSUME TypeOK, WorkerInv, NEW l, NEW cmd, NEW state,
         Issue(l, cmd) \/ RecordResult(l, cmd, state)
  PROVE  LeaseMoves
<1>1. /\ worker \in [status : WorkerStatus, lease : Lease, nextWake : Nat \cup {Never},
                     failures : Nat, actions : Nat]
      /\ worker.lease \in Lease
  BY LedgerFields
<1>2. CASE Issue(l, cmd)
  <2>1. /\ worker'.lease.id = worker.lease.id
        /\ worker'.lease.expiresAt = worker.lease.expiresAt
        /\ worker'.status = worker.status /\ worker.lease.plan = NoCommand /\ leases' = leases
    BY <1>1, <1>2 DEF Issue, Lease
  <2>2. QED
    BY <2>1 DEF LeaseMoves, LeaseStays
<1>3. CASE RecordResult(l, cmd, state)
  <2>1. /\ worker'.lease.id = worker.lease.id
        /\ worker'.lease.expiresAt = worker.lease.expiresAt
        /\ worker'.status = worker.status /\ worker'.lease.plan = worker.lease.plan
        /\ leases' = leases
    BY <1>1, <1>3 DEF RecordResult, Lease
  <2>2. QED
    BY <2>1 DEF LeaseMoves, LeaseStays
<1>4. QED
  BY <1>2, <1>3

\* However the lease moves, what was exposed, dated or read before still stands.
LEMMA ExposedStands ==
  ASSUME TypeOK, WorkerInv, ExposedIssued, LeaseMoves, exposed' = exposed
  PROVE  ExposedIssued'
<1>1. leases \in Nat /\ worker.lease.id \in 0 .. leases /\ NoLease.id = 0
  BY LedgerFields
<1>2. CASE LeaseStays
  BY <1>2 DEF LeaseStays, ExposedIssued
<1>3. CASE LeaseReleased
  BY <1>1, <1>3 DEF LeaseReleased, ExposedIssued
<1>4. CASE LeaseDrawn
  BY <1>1, <1>4 DEF LeaseDrawn, ExposedIssued
<1>5. QED
  BY <1>2, <1>3, <1>4 DEF LeaseMoves

LEMMA TurnStands ==
  ASSUME TypeOK, WorkerInv, NEW t \in Turns, WatchDated(t), LeaseMoves, turn'[t] = turn[t]
  PROVE  WatchDated(t)'
<1>1. leases \in Nat /\ worker.lease.id \in 0 .. leases /\ NoLease.id = 0
  BY LedgerFields
<1>2. CASE LeaseStays
  BY <1>2 DEF LeaseStays, WatchDated
<1>3. CASE LeaseReleased
  BY <1>1, <1>3 DEF LeaseReleased, WatchDated
<1>4. CASE LeaseDrawn
  BY <1>1, <1>4 DEF LeaseDrawn, WatchDated
<1>5. QED
  BY <1>2, <1>3, <1>4 DEF LeaseMoves

LEMMA RecoveryStands ==
  ASSUME TypeOK, WorkerInv, RecoveryDated, LeaseMoves,
         recovery' = recovery \/ recovery'.pc # "schedule"
  PROVE  RecoveryDated'
<1>1. leases \in Nat /\ worker.lease.id \in 0 .. leases /\ NoLease.id = 0
  BY LedgerFields
<1>2. CASE recovery'.pc # "schedule"
  BY <1>2 DEF RecoveryDated
<1>3. CASE recovery' = recovery /\ LeaseStays
  BY <1>3 DEF LeaseStays, RecoveryDated
<1>4. CASE recovery' = recovery /\ LeaseReleased
  BY <1>1, <1>4 DEF LeaseReleased, RecoveryDated
<1>5. CASE recovery' = recovery /\ LeaseDrawn
  BY <1>1, <1>5 DEF LeaseDrawn, RecoveryDated
<1>6. QED
  BY <1>2, <1>3, <1>4, <1>5 DEF LeaseMoves

LEMMA WakeStands ==
  ASSUME TypeOK, WorkerInv, ExposedIssued, WakeDated, LeaseMoves,
         exposed' = exposed, wake' = wake \/ wake' = Never, mishap => mishap'
  PROVE  WakeDated'
<1>1. leases \in Nat /\ worker.lease.id \in 0 .. leases /\ NoLease.id = 0
  BY LedgerFields
<1>2. 0 \notin exposed /\ leases + 1 \notin exposed
  BY <1>1 DEF ExposedIssued
<1>3. CASE LeaseStays
  BY <1>2, <1>3 DEF LeaseStays, WakeDated
<1>4. CASE LeaseReleased
  BY <1>1, <1>2, <1>4 DEF LeaseReleased, WakeDated
<1>5. CASE LeaseDrawn
  BY <1>2, <1>5 DEF LeaseDrawn, WakeDated
<1>6. QED
  BY <1>3, <1>4, <1>5 DEF LeaseMoves

LEMMA OtherTurnsStand ==
  ASSUME TypeOK, WorkerInv, TurnsDated, LeaseMoves, NEW t \in Turns, NEW rec, Become(t, rec),
         rec.pc # "watch", rec.pc = "issue" => rec.plan # NoCommand,
         rec.pc \in {"schedule", "announce"} => rec.lease = 0
  PROVE  TurnsDated'
<1>1. turn'[t] = rec /\ \A u \in Turns : u # t => turn'[u] = turn[u]
  BY DEF Become, TypeOK
<1>2. WatchDated(t)'
  BY <1>1 DEF WatchDated
<1>3. \A u \in Turns : u # t => WatchDated(u)'
  BY <1>1, TurnStands DEF TurnsDated
<1>4. QED
  BY <1>1, <1>2, <1>3 DEF TurnsDated

LEMMA SameTurnsStand ==
  ASSUME TypeOK, WorkerInv, TurnsDated, LeaseMoves, turn' = turn
  PROVE  TurnsDated'
<1>1. \A u \in Turns : WatchDated(u)'
  BY TurnStands DEF TurnsDated
<1>2. QED
  BY <1>1 DEF TurnsDated

\* A step of a turn, or of anything else, that registers and exposes nothing.
LEMMA TurnKeepsWatch ==
  ASSUME TypeOK, WorkerInv, WatchdogInv, LeaseMoves, NEW t \in Turns, NEW rec, Become(t, rec),
         rec.pc # "watch", rec.pc = "issue" => rec.plan # NoCommand,
         rec.pc \in {"schedule", "announce"} => rec.lease = 0,
         recovery' = recovery, exposed' = exposed, wake' = wake \/ wake' = Never,
         mishap => mishap'
  PROVE  WatchdogInv'
BY ExposedStands, OtherTurnsStand, RecoveryStands, WakeStands DEF WatchdogInv

LEMMA AnswerKeepsWatch ==
  ASSUME TypeOK, WorkerInv, WatchdogInv, LeaseMoves, NEW t \in Turns, NEW rec, Answer(t, rec),
         rec.pc # "watch", rec.pc = "issue" => rec.plan # NoCommand,
         rec.pc \in {"schedule", "announce"} => rec.lease = 0,
         recovery' = recovery, exposed' = exposed, wake' = wake
  PROVE  WatchdogInv'
<1>1. /\ Idle.pc = "idle" /\ [Idle EXCEPT !.pc = "gate"].pc = "gate"
  BY DEF Idle
<1>2. mishap => mishap'
  BY AnswerTurn DEF Mishap
<1>3. QED
  BY <1>1, <1>2, AnswerTurn, TurnKeepsWatch

LEMMA RestKeepsWatch ==
  ASSUME TypeOK, WorkerInv, WatchdogInv, LeaseMoves, turn' = turn,
         recovery' = recovery \/ recovery'.pc # "schedule",
         exposed' = exposed, wake' = wake \/ wake' = Never, mishap => mishap'
  PROVE  WatchdogInv'
BY ExposedStands, SameTurnsStand, RecoveryStands, WakeStands DEF WatchdogInv
LEMMA TurnStartsWatched ==
  ASSUME TypeOK, WorkerInv, WatchdogInv, NEW t \in Turns, TurnStarts(t)
  PROVE  WatchdogInv'
<1>1. UNCHANGED <<worker, leases>> => LeaseMoves
  BY SameLeaseMoves
<1>2. CASE Enable(t)
  <2>1. LeaseMoves
    BY <1>2, StartMoves DEF Enable
  <2>2. /\ [Idle EXCEPT !.pc = "announce", !.at = now + 1].pc = "announce"
        /\ [Idle EXCEPT !.pc = "announce", !.at = now + 1].lease = 0
    BY DEF Idle
  <2>3. QED
    BY <1>2, <2>1, <2>2, AnswerKeepsWatch DEF Enable, LedgerOnly, hostVars
<1>3. ASSUME NEW pc \in {"claim", "resume"}, Enter(t, pc)
      PROVE  \E rec : Become(t, rec) /\ rec.pc \notin {"watch", "issue", "schedule", "announce"}
  <2> DEFINE rec == [Idle EXCEPT !.pc = pc, !.seen = grant.status, !.policyOk = PolicyOk]
  <2>1. Become(t, rec) /\ rec.pc = pc
    BY <1>3 DEF Enter, Idle
  <2>2. QED
    BY <2>1
<1>4. CASE WakeFires(t)
  <2>1. /\ recovery' = recovery /\ exposed' = exposed /\ wake' = Never
        /\ mishap => mishap'
    BY <1>4 DEF WakeFires
  <2>2. LeaseMoves
    BY <1>1, <1>4 DEF WakeFires
  <2>3. CASE Enter(t, "claim")
    BY <1>3, <2>1, <2>2, <2>3, TurnKeepsWatch
  <2>4. CASE turn' = turn
    BY <2>1, <2>2, <2>4, RestKeepsWatch
  <2>5. QED
    BY <1>4, <2>3, <2>4 DEF WakeFires
<1>5. CASE TickCalled(t)
  BY <1>1, <1>3, <1>5, TurnKeepsWatch DEF TickCalled, TurnOnly, hostVars
<1>6. CASE ResumeCalled(t)
  BY <1>1, <1>3, <1>6, TurnKeepsWatch DEF ResumeCalled, hostVars
<1>7. ASSUME NEW outcome \in Outcome \ {"none"}, CompleteCalled(t, outcome)
      PROVE  WatchdogInv'
  <2>1. PICK settled : Become(t, [Idle EXCEPT !.pc = "complete", !.lease = worker.lease.id,
                                              !.outcome = settled])
    BY <1>7 DEF CompleteCalled
  <2>2. [Idle EXCEPT !.pc = "complete", !.lease = worker.lease.id,
                     !.outcome = settled].pc = "complete"
    BY DEF Idle
  <2>3. PICK rec : Become(t, rec) /\ rec.pc = "complete"
    BY <2>1, <2>2
  <2>4. QED
    BY <1>1, <1>7, <2>3, TurnKeepsWatch DEF CompleteCalled, TurnOnly, hostVars
<1>8. QED
  BY <1>2, <1>4, <1>5, <1>6, <1>7 DEF TurnStarts

\* The command is attached to the lease the turn holds, and the turn is to
\* schedule the watchdog after the end of that lease.
LEMMA IssueWatched ==
  ASSUME TypeOK, WorkerInv, WatchdogInv, NEW t \in Turns, IssueCommand(t)
  PROVE  WatchdogInv'
<1> DEFINE rec == [Idle EXCEPT !.pc = "watch", !.lease = turn[t].lease,
                               !.at = worker.lease.expiresAt + 1]
<1>1. /\ leases \in Nat /\ worker.lease.id \in 0 .. leases /\ worker.lease.expiresAt \in Nat
      /\ worker \in [status : WorkerStatus, lease : Lease, nextWake : Nat \cup {Never},
                     failures : Nat, actions : Nat]
      /\ worker.lease \in Lease
  BY LedgerFields
<1>2. HoldsLease(turn[t].lease) /\ leases' = leases
      /\ worker' = [worker EXCEPT !.lease.plan = turn[t].plan]
  BY <1>1 DEF IssueCommand, Issue
<1>3. /\ worker'.lease.id = worker.lease.id
      /\ worker'.lease.expiresAt = worker.lease.expiresAt
      /\ worker'.lease.plan = turn[t].plan
  BY <1>1, <1>2 DEF Lease
<1>4. LeaseMoves
  BY CommandMoves DEF IssueCommand
<1>5. Answer(t, rec) /\ recovery' = recovery /\ exposed' = exposed /\ wake' = wake
  BY DEF IssueCommand, LedgerOnly, hostVars
<1>6. /\ Idle.pc = "idle" /\ [Idle EXCEPT !.pc = "gate"].pc = "gate"
      /\ rec.pc = "watch" /\ rec.lease = turn[t].lease /\ rec.at = worker.lease.expiresAt + 1
  BY DEF Idle
<1>7. mishap => mishap'
  BY <1>5, AnswerTurn DEF Mishap
<1>8. CASE Become(t, rec)
  <2>1. turn'[t] = rec /\ \A u \in Turns : u # t => turn'[u] = turn[u]
    BY <1>8 DEF Become, TypeOK
  <2>2. WatchDated(t)'
    <3>1. worker'.lease.plan # NoCommand
      BY <1>3 DEF IssueCommand, WatchdogInv, TurnsDated
    <3>2. turn[t].lease \in 1 .. leases' /\ turn'[t].at > worker'.lease.expiresAt
      BY <1>1, <1>2, <1>3, <1>6, <2>1 DEF HoldsLease
    <3>3. QED
      BY <1>6, <2>1, <3>1, <3>2 DEF WatchDated
  <2>3. \A u \in Turns : u # t => WatchDated(u)'
    BY <1>4, <2>1, TurnStands DEF TurnsDated, WatchdogInv
  <2>4. TurnsDated'
    BY <1>6, <2>1, <2>2, <2>3 DEF TurnsDated, WatchdogInv
  <2>5. QED
    BY <1>4, <1>5, <1>7, <2>4, ExposedStands, RecoveryStands, WakeStands DEF WatchdogInv
<1>9. CASE ~Become(t, rec)
  BY <1>4, <1>5, <1>6, <1>7, <1>9, AnswerTurn, TurnKeepsWatch
<1>10. QED
  BY <1>8, <1>9

LEMMA TickStepWatched ==
  ASSUME TypeOK, WorkerInv, WatchdogInv, NEW t \in Turns, TickStep(t)
  PROVE  WatchdogInv'
<1>1. UNCHANGED <<worker, leases>> => LeaseMoves
  BY SameLeaseMoves
<1>2. /\ Idle.pc = "idle" /\ [Idle EXCEPT !.pc = "gate"].pc = "gate"
      /\ [Idle EXCEPT !.pc = "plan", !.lease = leases + 1].pc = "plan"
      /\ \A at : Scheduling(at).pc = "schedule" /\ Scheduling(at).lease = 0
  BY DEF Idle, Scheduling
<1>3. (mishap' = mishap \/ Mishap) => (mishap => mishap')
  BY DEF Mishap
<1>4. CASE ClaimRefused(t)
  BY <1>1, <1>2, <1>3, <1>4, TurnKeepsWatch DEF ClaimRefused, Return, LedgerOnly, hostVars
<1>5. CASE ClaimReportsClosed(t)
  <2>1. LeaseMoves
    BY <1>5, ClaimMoves DEF ClaimReportsClosed
  <2>2. QED
    BY <1>2, <1>5, <2>1, TurnKeepsWatch DEF ClaimReportsClosed, Return, LedgerOnly, hostVars
<1>6. CASE ClaimReportsNotDue(t)
  BY <1>1, <1>2, <1>6, TurnKeepsWatch DEF ClaimReportsNotDue, ScheduleNext, TurnOnly, hostVars
<1>7. CASE ClaimReportsUnresolved(t)
  <2>1. LeaseMoves
    BY <1>7, StartMoves DEF ClaimReportsUnresolved
  <2>2. QED
    BY <1>2, <1>7, <2>1, TurnKeepsWatch DEF ClaimReportsUnresolved, Return, LedgerOnly, hostVars
<1>8. CASE ClaimGranted(t)
  <2>1. LeaseMoves
    BY <1>8, ClaimMoves DEF ClaimGranted
  <2>2. QED
    BY <1>2, <1>8, <2>1, AnswerKeepsWatch DEF ClaimGranted, LedgerOnly, hostVars
<1>9. ASSUME NEW cmd \in Commands, PlanAction(t, cmd)
      PROVE  WatchdogInv'
  <2>1. /\ [turn[t] EXCEPT !.pc = "issue", !.plan = cmd].pc = "issue"
        /\ [turn[t] EXCEPT !.pc = "issue", !.plan = cmd].plan = cmd
    BY DEF TypeOK, TurnRecord
  <2>2. QED
    BY <1>1, <1>9, <2>1, LedgerAssumption, TurnKeepsWatch DEF PlanAction, TurnOnly, hostVars
<1>10. CASE PlanGates(t) \/ PlanTerminal(t)
  <2>1. LeaseMoves
    BY <1>10, CompleteMoves DEF PlanGates, PlanTerminal
  <2>2. QED
    BY <1>2, <1>10, <2>1, AnswerKeepsWatch DEF PlanGates, PlanTerminal, LedgerOnly, hostVars
<1>11. ASSUME NEW next \in {Never, now + RecheckTicks}, PlanWaits(t, next)
       PROVE  WatchdogInv'
  <2>1. LeaseMoves
    BY <1>11, CompleteMoves DEF PlanWaits
  <2>2. PICK rec : /\ Answer(t, rec) /\ rec.pc \notin {"watch", "issue"}
                   /\ rec.pc \in {"schedule", "announce"} => rec.lease = 0
    BY <1>2, <1>11 DEF PlanWaits
  <2>3. QED
    BY <1>11, <2>1, <2>2, AnswerKeepsWatch DEF PlanWaits, LedgerOnly, hostVars
<1>12. CASE TickFails(t)
  BY <1>1, <1>2, <1>12, TurnKeepsWatch DEF TickFails, GateNext, TurnOnly, hostVars
<1>13. QED
  BY <1>4, <1>5, <1>6, <1>7, <1>8, <1>9, <1>10, <1>11, <1>12, IssueWatched DEF TickStep

\* A confirmed registration is dated after the end of the held lease, or is no
\* watchdog of it: then it is a mishap, unless no lease is held at all.
LEMMA ScheduleWatched ==
  ASSUME TypeOK, WorkerInv, WatchdogInv, NEW t \in Turns, ScheduleConfirmed(t)
  PROVE  WatchdogInv'
<1>1. /\ leases \in Nat /\ worker.lease.id \in 0 .. leases /\ worker.lease.expiresAt \in Nat
      /\ now \in Nat
  BY LedgerFields
<1>2. /\ worker' = worker /\ leases' = leases /\ recovery' = recovery
      /\ Become(t, Idle) /\ Idle.pc = "idle"
  BY DEF ScheduleConfirmed, Return, Idle
<1>3. LeaseMoves
  BY <1>2, SameLeaseMoves
<1>4. turn[t].pc = "watch" =>
        /\ turn[t].lease \in 1 .. leases
        /\ turn[t].lease = worker.lease.id =>
             worker.lease.plan # NoCommand /\ turn[t].at > worker.lease.expiresAt
  BY DEF WatchdogInv, TurnsDated, WatchDated
<1>5. TurnsDated' /\ RecoveryDated'
  BY <1>2, <1>3, OtherTurnsStand, RecoveryStands DEF WatchdogInv
<1>6. ExposedIssued'
  BY <1>1, <1>2, <1>4 DEF ScheduleConfirmed, ExposedIssued, WatchdogInv
<1>7. WakeDated'
  <2> SUFFICES ASSUME worker.lease.id \in exposed', turn[t].lease = worker.lease.id
               PROVE  wake' > worker.lease.expiresAt
    BY <1>2 DEF WakeDated, ScheduleConfirmed
  <2>1. worker.lease.id # 0
    BY <1>1, <1>2, <1>6 DEF ExposedIssued
  <2>2. turn[t].pc = "watch"
    BY <2>1 DEF ScheduleConfirmed, WatchdogInv, TurnsDated
  <2>3. turn[t].at > worker.lease.expiresAt /\ turn[t].at \in Nat \cup {Never}
    BY <1>4, <2>2 DEF TypeOK, TurnRecord
  <2>4. QED
    BY <1>1, <2>3 DEF ScheduleConfirmed, Reregister, Never
<1>8. QED
  BY <1>5, <1>6, <1>7 DEF WatchdogInv

LEMMA RestOfTurnWatched ==
  ASSUME TypeOK, WorkerInv, WatchdogInv, NEW t \in Turns,
         \/ ScheduleUnconfirmed(t) \/ GateWorker(t) \/ LedgerFails(t)
         \/ CompleteWrites(t) \/ CompleteRefused(t)
         \/ ResumeWrites(t) \/ ResumeRefused(t)
  PROVE  WatchdogInv'
<1>1. UNCHANGED <<worker, leases>> => LeaseMoves
  BY SameLeaseMoves
<1>2. /\ Idle.pc = "idle" /\ [Idle EXCEPT !.pc = "gate"].pc = "gate"
      /\ \A at : Scheduling(at).pc = "schedule" /\ Scheduling(at).lease = 0
  BY DEF Idle, Scheduling
<1>3. CASE ScheduleUnconfirmed(t)
  <2>1. PICK rec : Become(t, rec) /\ rec.pc \in {"idle", "gate"}
    BY <1>2, <1>3 DEF ScheduleUnconfirmed, Return, GateNext
  <2>2. QED
    BY <1>1, <1>3, <2>1, TurnKeepsWatch DEF ScheduleUnconfirmed
<1>4. CASE GateWorker(t)
  <2>1. LeaseMoves
    BY <1>4, StartMoves DEF GateWorker
  <2>2. QED
    BY <1>2, <1>4, <2>1, TurnKeepsWatch DEF GateWorker, Return, LedgerOnly, hostVars
<1>5. CASE LedgerFails(t)
  <2>1. mishap => mishap'
    BY <1>5 DEF LedgerFails, Mishap
  <2>2. QED
    BY <1>1, <1>2, <1>5, <2>1, TurnKeepsWatch DEF LedgerFails, Return, LedgerOnly, hostVars
<1>6. CASE CompleteWrites(t)
  <2>1. LeaseMoves
    BY <1>6, CompleteMoves DEF CompleteWrites
  <2>2. PICK rec : /\ Answer(t, rec) /\ rec.pc \notin {"watch", "issue"}
                   /\ rec.pc \in {"schedule", "announce"} => rec.lease = 0
    BY <1>2, <1>6 DEF CompleteWrites
  <2>3. QED
    BY <1>6, <2>1, <2>2, AnswerKeepsWatch DEF CompleteWrites, hostVars
<1>7. CASE CompleteRefused(t)
  BY <1>1, <1>2, <1>7, TurnKeepsWatch DEF CompleteRefused, Return, TurnOnly, hostVars
<1>8. CASE ResumeWrites(t)
  <2>1. LeaseMoves
    BY <1>8, ClaimMoves DEF ResumeWrites
  <2>2. QED
    BY <1>2, <1>8, <2>1, AnswerKeepsWatch DEF ResumeWrites, LedgerOnly, hostVars
<1>9. CASE ResumeRefused(t)
  BY <1>1, <1>2, <1>9, TurnKeepsWatch DEF ResumeRefused, Return, TurnOnly, hostVars
<1>10. QED
  BY <1>3, <1>4, <1>5, <1>6, <1>7, <1>8, <1>9

LEMMA RecoveryWatched ==
  ASSUME TypeOK, WorkerInv, WatchdogInv, RecoveryStep
  PROVE  WatchdogInv'
<1>1. /\ leases \in Nat /\ worker.lease.id \in 0 .. leases /\ worker.lease.expiresAt \in Nat
      /\ now \in Nat /\ NoLease.id = 0 /\ recovery \in RecoveryRecord
  BY LedgerFields DEF TypeOK
<1>2. turn' = turn /\ exposed' = exposed
  BY DEF RecoveryStep, RecoveryReads, RecoveryConfirmed, RecoveryStale, RecoveryUnconfirmed,
         RecoveryRechecks, RecoveryGates, RecoveryFails, RecoveryOnly
<1>3. UNCHANGED <<worker, leases>> => LeaseMoves
  BY SameLeaseMoves
<1>4. Resting.pc = "idle" /\ [Resting EXCEPT !.pc = "gate"].pc = "gate"
  BY DEF Resting
<1>5. CASE RecoveryReads
  <2>1. UNCHANGED <<worker, leases, wake, mishap>>
    BY <1>5 DEF RecoveryReads
  <2>2. CASE recovery' = Resting
    BY <1>2, <1>3, <1>4, <2>1, <2>2, RestKeepsWatch
  <2>3. CASE recovery' # Resting
    <3>1. /\ recovery'.token.id = worker.lease.id
          /\ recovery'.token.plan = worker.lease.plan
          /\ recovery'.at = IF worker.lease = NoLease THEN worker.nextWake + 1
                            ELSE worker.lease.expiresAt
                                 + (IF worker.lease.plan = NoCommand THEN 0 ELSE 1)
      BY <1>5, <2>3 DEF RecoveryReads, ScheduleToken
    <3>2. RecoveryDated'
      BY <1>1, <2>1, <3>1 DEF RecoveryDated
    <3>3. QED
      BY <1>2, <1>3, <2>1, <3>2, ExposedStands, SameTurnsStand, WakeStands DEF WatchdogInv
  <2>4. QED
    BY <2>2, <2>3
<1>6. CASE RecoveryConfirmed
  <2>1. UNCHANGED <<worker, leases>> /\ recovery' = Resting
    BY <1>6 DEF RecoveryConfirmed
  <2>2. WakeDated'
    <3> SUFFICES ASSUME worker.lease.id \in exposed
                 PROVE  wake' > worker.lease.expiresAt
      BY <1>2, <2>1 DEF WakeDated
    <3>1. worker.lease.id # 0 /\ worker.lease.plan # NoCommand
      BY DEF WatchdogInv, ExposedIssued
    <3>2. recovery.token.id = worker.lease.id /\ recovery.token.plan = worker.lease.plan
      BY <1>6 DEF RecoveryConfirmed, ScheduleToken
    <3>3. recovery.at > worker.lease.expiresAt /\ recovery.at \in Nat \cup {Never}
      BY <1>1, <1>6, <3>1, <3>2
      DEF WatchdogInv, RecoveryDated, RecoveryConfirmed, RecoveryRecord
    <3>4. QED
      BY <1>1, <1>6, <3>3 DEF RecoveryConfirmed, Reregister, Never
  <2>3. QED
    BY <1>2, <1>3, <1>4, <2>1, <2>2, ExposedStands, SameTurnsStand, RecoveryStands
    DEF WatchdogInv
<1>7. CASE RecoveryStale
  BY <1>2, <1>3, <1>4, <1>7, RestKeepsWatch DEF RecoveryStale
<1>8. CASE RecoveryUnconfirmed
  <2>1. recovery'.pc = "recheck" /\ (wake' = wake \/ wake' = Never)
    BY <1>1, <1>8 DEF RecoveryUnconfirmed, RecoveryRecord
  <2>2. QED
    BY <1>2, <1>3, <1>8, <2>1, RestKeepsWatch DEF RecoveryUnconfirmed
<1>9. CASE RecoveryRechecks
  BY <1>2, <1>3, <1>4, <1>9, RestKeepsWatch DEF RecoveryRechecks
<1>10. CASE RecoveryGates
  <2>1. LeaseMoves
    BY <1>10, StartMoves DEF RecoveryGates
  <2>2. QED
    BY <1>2, <1>4, <1>10, <2>1, RestKeepsWatch DEF RecoveryGates
<1>11. CASE RecoveryFails
  BY <1>2, <1>3, <1>4, <1>11, RestKeepsWatch DEF RecoveryFails, Mishap
<1>12. QED
  BY <1>5, <1>6, <1>7, <1>8, <1>9, <1>10, <1>11 DEF RecoveryStep

LEMMA ProcessWatched ==
  ASSUME TypeOK, WorkerInv, WatchdogInv, Crash \/ Restart \/ Revoke
  PROVE  WatchdogInv'
<1>1. UNCHANGED <<worker, leases>> => LeaseMoves
  BY SameLeaseMoves
<1>2. Idle.pc = "idle" /\ Resting.pc = "idle" /\ [Resting EXCEPT !.pc = "read"].pc = "read"
  BY DEF Idle, Resting
<1>3. CASE Crash
  <2>1. LeaseMoves /\ exposed' = exposed /\ mishap' = mishap /\ recovery' = Resting
        /\ (wake' = wake \/ wake' = Never)
    BY <1>1, <1>3 DEF Crash
  <2>2. TurnsDated'
    BY <1>2, <1>3 DEF Crash, TurnsDated, WatchDated
  <2>3. QED
    BY <1>2, <2>1, <2>2, ExposedStands, RecoveryStands, WakeStands DEF WatchdogInv
<1>4. CASE Restart
  BY <1>1, <1>2, <1>4, RestKeepsWatch DEF Restart
<1>5. CASE Revoke
  <2>1. LeaseMoves
    BY <1>5, StartMoves DEF Revoke
  <2>2. QED
    BY <1>5, <2>1, RestKeepsWatch DEF Revoke
<1>6. QED
  BY <1>3, <1>4, <1>5

LEMMA StepWatched ==
  ASSUME TypeOK, WorkerInv, WatchdogInv, [Next]_vars
  PROVE  WatchdogInv'
<1>1. UNCHANGED <<worker, leases>> => LeaseMoves
  BY SameLeaseMoves
<1>2. ASSUME NEW t \in Turns, TurnStarts(t) \/ TurnStep(t)
      PROVE  WatchdogInv'
  BY <1>2, TurnStartsWatched, TickStepWatched, ScheduleWatched, RestOfTurnWatched DEF TurnStep
<1>3. ASSUME NEW c \in Calls, CallStep(c)
      PROVE  WatchdogInv'
  <2>1. CASE ReceiptStored(c)
    <3>1. LeaseMoves
      BY <2>1, CommandMoves DEF ReceiptStored
    <3>2. QED
      BY <2>1, <3>1, RestKeepsWatch DEF ReceiptStored, hostVars
  <2>2. CASE CallOnly
    BY <1>1, <2>2, RestKeepsWatch DEF CallOnly, hostVars
  <2>3. QED
    BY <1>3, <2>1, <2>2
    DEF CallStep, CallBound, CallCharged, CallRejected, CallEnds, ResultMatched, ReceiptLost
<1>4. CASE RevokeCampaign \/ Drift \/ Tick \/ UNCHANGED vars
  BY <1>1, <1>4, RestKeepsWatch DEF RevokeCampaign, Drift, Tick, vars, hostVars
<1>5. QED
  BY <1>2, <1>3, <1>4, RecoveryWatched, ProcessWatched DEF Next

\* In every behaviour the wake of an active worker that has shown its command
\* lies beyond the end of the lease, unless a handoff, a decision under way or
\* a mishap since the last registration explains why it does not.
THEOREM WatchdogStays == Spec => []WatchdogRemains
<1>1. Init => WatchdogInv
  BY DEF Init, LedgerInit, NoLease, Idle, Resting, WatchdogInv, ExposedIssued, TurnsDated,
         WatchDated, RecoveryDated, WakeDated
<1>2. TypeOK /\ WorkerInv /\ WatchdogInv /\ [Next]_vars => WatchdogInv'
  BY StepWatched
<1>3. WatchdogInv /\ ActiveWorkerCovered => WatchdogRemains
  BY DEF WatchdogInv, WakeDated, ActiveWorkerCovered, WatchdogRemains
<1>4. QED
  BY <1>1, <1>2, <1>3, TypeCorrect, WorkerInvariant, ActiveWorkerIsCovered, PTL DEF Spec

=============================================================================
