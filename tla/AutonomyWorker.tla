--------------------------- MODULE AutonomyWorker ----------------------------
(* One durable autonomy worker inside the gateway: the worker tools, the host  *)
(* hooks that bind a provider call to the issued command, the one-shot host    *)
(* wake, the recovery at gateway start, the campaign grant and the clock.      *)
(* A tool call is a turn with a program counter: it suspends at every await    *)
(* between two accesses to shared state, and other turns run there.            *)
EXTENDS WorkerLedger, CampaignGrant, FiniteSets

CONSTANTS
  Turns,          \* concurrent worker-tool invocations of the bound session
  Calls,          \* concurrent provider-tool invocations (host call ids)
  Drifts,         \* which parts of the approved scope may change
  RecheckTicks,   \* the planner's distance to the next due case
  MaxLeases,      \* bound: leases drawn
  MaxApprovals,   \* bound: allow-once approvals the operator grants
  MaxCrashes,     \* bound: gateway crashes
  MaxRetries      \* bound: reported transient failures on record

ASSUME WorkerAssumption ==
  /\ Drifts \subseteq {"profile", "recipe"}
  /\ {RecheckTicks, MaxLeases, MaxApprovals, MaxCrashes, MaxRetries} \subseteq Nat
  /\ RecheckTicks > 0

VARIABLES
  drift,          \* which part of the approved scope no longer matches
  up,             \* whether the gateway process runs
  crashes,
  turn,           \* the worker-tool invocations in flight
  recovery,       \* recoverWorkerSchedules, started with the gateway
  call,           \* the provider-tool invocations in flight (workerEffectCalls)
  wake,           \* the host's one scheduled turn with the worker's tag
  handoff,        \* an explicit Cron handoff was returned instead of a wake
  exposed,        \* leases whose identifier and command a turn has been given
  mishap,         \* history: since the last registration a wake was wasted, or
                  \* that registration was not for the lease then held
  approvals,      \* history: resume approvals consumed
  observed,       \* history: leases whose bound call returned a completed result
  credited        \* history: leases counted in actionsCompleted

scopeVars == <<drift, grant>>
hostVars == <<up, crashes, wake, handoff>>
historyVars == <<approvals, observed, credited>>
vars == <<now, worker, leases, grant, drift, up, crashes, turn, recovery, call,
          wake, handoff, exposed, mishap, approvals, observed, credited>>

TurnPc == {"idle", "claim", "plan", "issue", "complete", "resume",
           "watch", "schedule", "announce", "gate"}
Outcome == {"none", "action_succeeded", "transient_failure", "human_gate"}
Idle == [pc |-> "idle", seen |-> "active", policyOk |-> TRUE, lease |-> 0,
         plan |-> NoCommand, outcome |-> "none", at |-> Never]
Resting == [pc |-> "idle", token |-> NoToken, at |-> Never]
NoCall == [state |-> "idle", lease |-> 0, plan |-> NoCommand, result |-> "none"]

TurnRecord == [pc : TurnPc, seen : GrantStatus, policyOk : BOOLEAN, lease : Nat,
               plan : Commands \cup {NoCommand}, outcome : Outcome, at : Nat \cup {Never}]
RecoveryRecord == [pc : {"idle", "read", "schedule", "recheck", "gate"}, token : Token,
                   at : Nat \cup {Never}]
CallRecord == [state : {"idle", "bound", "running", "ended", "matched"}, lease : Nat,
               plan : Commands \cup {NoCommand}, result : {"none", "completed", "human_gate"}]

Init ==
  /\ ClockInit
  /\ LedgerInit
  /\ GrantInit
  /\ drift = "none"
  /\ up = TRUE /\ crashes = 0
  /\ turn = [t \in Turns |-> Idle]
  /\ recovery = Resting
  /\ call = [c \in Calls |-> NoCall]
  /\ wake = Never /\ handoff = FALSE
  /\ exposed = {} /\ mishap = FALSE
  /\ approvals = 0 /\ observed = {} /\ credited = {}

-----------------------------------------------------------------------------
(* Shared pieces of the tools.                                               *)

\* ensureImmutableProfileSnapshot and assertScope refuse a changed profile.
ScopeOk == drift # "profile"
\* currentWorkerPolicyDigest equals the digest stored with the worker.
PolicyOk == drift # "recipe"

\* workerExecutionContext returns instead of throwing.
ContextOk ==
  /\ worker.status # "absent"
  /\ Readable
  /\ grant.status = "active" => ScopeOk

\* The agent can name the worker once enable has returned its identifier.
Known == worker.status # "absent" /\ \A t \in Turns : turn[t].pc # "announce"

\* A turn keeps only what its next step uses.
Become(t, rec) == turn' = [turn EXCEPT ![t] = rec]
Return(t) == Become(t, Idle)
GateNext(t) == Become(t, [Idle EXCEPT !.pc = "gate"])
Scheduling(at) == [Idle EXCEPT !.pc = "schedule", !.at = at]
ScheduleNext(t, at) == Become(t, Scheduling(at))

\* What a turn keeps of the context it has read.
Enter(t, pc) ==
  Become(t, [Idle EXCEPT !.pc = pc, !.seen = grant.status, !.policyOk = PolicyOk])

\* Every ledger call is a store.update: it can fail before its write and, as
\* the file is renamed before the directory is synced and the lock released,
\* after it.  A tool then throws; once it has claimed, tick gates the worker.
Mishap == mishap' = (mishap \/ wake = Never)
ErrorPath(t) ==
  IF turn[t].pc \in {"plan", "issue"}
  THEN GateNext(t) /\ UNCHANGED mishap
  ELSE Return(t) /\ Mishap
Answer(t, rec) == (Become(t, rec) /\ UNCHANGED mishap) \/ ErrorPath(t)

TurnOnly == UNCHANGED <<now, leases, worker, recovery, call, exposed, mishap,
                        scopeVars, hostVars, historyVars>>
LedgerOnly == UNCHANGED <<now, recovery, call, exposed, scopeVars, hostVars, historyVars>>

-----------------------------------------------------------------------------
(* rightout_worker_enable                                                    *)
Enable(t) ==
  /\ up /\ turn[t] = Idle
  /\ Readable /\ grant.status = "active" /\ ScopeOk
  /\ Register
  /\ Answer(t, [Idle EXCEPT !.pc = "announce", !.at = now + 1])
  /\ LedgerOnly

-----------------------------------------------------------------------------
(* rightout_worker_tick                                                      *)

\* The host runs the due one-shot turn and deletes the job.  A context that
\* cannot be read ends the turn there.
WakeFires(t) ==
  /\ up /\ turn[t] = Idle
  /\ wake # Never /\ wake <= now
  /\ wake' = Never
  /\ IF ContextOk THEN Enter(t, "claim") ELSE UNCHANGED turn
  /\ mishap' = (mishap \/ ~ContextOk)
  /\ UNCHANGED <<now, leases, worker, recovery, call, exposed, scopeVars,
                 up, crashes, handoff, historyVars>>

\* A tick called by the agent, on its own or after an explicit handoff.
TickCalled(t) ==
  /\ up /\ turn[t] = Idle
  /\ Known /\ ContextOk
  /\ Enter(t, "claim")
  /\ TurnOnly

\* claim throws; nothing is stored or scheduled.
ClaimRefused(t) ==
  /\ turn[t].pc = "claim"
  /\ \/ ~turn[t].policyOk
     \/ /\ turn[t].seen = "active"
        /\ worker.status # "active" \/ (Due /\ LeaseLive)
  /\ Return(t) /\ Mishap
  /\ UNCHANGED <<leases, worker>> /\ LedgerOnly

ClaimReportsClosed(t) ==
  /\ turn[t].pc = "claim" /\ turn[t].policyOk
  /\ ClaimClosed(turn[t].seen)
  /\ Return(t) /\ UNCHANGED mishap
  /\ LedgerOnly

ClaimReportsNotDue(t) ==
  /\ turn[t].pc = "claim" /\ turn[t].policyOk /\ turn[t].seen = "active"
  /\ NotDue
  /\ ScheduleNext(t, worker.nextWake)
  /\ TurnOnly

ClaimReportsUnresolved(t) ==
  /\ turn[t].pc = "claim" /\ turn[t].policyOk /\ turn[t].seen = "active"
  /\ ClaimUnresolved
  /\ Return(t) /\ UNCHANGED mishap
  /\ LedgerOnly

ClaimGranted(t) ==
  /\ turn[t].pc = "claim" /\ turn[t].policyOk /\ turn[t].seen = "active"
  /\ leases < MaxLeases
  /\ ClaimFresh
  /\ Answer(t, [Idle EXCEPT !.pc = "plan", !.lease = leases + 1])
  /\ LedgerOnly

\* campaignNextReport chose a non-interactive command.
PlanAction(t, cmd) ==
  /\ turn[t].pc = "plan"
  /\ Readable /\ grant.status = "active" /\ ScopeOk
  /\ Become(t, [turn[t] EXCEPT !.pc = "issue", !.plan = cmd])
  /\ TurnOnly

\* An interactive command, a human gate or deferred human gates.
PlanGates(t) ==
  /\ turn[t].pc = "plan"
  /\ Readable /\ grant.status = "active" /\ ScopeOk
  /\ CompleteGate(turn[t].lease)
  /\ Answer(t, Idle)
  /\ LedgerOnly

\* Nothing due now: the next due case, or none.
PlanWaits(t, next) ==
  /\ turn[t].pc = "plan"
  /\ Readable /\ grant.status = "active" /\ ScopeOk
  /\ CompleteDone(turn[t].lease, next)
  /\ Answer(t, IF next = Never THEN Idle ELSE Scheduling(next))
  /\ LedgerOnly

\* The campaign is completed or revoked.
PlanTerminal(t) ==
  /\ turn[t].pc = "plan"
  /\ grant.status # "active"
  /\ CompleteDone(turn[t].lease, Never)
  /\ Answer(t, Idle)
  /\ LedgerOnly

\* Fault: the watchdog is to run before the lease has expired.
IssueCommandEarlyWatch(t) ==
  /\ turn[t].pc = "issue"
  /\ Readable
  /\ Issue(turn[t].lease, turn[t].plan)
  /\ Answer(t, [Idle EXCEPT !.pc = "watch", !.lease = turn[t].lease,
                             !.at = worker.lease.expiresAt - 1])
  /\ LedgerOnly

IssueCommand(t) ==
  /\ turn[t].pc = "issue"
  /\ Readable
  /\ Issue(turn[t].lease, turn[t].plan)
  /\ Answer(t, [Idle EXCEPT !.pc = "watch", !.lease = turn[t].lease,
                             !.at = worker.lease.expiresAt + 1])
  /\ LedgerOnly

\* Any local failure after the claim, an expired lease among them.
TickFails(t) ==
  /\ turn[t].pc \in {"plan", "issue"}
  /\ GateNext(t)
  /\ TurnOnly

-----------------------------------------------------------------------------
(* scheduleWorkerRoute: under the cross-process schedule lock the old job with *)
(* the worker's tag is removed and a new one registered.                       *)

Reregister(at) == wake' = IF at > now THEN at ELSE now + 1

ScheduleConfirmed(t) ==
  /\ turn[t].pc \in {"watch", "schedule", "announce"}
  /\ Reregister(turn[t].at)
  /\ handoff' = FALSE
  /\ exposed' = IF turn[t].pc = "watch" THEN exposed \cup {turn[t].lease} ELSE exposed
  /\ mishap' = (turn[t].lease # worker.lease.id)
  /\ Return(t)
  /\ UNCHANGED <<now, leases, worker, recovery, call, scopeVars, up, crashes, historyVars>>

\* Fault: an unconfirmed schedule is only reported.
ScheduleUnconfirmedReported(t) ==
  /\ turn[t].pc \in {"watch", "schedule", "announce"}
  /\ wake' \in {wake, Never}
  /\ Return(t)
  /\ handoff' = (handoff \/ turn[t].pc = "announce")
  /\ UNCHANGED <<now, leases, worker, recovery, call, exposed, mishap, scopeVars, up, crashes, historyVars>>

\* The lock, the removal or the registration failed: the old job may be gone.
\* Every caller but enable then gates the worker.
ScheduleUnconfirmed(t) ==
  /\ turn[t].pc \in {"watch", "schedule", "announce"}
  /\ wake' \in {wake, Never}
  /\ IF turn[t].pc = "announce"
     THEN Return(t) /\ handoff' = TRUE
     ELSE GateNext(t) /\ UNCHANGED handoff
  /\ UNCHANGED <<now, leases, worker, recovery, call, exposed, mishap, scopeVars, up, crashes, historyVars>>

GateWorker(t) ==
  /\ turn[t].pc = "gate"
  /\ GateRecovery
  /\ Return(t) /\ UNCHANGED mishap
  /\ LedgerOnly

\* The ledger call fails before its write, the gate's among them: the tool
\* throws, or logs it, and nothing is scheduled.
LedgerFails(t) ==
  /\ turn[t].pc \in {"claim", "complete", "resume", "gate"}
  /\ Return(t) /\ Mishap
  /\ UNCHANGED <<leases, worker>> /\ LedgerOnly

-----------------------------------------------------------------------------
(* rightout_worker_complete                                                  *)

\* The tool reads the context and the pending plan.  action_succeeded polls up
\* to a second for the receipt and throws without one; every other outcome
\* takes the receipt as it is now.
CompleteCalled(t, outcome) ==
  /\ up /\ turn[t] = Idle
  /\ ContextOk
  /\ worker.lease.id \in exposed /\ worker.lease.plan # NoCommand
  /\ outcome = "transient_failure" => worker.failures < MaxRetries
  /\ LET receipt == worker.lease.receipt
         exact == receipt = "completed"
         gated == receipt = "human_gate" \/ (outcome # "action_succeeded" /\ exact)
     IN  /\ outcome = "action_succeeded" => exact
         /\ Become(t, [Idle EXCEPT !.pc = "complete", !.lease = worker.lease.id,
                                    !.outcome = IF gated THEN "human_gate" ELSE outcome])
  /\ TurnOnly

CompleteWrites(t) ==
  /\ turn[t].pc = "complete"
  /\ \/ /\ turn[t].outcome = "action_succeeded"
        /\ CompleteSuccess(turn[t].lease)
        /\ credited' = credited \cup {turn[t].lease}
     \/ /\ turn[t].outcome = "transient_failure"
        /\ CompleteTransient(turn[t].lease)
        /\ UNCHANGED credited
     \/ /\ turn[t].outcome = "human_gate"
        /\ CompleteGate(turn[t].lease)
        /\ UNCHANGED credited
  /\ Answer(t, IF worker'.status = "active" THEN Scheduling(worker'.nextWake) ELSE Idle)
  /\ UNCHANGED <<now, recovery, call, exposed, scopeVars, hostVars, approvals, observed>>

\* The lease is no longer the stored, live one, or its plan is gone.
CompleteRefused(t) ==
  /\ turn[t].pc = "complete"
  /\ ~HoldsLease(turn[t].lease) \/ worker.lease.plan = NoCommand
  /\ Return(t)
  /\ TurnOnly

-----------------------------------------------------------------------------
(* rightout_worker_resume and rightout_worker_revoke                         *)

\* The native allow-once approval is consumed here.
ResumeCalled(t) ==
  /\ up /\ turn[t] = Idle
  /\ Known /\ ContextOk /\ grant.status = "active"
  /\ approvals < MaxApprovals
  /\ approvals' = approvals + 1
  /\ Enter(t, "resume")
  /\ UNCHANGED <<now, leases, worker, recovery, call, exposed, mishap, scopeVars, hostVars,
                 observed, credited>>

ResumeWrites(t) ==
  /\ turn[t].pc = "resume" /\ turn[t].policyOk
  /\ Resume(turn[t].seen)
  /\ Answer(t, Scheduling(now + 1))
  /\ LedgerOnly

ResumeRefused(t) ==
  /\ turn[t].pc = "resume"
  /\ ~turn[t].policyOk \/ worker.status # "human_gate"
  /\ Return(t)
  /\ TurnOnly

\* The queued turn may or may not be removed.
Revoke ==
  /\ up /\ Known
  /\ RevokeWorker
  /\ wake' \in {wake, Never}
  /\ UNCHANGED <<now, turn, recovery, call, exposed, mishap, scopeVars, up, crashes, handoff,
                 historyVars>>

-----------------------------------------------------------------------------
(* The provider call the agent makes for an issued command.                  *)

CallVars(c, rec) == call' = [call EXCEPT ![c] = rec]
CallOnly == UNCHANGED <<now, leases, worker, turn, recovery, exposed, mishap, drift,
                        hostVars, approvals, credited>>

\* before_tool_call: a call of the pending command is bound to its lease.
\* (A call that matches nothing is not the worker's; one that matches an
\* expired lease is blocked.)
CallBound(c, cmd) ==
  /\ up /\ call[c] = NoCall
  /\ Matches(cmd)
  /\ CallVars(c, [state |-> "bound", lease |-> worker.lease.id, plan |-> cmd, result |-> "none"])
  /\ UNCHANGED <<grant, observed>> /\ CallOnly

\* The tool charges the campaign before it contacts the provider.
CallCharged(c) ==
  /\ call[c].state = "bound"
  /\ ScopeOk
  /\ Consume(1)
  /\ CallVars(c, [call[c] EXCEPT !.state = "running"])
  /\ UNCHANGED observed /\ CallOnly

\* A refused charge or any other error: classified as a human gate.
CallRejected(c) ==
  /\ call[c].state = "bound"
  /\ CallVars(c, [call[c] EXCEPT !.state = "ended", !.result = "human_gate"])
  /\ UNCHANGED <<grant, observed>> /\ CallOnly

\* classifyWorkerExecutionResult of what the provider call returned.
CallEnds(c, result) ==
  /\ call[c].state = "running"
  /\ CallVars(c, [call[c] EXCEPT !.state = "ended", !.result = result])
  /\ observed' = IF result = "completed" THEN observed \cup {call[c].lease} ELSE observed
  /\ UNCHANGED grant /\ CallOnly

\* after_tool_call: the result counts only if the call still matches the
\* pending plan of the very lease it was bound to.
ResultMatched(c) ==
  /\ call[c].state = "ended"
  /\ IF Matches(call[c].plan) /\ worker.lease.id = call[c].lease
     THEN CallVars(c, [call[c] EXCEPT !.state = "matched"])
     ELSE CallVars(c, NoCall)
  /\ UNCHANGED <<grant, observed>> /\ CallOnly

ReceiptStored(c) ==
  /\ call[c].state = "matched"
  /\ RecordResult(call[c].lease, call[c].plan, call[c].result)
  /\ CallVars(c, NoCall)
  /\ UNCHANGED <<now, turn, recovery, exposed, mishap, scopeVars, hostVars, historyVars>>

\* recordExecutionResult throws, for a lease that is gone or because its write
\* fails, and the hook only logs it.
ReceiptLost(c) ==
  /\ call[c].state = "matched"
  /\ CallVars(c, NoCall)
  /\ UNCHANGED <<grant, observed>> /\ CallOnly

-----------------------------------------------------------------------------
(* The gateway process.  Turns, hooks and workerEffectCalls die with it; the  *)
(* stores and the host's scheduled turn survive, unless it was just removed.  *)
Rescheduling ==
  \/ \E t \in Turns : turn[t].pc \in {"watch", "schedule", "announce"}
  \/ recovery.pc = "schedule"

Crash ==
  /\ up /\ crashes < MaxCrashes
  /\ up' = FALSE /\ crashes' = crashes + 1
  /\ turn' = [t \in Turns |-> Idle]
  /\ recovery' = Resting
  /\ call' = [c \in Calls |-> NoCall]
  /\ wake' \in IF Rescheduling THEN {wake, Never} ELSE {wake}
  /\ UNCHANGED <<now, leases, worker, scopeVars, handoff, exposed, mishap, historyVars>>

Restart ==
  /\ ~up
  /\ up' = TRUE
  /\ recovery' = [Resting EXCEPT !.pc = "read"]
  /\ UNCHANGED <<now, leases, worker, turn, call, exposed, mishap, scopeVars, crashes, wake,
                 handoff, historyVars>>

RecoveryOnly == UNCHANGED <<now, turn, call, exposed, scopeVars, up, crashes, handoff,
                            historyVars>>


\* recoverable(): a worker without a lease reads as unresolved too, which only
\* delays its wake by one tick.
RecoveryReads ==
  /\ recovery.pc = "read"
  /\ recovery' =
       IF worker.status # "active" THEN Resting
       ELSE [pc    |-> "schedule",
             token |-> ScheduleToken,
             at    |-> IF worker.lease = NoLease THEN worker.nextWake + 1
                       ELSE worker.lease.expiresAt
                            + (IF worker.lease.plan = NoCommand THEN 0 ELSE 1)]
  /\ UNCHANGED <<leases, worker, wake, mishap>> /\ RecoveryOnly

RecoveryConfirmed ==
  /\ recovery.pc = "schedule" /\ recovery.token = ScheduleToken
  /\ Reregister(recovery.at)
  /\ recovery' = Resting /\ mishap' = FALSE
  /\ UNCHANGED <<leases, worker>> /\ RecoveryOnly

RecoveryStale ==
  /\ recovery.pc \in {"schedule", "recheck"} /\ recovery.token # ScheduleToken
  /\ recovery' = Resting
  /\ UNCHANGED <<leases, worker, wake, mishap>> /\ RecoveryOnly

\* The lock fails before the token is compared, or the host refuses after it.
RecoveryUnconfirmed ==
  /\ recovery.pc = "schedule"
  /\ wake' \in IF recovery.token = ScheduleToken THEN {wake, Never} ELSE {wake}
  /\ recovery' = [recovery EXCEPT !.pc = "recheck", !.at = Never]
  /\ UNCHANGED <<leases, worker, mishap>> /\ RecoveryOnly

\* The second comparison of the token and the gate are separate awaits.  When
\* the comparison itself fails, the worker is gated without it.
RecoveryRechecks ==
  /\ recovery.pc = "recheck"
  /\ recovery' = [Resting EXCEPT !.pc = "gate"]
  /\ UNCHANGED <<leases, worker, wake, mishap>> /\ RecoveryOnly

\* A gate that fails is tried once more.
RecoveryGates ==
  /\ recovery.pc = "gate"
  /\ GateRecovery
  /\ recovery' = Resting
  /\ UNCHANGED <<wake, mishap>> /\ RecoveryOnly

\* The records cannot be read, or the gate fails again: only logged.
RecoveryFails ==
  /\ recovery.pc \in {"read", "gate"}
  /\ recovery' = Resting
  /\ Mishap
  /\ UNCHANGED <<leases, worker, wake>> /\ RecoveryOnly

-----------------------------------------------------------------------------
(* Environment                                                               *)
Tick ==
  /\ ClockTicks
  /\ UNCHANGED <<leases, worker, turn, recovery, call, exposed, mishap, scopeVars, hostVars,
                 historyVars>>

RevokeCampaign ==
  /\ up
  /\ RevokeGrant
  /\ UNCHANGED <<now, leases, worker, turn, recovery, call, exposed, mishap, drift, hostVars,
                 historyVars>>

\* The profile, or the signed recipe pack or catalog, changes or is restored.
Drift ==
  /\ drift' \in ({"none"} \cup Drifts) \ {drift}
  /\ UNCHANGED <<now, leases, worker, turn, recovery, call, exposed, mishap, grant, hostVars,
                 historyVars>>

-----------------------------------------------------------------------------
TickStep(t) ==
  \/ ClaimRefused(t) \/ ClaimReportsClosed(t) \/ ClaimReportsNotDue(t)
  \/ ClaimReportsUnresolved(t) \/ ClaimGranted(t)
  \/ \E cmd \in Commands : PlanAction(t, cmd)
  \/ PlanGates(t) \/ PlanTerminal(t)
  \/ \E next \in {Never, now + RecheckTicks} : PlanWaits(t, next)
  \/ IssueCommand(t) \/ TickFails(t)

TurnStep(t) ==
  \/ TickStep(t)
  \/ ScheduleConfirmed(t) \/ ScheduleUnconfirmed(t) \/ GateWorker(t) \/ LedgerFails(t)
  \/ CompleteWrites(t) \/ CompleteRefused(t)
  \/ ResumeWrites(t) \/ ResumeRefused(t)

TurnStarts(t) ==
  \/ Enable(t) \/ WakeFires(t) \/ TickCalled(t) \/ ResumeCalled(t)
  \/ \E outcome \in Outcome \ {"none"} : CompleteCalled(t, outcome)

CallStep(c) ==
  \/ \E cmd \in Commands : CallBound(c, cmd)
  \/ CallCharged(c) \/ CallRejected(c)
  \/ \E result \in {"completed", "human_gate"} : CallEnds(c, result)
  \/ ResultMatched(c) \/ ReceiptStored(c) \/ ReceiptLost(c)

RecoveryStep ==
  \/ RecoveryReads \/ RecoveryConfirmed \/ RecoveryStale
  \/ RecoveryUnconfirmed \/ RecoveryRechecks \/ RecoveryGates \/ RecoveryFails

Next ==
  \/ \E t \in Turns : TurnStarts(t) \/ TurnStep(t)
  \/ \E c \in Calls : CallStep(c)
  \/ RecoveryStep \/ Crash \/ Restart
  \/ Revoke \/ RevokeCampaign \/ Drift \/ Tick

Spec == Init /\ [][Next]_vars

\* Under fairness a tick of the clock stands for minutes: it waits until the
\* gateway runs, its recovery is over and the host has started what is due.
Quiet ==
  /\ up /\ recovery = Resting
  /\ wake = Never \/ wake > now

TimedNext ==
  \/ \E t \in Turns : TurnStarts(t) \/ TurnStep(t)
  \/ \E c \in Calls : CallStep(c)
  \/ RecoveryStep \/ Crash \/ Restart
  \/ Revoke \/ RevokeCampaign \/ Drift
  \/ (Tick /\ Quiet)

\* The host runs a due turn although agent calls may keep the session busy;
\* awaited work returns, a crashed gateway is restarted and time goes on.
FairSpec ==
  /\ Init /\ [][TimedNext]_vars
  /\ \A t \in Turns : WF_vars(TurnStep(t))
  /\ SF_vars(\E t \in Turns : WakeFires(t))
  /\ WF_vars(RecoveryStep \/ Restart)
  /\ SF_vars(Tick /\ Quiet)

-----------------------------------------------------------------------------
(* Properties                                                                *)

TypeOK ==
  /\ ClockTypeOK /\ LedgerTypeOK /\ GrantTypeOK
  /\ drift \in {"none", "profile", "recipe"}
  /\ up \in BOOLEAN /\ handoff \in BOOLEAN /\ mishap \in BOOLEAN
  /\ crashes \in Nat /\ approvals \in Nat
  /\ turn \in [Turns -> TurnRecord]
  /\ recovery \in RecoveryRecord
  /\ call \in [Calls -> CallRecord]
  /\ wake \in Nat \cup {Never}
  /\ exposed \subseteq Nat /\ observed \subseteq Nat /\ credited \subseteq Nat

\* A turn of an approved resume is about to write.
ResumeInFlight == \E t \in Turns : turn[t].pc = "resume"

\* A tool that will schedule a wake, gate the worker or close it, and a
\* recovery that will: its token must still be the worker's.
Deciding(t) ==
  turn[t].pc \in {"claim", "plan", "issue", "watch", "schedule", "announce", "gate"}
Recovering ==
  \/ recovery.pc \in {"read", "gate"}
  \/ recovery.pc \in {"schedule", "recheck"} /\ recovery.token = ScheduleToken
Attended == handoff \/ ~up \/ Recovering \/ \E t \in Turns : Deciding(t)

\* Every action the worker counts as completed is backed by a provider call
\* that was bound to that very lease and returned a completed result, and no
\* lease is counted twice: late hooks, repeated commands and concurrent
\* completions included (after_tool_call, recordExecutionResult, complete).
CreditNeedsEvidence ==
  /\ credited \subseteq observed
  /\ worker.actions = Cardinality(credited)

\* An issued command whose lease has run out without a completion is never
\* dropped by the machinery (a new claim, a retry, a late completion): only an
\* approved resume or the closing of the worker releases it.
UnresolvedNeedsHuman ==
  [][ (worker.lease.plan # NoCommand /\ worker.lease.expiresAt <= now
       /\ worker'.lease # worker.lease)
      => (ResumeInFlight \/ worker'.status \in Closed) ]_vars

\* A worker that was revoked, or closed with its campaign, never runs again:
\* no turn, completion, resume or recovery already in flight revives it.
ClosedStaysClosed ==
  [][ worker.status \in Closed
      => worker'.status \in Closed /\ worker'.lease = NoLease ]_vars

\* After the last tolerated failure in a row only an approval, or a success
\* the host observed, lets the worker run again.
FailureBudgetStops == worker.status = "active" => worker.failures < MaxFailures

\* No schedule that fails, no crash, no overlapping tool or recovery takes the
\* wake of an active worker: it has a scheduled turn, an explicit handoff, or a
\* tool or recovery that is still to decide.  Mishaps alone take it: a due turn
\* finds its context unreadable (an expired grant, a changed profile), a tick is
\* refused (a changed policy, a lease still live), a ledger call fails, the
\* gate's among them, or an overlapping tool registers the date of its own step
\* for the lease of another.
ActiveWorkerCovered ==
  worker.status = "active" => wake # Never \/ Attended \/ mishap

\* A turn that runs before the lease of an exposed command has expired finds it
\* live and is refused: only a later one watches over it.  It stays scheduled
\* but for the same mishaps.
WatchdogRemains ==
  (worker.status = "active" /\ worker.lease.id \in exposed)
  => wake > worker.lease.expiresAt \/ Attended \/ mishap

\* README: uncertain results and expired leases "stop for a human", and
\* rightout_worker_resume "requires a new approval".
GateNeedsApproval ==
  [][ (worker.status = "human_gate" /\ worker'.status = "active")
      => ResumeInFlight ]_vars

-----------------------------------------------------------------------------
(* The inductive invariant behind the properties above.                      *)

\* Lease numbers stay below the last one drawn.
LeasesDrawn ==
  /\ worker.lease.id \in 0 .. leases
  /\ \A t \in Turns : turn[t].lease \in 0 .. leases
  /\ \A c \in Calls : call[c].lease \in 0 .. leases
  /\ credited \subseteq 1 .. leases

\* A completed receipt, stored or on its way, stems from an observed effect.
ReceiptsGenuine ==
  /\ worker.lease.receipt = "completed" => worker.lease.id \in observed
  /\ \A c \in Calls :
       (call[c].state \in {"ended", "matched"} /\ call[c].result = "completed")
       => call[c].lease \in observed

\* The count is that of the credited leases and the held one is not yet in it.
CreditCounted ==
  /\ credited \subseteq observed
  /\ IsFiniteSet(credited) /\ worker.actions = Cardinality(credited)
  /\ worker.lease.id \notin credited

\* Without a run there is no lease, and an absent worker has no failures.
NoLeaseUnlessRun ==
  /\ worker.status \in Closed \cup {"absent"} => worker.lease = NoLease
  /\ worker.status = "absent" => worker.failures = 0

\* What the worker's ledger, turns and hooks maintain together.
WorkerInv ==
  /\ LeasesDrawn /\ ReceiptsGenuine /\ CreditCounted /\ NoLeaseUnlessRun
  /\ FailureBudgetStops

-----------------------------------------------------------------------------
(* Liveness                                                                  *)


=============================================================================
