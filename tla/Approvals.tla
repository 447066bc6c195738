------------------------------ MODULE Approvals -------------------------------
(* The approval protocol of index.ts.  The host calls the before_tool_call     *)
(* hook with a tool call; the hook returns a dialog whose resolution stores a  *)
(* binding under the call's identifier; the tool, whenever the host executes   *)
(* it, takes the binding out and compares it with what it reads now.  Nothing  *)
(* forces the host to keep that order, the operator to answer in time, or the  *)
(* configuration and the ledgers to stay what they were in the dialog.         *)
EXTENDS ApprovalTools, Clock, Sequences

CONSTANTS
  Calls,          \* tool call identifiers of the host
  Execs,          \* concurrent executions
  Inputs,         \* the inputs a call may carry (a profile, a broker, a handle)
  InPlay,         \* which sets of tools are called together
  ApprovalTicks,  \* approvalTtlMs
  MaxDialogs,     \* bound: calls presented for approval
  MaxDrift,       \* bound: versions of one fact
  NoApproval      \* an absent binding

ASSUME ApprovalAssumption ==
  /\ InPlay \subseteq SUBSET ApprovalToolNames
  /\ ApprovalTicks \in Nat \ {0} /\ {MaxDialogs, MaxDrift} \subseteq Nat

VARIABLES
  tools,      \* the tools of this behaviour
  fact,       \* the version of each fact a binding may name
  approval,   \* approvalBindings: per call, the binding an allow-once stored
  dialog,     \* the dialogs shown, in order
  exec,
  decision,   \* history: the allow-once decisions, in order
  floor,      \* history: per call, the decisions taken when it was last presented
  effect      \* history: the assisted effects begun, in order

approvalVars == <<now, tools, fact, approval, dialog, exec, decision, floor, effect>>

Current(t) == [f \in Ask[t].shows |-> fact[f]]
Nothing == [f \in {} |-> 0]
IdleExec == [pc |-> "idle"]
Empty == [c \in Calls |-> NoApproval]
Closed == [state |-> "closed"]

ApprovalsInit ==
  /\ ClockInit
  /\ tools \in InPlay
  /\ fact = [f \in Facts |-> 0]
  /\ approval = Empty
  /\ dialog = << >>
  /\ exec = [x \in Execs |-> IdleExec]
  /\ decision = << >> /\ effect = << >>
  /\ floor = [c \in Calls |-> 0]

-----------------------------------------------------------------------------
(* The hook and the operator *)

\* pruneApprovalState: bindings that have expired by now are dropped.
Pruned == [c \in Calls |-> IF approval[c] # NoApproval /\ approval[c].expiresAt <= now
                             THEN NoApproval ELSE approval[c]]

\* Fault: a call presented again keeps what it was allowed.
PresentKeepsBinding(c, t, i) ==
  /\ Len(dialog) < MaxDialogs
  /\ approval' = Pruned
  /\ dialog' = Append(dialog, [call |-> c, tool |-> t, input |-> i,
                               shown |-> Nothing, state |-> "reading"])
  /\ floor' = [floor EXCEPT ![c] = Len(decision)]
  /\ UNCHANGED <<now, tools, fact, exec, decision, effect>>

\* before_tool_call: whatever the call was allowed before is forgotten, then
\* the facts are read across awaits.
Present(c, t, i) ==
  /\ Len(dialog) < MaxDialogs
  /\ approval' = [Pruned EXCEPT ![c] = NoApproval]
  /\ dialog' = Append(dialog, [call |-> c, tool |-> t, input |-> i,
                               shown |-> Nothing, state |-> "reading"])
  /\ floor' = [floor EXCEPT ![c] = Len(decision)]
  /\ UNCHANGED <<now, tools, fact, exec, decision, effect>>

\* requireApproval: the dialog opens with the binding fixed.
OpenDialog(d) ==
  /\ dialog[d].state = "reading"
  /\ dialog' = [dialog EXCEPT ![d].state = "open", ![d].shown = Current(dialog[d].tool)]
  /\ UNCHANGED <<now, tools, fact, approval, exec, decision, floor, effect>>

\* A call that names a campaign is let through without a dialog; what it was
\* allowed before is forgotten all the same.
PresentCampaign(c, t) ==
  /\ Ask[t].campaign
  /\ approval' = [Pruned EXCEPT ![c] = NoApproval]
  /\ floor' = [floor EXCEPT ![c] = Len(decision)]
  /\ UNCHANGED <<now, tools, fact, dialog, exec, decision, effect>>

\* onResolution("allow-once"): also of a dialog that a later one has replaced.
Allow(d) ==
  LET asked == dialog[d] IN
  /\ asked.state = "open"
  /\ decision' = Append(decision, [call |-> asked.call, tool |-> asked.tool,
                                   input |-> asked.input, shown |-> asked.shown, at |-> now])
  /\ approval' = [approval EXCEPT ![asked.call] =
                    [tool |-> asked.tool, input |-> asked.input, shown |-> asked.shown,
                     expiresAt |-> now + ApprovalTicks, decision |-> Len(decision) + 1]]
  /\ dialog' = [dialog EXCEPT ![d] = Closed]
  /\ UNCHANGED <<now, tools, fact, exec, floor, effect>>

\* onResolution of a denial, a timeout or a cancelled dialog.
Deny(d) ==
  /\ dialog[d].state = "open"
  /\ approval' = [approval EXCEPT ![dialog[d].call] = NoApproval]
  /\ dialog' = [dialog EXCEPT ![d] = Closed]
  /\ UNCHANGED <<now, tools, fact, exec, decision, floor, effect>>

-----------------------------------------------------------------------------
(* The tool *)

Start(x, c, t, i, campaign) ==
  /\ exec[x].pc = "idle"
  /\ campaign => Ask[t].campaign
  /\ exec' = [exec EXCEPT ![x] =
                [pc |-> "gate", path |-> Run[t].path, call |-> c, tool |-> t, input |-> i,
                 campaign |-> campaign, seen |-> Nothing, prunedAt |-> Never]]
  /\ UNCHANGED <<now, tools, fact, approval, dialog, decision, floor, effect>>

\* What the current block of x leaves in its memory and in the binding table.
Does(x, what) == exec[x].pc = "gate" /\ what \in Head(exec[x].path)
Swept(x) == IF Does(x, "prune") THEN Pruned ELSE approval
Advanced(x) ==
  [exec[x] EXCEPT !.path = Tail(@),
                  !.seen = IF Does(x, "read") /\ ~ exec[x].campaign THEN Current(exec[x].tool) ELSE @,
                  !.prunedAt = IF Does(x, "prune") THEN now ELSE @]

\* A block that does not reach the binding.
Prepare(x) ==
  /\ exec[x].pc = "gate" /\ ~ Does(x, "redeem")
  /\ approval' = Swept(x)
  /\ exec' = [exec EXCEPT ![x] = Advanced(x)]
  /\ UNCHANGED <<now, tools, fact, dialog, decision, floor, effect>>

\* Fault: the tool and its input are compared, not the facts behind them.
MatchesInput(a, e) == a # NoApproval /\ a.tool = e.tool /\ a.input = e.input

\* approval.toolName and approval.binding against the call's own.
Matches(a, e) ==
  a # NoApproval /\ a.tool = e.tool /\ a.input = e.input /\ a.shown = e.seen

\* get and delete are one synchronous piece: a binding serves one execution.
Redeem(x) ==
  LET e == Advanced(x)
      a == Swept(x)[e.call] IN
  /\ Does(x, "redeem")
  /\ approval' = [Swept(x) EXCEPT ![e.call] = NoApproval]
  /\ \/ /\ ~ e.campaign /\ Matches(a, e)
        /\ exec' = [exec EXCEPT ![x] = [pc |-> "apply", tool |-> e.tool]]
        /\ effect' = Append(effect, [call |-> e.call, tool |-> e.tool, input |-> e.input,
                                     seen |-> e.seen, prunedAt |-> e.prunedAt,
                                     decision |-> a.decision])
     \/ /\ e.campaign                            \* the grant is charged instead
        /\ exec' = [exec EXCEPT ![x] = [pc |-> "apply", tool |-> e.tool]]
        /\ UNCHANGED effect
     \/ /\ ~ e.campaign /\ ~ Matches(a, e)     \* rightout_approval_binding_failed
        /\ exec' = [exec EXCEPT ![x] = IdleExec]
        /\ UNCHANGED effect
  /\ UNCHANGED <<now, tools, fact, dialog, decision, floor>>

\* A grant that cannot be charged, or any other failure before the effect.
Fail(x) ==
  /\ exec[x].pc = "apply"
  /\ exec' = [exec EXCEPT ![x] = IdleExec]
  /\ UNCHANGED <<now, tools, fact, approval, dialog, decision, floor, effect>>

\* The effect lands: it writes the ledgers other bindings name.
Apply(x) ==
  LET changed == Run[exec[x].tool].changes IN
  /\ exec[x].pc = "apply"
  /\ \A f \in changed : fact[f] < MaxDrift
  /\ fact' = [f \in Facts |-> IF f \in changed THEN fact[f] + 1 ELSE fact[f]]
  /\ exec' = [exec EXCEPT ![x] = IdleExec]
  /\ UNCHANGED <<now, tools, approval, dialog, decision, floor, effect>>

-----------------------------------------------------------------------------
(* The world *)

\* The configuration, a session or a ledger changes; only facts in play matter.
Drift(f) ==
  /\ fact[f] < MaxDrift
  /\ fact' = [fact EXCEPT ![f] = @ + 1]
  /\ UNCHANGED <<now, tools, approval, dialog, exec, decision, floor, effect>>

\* The table of bindings, the dialogs' callbacks and the executions are memory.
Restart ==
  /\ approval' = Empty
  /\ dialog' = [d \in DOMAIN dialog |-> Closed]
  /\ exec' = [x \in Execs |-> IdleExec]
  /\ UNCHANGED <<now, tools, fact, decision, floor, effect>>

TimePasses ==
  /\ ClockTicks
  /\ UNCHANGED <<tools, fact, approval, dialog, exec, decision, floor, effect>>

ApprovalsNext ==
  \/ \E c \in Calls, t \in tools, i \in Inputs : Present(c, t, i)
  \/ \E d \in DOMAIN dialog : OpenDialog(d) \/ Allow(d) \/ Deny(d)
  \/ \E c \in Calls, t \in tools : PresentCampaign(c, t)
  \/ \E x \in Execs, c \in Calls, t \in tools, i \in Inputs, b \in BOOLEAN : Start(x, c, t, i, b)
  \/ \E x \in Execs : Prepare(x) \/ Redeem(x) \/ Fail(x) \/ Apply(x)
  \/ \E f \in UNION {Ask[t].shows : t \in tools} : Drift(f)
  \/ Restart
  \/ TimePasses

ApprovalsSpec == ApprovalsInit /\ [][ApprovalsNext]_approvalVars

-----------------------------------------------------------------------------
(* Properties *)

\* Every effect begun without a campaign rests on an allow-once decision of the
\* operator for that very call, tool and input, taken on the facts the tool read,
\* unexpired when the tool swept the table, and no decision carries two effects:
\* whatever calls, dialogs, expiries, drifts and restarts came in between.
EffectsApproved ==
  /\ \A n \in DOMAIN effect :
       LET e == effect[n]
           d == decision[e.decision] IN
       /\ e.decision \in DOMAIN decision
       /\ <<d.call, d.tool, d.input, d.shown>> = <<e.call, e.tool, e.input, e.seen>>
       /\ e.prunedAt \in 0 .. d.at + ApprovalTicks - 1
  /\ \A m, n \in DOMAIN effect : effect[m].decision = effect[n].decision => m = n

\* Presenting a call again takes back what it had been allowed: no effect rests
\* on a decision older than the last time the host presented its call.
LatestPresentationRules ==
  [][\A n \in DOMAIN effect' \ DOMAIN effect :
       effect'[n].decision > floor[effect'[n].call]]_approvalVars

=============================================================================
