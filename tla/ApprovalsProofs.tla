---------------------------- MODULE ApprovalsProofs ----------------------------
(* Every assisted effect rests on its own, latest and unexpired decision, for  *)
(* any calls, executions, inputs and sets of tools, however dialogs, calls,    *)
(* drifts and restarts interleave.                                             *)
EXTENDS Approvals, SequenceTheorems, TLAPS

-----------------------------------------------------------------------------
(* The table of tools                                                        *)

Blocks == SUBSET {"read", "prune", "redeem"}

\* The table is swept in or before the block that looks for the binding.
SweepAhead(path) ==
  \E j \in 1 .. Len(path) : "prune" \in path[j] /\ \A i \in 1 .. j - 1 : "redeem" \notin path[i]

LEMMA RunPaths ==
  ASSUME NEW t \in ApprovalToolNames
  PROVE  Run[t].path \in {AllAtOnce, PruneOnly, ReadWithPrune, ReadWithRedeem, ReadThenRedeem,
                          ReadFirst, ReadBetween}
  BY DEF ApprovalToolNames, Ask, Run, Call, RunWorkerEnable, RunExportEvidence,
     RunExportDashboard, RunWorkerResume, RunSensitiveStep, RunStartCampaign,
     RunRevokeCampaign, RunDropFiled, RunDropStatus, RunGpcObserved, RunRotateKey, RunPurge,
     RunControllerOutcome, RunReconcile, RunRefreshParity, RunRefreshRegistries,
     RunControllerReply, RunLiveScan, RunSubmitRemoval, RunSubmitForm, RunPollVerification,
     RunDirectRescan, RunOpenVerification

\* Every tool sweeps the table before it redeems.
LEMMA ToolsSweep ==
  ASSUME NEW t \in ApprovalToolNames
  PROVE  Run[t].path \in Seq(Blocks) /\ SweepAhead(Run[t].path)
<1> DEFINE Good(p) == p \in Seq(Blocks) /\ SweepAhead(p)
<1>1. Good(AllAtOnce)
  BY DEF AllAtOnce, SweepAhead, Blocks
<1>2. Good(PruneOnly) /\ Good(ReadWithPrune) /\ Good(ReadWithRedeem)
  BY DEF PruneOnly, ReadWithPrune, ReadWithRedeem, SweepAhead, Blocks
<1>3. Good(ReadThenRedeem)
  BY DEF ReadThenRedeem, SweepAhead, Blocks
<1>4. Good(ReadFirst) /\ Good(ReadBetween)
  BY DEF ReadFirst, ReadBetween, SweepAhead, Blocks
<1> QED
  BY <1>1, <1>2, <1>3, <1>4, RunPaths

\* What a dialog shows is among the facts.
LEMMA AskShows ==
  ASSUME NEW t \in ApprovalToolNames
  PROVE  Ask[t].shows \subseteq Facts
  BY DEF ApprovalToolNames, Ask, Facts, Dialog, OrCampaign, AskWorkerEnable,
     AskExportEvidence, AskExportDashboard, AskWorkerResume, AskSensitiveStep,
     AskStartCampaign, AskRevokeCampaign, AskDropFiled, AskDropStatus, AskGpcObserved,
     AskRotateKey, AskPurge, AskControllerOutcome, AskReconcile, AskRefreshParity,
     AskRefreshRegistries, AskControllerReply, AskLiveScan, AskSubmitRemoval, AskSubmitForm,
     AskPollVerification, AskDirectRescan, AskOpenVerification

\* A path that has still to be swept has a first block; past a block that did
\* not sweep, and did not redeem, it has still to be swept.
LEMMA SweepMoves ==
  ASSUME NEW path \in Seq(Blocks), SweepAhead(path)
  PROVE  /\ path # << >> /\ Head(path) = path[1]
         /\ "prune" \in Head(path) \/ "redeem" \notin Head(path)
         /\ "prune" \notin Head(path) => Tail(path) \in Seq(Blocks) /\ SweepAhead(Tail(path))
<1>1. PICK j \in 1 .. Len(path) :
        "prune" \in path[j] /\ \A i \in 1 .. j - 1 : "redeem" \notin path[i]
  BY DEF SweepAhead
<1>2. Len(path) \in Nat /\ path # << >>
  BY <1>1
<1>3. /\ Head(path) = path[1] /\ Tail(path) \in Seq(Blocks) /\ Len(Tail(path)) = Len(path) - 1
      /\ \A i \in 1 .. Len(Tail(path)) : Tail(path)[i] = path[i + 1]
  BY <1>2, HeadTailProperties
<1>4. ASSUME "prune" \notin Head(path)
      PROVE  SweepAhead(Tail(path))
  <2>1. j # 1 /\ j - 1 \in 1 .. Len(Tail(path)) /\ "prune" \in Tail(path)[j - 1]
    BY <1>1, <1>2, <1>3, <1>4
  <2>2. \A i \in 1 .. (j - 1) - 1 : "redeem" \notin Tail(path)[i]
    BY <1>1, <1>2, <1>3, <2>1
  <2> QED
    BY <2>1, <2>2 DEF SweepAhead
<1>5. CASE j = 1
  BY <1>1, <1>2, <1>3, <1>5
<1>6. CASE j # 1
  BY <1>1, <1>2, <1>3, <1>4, <1>6
<1> QED
  BY <1>5, <1>6

-----------------------------------------------------------------------------
(* Types                                                                     *)

View == UNION {[F -> Nat] : F \in SUBSET Facts}

BindingRec == [tool : ApprovalToolNames, input : Inputs, shown : View,
               expiresAt : Nat, decision : Nat]
DecisionRec == [call : Calls, tool : ApprovalToolNames, input : Inputs, shown : View, at : Nat]
EffectRec == [call : Calls, tool : ApprovalToolNames, input : Inputs, seen : View,
              prunedAt : Int, decision : Nat]
Asked == [call : Calls, tool : ApprovalToolNames, input : Inputs, shown : View,
          state : {"reading", "open"}]

GateFields == {"pc", "path", "call", "tool", "input", "campaign", "seen", "prunedAt"}
IsGate(e) ==
  /\ DOMAIN e = GateFields /\ e = [f \in DOMAIN e |-> e[f]]
  /\ e.pc = "gate" /\ e.call \in Calls /\ e.prunedAt \in Int

TableTyped == approval \in [Calls -> BindingRec \cup {NoApproval}]
ExecTyped == /\ exec = [x \in Execs |-> exec[x]]
             /\ \A x \in Execs : exec[x].pc = "gate" => IsGate(exec[x])
HistoryTyped == /\ decision \in Seq(DecisionRec) /\ effect \in Seq(EffectRec)
                /\ floor \in [Calls -> Nat] /\ \A c \in Calls : floor[c] <= Len(decision)

ApprovalsTyped ==
  /\ now \in Nat /\ tools \subseteq ApprovalToolNames
  /\ fact \in [Facts -> Nat]
  /\ TableTyped
  /\ dialog \in Seq(Asked \cup {Closed})
  /\ ExecTyped
  /\ HistoryTyped

(* What a stored binding and an execution at its gate remember *)

\* A stored binding is a decision for that call, later than the call's last
\* presentation and not yet spent.
Genuine(c) ==
  approval[c] # NoApproval =>
    LET a == approval[c]
        d == decision[a.decision] IN
    /\ a.decision \in DOMAIN decision
    /\ <<d.call, d.tool, d.input, d.shown>> = <<c, a.tool, a.input, a.shown>>
    /\ a.expiresAt = d.at + ApprovalTicks
    /\ a.decision > floor[c]
    /\ \A n \in DOMAIN effect : effect[n].decision # a.decision

\* An execution has still to sweep the table, or nothing it swept away is left.
Unswept(e) == e.path \in Seq(Blocks) /\ SweepAhead(e.path)
SweptBy(e) == /\ e.prunedAt \in 0 .. now
              /\ \A c \in Calls : approval[c] # NoApproval => approval[c].expiresAt > e.prunedAt
Sweeps(x) ==
  exec[x].pc = "gate" => IF exec[x].prunedAt = Never THEN Unswept(exec[x]) ELSE SweptBy(exec[x])

AllGenuine == \A c \in Calls : Genuine(c)
AllSweep == \A x \in Execs : Sweeps(x)

ApprovalsInv == ApprovalsTyped /\ AllGenuine /\ AllSweep /\ EffectsApproved

LEMMA CurrentIsView ==
  ASSUME fact \in [Facts -> Nat], NEW t \in ApprovalToolNames
  PROVE  Current(t) \in View
<1>1. Current(t) \in [Ask[t].shows -> Nat]
  BY AskShows DEF Current
<1> QED
  BY <1>1, AskShows DEF View

LEMMA NothingIsView == Nothing \in View
<1>1. Nothing \in [{} -> Nat]
  BY DEF Nothing
<1> QED
  BY <1>1 DEF View

\* The sweep drops what has expired and leaves the rest as it is.
LEMMA PrunedLeaves ==
  ASSUME ApprovalsTyped
  PROVE  /\ Pruned \in [Calls -> BindingRec \cup {NoApproval}]
         /\ \A c \in Calls : Pruned[c] \in {NoApproval, approval[c]}
         /\ \A c \in Calls : Pruned[c] # NoApproval => approval[c].expiresAt > now
<1>1. /\ now \in Nat /\ approval \in [Calls -> BindingRec \cup {NoApproval}]
      /\ \A b \in BindingRec : b.expiresAt \in Nat
  BY DEF ApprovalsTyped, TableTyped, BindingRec
<1> QED
  BY <1>1 DEF Pruned

LEMMA SweptLeaves ==
  ASSUME ApprovalsTyped, NEW x \in Execs
  PROVE  /\ Swept(x) \in [Calls -> BindingRec \cup {NoApproval}]
         /\ \A c \in Calls : Swept(x)[c] \in {NoApproval, approval[c]}
         /\ \A c \in Calls :
              Does(x, "prune") /\ Swept(x)[c] # NoApproval => approval[c].expiresAt > now
<1>1. approval \in [Calls -> BindingRec \cup {NoApproval}]
  BY DEF ApprovalsTyped, TableTyped
<1> QED
  BY <1>1, PrunedLeaves DEF Swept

\* What one block of an execution leaves it with.
LEMMA AdvancedIs ==
  ASSUME NEW x \in Execs, IsGate(exec[x])
  PROVE  /\ Advanced(x).pc = "gate" /\ Advanced(x).call = exec[x].call
         /\ Advanced(x).tool = exec[x].tool /\ Advanced(x).input = exec[x].input
         /\ Advanced(x).campaign = exec[x].campaign /\ Advanced(x).path = Tail(exec[x].path)
         /\ Advanced(x).prunedAt = IF Does(x, "prune") THEN now ELSE exec[x].prunedAt
         /\ now \in Int => IsGate(Advanced(x))
<1> DEFINE seen == IF Does(x, "read") /\ ~ exec[x].campaign THEN Current(exec[x].tool)
                   ELSE exec[x].seen
           pruned == IF Does(x, "prune") THEN now ELSE exec[x].prunedAt
<1>1. Advanced(x) = [exec[x] EXCEPT !.path = Tail(exec[x].path), !.seen = seen,
                                    !.prunedAt = pruned]
  BY DEF Advanced
<1> HIDE DEF seen, pruned
<1>2. DOMAIN exec[x] = GateFields /\ exec[x] = [f \in DOMAIN exec[x] |-> exec[x][f]]
  BY DEF IsGate
<1>3. /\ DOMAIN Advanced(x) = GateFields
      /\ Advanced(x) = [f \in DOMAIN Advanced(x) |-> Advanced(x)[f]]
      /\ Advanced(x).pc = exec[x].pc /\ Advanced(x).call = exec[x].call
      /\ Advanced(x).tool = exec[x].tool /\ Advanced(x).input = exec[x].input
      /\ Advanced(x).campaign = exec[x].campaign /\ Advanced(x).path = Tail(exec[x].path)
      /\ Advanced(x).prunedAt = pruned
  BY <1>1, <1>2 DEF GateFields
<1>4. now \in Int => pruned \in Int
  BY DEF pruned, IsGate
<1> QED
  BY <1>3, <1>4 DEF IsGate, pruned

\* The block that redeems is or comes after one that sweeps.
LEMMA AdvancedSweeps ==
  ASSUME ApprovalsInv, NEW x \in Execs, exec[x].pc = "gate"
  PROVE  /\ Does(x, "redeem") \/ Advanced(x).prunedAt # Never =>
              /\ Advanced(x).prunedAt \in 0 .. now
              /\ \A c \in Calls : Swept(x)[c] # NoApproval =>
                   approval[c].expiresAt > Advanced(x).prunedAt
         /\ Advanced(x).prunedAt = Never /\ ~ Does(x, "redeem") => Unswept(Advanced(x))
<1>1. IsGate(exec[x]) /\ ApprovalsTyped /\ Sweeps(x) /\ now \in Nat
  BY DEF ApprovalsInv, ApprovalsTyped, ExecTyped, AllSweep
<1>2. /\ Advanced(x).path = Tail(exec[x].path)
      /\ Advanced(x).prunedAt = IF Does(x, "prune") THEN now ELSE exec[x].prunedAt
  BY <1>1, AdvancedIs
<1>3. \A c \in Calls : Swept(x)[c] \in {NoApproval, approval[c]}
  BY <1>1, SweptLeaves
<1>4. \A c \in Calls :
        Does(x, "prune") /\ Swept(x)[c] # NoApproval => approval[c].expiresAt > now
  BY <1>1, SweptLeaves
<1>5. CASE Does(x, "prune")
  BY <1>1, <1>2, <1>4, <1>5 DEF Never
<1>6. CASE ~ Does(x, "prune") /\ exec[x].prunedAt # Never
  BY <1>1, <1>2, <1>3, <1>6 DEF Sweeps, SweptBy
<1>7. CASE ~ Does(x, "prune") /\ exec[x].prunedAt = Never
  <2>1. Unswept(exec[x]) /\ "prune" \notin Head(exec[x].path)
    BY <1>1, <1>7 DEF Sweeps, Does
  <2>2. /\ "redeem" \notin Head(exec[x].path)
        /\ Tail(exec[x].path) \in Seq(Blocks) /\ SweepAhead(Tail(exec[x].path))
    BY <2>1, SweepMoves DEF Unswept
  <2> QED
    BY <1>2, <1>7, <2>2 DEF Unswept, Does
<1> QED
  BY <1>5, <1>6, <1>7

-----------------------------------------------------------------------------
(* Steps that take no decision and begin no effect                           *)

\* Bindings are only taken away, and the present ones keep their call's floor.
Shrinks ==
  /\ \A c \in Calls : \/ approval'[c] = NoApproval
                      \/ approval'[c] = approval[c] /\ floor'[c] = floor[c]
  /\ decision' = decision /\ effect' = effect

LEMMA ShrinkKeeps ==
  ASSUME AllGenuine, EffectsApproved, Shrinks
  PROVE  AllGenuine' /\ EffectsApproved'
<1>1. EffectsApproved'
  BY DEF EffectsApproved, Shrinks
<1>2. ASSUME NEW c \in Calls
      PROVE  Genuine(c)'
  BY <1>2 DEF AllGenuine, Genuine, Shrinks
<1> QED
  BY <1>1, <1>2 DEF AllGenuine

\* The executions a step leaves alone stay swept.
LEMMA SweepsStay ==
  ASSUME ApprovalsTyped, NEW x \in Execs, Sweeps(x), exec'[x] = exec[x],
         now' \in Nat, now' >= now,
         \A c \in Calls : \/ approval'[c] \in {NoApproval, approval[c]}
                          \/ approval'[c].expiresAt \in Nat /\ approval'[c].expiresAt > now
  PROVE  Sweeps(x)'
<1>1. now \in Nat /\ \A c \in Calls : approval[c] # NoApproval => approval[c].expiresAt \in Nat
  BY DEF ApprovalsTyped, TableTyped, BindingRec
<1>2. CASE exec[x].pc # "gate"
  BY <1>2 DEF Sweeps
<1>3. CASE exec[x].pc = "gate" /\ exec[x].prunedAt = Never
  <2>1. Unswept(exec[x])
    BY <1>3 DEF Sweeps
  <2>2. Unswept(exec'[x])
    BY <2>1
  <2> QED
    BY <1>3, <2>2 DEF Sweeps, Unswept
<1>4. CASE exec[x].pc = "gate" /\ exec[x].prunedAt # Never
  <2>1. SweptBy(exec[x])
    BY <1>4 DEF Sweeps
  <2> QED
    BY <1>1, <1>4, <2>1 DEF Sweeps, SweptBy
<1> QED
  BY <1>2, <1>3, <1>4

\* A history that does not grow stays typed when the floor stays below it.
LEMMA HistoryStays ==
  ASSUME HistoryTyped, decision' = decision, effect' = effect,
         \/ floor' = floor
         \/ \E c \in Calls : floor' = [floor EXCEPT ![c] = Len(decision)]
  PROVE  HistoryTyped'
<1>1. Len(decision) \in Nat
  BY DEF HistoryTyped
<1> QED
  BY <1>1 DEF HistoryTyped

LEMMA AskedWhenNotClosed ==
  ASSUME dialog \in Seq(Asked \cup {Closed}), NEW d \in DOMAIN dialog,
         dialog[d].state \in {"reading", "open"}
  PROVE  dialog[d] \in Asked
<1>1. dialog[d] \in Asked \cup {Closed}
  OBVIOUS
<1>2. Closed.state = "closed"
  BY DEF Closed
<1> QED
  BY <1>1, <1>2

\* The dialogs: presenting, reading and denying a call.
LEMMA DialogsKeep ==
  ASSUME ApprovalsInv,
         \/ \E c \in Calls, t \in tools, i \in Inputs : Present(c, t, i)
         \/ \E c \in Calls, t \in tools : PresentCampaign(c, t)
         \/ \E d \in DOMAIN dialog : OpenDialog(d) \/ Deny(d)
  PROVE  ApprovalsInv'
<1> USE DEF ApprovalsInv
<1>1. /\ now' = now /\ tools' = tools /\ fact' = fact /\ exec' = exec
      /\ decision' = decision /\ effect' = effect
  BY DEF Present, PresentCampaign, OpenDialog, Deny
<1>2. TableTyped' /\ dialog' \in Seq(Asked \cup {Closed}) /\ HistoryTyped' /\ Shrinks
  <2>1. approval \in [Calls -> BindingRec \cup {NoApproval}] /\ HistoryTyped
        /\ dialog \in Seq(Asked \cup {Closed}) /\ tools \subseteq ApprovalToolNames
        /\ floor \in [Calls -> Nat] /\ fact \in [Facts -> Nat]
    BY DEF ApprovalsTyped, TableTyped, HistoryTyped
  <2>2. ASSUME NEW c \in Calls, approval' = [Pruned EXCEPT ![c] = NoApproval],
               floor' = [floor EXCEPT ![c] = Len(decision)]
        PROVE  TableTyped' /\ HistoryTyped' /\ Shrinks
    BY <1>1, <2>1, <2>2, PrunedLeaves, HistoryStays DEF TableTyped, Shrinks
  <2>3. ASSUME NEW c \in Calls, NEW t \in tools, NEW i \in Inputs, Present(c, t, i)
        PROVE  dialog' \in Seq(Asked \cup {Closed})
    <3>1. [call |-> c, tool |-> t, input |-> i, shown |-> Nothing, state |-> "reading"] \in Asked
      BY <2>1, NothingIsView DEF Asked
    <3> QED
      BY <2>1, <2>3, <3>1 DEF Present
  <2>4. ASSUME NEW d \in DOMAIN dialog, OpenDialog(d)
        PROVE  dialog' \in Seq(Asked \cup {Closed}) /\ TableTyped' /\ HistoryTyped' /\ Shrinks
    <3>1. dialog[d] \in Asked
      BY <2>1, <2>4, AskedWhenNotClosed DEF OpenDialog
    <3>2. [dialog[d] EXCEPT !.state = "open", !.shown = Current(dialog[d].tool)] \in Asked
      BY <2>1, <3>1, CurrentIsView DEF Asked
    <3>3. dialog' = [dialog EXCEPT ![d] = [dialog[d] EXCEPT !.state = "open",
                                             !.shown = Current(dialog[d].tool)]]
      BY <2>4 DEF OpenDialog
    <3>4. approval' = approval /\ floor' = floor
      BY <2>4 DEF OpenDialog
    <3> QED
      BY <1>1, <2>1, <3>2, <3>3, <3>4, HistoryStays DEF TableTyped, Shrinks
  <2>5. ASSUME NEW d \in DOMAIN dialog, Deny(d)
        PROVE  dialog' \in Seq(Asked \cup {Closed}) /\ TableTyped' /\ HistoryTyped' /\ Shrinks
    <3>1. dialog[d].call \in Calls
      BY <2>1, <2>5, AskedWhenNotClosed DEF Deny, Asked
    <3>2. /\ approval' = [approval EXCEPT ![dialog[d].call] = NoApproval] /\ floor' = floor
          /\ dialog' = [dialog EXCEPT ![d] = Closed]
      BY <2>5 DEF Deny
    <3> QED
      BY <1>1, <2>1, <3>1, <3>2, HistoryStays DEF TableTyped, Shrinks
  <2>6. (\E c \in Calls, t \in tools : PresentCampaign(c, t)) => dialog' = dialog
    BY DEF PresentCampaign
  <2>7. (\E c \in Calls, t \in tools, i \in Inputs : Present(c, t, i)) =>
          TableTyped' /\ HistoryTyped' /\ Shrinks
    BY <2>2 DEF Present
  <2>8. (\E c \in Calls, t \in tools : PresentCampaign(c, t)) =>
          TableTyped' /\ HistoryTyped' /\ Shrinks
    BY <2>2 DEF PresentCampaign
  <2> QED
    BY <2>1, <2>3, <2>4, <2>5, <2>6, <2>7, <2>8
<1>3. ApprovalsTyped'
  BY <1>1, <1>2 DEF ApprovalsTyped, ExecTyped
<1>4. AllGenuine' /\ EffectsApproved'
  BY <1>2, ShrinkKeeps
<1>5. AllSweep'
  <2>1. now' \in Nat /\ now' >= now /\ \A c \in Calls : approval'[c] \in {NoApproval, approval[c]}
    BY <1>1, <1>2 DEF ApprovalsTyped, Shrinks
  <2> QED
    BY <1>1, <2>1, SweepsStay DEF AllSweep
<1> QED
  BY <1>3, <1>4, <1>5

-----------------------------------------------------------------------------
(* Steps outside the desk and of an execution before its binding             *)

\* The world: time, drifting facts and a restart of the gateway.
WorldKeeps ==
  \/ \E f \in Facts : Drift(f)
  \/ Restart
  \/ TimePasses

LEMMA FactsStay ==
  ASSUME fact \in [Facts -> Nat], NEW f \in Facts, fact' = [fact EXCEPT ![f] = @ + 1]
  PROVE  fact' \in [Facts -> Nat]
<1>1. fact[f] + 1 \in Nat
  OBVIOUS
<1> QED
  BY <1>1

LEMMA WorldStepKeeps ==
  ASSUME ApprovalsInv, WorldKeeps
  PROVE  ApprovalsInv'
<1> USE DEF ApprovalsInv
<1>1. decision' = decision /\ effect' = effect /\ floor' = floor /\ tools' = tools
  BY DEF WorldKeeps, Drift, Restart, TimePasses
<1>2. now \in Nat /\ now' \in Nat /\ now' >= now
  BY DEF ApprovalsTyped, WorldKeeps, Drift, Restart, TimePasses, ClockTicks
<1>3. fact' \in [Facts -> Nat]
  BY FactsStay DEF ApprovalsTyped, WorldKeeps, Drift, Restart, TimePasses
<1>4. CASE Restart
  <2>1. approval' = Empty /\ exec' = [x \in Execs |-> IdleExec]
        /\ dialog' = [d \in DOMAIN dialog |-> Closed]
    BY <1>4 DEF Restart
  <2>2. TableTyped' /\ Shrinks
    BY <1>1, <2>1 DEF TableTyped, Shrinks, Empty
  <2>3. dialog' \in Seq(Asked \cup {Closed})
    <3>1. dialog \in Seq(Asked \cup {Closed})
      BY DEF ApprovalsTyped
    <3>2. DOMAIN dialog = 1 .. Len(dialog) /\ Len(dialog) \in Nat
      BY <3>1
    <3> QED
      BY <2>1, <3>2
  <2>4. \A x \in Execs : exec'[x].pc = "idle"
    BY <2>1 DEF IdleExec
  <2>5. ExecTyped' /\ AllSweep'
    BY <2>1, <2>4 DEF ExecTyped, AllSweep, Sweeps
  <2>6. HistoryTyped'
    BY <1>1, HistoryStays DEF ApprovalsTyped
  <2> QED
    BY <1>1, <1>2, <1>3, <2>2, <2>3, <2>5, <2>6, ShrinkKeeps DEF ApprovalsTyped
<1>5. CASE ~ Restart
  <2>1. approval' = approval /\ dialog' = dialog /\ exec' = exec
    BY <1>5 DEF WorldKeeps, Drift, TimePasses
  <2>2. ApprovalsTyped'
    BY <1>1, <1>2, <1>3, <2>1, HistoryStays DEF ApprovalsTyped, TableTyped, ExecTyped
  <2>3. Shrinks
    BY <1>1, <2>1 DEF Shrinks
  <2>4. AllSweep'
    BY <1>2, <2>1, SweepsStay DEF AllSweep
  <2> QED
    BY <2>2, <2>3, <2>4, ShrinkKeeps
<1> QED
  BY <1>4, <1>5

\* An execution that starts, prepares, fails or applies its effect.
LEMMA ExecutionKeeps ==
  ASSUME ApprovalsInv, NEW x \in Execs,
         \/ \E c \in Calls, t \in tools, i \in Inputs, b \in BOOLEAN : Start(x, c, t, i, b)
         \/ Prepare(x) \/ Fail(x) \/ Apply(x)
  PROVE  ApprovalsInv'
<1> USE DEF ApprovalsInv
<1>1. /\ now' = now /\ tools' = tools /\ dialog' = dialog
      /\ decision' = decision /\ effect' = effect /\ floor' = floor
  BY DEF Start, Prepare, Fail, Apply
<1>2. fact' \in [Facts -> Nat]
  <2>1. fact \in [Facts -> Nat]
    BY DEF ApprovalsTyped
  <2>2. CASE Apply(x)
    BY <2>1, <2>2 DEF Apply
  <2>3. CASE ~ Apply(x)
    BY <2>1, <2>3 DEF Start, Prepare, Fail
  <2> QED
    BY <2>2, <2>3
<1>3. /\ approval' \in [Calls -> BindingRec \cup {NoApproval}]
      /\ \A c \in Calls : approval'[c] \in {NoApproval, approval[c]}
  <2>1. approval' = approval \/ approval' = Swept(x)
    BY DEF Start, Prepare, Fail, Apply
  <2>2. approval \in [Calls -> BindingRec \cup {NoApproval}]
    BY DEF ApprovalsTyped, TableTyped
  <2> QED
    BY <2>1, <2>2, SweptLeaves
<1>4. Shrinks
  BY <1>1, <1>3 DEF Shrinks
<1>5. exec = [y \in Execs |-> exec[y]] /\ tools \subseteq ApprovalToolNames /\ now \in Nat
  BY DEF ApprovalsTyped, ExecTyped
<1>6. /\ exec' = [y \in Execs |-> exec'[y]] /\ \A y \in Execs \ {x} : exec'[y] = exec[y]
      /\ exec'[x].pc = "gate" => IsGate(exec'[x]) /\ Sweeps(x)'
  <2>1. CASE \E c \in Calls, t \in tools, i \in Inputs, b \in BOOLEAN : Start(x, c, t, i, b)
    <3>1. PICK c \in Calls, t \in tools, i \in Inputs, b \in BOOLEAN : Start(x, c, t, i, b)
      BY <2>1
    <3> DEFINE e == [pc |-> "gate", path |-> Run[t].path, call |-> c, tool |-> t, input |-> i,
                     campaign |-> b, seen |-> Nothing, prunedAt |-> Never]
    <3>2. exec' = [exec EXCEPT ![x] = e]
      BY <3>1 DEF Start
    <3>3. IsGate(e) /\ e.prunedAt = Never /\ e.path = Run[t].path
      BY DEF IsGate, GateFields, Never
    <3> HIDE DEF e
    <3>4. exec'[x] = e /\ Unswept(e)
      BY <1>5, <3>2, <3>3, ToolsSweep DEF Unswept
    <3> QED
      BY <1>5, <3>2, <3>3, <3>4 DEF Sweeps, Unswept
  <2>2. CASE Prepare(x)
    <3>1. /\ exec' = [exec EXCEPT ![x] = Advanced(x)] /\ approval' = Swept(x)
          /\ exec[x].pc = "gate" /\ ~ Does(x, "redeem")
      BY <2>2 DEF Prepare
    <3>2. IsGate(Advanced(x))
      BY <1>5, <3>1, AdvancedIs DEF ApprovalsTyped, ExecTyped
    <3>3. exec'[x] = Advanced(x)
      BY <1>5, <3>1
    <3>4. CASE Advanced(x).prunedAt = Never
      <4>1. Unswept(exec'[x])
        BY <3>1, <3>3, <3>4, AdvancedSweeps
      <4> QED
        BY <1>5, <3>1, <3>2, <3>3, <3>4, <4>1 DEF Sweeps, Unswept
    <3>5. CASE Advanced(x).prunedAt # Never
      <4>1. /\ Advanced(x).prunedAt \in 0 .. now
            /\ \A c \in Calls : Swept(x)[c] # NoApproval =>
                 approval[c].expiresAt > Advanced(x).prunedAt
        BY <3>1, <3>5, AdvancedSweeps
      <4>2. \A c \in Calls : approval'[c] # NoApproval =>
              approval'[c].expiresAt > exec'[x].prunedAt
        BY <1>3, <3>1, <3>3, <4>1
      <4> QED
        BY <1>1, <1>5, <3>1, <3>2, <3>3, <3>5, <4>1, <4>2 DEF Sweeps, SweptBy
    <3> QED
      BY <3>4, <3>5
  <2>3. CASE Fail(x) \/ Apply(x)
    <3>1. exec' = [exec EXCEPT ![x] = IdleExec]
      BY <2>3 DEF Fail, Apply
    <3>2. exec'[x].pc = "idle"
      BY <1>5, <3>1 DEF IdleExec
    <3> QED
      BY <1>5, <3>1, <3>2
  <2> QED
    BY <2>1, <2>2, <2>3
<1>7. ApprovalsTyped'
  <2>1. ExecTyped'
    BY <1>6 DEF ExecTyped, ApprovalsTyped
  <2> QED
    BY <1>1, <1>2, <1>3, <2>1, HistoryStays DEF ApprovalsTyped, TableTyped
<1>8. ASSUME NEW y \in Execs
      PROVE  Sweeps(y)'
  <2>1. CASE y = x
    BY <1>6, <2>1 DEF Sweeps
  <2>2. CASE y # x
    BY <1>1, <1>3, <1>5, <1>6, <2>2, SweepsStay DEF AllSweep
  <2> QED
    BY <2>1, <2>2
<1> QED
  BY <1>4, <1>7, <1>8, ShrinkKeeps DEF AllSweep

-----------------------------------------------------------------------------
(* The decision and its use                                                  *)

\* An allow-once stores a binding no other call and no effect can hold.
LEMMA AllowKeeps ==
  ASSUME ApprovalsInv, NEW d \in DOMAIN dialog, Allow(d)
  PROVE  ApprovalsInv'
<1> USE DEF ApprovalsInv
<1> DEFINE asked == dialog[d]
           taken == [call |-> asked.call, tool |-> asked.tool, input |-> asked.input,
                     shown |-> asked.shown, at |-> now]
           bound == [tool |-> asked.tool, input |-> asked.input, shown |-> asked.shown,
                     expiresAt |-> now + ApprovalTicks, decision |-> Len(decision) + 1]
<1>1. /\ now' = now /\ tools' = tools /\ fact' = fact /\ exec' = exec
      /\ floor' = floor /\ effect' = effect
      /\ decision' = Append(decision, taken)
      /\ approval' = [approval EXCEPT ![asked.call] = bound]
      /\ dialog' = [dialog EXCEPT ![d] = Closed]
  BY DEF Allow
<1>2. /\ approval \in [Calls -> BindingRec \cup {NoApproval}]
      /\ dialog \in Seq(Asked \cup {Closed}) /\ decision \in Seq(DecisionRec)
      /\ effect \in Seq(EffectRec) /\ floor \in [Calls -> Nat] /\ now \in Nat
      /\ \A c \in Calls : floor[c] <= Len(decision)
  BY DEF ApprovalsTyped, TableTyped, HistoryTyped
<1>3. asked \in Asked
  BY <1>2, AskedWhenNotClosed DEF Allow
<1>4. /\ taken \in DecisionRec /\ bound \in BindingRec /\ asked.call \in Calls
      /\ now + ApprovalTicks \in Nat /\ Len(decision) + 1 \in Nat /\ now + ApprovalTicks > now
  BY <1>2, <1>3, ApprovalAssumption DEF Asked, DecisionRec, BindingRec
<1>5. /\ taken.call = asked.call /\ taken.tool = asked.tool /\ taken.input = asked.input
      /\ taken.shown = asked.shown /\ taken.at = now
      /\ bound.tool = asked.tool /\ bound.input = asked.input /\ bound.shown = asked.shown
      /\ bound.expiresAt = now + ApprovalTicks /\ bound.decision = Len(decision) + 1
  OBVIOUS
<1> HIDE DEF taken, bound, asked
<1>6. /\ decision' \in Seq(DecisionRec) /\ Len(decision') = Len(decision) + 1
      /\ DOMAIN decision' = 1 .. Len(decision) + 1 /\ DOMAIN decision = 1 .. Len(decision)
      /\ Len(decision) \in Nat
      /\ \A n \in DOMAIN decision : decision'[n] = decision[n]
      /\ decision'[Len(decision) + 1] = taken
  BY <1>1, <1>2, <1>4, AppendProperties
<1>7. ApprovalsTyped'
  <2>1. TableTyped'
    BY <1>1, <1>2, <1>4 DEF TableTyped
  <2>2. dialog' \in Seq(Asked \cup {Closed})
    BY <1>1, <1>2
  <2>3. HistoryTyped'
    BY <1>1, <1>2, <1>6 DEF HistoryTyped
  <2> QED
    BY <1>1, <2>1, <2>2, <2>3 DEF ApprovalsTyped, ExecTyped
<1>8. \A n \in DOMAIN effect : effect[n].decision \in DOMAIN decision
  BY DEF EffectsApproved
<1>9. EffectsApproved'
  BY <1>1, <1>6, <1>8 DEF EffectsApproved
<1>10. ASSUME NEW c \in Calls
       PROVE  Genuine(c)'
  <2>1. CASE c = asked.call
    <3>1. approval'[c] = bound
      BY <1>1, <1>2, <2>1
    <3>2. \A n \in DOMAIN effect : effect[n].decision # Len(decision) + 1
      BY <1>6, <1>8
    <3>3. floor[c] < Len(decision) + 1
      BY <1>2, <1>6
    <3> QED
      BY <1>1, <1>4, <1>5, <1>6, <2>1, <3>1, <3>2, <3>3 DEF Genuine
  <2>2. CASE c # asked.call
    <3>1. approval'[c] = approval[c] /\ Genuine(c)
      BY <1>1, <1>2, <2>2 DEF AllGenuine
    <3> QED
      BY <1>1, <1>6, <3>1 DEF Genuine
  <2> QED
    BY <2>1, <2>2
<1>11. ASSUME NEW x \in Execs
       PROVE  Sweeps(x)'
  <2>1. \A c \in Calls : \/ approval'[c] \in {NoApproval, approval[c]}
                         \/ approval'[c].expiresAt \in Nat /\ approval'[c].expiresAt > now
    BY <1>1, <1>2, <1>4, <1>5
  <2> QED
    BY <1>1, <1>2, <2>1, SweepsStay DEF AllSweep
<1> QED
  BY <1>7, <1>9, <1>10, <1>11 DEF AllGenuine, AllSweep

\* What an effect adds to the history.
Spent(x, a) ==
  [call |-> Advanced(x).call, tool |-> Advanced(x).tool, input |-> Advanced(x).input,
   seen |-> Advanced(x).seen, prunedAt |-> Advanced(x).prunedAt, decision |-> a.decision]

\* A redemption without an effect, or the one effect of the binding it takes.
LEMMA RedeemCases ==
  ASSUME NEW x \in Execs, Redeem(x)
  PROVE  /\ now' = now /\ tools' = tools /\ fact' = fact /\ dialog' = dialog
         /\ decision' = decision /\ floor' = floor
         /\ exec[x].pc = "gate" /\ Does(x, "redeem")
         /\ approval' = [Swept(x) EXCEPT ![Advanced(x).call] = NoApproval]
         /\ \E e : exec' = [exec EXCEPT ![x] = e] /\ e.pc # "gate"
         /\ \/ effect' = effect
            \/ /\ Matches(Swept(x)[Advanced(x).call], Advanced(x))
               /\ effect' = Append(effect, Spent(x, Swept(x)[Advanced(x).call]))
<1>1. IdleExec.pc # "gate"
  BY DEF IdleExec
<1>2. \A t : [pc |-> "apply", tool |-> t].pc # "gate"
  OBVIOUS
<1> QED
  BY <1>1, <1>2 DEF Redeem, Does, Spent

\* The binding an effect rests on is genuine, and unexpired at the sweep.
LEMMA MatchedBinding ==
  ASSUME ApprovalsInv, NEW x \in Execs, exec[x].pc = "gate", Does(x, "redeem"),
         Matches(Swept(x)[Advanced(x).call], Advanced(x))
  PROVE  LET a == approval[Advanced(x).call]
             e == Spent(x, a) IN
         /\ Advanced(x).call \in Calls
         /\ a = Swept(x)[Advanced(x).call] /\ a # NoApproval /\ a \in BindingRec
         /\ e \in EffectRec /\ e.decision = a.decision /\ e.call = Advanced(x).call
         /\ <<a.tool, a.input, a.shown>> = <<e.tool, e.input, e.seen>>
         /\ e.prunedAt \in 0 .. a.expiresAt - 1
<1> DEFINE c == Advanced(x).call
           a == approval[c]
           e == Spent(x, a)
<1>1. c \in Calls /\ Advanced(x).prunedAt \in 0 .. now
  BY AdvancedIs, AdvancedSweeps DEF ApprovalsInv, ApprovalsTyped, ExecTyped, IsGate
<1>2. /\ a = Swept(x)[c] /\ a # NoApproval
  BY <1>1, SweptLeaves DEF Matches, ApprovalsInv
<1>3. a \in BindingRec /\ now \in Nat
  BY <1>1, <1>2 DEF ApprovalsInv, ApprovalsTyped, TableTyped
<1>4. a.expiresAt > Advanced(x).prunedAt
  BY <1>1, <1>2, AdvancedSweeps
<1>5. a.tool = Advanced(x).tool /\ a.input = Advanced(x).input /\ a.shown = Advanced(x).seen
  BY <1>2 DEF Matches
<1>6. /\ e.decision = a.decision /\ e.call = c /\ e.tool = a.tool /\ e.input = a.input
      /\ e.seen = a.shown /\ e.prunedAt = Advanced(x).prunedAt
  BY <1>5 DEF Spent
<1>7. e \in EffectRec
  BY <1>1, <1>3, <1>5 DEF Spent, EffectRec, BindingRec
<1>8. a.expiresAt \in Nat
  BY <1>3 DEF BindingRec
<1> HIDE DEF e, a
<1>9. e.prunedAt \in 0 .. a.expiresAt - 1
  BY <1>1, <1>3, <1>4, <1>6, <1>8
<1> QED
  BY <1>1, <1>2, <1>3, <1>6, <1>7, <1>9 DEF e, a

LEMMA RedeemKeeps ==
  ASSUME ApprovalsInv, NEW x \in Execs, Redeem(x)
  PROVE  ApprovalsInv'
<1> USE DEF ApprovalsInv
<1> DEFINE c == Advanced(x).call
           a == approval[c]
<1>1. /\ now' = now /\ tools' = tools /\ fact' = fact /\ dialog' = dialog
      /\ decision' = decision /\ floor' = floor
      /\ exec[x].pc = "gate" /\ Does(x, "redeem")
      /\ approval' = [Swept(x) EXCEPT ![c] = NoApproval]
  BY RedeemCases
<1>2. PICK idle : exec' = [exec EXCEPT ![x] = idle] /\ idle.pc # "gate"
  BY RedeemCases
<1>3. /\ Swept(x) \in [Calls -> BindingRec \cup {NoApproval}] /\ c \in Calls
      /\ \A k \in Calls : Swept(x)[k] \in {NoApproval, approval[k]}
      /\ now \in Nat /\ exec = [y \in Execs |-> exec[y]]
  BY <1>1, SweptLeaves, AdvancedIs DEF ApprovalsTyped, ExecTyped, IsGate
<1> HIDE DEF c, a
<1>4. /\ TableTyped' /\ ExecTyped' /\ approval'[c] = NoApproval
      /\ \A k \in Calls : approval'[k] \in {NoApproval, approval[k]}
      /\ exec'[x].pc # "gate" /\ \A y \in Execs \ {x} : exec'[y] = exec[y]
  BY <1>1, <1>2, <1>3 DEF TableTyped, ExecTyped, ApprovalsTyped
<1>5. AllSweep'
  <2>1. ASSUME NEW y \in Execs, y # x
        PROVE  Sweeps(y)'
    BY <1>1, <1>3, <1>4, <2>1, SweepsStay DEF AllSweep
  <2>2. Sweeps(x)'
    BY <1>4 DEF Sweeps
  <2> QED
    BY <2>1, <2>2 DEF AllSweep
<1>6. CASE effect' = effect
  <2>1. Shrinks
    BY <1>1, <1>4, <1>6 DEF Shrinks
  <2>2. ApprovalsTyped'
    BY <1>1, <1>4, <1>6, HistoryStays DEF ApprovalsTyped
  <2> QED
    BY <1>5, <2>1, <2>2, ShrinkKeeps
<1>7. CASE effect' # effect
  <2> DEFINE e == Spent(x, a)
  <2>1. Matches(Swept(x)[c], Advanced(x)) /\ effect' = Append(effect, Spent(x, Swept(x)[c]))
    BY <1>7, RedeemCases DEF c
  <2>2. /\ a = Swept(x)[c] /\ a # NoApproval /\ a \in BindingRec
        /\ e \in EffectRec /\ e.decision = a.decision /\ e.call = c
        /\ <<a.tool, a.input, a.shown>> = <<e.tool, e.input, e.seen>>
        /\ e.prunedAt \in 0 .. a.expiresAt - 1
    BY <1>1, <2>1, MatchedBinding DEF c, a
  <2>3. effect' = Append(effect, e)
    BY <2>1, <2>2
  <2> HIDE DEF e
  <2>4. /\ effect \in Seq(EffectRec) /\ effect' \in Seq(EffectRec)
        /\ Len(effect) \in Nat /\ DOMAIN effect = 1 .. Len(effect)
        /\ DOMAIN effect' = 1 .. Len(effect) + 1
        /\ \A n \in DOMAIN effect : effect'[n] = effect[n]
        /\ effect'[Len(effect) + 1] = e
    BY <2>2, <2>3, AppendProperties DEF ApprovalsTyped, HistoryTyped
  <2>5. ApprovalsTyped'
    BY <1>1, <1>4, <2>4 DEF ApprovalsTyped, HistoryTyped
  <2>6. /\ a.decision \in DOMAIN decision /\ a.expiresAt = decision[a.decision].at + ApprovalTicks
        /\ <<decision[a.decision].call, decision[a.decision].tool, decision[a.decision].input,
             decision[a.decision].shown>> = <<c, a.tool, a.input, a.shown>>
        /\ \A n \in DOMAIN effect : effect[n].decision # a.decision
    BY <1>3, <2>2 DEF AllGenuine, Genuine, a
  <2>7. EffectsApproved'
    <3>1. ASSUME NEW n \in DOMAIN effect'
          PROVE  LET f == effect'[n]
                     d == decision'[f.decision] IN
                 /\ f.decision \in DOMAIN decision'
                 /\ <<d.call, d.tool, d.input, d.shown>> = <<f.call, f.tool, f.input, f.seen>>
                 /\ f.prunedAt \in 0 .. d.at + ApprovalTicks - 1
      <4>1. CASE n \in DOMAIN effect
        BY <1>1, <2>4, <4>1 DEF EffectsApproved
      <4>2. CASE n = Len(effect) + 1
        <5>1. effect'[n] = e /\ decision' = decision
          BY <1>1, <2>4, <4>2
        <5>2. /\ e.decision \in DOMAIN decision
              /\ decision[e.decision].call = e.call /\ decision[e.decision].tool = e.tool
              /\ decision[e.decision].input = e.input /\ decision[e.decision].shown = e.seen
          BY <2>2, <2>6
        <5>3. e.prunedAt \in 0 .. decision[e.decision].at + ApprovalTicks - 1
          <6>1. a.expiresAt = decision[e.decision].at + ApprovalTicks
            BY <2>2, <2>6
          <6>2. e.prunedAt \in 0 .. a.expiresAt - 1
            BY <2>2
          <6>3. a.expiresAt \in Nat /\ decision[e.decision].at \in Nat
            <7>1. decision \in Seq(DecisionRec)
              BY DEF ApprovalsTyped, HistoryTyped
            <7>2. decision[e.decision] \in DecisionRec
              BY <5>2, <7>1
            <7> QED
              BY <2>2, <7>2 DEF BindingRec, DecisionRec
          <6> QED
            BY <6>1, <6>2, <6>3, ApprovalAssumption
        <5> QED
          BY <5>1, <5>2, <5>3
      <4> QED
        BY <2>4, <4>1, <4>2
    <3>2. ASSUME NEW m \in DOMAIN effect', NEW n \in DOMAIN effect',
                 effect'[m].decision = effect'[n].decision
          PROVE  m = n
      <4>1. CASE m \in DOMAIN effect /\ n \in DOMAIN effect
        BY <2>4, <3>2, <4>1 DEF EffectsApproved
      <4>2. CASE m = Len(effect) + 1 \/ n = Len(effect) + 1
        BY <2>2, <2>4, <2>6, <3>2, <4>2
      <4> QED
        BY <2>4, <4>1, <4>2
    <3> QED
      BY <3>1, <3>2 DEF EffectsApproved
  <2>8. ASSUME NEW k \in Calls
        PROVE  Genuine(k)'
    <3>1. CASE k = c \/ approval'[k] = NoApproval
      BY <1>4, <3>1 DEF Genuine
    <3>2. CASE k # c /\ approval'[k] # NoApproval
      <4>1. approval'[k] = approval[k] /\ approval[k] # NoApproval /\ Genuine(k)
        BY <1>4, <3>2 DEF AllGenuine
      <4>2. decision[approval[k].decision].call = k
        BY <4>1 DEF Genuine
      <4>3. e.decision # approval[k].decision
        BY <2>2, <2>6, <3>2, <4>2
      <4>4. \A n \in DOMAIN effect' : effect'[n].decision # approval[k].decision
        BY <2>4, <4>1, <4>3 DEF Genuine
      <4> QED
        BY <1>1, <4>1, <4>4 DEF Genuine
    <3> QED
      BY <3>1, <3>2
  <2> QED
    BY <1>5, <2>5, <2>7, <2>8 DEF AllGenuine
<1> QED
  BY <1>6, <1>7

-----------------------------------------------------------------------------
(* The theorems                                                              *)

LEMMA ApprovalsInitially ==
  ASSUME ApprovalsInit
  PROVE  ApprovalsInv
<1> USE DEF ApprovalsInit
<1>1. \A x \in Execs : exec[x].pc = "idle"
  BY DEF IdleExec
<1>2. \A c \in Calls : approval[c] = NoApproval
  BY DEF Empty
<1>3. ApprovalsTyped
  <2>1. TableTyped
    BY <1>2 DEF TableTyped, Empty
  <2>2. ExecTyped
    BY <1>1 DEF ExecTyped
  <2>3. HistoryTyped
    BY DEF HistoryTyped
  <2>4. now \in Nat /\ tools \subseteq ApprovalToolNames /\ fact \in [Facts -> Nat]
        /\ dialog \in Seq(Asked \cup {Closed})
    BY ApprovalAssumption DEF ClockInit
  <2> QED
    BY <2>1, <2>2, <2>3, <2>4 DEF ApprovalsTyped
<1>4. AllGenuine /\ AllSweep /\ EffectsApproved
  BY <1>1, <1>2 DEF AllGenuine, Genuine, AllSweep, Sweeps, EffectsApproved
<1> QED
  BY <1>3, <1>4 DEF ApprovalsInv

LEMMA ApprovalsStep ==
  ASSUME ApprovalsInv, [ApprovalsNext]_approvalVars
  PROVE  ApprovalsInv'
<1>1. CASE UNCHANGED approvalVars
  BY <1>1 DEF approvalVars, ApprovalsInv, ApprovalsTyped, TableTyped, ExecTyped, HistoryTyped,
     AllGenuine, Genuine, AllSweep, Sweeps, Unswept, SweptBy, EffectsApproved
<1>2. CASE ApprovalsNext
  <2>1. \A f \in UNION {Ask[t].shows : t \in tools} : f \in Facts
    BY AskShows DEF ApprovalsInv, ApprovalsTyped
  <2> QED
    BY <1>2, <2>1, DialogsKeep, WorldStepKeeps, ExecutionKeeps, AllowKeeps, RedeemKeeps
       DEF ApprovalsNext, WorldKeeps
<1> QED
  BY <1>1, <1>2

\* An effect begun is later than the last presentation of its call.
LEMMA LatestStep ==
  ASSUME ApprovalsInv, [ApprovalsNext]_approvalVars
  PROVE  \A n \in DOMAIN effect' \ DOMAIN effect :
           effect'[n].decision > floor[effect'[n].call]
<1>1. CASE effect' = effect
  BY <1>1
<1>2. CASE effect' # effect
  <2>1. PICK x \in Execs : Redeem(x)
    BY <1>2 DEF ApprovalsNext, approvalVars, Present, OpenDialog, Allow, Deny, PresentCampaign,
       Start, Prepare, Fail, Apply, Drift, Restart, TimePasses
  <2> DEFINE c == Advanced(x).call
             a == approval[c]
             e == Spent(x, a)
  <2>2. /\ exec[x].pc = "gate" /\ Does(x, "redeem") /\ Matches(Swept(x)[c], Advanced(x))
        /\ effect' = Append(effect, Spent(x, Swept(x)[c]))
    BY <1>2, <2>1, RedeemCases
  <2>3. /\ c \in Calls /\ a = Swept(x)[c] /\ a # NoApproval
        /\ e \in EffectRec /\ e.decision = a.decision /\ e.call = c
    BY <2>2, MatchedBinding
  <2>4. a.decision > floor[c]
    BY <2>3 DEF ApprovalsInv, AllGenuine, Genuine
  <2> HIDE DEF c, a, e
  <2>5. effect \in Seq(EffectRec) /\ effect' = Append(effect, e)
    BY <2>2, <2>3 DEF ApprovalsInv, ApprovalsTyped, HistoryTyped, e
  <2>6. \A n \in DOMAIN effect' \ DOMAIN effect : effect'[n] = e
    BY <2>3, <2>5, AppendProperties
  <2> QED
    BY <2>3, <2>4, <2>6
<1> QED
  BY <1>1, <1>2

\* Every effect begun without a campaign rests on its own allow-once decision,
\* taken on the facts the tool read and unexpired at its sweep of the table.
THEOREM EffectsStayApproved == ApprovalsSpec => []EffectsApproved
<1>1. ApprovalsInv => EffectsApproved
  BY DEF ApprovalsInv
<1> QED
  BY <1>1, ApprovalsInitially, ApprovalsStep, PTL DEF ApprovalsSpec

\* Presenting a call again takes back what it had been allowed.
THEOREM PresentationRules == ApprovalsSpec => LatestPresentationRules
<1>1. ApprovalsInv /\ [ApprovalsNext]_approvalVars =>
        [\A n \in DOMAIN effect' \ DOMAIN effect :
           effect'[n].decision > floor[effect'[n].call]]_approvalVars
  BY LatestStep
<1> QED
  BY <1>1, ApprovalsInitially, ApprovalsStep, PTL DEF ApprovalsSpec, LatestPresentationRules

===============================================================================
