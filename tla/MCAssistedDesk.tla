---------------------------- MODULE MCAssistedDesk ----------------------------
(* Model checking of three parts of the plugin that share only the clock and   *)
(* the case ledger: a behaviour plays the approval desk (Approvals), the       *)
(* verification mail behind it (Verification) or the loop of a campaign        *)
(* (CampaignLoop), and the others stay where they start.                       *)
(* Polls are played in the get and human lanes.  The portal lane starts where  *)
(* its submission is recorded and one poll has issued a handle;                *)
(* bounds of that lane: no further poll or submission, one open at a time, no  *)
(* clicks reviewed as sent, no lapse of the deduplication record, and a day    *)
(* passes only while a flow is stored.  Bounds of the desk: a call executes    *)
(* under a campaign while no other executes, and is presented under one while  *)
(* there is a binding to forget.                                               *)
EXTENDS Approvals, Verification, CampaignLoop, TLC

CONSTANT DeskTime    \* bound: the clock of the desk stops here

VARIABLE side        \* the part that is played: "desk", "mail", "loop"

deskVars == <<tools, fact, approval, dialog, exec, decision, floor, effect>>
vars == <<now, side, deskVars, brokerCase, mailVars, loopVars>>

PortalReady(h) ==
  /\ brokerCase = [NewCase EXCEPT !.state = "verification_pending", !.recheck = 0,
                                  !.channel = "browser_form", !.outcome = "portal_requested"]
  /\ dedupe = "requested" /\ request = 1 /\ epoch = 1
  /\ mail = [r \in Requests |-> [days |-> 0, epoch |-> 1]]
  /\ handle = [other \in Handles |->
                 IF other = h THEN [ref |-> 1, epoch |-> 1, link |-> 1, days |-> HandleDays]
                 ELSE NoHandle]
  /\ guard = [r \in Requests |-> 0] /\ flow = Never
  /\ session = [s \in Sessions |-> NoSession] /\ task = [t \in Tasks |-> Rest]
  /\ unresolved = {} /\ clicker = [r \in Requests |-> Nobody]

\* The campaign that stands beside the other parts only discovers.
Discovers(g) == g.effects = {"discover"}

Init ==
  /\ ApprovalsInit /\ LoopInit
  /\ \/ side = "desk" /\ lane = "get" /\ VerificationInit /\ Discovers(campaign)
     \/ /\ side = "mail" /\ tools = CHOOSE s \in InPlay : TRUE
        /\ Discovers(campaign)
        /\ lane \in Lanes
        /\ IF lane = "portal" THEN \E h \in Handles : PortalReady(h) ELSE VerificationInit
     \/ /\ side = "loop" /\ tools = CHOOSE s \in InPlay : TRUE
        /\ lane = "get" /\ MailInit /\ CaseInit

Still == UNCHANGED <<side, brokerCase, mailVars, loopVars>>
Quiet == UNCHANGED <<side, deskVars, loopVars>>

OpenSteps == {"openContext", "openToken", "openGuard", "openConsume", "openSend", "unguard",
              "openTab", "openSession", "openAssess"}
Mailbox == lane # "portal"
OneOpen == lane = "portal" => \A t \in Tasks : task[t].pc \notin OpenSteps
NoneSent == lane = "portal" => epoch' = epoch
FlowDay == lane = "portal" => flow > 0

Alone(x) == \A y \in Execs \ {x} : exec[y] = IdleExec

DeskNext ==
  \/ \E c \in Calls, t \in tools, i \in Inputs : Present(c, t, i) /\ Still
  \/ \E d \in DOMAIN dialog : OpenDialog(d) /\ Still
  \/ \E d \in DOMAIN dialog : Allow(d) /\ Still
  \/ \E d \in DOMAIN dialog : Deny(d) /\ Still
  \/ \E c \in Calls, t \in tools : approval[c] # NoApproval /\ PresentCampaign(c, t) /\ Still
  \/ \E x \in Execs, c \in Calls, t \in tools, i \in Inputs, b \in BOOLEAN :
       (b => Alone(x)) /\ Start(x, c, t, i, b) /\ Still
  \/ \E x \in Execs : Prepare(x) /\ Still
  \/ \E x \in Execs : Redeem(x) /\ Still
  \/ \E x \in Execs : Fail(x) /\ Still
  \/ \E x \in Execs : Apply(x) /\ Still
  \/ \E f \in UNION {Ask[t].shows : t \in tools} : Drift(f) /\ Still
  \/ Restart /\ Still
  \/ now < DeskTime /\ TimePasses /\ Still

MailNext ==
  \/ Mailbox /\ RequestReserved /\ Quiet
  \/ RequestRecorded /\ Quiet
  \/ Mailbox /\ DedupeLapses /\ Quiet
  \/ Reconciled /\ NoneSent /\ Quiet
  \/ Mailbox /\ Relisted /\ Quiet
  \/ \E r \in Requests : MailArrives(r) /\ Quiet
  \/ \E t \in Tasks : Mailbox /\ PollBegin(t) /\ Quiet
  \/ \E t \in Tasks : PollContext(t) /\ Quiet
  \/ \E t \in Tasks : PollGuard(t) /\ Quiet
  \/ \E t \in Tasks : PollDefers(t) /\ Quiet
  \/ \E t \in Tasks, r \in Requests : PollFinds(t, r) /\ Quiet
  \/ \E t \in Tasks : PollHandle(t) /\ Quiet
  \/ \E t \in Tasks, h \in Handles : OneOpen /\ OpenBegin(t, h) /\ Quiet
  \/ \E t \in Tasks : OpenContext(t) /\ Quiet
  \/ \E t \in Tasks : OpenToken(t) /\ Quiet
  \/ \E t \in Tasks : OpenGuard(t) /\ Quiet
  \/ \E t \in Tasks : OpenConsume(t) /\ Quiet
  \/ \E t \in Tasks : OpenSend(t) /\ Quiet
  \/ \E t \in Tasks : OpenAnswer(t) /\ Quiet
  \/ \E t \in Tasks : OpenRecord(t) /\ Quiet
  \/ \E t \in Tasks : OpenUnguard(t) /\ Quiet
  \/ \E t \in Tasks : OpenFlow(t) /\ Quiet
  \/ \E t \in Tasks : OpenSession(t) /\ Quiet
  \/ \E t \in Tasks : OpenAssess(t) /\ Quiet
  \/ \E t \in Tasks : OpenTabFails(t) /\ Quiet
  \/ \E t \in Tasks : ResumeBegin(t) /\ Quiet
  \/ \E t \in Tasks : Resume(t) /\ Quiet
  \/ \E t \in Tasks, s \in Sessions : ClickBegin(t, s) /\ Quiet
  \/ \E t \in Tasks, s \in Sessions : Closes(t, s) /\ Quiet
  \/ \E t \in Tasks, s \in Sessions : Expires(t, s) /\ Quiet
  \/ \E t \in Tasks, s \in Sessions : Revalidates(t, s) /\ Quiet
  \/ \E t \in Tasks : ClickIntent(t) /\ Quiet
  \/ \E t \in Tasks : ClickReserve(t) /\ Quiet
  \/ \E t \in Tasks : ClickMark(t) /\ Quiet
  \/ \E t \in Tasks : ClickSend(t) /\ Quiet
  \/ \E t \in Tasks : ClickAnswer(t) /\ Quiet
  \/ \E t \in Tasks : ClickRecord(t) /\ Quiet
  \/ \E t \in Tasks : FlowExpires(t) /\ Quiet
  \/ \E t \in Tasks : RecordsUncertain(t) /\ Quiet
  \/ \E t \in Tasks : DropsFlow(t) /\ Quiet
  \/ \E t \in Tasks : DropsSession(t) /\ Quiet
  \/ \E t \in Tasks : QueuesHuman(t) /\ Quiet
  \/ \E t \in Tasks : Aborts(t) /\ Quiet
  \/ FlowLapses /\ Quiet
  \/ GatewayRestarts /\ Quiet
  \/ FlowDay /\ DayPasses /\ Quiet

Next ==
  \/ side = "desk" /\ DeskNext
  \/ side = "mail" /\ MailNext
  \/ side = "loop" /\ LoopNext /\ UNCHANGED <<side, deskVars, mailVars>>

Spec == Init /\ [][Next]_vars

\* Tools whose calls run alike are represented by one of them.
DeskSets ==
  {{"export_evidence", "rotate_state_key"}, {"refresh_registries"}, {"form_session_step"},
   {"start_campaign"}, {"record_drop_status"}, {"live_scan"}}

\* Executions and tasks, calls and handles are interchangeable; the
\* configuration uses the same model values for both parts.
Symmetry == Permutations(Tasks) \cup Permutations(Handles)

-----------------------------------------------------------------------------
(* The campaigns that are played                                             *)

\* The shapes of route in unbroker-parity.json.
Lane(method, source, rescue, listed, mailed) ==
  [method |-> method, source |-> source, rescue |-> rescue, listed |-> listed,
   mailed |-> mailed, restricted |-> FALSE]
Routes == {
  Lane("web_form", "observed", "none", FALSE, TRUE),
  Lane("web_form", "observed", "none", TRUE, TRUE),
  Lane("web_form", "observed", "none", FALSE, FALSE),
  Lane("phone", "observed", "listing", TRUE, FALSE),
  Lane("web_form", "unavailable", "listing", TRUE, TRUE),
  Lane("web_form", "unavailable", "plain", TRUE, TRUE),
  [Lane("web_form", "observed", "listing", TRUE, TRUE) EXCEPT !.restricted = TRUE],
  Lane("email", "observed", "listing", TRUE, FALSE)}

\* Broker 2 has been removed; its request may be one that covers broker 1.
Removed == [state |-> "confirmed_removed", listing |-> TRUE, recheck |-> MaxTime + 1]

Discovering ==
  [route |-> [b \in Brokers |-> Lane("web_form", "observed", "none", FALSE, TRUE)],
   effects |-> {"discover"}, email |-> "unavailable", verification |-> "unavailable",
   browser |-> "managed_openclaw", cloudRetry |-> TRUE,
   parent |-> [b \in Brokers |-> 0], heads |-> {},
   standing |-> [b \in Brokers \ {Me} |-> Removed]]

LoopCampaigns ==
  {Discovering} \cup
  {[route |-> [b \in Brokers |-> route], effects |-> Effects \ without, email |-> email,
    verification |-> verification, browser |-> "managed_openclaw", cloudRetry |-> TRUE,
    parent |-> [b \in Brokers |-> IF b = Me THEN parent ELSE 0], heads |-> {2},
    standing |-> [b \in Brokers \ {Me} |-> Removed]] :
      route \in Routes,
      without \in {{}, {"publisher_discover"}, {"submit_form", "submit_email", "direct_recheck"}},
      email \in {"smtp", "webmail", "unavailable"},
      verification \in {"imap", "browser_webmail", "unavailable"}, parent \in {0, 2}}

ASSUME CampaignsShaped == CampaignAssumption

===============================================================================
