----------------------------- MODULE CampaignLoop ------------------------------
(* The loop of a finite campaign: ask rightout_campaign_next, carry out the     *)
(* tool it names, ask again (skills/data-broker-removal/SKILL.md).  The case of *)
(* one broker, Me, is driven by the ledger; those of its siblings stand still.  *)
(* A command is called, charged to the grant and then works: a request is       *)
(* reserved and sent, a session is open at a browser, a mailbox is read.  One   *)
(* agent works at a time, as under the worker's lease, and days pass between    *)
(* its commands.  The permissions and attestations that the start of the        *)
(* campaign demanded are still in place, and the identity portal is not among   *)
(* the routes: its flow is modelled in Verification.                            *)
EXTENDS CampaignPlanner, CampaignGrant

CONSTANTS
  Me,           \* the broker whose case the ledger drives
  Campaigns     \* configurations to be played, each with the siblings' cases

VARIABLES
  campaign,     \* what the planner is given beside the cases
  step,         \* the command being carried out
  proved,       \* a proof of a sent request is among the case's references
  ended         \* history: how the step just taken ended its command

loopVars == <<campaign, grant, step, proved, ended>>

\* Brokers are numbered.  In the pinned catalog a route by e-mail has an address,
\* and one whose rescue address needs the page asks for the page itself.
CampaignAssumption ==
  /\ Brokers \subseteq Nat \ {0} /\ Me \in Brokers
  /\ \A g \in Campaigns :
       /\ g.route \in [Brokers -> Route] /\ g.effects \subseteq Effects
       /\ g.standing \in [Brokers \ {Me} -> Standing]
       /\ \A b \in Brokers :
            /\ g.route[b].method = "email" => g.route[b].rescue # "none"
            /\ g.route[b].rescue = "listing" => g.route[b].listed

Resting == [pc |-> "idle", tool |-> "none"]
Endings == {"none", "recorded", "released", "refused", "left"}

LoopInit ==
  /\ campaign \in Campaigns
  /\ GrantInit /\ step = Resting /\ proved = FALSE /\ ended = "none"

CasesNow == [b \in Brokers |-> IF b = Me THEN Shown(brokerCase) ELSE campaign.standing[b]]
Plan == CampaignNext(campaign, CasesNow, now)
Planned(tool) == LET plan == Plan IN plan.tool = tool /\ Me \in plan.brokers

Ends(how) == step' = Resting /\ ended' = how
Works(tools) == step.pc = "works" /\ step.tool \in tools

-----------------------------------------------------------------------------
(* The command                                                               *)

AskNext ==
  /\ step.pc = "idle" /\ grant.status = "active" /\ Readable
  /\ LET plan == Plan IN
       /\ plan.kind = "execute_tool" /\ Me \in plan.brokers
       /\ step' = [pc |-> "called", tool |-> plan.tool]
  /\ ended' = "none"
  /\ UNCHANGED <<now, brokerCase, campaign, grant, proved>>

\* verificationContext: a sent request with its proof, not yet verified.
Verifiable == brokerCase.state \in {"submitted", "verification_pending"} /\ proved

\* What a tool looks at before it charges the campaign.
Eligible ==
  CASE step.tool \in Polls -> Verifiable
    [] step.tool = "cloud_discovery" -> brokerCase.state = "blocked"
    [] OTHER -> TRUE

Charge ==
  /\ step.pc = "called" /\ Eligible /\ Consume(1)
  /\ step' = [step EXCEPT !.pc = IF step.tool = "cloud_discovery" THEN "charged" ELSE "works"]
  /\ UNCHANGED <<now, brokerCase, campaign, proved, ended>>

Ineligible ==
  /\ step.pc = "called" /\ ~Eligible
  /\ Ends("refused")
  /\ UNCHANGED <<now, brokerCase, campaign, grant, proved>>

\* The second browser is announced as a person's task before it is opened.
Announce ==
  /\ step.pc = "charged" /\ RecordLifecycle("human_task_queued")
  /\ step' = [step EXCEPT !.pc = "works"]
  /\ UNCHANGED <<now, campaign, grant, proved, ended>>

\* A session is closed or times out with nothing sent, a report is not stored,
\* a verification link is found and not opened, or the gateway stops.
Leave ==
  /\ step.pc # "idle"
  /\ Ends("left")
  /\ UNCHANGED <<now, brokerCase, campaign, grant, proved>>

-----------------------------------------------------------------------------
(* What a command does                                                       *)

Scan ==
  /\ Works({"live_scan"}) /\ Ends("recorded")
  /\ \/ \E result \in {"indirect_exposure", "inconclusive"} : RecordScan(result, NoListing)
     \/ \E listing \in Listings : RecordScan("indirect_exposure", listing)
  /\ UNCHANGED <<now, campaign, grant, proved>>

\* A page is captured, or the session is closed without one.
Discovery ==
  /\ Works({"begin_discovery", "cloud_discovery"}) /\ Ends("recorded")
  /\ \/ \E listing \in Listings : RecordBrowserDiscovery(listing)
     \/ RecordLifecycle("human_task_queued")
  /\ UNCHANGED <<now, campaign, grant, proved>>

\* The page cannot be opened, or shows a challenge.
PrimaryBlocked ==
  /\ Works({"begin_discovery", "begin_form"}) /\ RecordLifecycle("blocked")
  /\ Ends("recorded")
  /\ UNCHANGED <<now, campaign, grant, proved>>

Rescan ==
  /\ Works({"direct_rescan"}) /\ Ends("recorded")
  /\ RecordPresent(now) \/ RecordAbsent(now) \/ RecordInconclusive(now)
  /\ UNCHANGED <<now, campaign, grant, proved>>

Channel ==
  CASE step.tool = "begin_form" -> "browser_form"
    [] step.tool = "begin_webmail" -> "browser_webmail"
    [] OTHER -> "smtp_email"

\* The request is a data-subject request: it asks for no discovery.
Submit ==
  /\ Works(Submissions) /\ Reserve(Channel, FALSE)
  /\ step' = [step EXCEPT !.pc = "sends"]
  /\ UNCHANGED <<now, campaign, grant, proved, ended>>

SubmitRefused ==
  /\ Works(Submissions) /\ ~Submittable(FALSE)
  /\ Ends("refused")
  /\ UNCHANGED <<now, brokerCase, campaign, grant, proved>>

Sent ==
  /\ step.pc = "sends" /\ Ends("recorded") /\ proved' = TRUE
  /\ IF Channel = "browser_form" THEN RecordFormSubmission(now) ELSE RecordRemoval(now)
  /\ UNCHANGED <<now, campaign, grant>>

InDoubt ==
  /\ step.pc = "sends" /\ RecordUncertain(Channel) /\ Ends("recorded")
  /\ UNCHANGED <<now, campaign, grant, proved>>

NotSent ==
  /\ step.pc = "sends" /\ Channel # "browser_webmail" /\ Release /\ Ends("released")
  /\ UNCHANGED <<now, campaign, grant, proved>>

\* Filling the draft may have left personal data behind.
DraftInDoubt ==
  /\ Works({"begin_webmail"}) /\ RecordLifecycle("human_task_queued") /\ Ends("recorded")
  /\ UNCHANGED <<now, campaign, grant, proved>>

\* Only the poll of the mailbox itself defers an empty look.
MailboxEmpty ==
  /\ Works({"poll_verification"}) /\ DeferRecheck /\ Ends("recorded")
  /\ UNCHANGED <<now, campaign, grant, proved>>

\* A person must open the link that was found.
LinkForPerson ==
  /\ Works({"poll_verification"}) /\ RecordLifecycle("human_task_queued") /\ Ends("recorded")
  /\ UNCHANGED <<now, campaign, grant, proved>>

\* rightout_open_verification, or the confirming click in webmail: charged anew.
LinkOpened ==
  /\ Works(Polls) /\ "open_verification" \in campaign.effects /\ Consume(1)
  /\ \E to \in {"awaiting_processing", "human_task_queued"} : RecordLifecycle(to)
  /\ Ends("recorded")
  /\ UNCHANGED <<now, campaign, proved>>

-----------------------------------------------------------------------------
(* Around the loop                                                           *)

\* The operator reviews what the human gate names.
Review ==
  /\ step.pc = "idle"
  /\ ReconcileNotStarted \/ ReconcileConfirmed
  /\ ended' = "none"
  /\ UNCHANGED <<now, campaign, grant, step, proved>>

NextDay ==
  /\ step.pc = "idle" /\ ClockTicks
  /\ ended' = "none"
  /\ UNCHANGED <<brokerCase, campaign, grant, step, proved>>

LoopNext ==
  \/ AskNext \/ Charge \/ Ineligible \/ Announce \/ Leave
  \/ Scan \/ Discovery \/ PrimaryBlocked \/ Rescan
  \/ Submit \/ SubmitRefused \/ Sent \/ InDoubt \/ NotSent \/ DraftInDoubt
  \/ MailboxEmpty \/ LinkForPerson \/ LinkOpened \/ Review \/ NextDay

LoopSpec ==
  /\ ClockInit /\ CaseInit /\ LoopInit
  /\ [][LoopNext]_<<now, brokerCase, loopVars>>

-----------------------------------------------------------------------------
(* Properties                                                                *)

\* Two kinds of case that the planner passes over in silence: an address is the
\* only way and no mail transport is configured; and a recheck is due of which
\* there is neither a page to look at nor a confirming mail to expect.
NoTransport ==
  /\ brokerCase.state \in ActionableStates
  /\ campaign.route[Me].method = "email" /\ campaign.email = "unavailable"
NothingToCheck ==
  /\ Me \in Due(CasesNow, now) /\ brokerCase.listing = NoListing
  /\ ~campaign.route[Me].mailed /\ campaign.route[Me].source = "observed"

\* What is to be done for the broker needs an effect the operator did not grant.
NotGranted ==
  LET r == campaign.route[Me]
      lacks(effect) == effect \notin campaign.effects
  IN \/ Me \in Undiscovered(CasesNow) /\ lacks("discover")
     \/ /\ brokerCase.state \in ActionableStates
        /\ \/ r.method = "web_form" /\ lacks("submit_form")
           \/ r.method = "email" /\ lacks("submit_email")
     \/ /\ Me \in Due(CasesNow, now)
        /\ \/ brokerCase.listing # NoListing /\ lacks("direct_recheck")
           \/ r.mailed /\ lacks("poll_verification")

\* SKILL.md: the loop "emits done_for_now only when no autonomous action is due"
\* and presents "the single consolidated digest and next wake".  A broker that
\* is done for now is looked at again on its date, is in the digest, is covered
\* by its parent's request or beyond the grant; two kinds of case, named above,
\* are none of these.  (A campaign that may only discover promises no digest.)
NothingForgotten ==
  (step.pc = "idle" /\ campaign.effects # {"discover"} /\ Plan.kind = "done_for_now")
  => \/ WillWake(CasesNow, Me, now)
     \/ InDigest(campaign, CasesNow, Me, now)
     \/ Covered(campaign, CasesNow, Me) /\ brokerCase.state \in ActionableStates
     \/ NoTransport \/ NothingToCheck \/ NotGranted

\* A rescan that finds the page gone though nobody asked for its removal leaves
\* the date as it was; the planner names the rescan again at once.
UnpromptedAbsence == step.tool = "direct_rescan" /\ brokerCase'.state = "not_found"

\* A command whose outcome the ledger has taken is not the next command for the
\* same broker: recording an outcome always moves the case, its date or its
\* listing out of the row of the plan that named the command.
OutcomesAdvance ==
  [][ (ended' = "recorded" /\ ~UnpromptedAbsence) =>
        \A tool \in Commands : step.tool = tool => ~Planned(tool)' ]_<<now, brokerCase, loopVars>>

\* The planner and the ledger agree on what a case is ready for.  A tool turns a
\* planned command down in two situations only: the submission of a request
\* about a broker where no listing was seen ("blind opt-out", which the ledger
\* does not take from a case once discovery has looked in vain), after the
\* charge; and the look for a confirming mail when there is no sent request to
\* confirm, without a charge.
PlannedIsAccepted ==
  [][ ended' = "refused" =>
        \/ step.tool \in Submissions /\ brokerCase.state \in {"inconclusive", "not_found"}
        \/ step.tool \in Polls ]_<<now, brokerCase, loopVars>>

-----------------------------------------------------------------------------
(* The inductive invariant behind them.                                      *)

LoopTypeOK ==
  /\ ClockTypeOK /\ CaseTypeOK /\ campaign \in Campaigns
  /\ step \in [pc : {"idle", "called", "charged", "works", "sends"}, tool : Commands \cup {"none"}]
  /\ ended \in Endings

\* A request that was sent and a removal have a date, later than the first absence.
LoopDated ==
  /\ brokerCase.state \notin {"partially_removed", "request_rejected"}
  /\ brokerCase.state \in InFlight \cup {"confirmed_removed"} => brokerCase.recheck # Never
  /\ brokerCase.absentAt <= now
  /\ brokerCase.absentAt # Never /\ brokerCase.recheck # Never
       => brokerCase.absentAt < brokerCase.recheck

\* While a command is carried out the case is still one that it was planned for.
StepFits ==
  /\ step.pc # "idle" => ended = "none"
  /\ step.pc = "charged" => step.tool = "cloud_discovery"
  /\ step.tool = "cloud_discovery" /\ step.pc \in {"called", "charged"}
       => brokerCase.state = "blocked"
  /\ step.tool \in Submissions /\ step.pc \in {"called", "works"}
       => brokerCase.state \in ActionableStates
  /\ step.tool = "direct_rescan" /\ step.pc # "idle"
       => brokerCase.state = "indirect_exposure" \/ Me \in Due(CasesNow, now)

LoopInv == LoopTypeOK /\ LoopDated /\ StepFits

===============================================================================
