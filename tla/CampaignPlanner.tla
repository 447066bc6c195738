--------------------------- MODULE CampaignPlanner ----------------------------
(* What rightout_campaign_next answers (lib/parity-autopilot.mjs): a pure      *)
(* function of the stored cases, the pinned catalog and the operator's         *)
(* configuration.  A campaign g is a record                                    *)
(*   route: [Brokers -> Route]      effects: SUBSET Effects                    *)
(*   email, verification, browser:  the modes that are configured              *)
(*   cloudRetry: a second browser for blocked routes                           *)
(*   parent: [Brokers -> Brokers \cup {0}], the broker whose request covers    *)
(*   this one's, and heads, the brokers with the role of a parent; a case is   *)
(*   what status() shows of it (Standing), and brokers are numbered in the     *)
(*   order of their identifiers.                                               *)
EXTENDS CaseLedger, FiniteSets

CONSTANTS
  Brokers,     \* broker_ids of the campaign, as positive numbers
  ScanBatch    \* LIVE_SCAN_CAMPAIGN_BATCH_SIZE

Effects == {"discover", "publisher_discover", "submit_email", "submit_form",
            "poll_verification", "open_verification", "direct_recheck"}

Route == [
  method : {"web_form", "email", "phone"},
  source : {"observed", "needs_evidence", "unavailable"},   \* source_status
  rescue : {"none", "plain", "listing"},   \* a rescue address, and whether it needs the page
  listed : BOOLEAN,                        \* disclosure_fields has listing_url
  mailed : BOOLEAN,                        \* verification === "email"
  restricted : BOOLEAN]                    \* core terms forbid automated discovery

Standing == [state : CaseStates, listing : BOOLEAN, recheck : Time]

\* caseLedger.status(): one row of the report.
Shown(case) == [state |-> case.state, listing |-> case.listing # NoListing,
                recheck |-> case.recheck]

ActiveSubmissionStates ==
  {"inconclusive", "not_found", "found", "indirect_exposure", "action_selected",
   "reappeared", "submission_pending", "submission_uncertain", "submitted",
   "verification_pending", "awaiting_processing", "identity_verification_required",
   "partially_removed", "request_rejected", "confirmed_removed", "human_task_queued",
   "blocked"}
ActionableStates ==
  {"inconclusive", "not_found", "found", "indirect_exposure", "action_selected", "reappeared"}
\* The parent's request is under way: it covers its children.
CoveringStates == (ActionableStates \ {"inconclusive", "not_found"})
  \cup Flagged \cup InFlight \cup {"confirmed_removed"}
HumanStates == {"identity_verification_required", "human_task_queued", "blocked"}

-----------------------------------------------------------------------------
(* Answers                                                                   *)

Command(tool, brokers) == [kind |-> "execute_tool", tool |-> tool, brokers |-> brokers]
HumanGate(brokers) ==
  [kind |-> "human_gate", tool |-> "reconcile_submission", brokers |-> brokers]
Done == [kind |-> "done_for_now", tool |-> "none", brokers |-> {}]

\* sort()[0] and slice(0, ...)
First(S) == CHOOSE b \in S : \A c \in S : b <= c
Batch(S) == {b \in S : Cardinality({c \in S : c < b}) < ScanBatch}

Commands == {"live_scan", "begin_discovery", "cloud_discovery", "direct_rescan",
             "submit_parity_email", "begin_webmail", "begin_form", "poll_verification",
             "begin_webmail_verification"}
Submissions == {"submit_parity_email", "begin_webmail", "begin_form"}
Polls == {"poll_verification", "begin_webmail_verification"}

-----------------------------------------------------------------------------
(* One broker                                                                *)

\* Discovery is still to be done, by an index scan or by a person.
Undiscovered(cases) == {b \in Brokers : cases[b].state \notin ActiveSubmissionStates}

Covered(g, cases, b) == g.parent[b] # 0 /\ cases[g.parent[b]].state \in CoveringStates

\* An address takes the place of a form that is no longer there or not sourced.
MailLane(g, cases, b) ==
  LET r == g.route[b] IN
  /\ r.method \in {"email", "phone"} \/ r.source \in {"unavailable", "needs_evidence"}
  /\ r.rescue # "none" /\ "submit_email" \in g.effects /\ g.email # "unavailable"
  /\ r.rescue = "listing" => cases[b].listing

\* The step an actionable case calls for: a command, a deferral, or nothing.
ActionStep(g, cases, b) ==
  LET r == g.route[b]
      unlisted == r.listed /\ ~cases[b].listing
      candidate == cases[b].state = "indirect_exposure" /\ cases[b].listing
  IN IF Covered(g, cases, b) THEN "covered"
     ELSE IF MailLane(g, cases, b)
       THEN IF g.email = "webmail" THEN "begin_webmail" ELSE "submit_parity_email"
     ELSE IF r.source = "unavailable" THEN "degraded"
     ELSE IF r.source = "needs_evidence" THEN "deferred"
     ELSE IF candidate /\ "direct_recheck" \in g.effects THEN "direct_rescan"
     ELSE IF unlisted /\ "publisher_discover" \in g.effects THEN "begin_discovery"
     ELSE IF unlisted \/ r.method = "phone" THEN "deferred"
     ELSE IF r.method = "web_form" /\ "submit_form" \in g.effects THEN "begin_form"
     ELSE "nothing"

\* The step a case calls for whose recheck date has come.
DueStep(g, cases, b) ==
  LET r == g.route[b]
      mail == r.mailed /\ "poll_verification" \in g.effects
      page == cases[b].listing /\ "direct_recheck" \in g.effects
  IN IF page /\ r.source = "observed" THEN "direct_rescan"
     ELSE IF mail /\ g.verification = "imap" THEN "poll_verification"
     ELSE IF mail /\ g.verification = "browser_webmail" /\ "open_verification" \in g.effects
       THEN "begin_webmail_verification"
     ELSE IF mail \/ r.source # "observed" THEN "deferred"
     ELSE "nothing"

-----------------------------------------------------------------------------
(* The campaign                                                              *)

\* Fault: a date that has just come is not yet due.
DueStrictly(cases, at) == {b \in Brokers : cases[b].recheck # Never /\ cases[b].recheck < at}

\* due(): the recheck date has come.
Due(cases, at) == {b \in Brokers : cases[b].recheck # Never /\ cases[b].recheck <= at}

\* planParityCampaignNext
ParityNext(g, cases, at) ==
  LET uncertain == {b \in Brokers : cases[b].state \in Flagged}
      blocked == {b \in Brokers :
        /\ cases[b].state = "blocked" /\ g.cloudRetry /\ g.browser # "remote_cloud_cdp"
        /\ "publisher_discover" \in g.effects /\ g.route[b].source = "observed"}
      unscanned == {b \in Undiscovered(cases) : ~g.route[b].restricted}
      acting == {b \in Brokers : /\ cases[b].state \in ActionableStates
                                 /\ ActionStep(g, cases, b) \in Commands}
      checking == {b \in Due(cases, at) : DueStep(g, cases, b) \in Commands}
      leading == IF acting \cap g.heads = {} THEN acting ELSE acting \cap g.heads
      oldest == {b \in checking : \A c \in checking : cases[b].recheck <= cases[c].recheck}
      actor == First(leading)
      checked == First(oldest)
  IN IF uncertain # {} THEN HumanGate({First(uncertain)})
     ELSE IF blocked # {} THEN Command("cloud_discovery", {First(blocked)})
     ELSE IF unscanned # {} /\ "discover" \in g.effects THEN Command("live_scan", Batch(unscanned))
     ELSE IF acting # {} THEN Command(ActionStep(g, cases, actor), {actor})
     ELSE IF checking # {} THEN Command(DueStep(g, cases, checked), {checked})
     ELSE Done

\* planGlobalScanCampaignNext: a campaign that may only discover.
GlobalScanNext(cases) ==
  IF Undiscovered(cases) # {} THEN Command("live_scan", Batch(Undiscovered(cases))) ELSE Done

\* campaignNextReport, of an active grant
CampaignNext(g, cases, at) ==
  IF g.effects = {"discover"} THEN GlobalScanNext(cases) ELSE ParityNext(g, cases, at)

-----------------------------------------------------------------------------
(* What "done for now" says of a broker                                      *)

\* Its date is among those the next wake is the earliest of.
WillWake(cases, b, at) == cases[b].recheck # Never /\ cases[b].recheck > at

\* The consolidated digest names it as a person's task or an outage.
InDigest(g, cases, b, at) ==
  \/ cases[b].state \in HumanStates
  \/ b \in Undiscovered(cases) /\ g.route[b].restricted
  \/ cases[b].state \in ActionableStates /\ ActionStep(g, cases, b) \in {"deferred", "degraded"}
  \/ b \in Due(cases, at) /\ DueStep(g, cases, b) = "deferred"

===============================================================================
