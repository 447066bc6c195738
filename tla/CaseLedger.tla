----------------------------- MODULE CaseLedger ------------------------------
(* The case of one profile and one broker in the encrypted case ledger         *)
(* (lib/cases.mjs).  withProfile serialises the operations of a profile and    *)
(* stores the profile only when the update returns, so an operation is one     *)
(* action: its conjuncts are the checks that would throw and leave the record  *)
(* as it was.  Its lock is the process's own: as the plugin runs, one gateway  *)
(* uses a state directory; a second one could read a profile and store it over *)
(* the change of the first.  A missing case behaves as one in state "new".     *)
(* Proof references, disclosure fields and the history are not read by any     *)
(* guard kept here and are left out; days are ticks.                           *)
EXTENDS Clock

CONSTANTS
  Listings,         \* listing handles of the broker's pages
  NoListing,        \* listing_handle === null
  DayTicks,         \* addDays(at, 1)
  WeekTicks,        \* addDays(at, 7)
  ProcessingTicks,  \* processingDays of the broker
  RescanTicks       \* DEFAULT_RESCAN_DAYS

ASSUME CaseAssumption ==
  /\ NoListing \notin Listings
  /\ {DayTicks, WeekTicks, ProcessingTicks, RescanTicks} \subseteq Nat \ {0}

VARIABLE brokerCase

Transitions == [
  new |-> {"searching", "inconclusive", "not_found", "found", "indirect_exposure",
    "action_selected", "verification_pending", "human_task_queued", "blocked"},
  searching |-> {"inconclusive", "not_found", "found", "indirect_exposure",
    "verification_pending", "human_task_queued", "blocked"},
  inconclusive |-> {"searching", "inconclusive", "not_found", "found", "indirect_exposure",
    "verification_pending", "human_task_queued", "blocked"},
  not_found |-> {"searching", "inconclusive", "found", "indirect_exposure",
    "verification_pending", "human_task_queued", "blocked"},
  found |-> {"action_selected", "submission_pending", "verification_pending", "inconclusive",
    "not_found", "indirect_exposure", "human_task_queued", "blocked"},
  indirect_exposure |-> {"action_selected", "submission_pending", "verification_pending",
    "inconclusive", "not_found", "found", "human_task_queued", "blocked"},
  action_selected |-> {"submission_pending", "verification_pending", "inconclusive",
    "not_found", "found", "human_task_queued", "blocked"},
  submission_pending |-> {"submitted", "submission_uncertain", "action_selected",
    "human_task_queued", "blocked"},
  submission_uncertain |-> {"submitted", "action_selected", "human_task_queued", "blocked"},
  submitted |-> {"verification_pending", "awaiting_processing",
    "identity_verification_required", "partially_removed", "request_rejected",
    "confirmed_removed", "found", "human_task_queued", "blocked"},
  verification_pending |-> {"submission_pending", "awaiting_processing",
    "identity_verification_required", "partially_removed", "request_rejected",
    "confirmed_removed", "found", "human_task_queued", "blocked"},
  awaiting_processing |-> {"identity_verification_required", "partially_removed",
    "request_rejected", "confirmed_removed", "found", "human_task_queued", "blocked"},
  identity_verification_required |-> {"submitted", "awaiting_processing",
    "partially_removed", "request_rejected", "confirmed_removed", "human_task_queued",
    "blocked"},
  partially_removed |-> {"action_selected", "submission_pending", "awaiting_processing",
    "identity_verification_required", "request_rejected", "confirmed_removed",
    "reappeared", "human_task_queued", "blocked"},
  request_rejected |-> {"action_selected", "submission_pending", "human_task_queued",
    "blocked"},
  confirmed_removed |-> {"confirmed_removed", "reappeared"},
  reappeared |-> {"found", "inconclusive", "not_found", "indirect_exposure",
    "action_selected", "submission_pending", "verification_pending",
    "human_task_queued", "blocked"},
  human_task_queued |-> {"searching", "inconclusive", "not_found", "found",
    "indirect_exposure", "action_selected", "submission_pending", "submission_uncertain",
    "submitted", "verification_pending", "awaiting_processing",
    "identity_verification_required", "partially_removed", "request_rejected",
    "confirmed_removed", "blocked"},
  blocked |-> {"searching", "inconclusive", "not_found", "found", "indirect_exposure",
    "action_selected", "human_task_queued"}]

CaseStates == DOMAIN Transitions
Channels == {"smtp_email", "browser_webmail", "browser_form"}
Outcomes == {"none", "pending", "not_started", "human_not_started", "uncertain", "sent",
             "portal_requested", "controller"}
Scopes == {"none", "known_listing_set_only", "controller_response_only"}
Time == Nat \cup {Never}

CaseTypeOK ==
  brokerCase \in [state : CaseStates, channel : Channels \cup {"none"}, outcome : Outcomes,
                  recheck : Time, absentAt : Time, confirmedAt : Time, scope : Scopes,
                  listing : Listings \cup {NoListing}]

NewCase ==
  [state |-> "new", channel |-> "none", outcome |-> "none", recheck |-> Never,
   absentAt |-> Never, confirmedAt |-> Never, scope |-> "none", listing |-> NoListing]

CaseInit == brokerCase = NewCase

InFlight == {"submitted", "verification_pending", "awaiting_processing"}
\* A provider write may have started and its outcome is not recorded.
Flagged == {"submission_pending", "submission_uncertain"}

\* transition(): a legal move, or none.
CanMove(to) == to = brokerCase.state \/ to \in Transitions[brokerCase.state]

-----------------------------------------------------------------------------
(* Observations                                                              *)

ScanMutable == {"new", "searching", "inconclusive", "indirect_exposure"}

\* recordScan: an index result, with the handle of a candidate when there is one.
RecordScan(result, listing) ==
  brokerCase' = [brokerCase EXCEPT
    !.state = IF @ \in ScanMutable THEN result ELSE @,
    !.listing = IF listing = NoListing THEN @ ELSE listing]

DiscoveryProtected ==
  {"confirmed_removed", "submitted", "verification_pending", "awaiting_processing",
   "action_selected", "identity_verification_required", "partially_removed",
   "request_rejected"}

\* recordBrowserDiscovery: a candidate the operator's browser session captured.
RecordBrowserDiscovery(listing) ==
  /\ brokerCase.state \in DiscoveryProtected \/ CanMove("indirect_exposure")
  /\ brokerCase' = [brokerCase EXCEPT
       !.state = IF @ \in DiscoveryProtected THEN @ ELSE "indirect_exposure",
       !.listing = listing]

\* Fault: the date of the refuted confirmation stays.
PresentKeepsDate(at) ==
  /\ brokerCase.state \in {"confirmed_removed", "found"} \/ CanMove("found")
  /\ brokerCase' = [brokerCase EXCEPT
       !.state = IF @ = "confirmed_removed" THEN "reappeared" ELSE "found",
       !.recheck = Never, !.scope = "none", !.absentAt = Never]

\* Fault: a listing that is still there needs no legal move.
PresentWhatever(at) ==
  brokerCase' = [brokerCase EXCEPT
    !.state = IF @ = "confirmed_removed" THEN "reappeared" ELSE "found",
    !.recheck = Never, !.scope = "none", !.absentAt = Never, !.confirmedAt = Never]

\* recordDirectRescan(direct_present), with the report's own time.
RecordPresent(at) ==
  /\ brokerCase.state \in {"confirmed_removed", "found"} \/ CanMove("found")
  /\ brokerCase' = [brokerCase EXCEPT
       !.state = IF @ = "confirmed_removed" THEN "reappeared" ELSE "found",
       !.recheck = Never, !.scope = "none", !.absentAt = Never, !.confirmedAt = Never]

\* Fault: an absence starts the clock of a removal nobody asked for.
AbsenceStartsAnywhere(at) ==
  /\ CanMove("awaiting_processing") /\ brokerCase.absentAt = Never
  /\ brokerCase' = [brokerCase EXCEPT
       !.state = "awaiting_processing", !.absentAt = at, !.scope = "known_listing_set_only",
       !.recheck = IF @ = Never \/ @ <= at THEN at + WeekTicks ELSE @]

\* recordDirectRescan(direct_absent_known_listing_set): the first absence after
\* a submission starts the absence clock.
RecordFirstAbsence(at) ==
  /\ brokerCase.state \in InFlight /\ brokerCase.absentAt = Never
  /\ brokerCase' = [brokerCase EXCEPT
       !.state = "awaiting_processing", !.absentAt = at, !.scope = "known_listing_set_only",
       !.recheck = IF @ = Never \/ @ <= at THEN at + WeekTicks ELSE @]

\* Fault: only the recheck date is asked, not the order of the reports.
DueInAnyOrder(at) == brokerCase.recheck # Never /\ brokerCase.recheck <= at

\* The repeated absence counts only later than the first and once it is due.
AbsenceDue(at) ==
  /\ brokerCase.absentAt < at
  /\ brokerCase.recheck # Never /\ brokerCase.recheck <= at

RecordEarlyAbsence(at) ==
  /\ brokerCase.state \in InFlight /\ brokerCase.absentAt # Never /\ ~AbsenceDue(at)
  /\ brokerCase' = [brokerCase EXCEPT
       !.state = "awaiting_processing", !.scope = "known_listing_set_only"]

RecordSecondAbsence(at) ==
  /\ \/ brokerCase.state = "confirmed_removed"
     \/ brokerCase.state \in InFlight /\ brokerCase.absentAt # Never /\ AbsenceDue(at)
  /\ brokerCase' = [brokerCase EXCEPT
       !.state = "confirmed_removed", !.scope = "known_listing_set_only",
       !.confirmedAt = at, !.recheck = at + RescanTicks]

\* An absence without a removal in flight proves nothing about one.
RecordUnpromptedAbsence(at) ==
  /\ brokerCase.state \notin InFlight \cup {"confirmed_removed"} /\ CanMove("not_found")
  /\ brokerCase' = [brokerCase EXCEPT
       !.state = "not_found", !.scope = "known_listing_set_only", !.absentAt = Never]

RecordAbsent(at) ==
  \/ RecordFirstAbsence(at)
  \/ RecordEarlyAbsence(at)
  \/ RecordSecondAbsence(at)
  \/ RecordUnpromptedAbsence(at)

\* Fault: an inconclusive look is not put off to the next day.
InconclusiveKeepsDate(at) ==
  /\ brokerCase.state \in InFlight \cup {"confirmed_removed"} \/ CanMove("inconclusive")
  /\ brokerCase' = [brokerCase EXCEPT
       !.state = IF @ \in InFlight \cup {"confirmed_removed"} THEN @ ELSE "inconclusive"]

\* recordDirectRescan(inconclusive)
RecordInconclusive(at) ==
  /\ brokerCase.state \in InFlight \cup {"confirmed_removed"} \/ CanMove("inconclusive")
  /\ brokerCase' = [brokerCase EXCEPT
       !.state = IF @ \in InFlight \cup {"confirmed_removed"} THEN @ ELSE "inconclusive",
       !.recheck = at + DayTicks]

\* deferRecheck
DeferRecheck ==
  /\ brokerCase.state # "new"
  /\ brokerCase' = [brokerCase EXCEPT !.recheck = now + DayTicks]

-----------------------------------------------------------------------------
(* Submissions                                                               *)

\* removalContext: the check the core lanes make before they reserve.
RemovalReady == brokerCase.state \in {"found", "indirect_exposure", "action_selected",
                                      "reappeared"}

\* Fault: an uncertain request may be sent again.
SubmittableUncertain(needsDiscovery) ==
  brokerCase.state \in {"found", "indirect_exposure", "action_selected", "submission_uncertain"}

\* Fault: a request that was not sent is not taken a second time.
SubmittableOnce(needsDiscovery) ==
  \/ brokerCase.state \in {"found", "indirect_exposure", "reappeared",
                           "partially_removed", "request_rejected"}
  \/ brokerCase.state = "new" /\ ~needsDiscovery

\* reserveSubmission; a data-subject request needs no discovery.
Submittable(needsDiscovery) ==
  \/ brokerCase.state \in {"found", "indirect_exposure", "action_selected", "reappeared",
                           "partially_removed", "request_rejected"}
  \/ brokerCase.state = "new" /\ ~needsDiscovery

Reserve(channel, needsDiscovery) ==
  /\ Submittable(needsDiscovery)
  /\ brokerCase' = [brokerCase EXCEPT
       !.state = "submission_pending", !.channel = channel, !.outcome = "pending"]

\* releaseSubmission
Release ==
  /\ brokerCase.state = "submission_pending"
  /\ brokerCase' = [brokerCase EXCEPT !.state = "action_selected", !.outcome = "not_started"]

\* Fault: the uncertain case forgets the channel of its request.
UncertainLosesChannel(channel) ==
  /\ brokerCase.state = "submission_pending" /\ brokerCase.channel = channel
  /\ brokerCase' = [brokerCase EXCEPT !.state = "submission_uncertain", !.channel = "none"]

\* recordSubmissionUncertain
RecordUncertain(channel) ==
  /\ brokerCase.state = "submission_pending" /\ brokerCase.channel = channel
  /\ brokerCase' = [brokerCase EXCEPT
       !.state = "submission_uncertain", !.outcome = "uncertain", !.recheck = Never]

\* recordRemoval, at the time the report was generated
RecordRemoval(at) ==
  /\ brokerCase.state = "submission_pending"
  /\ brokerCase' = [brokerCase EXCEPT
       !.state = "submitted", !.outcome = "sent", !.recheck = at + ProcessingTicks]

\* recordFormSubmission
RecordFormSubmission(at) ==
  /\ brokerCase.state = "submission_pending"
  /\ brokerCase' = [brokerCase EXCEPT
       !.state = "verification_pending", !.outcome = "sent", !.recheck = at + DayTicks]

\* Fault: the review stores the tool's outcome word, not the ledger's.
ReconcileStoresInput ==
  /\ brokerCase.state \in Flagged /\ brokerCase.channel \in Channels
  /\ brokerCase' = [brokerCase EXCEPT
       !.state = "action_selected", !.outcome = "provider_write_not_started"]

\* reconcileSubmission(provider_write_not_started)
ReconcileNotStarted ==
  /\ brokerCase.state \in Flagged /\ brokerCase.channel \in Channels
  /\ brokerCase' = [brokerCase EXCEPT
       !.state = "action_selected", !.outcome = "human_not_started", !.recheck = Never]

\* Fault: the confirmed request gets no recheck date.
ConfirmedWithoutRecheck ==
  /\ brokerCase.state \in Flagged /\ brokerCase.channel \in Channels
  /\ brokerCase' = [brokerCase EXCEPT
       !.state = IF brokerCase.channel = "browser_form" THEN "verification_pending"
                 ELSE "submitted",
       !.outcome = "sent"]

\* reconcileSubmission(provider_write_confirmed)
ReconcileConfirmed ==
  /\ brokerCase.state \in Flagged /\ brokerCase.channel \in Channels
  /\ brokerCase' = [brokerCase EXCEPT
       !.state = IF brokerCase.channel = "browser_form" THEN "verification_pending"
                 ELSE "submitted",
       !.outcome = "sent",
       !.recheck = now + (IF brokerCase.channel = "browser_form" THEN DayTicks
                          ELSE ProcessingTicks)]

-----------------------------------------------------------------------------
(* The identity portal, controllers and human tasks                          *)

\* recordVerificationRequested
RecordVerificationRequested(at) ==
  /\ brokerCase.state = "submission_pending" /\ brokerCase.channel = "browser_form"
  /\ brokerCase' = [brokerCase EXCEPT
       !.state = "verification_pending", !.outcome = "portal_requested", !.recheck = at]

\* Fault: a portal submission already reserved is reserved again.
ReservesPortalTwice ==
  /\ brokerCase.state \in {"verification_pending", "submission_pending"}
  /\ brokerCase' = [brokerCase EXCEPT !.state = "submission_pending", !.outcome = "pending"]

\* reserveVerifiedPortalSubmission
ReserveVerifiedPortal ==
  /\ brokerCase.state = "verification_pending" /\ brokerCase.outcome = "portal_requested"
  /\ brokerCase' = [brokerCase EXCEPT !.state = "submission_pending", !.outcome = "pending"]

\* recordSuppressionSubmission
RecordSuppression(at) ==
  /\ brokerCase.state = "submission_pending"
  /\ brokerCase' = [brokerCase EXCEPT
       !.state = "awaiting_processing", !.outcome = "sent", !.recheck = at + ProcessingTicks]

ControllerTarget == [
  acknowledged |-> "awaiting_processing", confirmed |-> "confirmed_removed",
  partial |-> "partially_removed", identity |-> "identity_verification_required",
  rejected |-> "request_rejected"]

\* recordControllerOutcome: a reviewed answer proves that an uncertain request
\* arrived, so the move starts from "submitted".
RecordControllerOutcome(answer) ==
  LET from == IF brokerCase.state = "submission_uncertain" THEN "submitted" ELSE brokerCase.state
      target == ControllerTarget[answer]
  IN
  /\ brokerCase.state \in InFlight \cup {"identity_verification_required",
                                         "partially_removed", "submission_uncertain"}
  /\ target = from \/ target \in Transitions[from]
  /\ brokerCase' = [brokerCase EXCEPT
       !.state = target, !.outcome = "controller",
       !.recheck = CASE answer = "acknowledged" -> now + ProcessingTicks
                     [] answer = "confirmed" -> Never
                     [] OTHER -> @,
       !.confirmedAt = IF answer = "confirmed" THEN now ELSE @,
       !.scope = IF answer = "confirmed" THEN "controller_response_only" ELSE @]

\* recordLifecycle, to the states its callers name
RecordLifecycle(to) ==
  /\ CanMove(to)
  /\ brokerCase' = [brokerCase EXCEPT
       !.state = to,
       !.recheck = CASE to = "verification_pending" -> now + DayTicks
                     [] to = "awaiting_processing" -> now + ProcessingTicks
                     [] to \in {"human_task_queued", "blocked"} -> Never]

=============================================================================
