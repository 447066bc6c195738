-------------------------- MODULE CaseLedgerProofs ----------------------------
(* What the ledger's operations preserve, for every set of listings and every  *)
(* delay: lemmas the proofs about the tools rest on.                           *)
EXTENDS CaseLedger, TLAPS

LEMMA StatesListed ==
  CaseStates = {"new", "searching", "inconclusive", "not_found", "found",
    "indirect_exposure", "action_selected", "submission_pending", "submission_uncertain",
    "submitted", "verification_pending", "awaiting_processing",
    "identity_verification_required", "partially_removed", "request_rejected",
    "confirmed_removed", "reappeared", "human_task_queued", "blocked"}
  BY DEF CaseStates, Transitions

\* From a flagged case the table leads only to these states.
LEMMA FlaggedMoves ==
  /\ Transitions["submission_pending"] =
       {"submitted", "submission_uncertain", "action_selected", "human_task_queued", "blocked"}
  /\ Transitions["submission_uncertain"] =
       {"submitted", "action_selected", "human_task_queued", "blocked"}
  BY DEF Transitions

\* No observation and no verification moves a case that says a write may have
\* started, or changes the channel of that write.
LEMMA ObservationsKeepFlag ==
  ASSUME brokerCase.state \in Flagged, CaseTypeOK,
         \/ \E result, listing : RecordScan(result, listing)
         \/ \E listing : RecordBrowserDiscovery(listing)
         \/ RecordPresent(now) \/ RecordAbsent(now) \/ RecordInconclusive(now)
         \/ DeferRecheck
         \/ RecordLifecycle("verification_pending") \/ RecordLifecycle("awaiting_processing")
  PROVE  brokerCase'.state = brokerCase.state /\ brokerCase'.channel = brokerCase.channel
PROOF
<1> USE DEF Flagged, CaseTypeOK
<1>1. ~CanMove("found") /\ ~CanMove("not_found") /\ ~CanMove("inconclusive")
      /\ ~CanMove("indirect_exposure") /\ ~CanMove("verification_pending")
      /\ ~CanMove("awaiting_processing")
  BY FlaggedMoves DEF CanMove
<1>2. brokerCase.state \notin InFlight \cup ScanMutable \cup DiscoveryProtected
      /\ brokerCase.state \notin {"confirmed_removed", "found"}
  BY DEF InFlight, ScanMutable, DiscoveryProtected
<1>3. CASE \E result, listing : RecordScan(result, listing)
  BY <1>2, <1>3 DEF RecordScan
<1>4. CASE \E listing : RecordBrowserDiscovery(listing)
  BY <1>1, <1>2, <1>4 DEF RecordBrowserDiscovery
<1>5. CASE RecordPresent(now)
  BY <1>1, <1>2, <1>5 DEF RecordPresent
<1>6. CASE RecordAbsent(now)
  BY <1>1, <1>2, <1>6 DEF RecordAbsent, RecordFirstAbsence, RecordEarlyAbsence,
     RecordSecondAbsence, RecordUnpromptedAbsence
<1>7. CASE RecordInconclusive(now)
  BY <1>1, <1>2, <1>7 DEF RecordInconclusive
<1>8. CASE DeferRecheck
  BY <1>8 DEF DeferRecheck
<1>9. CASE RecordLifecycle("verification_pending") \/ RecordLifecycle("awaiting_processing")
  BY <1>1, <1>9 DEF RecordLifecycle
<1> QED
  BY <1>3, <1>4, <1>5, <1>6, <1>7, <1>8, <1>9

\* A controller's answer leaves no write in doubt.
LEMMA AnswersUnflag ==
  ASSUME CaseTypeOK, NEW answer \in DOMAIN ControllerTarget, RecordControllerOutcome(answer)
  PROVE  brokerCase'.state \notin Flagged
PROOF
<1>1. ControllerTarget[answer] \notin Flagged
  BY DEF ControllerTarget, Flagged
<1>2. brokerCase'.state = ControllerTarget[answer]
  BY DEF RecordControllerOutcome, CaseTypeOK
<1> QED
  BY <1>1, <1>2

\* Nor does one put that flag on a case.
LEMMA ObservationsNeverFlag ==
  ASSUME brokerCase.state \notin Flagged, CaseTypeOK,
         \/ \E result \in {"indirect_exposure", "inconclusive"} :
               \E listing : RecordScan(result, listing)
         \/ \E listing : RecordBrowserDiscovery(listing)
         \/ RecordPresent(now) \/ RecordAbsent(now) \/ RecordInconclusive(now)
         \/ DeferRecheck
         \/ \E to \in CaseStates \ Flagged : RecordLifecycle(to)
         \/ \E answer \in DOMAIN ControllerTarget : RecordControllerOutcome(answer)
  PROVE  brokerCase'.state \notin Flagged
PROOF
<1> USE DEF Flagged, CaseTypeOK
<1>1. CASE \E result \in {"indirect_exposure", "inconclusive"} :
              \E listing : RecordScan(result, listing)
  BY <1>1 DEF RecordScan
<1>2. CASE \E listing : RecordBrowserDiscovery(listing)
  BY <1>2 DEF RecordBrowserDiscovery
<1>3. CASE RecordPresent(now)
  BY <1>3 DEF RecordPresent
<1>4. CASE RecordAbsent(now)
  BY <1>4 DEF RecordAbsent, RecordFirstAbsence, RecordEarlyAbsence,
     RecordSecondAbsence, RecordUnpromptedAbsence
<1>5. CASE RecordInconclusive(now)
  BY <1>5 DEF RecordInconclusive
<1>6. CASE DeferRecheck
  BY <1>6 DEF DeferRecheck
<1>7. CASE \E to \in CaseStates \ Flagged : RecordLifecycle(to)
  BY <1>7 DEF RecordLifecycle
<1>8. CASE \E answer \in DOMAIN ControllerTarget : RecordControllerOutcome(answer)
  BY <1>8, AnswersUnflag
<1> QED
  BY <1>1, <1>2, <1>3, <1>4, <1>5, <1>6, <1>7, <1>8

\* A case that may be submitted flags nothing.
LEMMA SubmittableIsUnflagged ==
  ASSUME NEW needsDiscovery, Submittable(needsDiscovery)
  PROVE  brokerCase.state \notin Flagged
  BY DEF Submittable, Flagged

-----------------------------------------------------------------------------
(* Types                                                                     *)

LEMMA DelaysAreNat ==
  /\ DayTicks \in Nat /\ WeekTicks \in Nat /\ ProcessingTicks \in Nat /\ RescanTicks \in Nat
  BY CaseAssumption

LEMMA LaterIsTime ==
  ASSUME NEW at \in Nat, NEW delay \in Nat
  PROVE  at + delay \in Time /\ at \in Time /\ Never \in Time
  BY DEF Time, Never


LEMMA ScansTyped ==
  ASSUME CaseTypeOK, NEW result \in {"indirect_exposure", "inconclusive"},
         NEW listing \in Listings \cup {NoListing},
         RecordScan(result, listing) \/ RecordBrowserDiscovery(listing)
  PROVE  CaseTypeOK'
PROOF
<1> USE StatesListed DEF CaseTypeOK
<1>1. CASE RecordScan(result, listing)
  BY <1>1 DEF RecordScan
<1>2. CASE RecordBrowserDiscovery(listing)
  BY <1>2 DEF RecordBrowserDiscovery
<1> QED
  BY <1>1, <1>2

LEMMA RescansTyped ==
  ASSUME CaseTypeOK, NEW at \in Nat,
         RecordPresent(at) \/ RecordAbsent(at) \/ RecordInconclusive(at)
  PROVE  CaseTypeOK'
PROOF
<1>1. /\ at + WeekTicks \in Time /\ at + RescanTicks \in Time /\ at + DayTicks \in Time
      /\ at \in Time /\ Never \in Time
      /\ {"none", "known_listing_set_only"} \subseteq Scopes
  BY DelaysAreNat, LaterIsTime DEF Scopes
<1> USE StatesListed DEF CaseTypeOK
<1>2. CASE RecordPresent(at)
  BY <1>1, <1>2 DEF RecordPresent
<1>3. CASE RecordFirstAbsence(at)
  BY <1>1, <1>3 DEF RecordFirstAbsence
<1>4. CASE RecordEarlyAbsence(at)
  BY <1>1, <1>4 DEF RecordEarlyAbsence
<1>5. CASE RecordSecondAbsence(at)
  BY <1>1, <1>5 DEF RecordSecondAbsence
<1>6. CASE RecordUnpromptedAbsence(at)
  BY <1>1, <1>6 DEF RecordUnpromptedAbsence
<1>7. CASE RecordInconclusive(at)
  BY <1>1, <1>7 DEF RecordInconclusive
<1> QED
  BY <1>2, <1>3, <1>4, <1>5, <1>6, <1>7 DEF RecordAbsent

LEMMA SubmissionsTyped ==
  ASSUME CaseTypeOK, now \in Nat, NEW at \in Nat, NEW channel \in Channels,
         NEW needsDiscovery,
         \/ Reserve(channel, needsDiscovery) \/ Release \/ RecordUncertain(channel)
         \/ RecordRemoval(at) \/ RecordFormSubmission(at)
         \/ ReconcileNotStarted \/ ReconcileConfirmed \/ DeferRecheck
  PROVE  CaseTypeOK'
PROOF
<1>1. /\ at + ProcessingTicks \in Time /\ at + DayTicks \in Time
      /\ now + ProcessingTicks \in Time /\ now + DayTicks \in Time /\ Never \in Time
      /\ {"pending", "not_started", "human_not_started", "uncertain", "sent"} \subseteq Outcomes
  BY DelaysAreNat, LaterIsTime DEF Outcomes
<1> USE StatesListed DEF CaseTypeOK
<1>2. CASE Reserve(channel, needsDiscovery)
  BY <1>1, <1>2 DEF Reserve
<1>3. CASE Release
  BY <1>1, <1>3 DEF Release
<1>4. CASE RecordUncertain(channel)
  BY <1>1, <1>4 DEF RecordUncertain
<1>5. CASE RecordRemoval(at)
  BY <1>1, <1>5 DEF RecordRemoval
<1>6. CASE RecordFormSubmission(at)
  BY <1>1, <1>6 DEF RecordFormSubmission
<1>7. CASE ReconcileNotStarted
  BY <1>1, <1>7 DEF ReconcileNotStarted
<1>8. CASE ReconcileConfirmed
  <2>1. CASE brokerCase.channel = "browser_form"
    BY <1>1, <1>8, <2>1 DEF ReconcileConfirmed
  <2>2. CASE brokerCase.channel # "browser_form"
    BY <1>1, <1>8, <2>2 DEF ReconcileConfirmed
  <2> QED
    BY <2>1, <2>2
<1>9. CASE DeferRecheck
  BY <1>1, <1>9 DEF DeferRecheck
<1> QED
  BY <1>2, <1>3, <1>4, <1>5, <1>6, <1>7, <1>8, <1>9

LEMMA PortalTyped ==
  ASSUME CaseTypeOK, NEW at \in Nat,
         RecordVerificationRequested(at) \/ ReserveVerifiedPortal \/ RecordSuppression(at)
  PROVE  CaseTypeOK'
PROOF
<1>1. /\ at + ProcessingTicks \in Time /\ at \in Time
      /\ {"pending", "sent", "portal_requested"} \subseteq Outcomes
  BY DelaysAreNat, LaterIsTime DEF Outcomes
<1> USE StatesListed DEF CaseTypeOK
<1>2. CASE RecordVerificationRequested(at)
  BY <1>1, <1>2 DEF RecordVerificationRequested
<1>3. CASE ReserveVerifiedPortal
  BY <1>1, <1>3 DEF ReserveVerifiedPortal
<1>4. CASE RecordSuppression(at)
  BY <1>1, <1>4 DEF RecordSuppression
<1> QED
  BY <1>2, <1>3, <1>4

LEMMA LifecycleTyped ==
  ASSUME CaseTypeOK, now \in Nat,
         NEW to \in {"verification_pending", "awaiting_processing", "human_task_queued",
                     "blocked"},
         RecordLifecycle(to)
  PROVE  CaseTypeOK'
PROOF
<1>1. now + ProcessingTicks \in Time /\ now + DayTicks \in Time /\ Never \in Time
  BY DelaysAreNat, LaterIsTime
<1>2. PICK at \in Time : brokerCase' = [brokerCase EXCEPT !.state = to, !.recheck = at]
  <2>1. CASE to = "verification_pending"
    BY <1>1, <2>1 DEF RecordLifecycle
  <2>2. CASE to = "awaiting_processing"
    BY <1>1, <2>2 DEF RecordLifecycle
  <2>3. CASE to \in {"human_task_queued", "blocked"}
    BY <1>1, <2>3 DEF RecordLifecycle
  <2> QED
    BY <2>1, <2>2, <2>3
<1>3. to \in CaseStates
  BY StatesListed
<1> QED
  BY <1>2, <1>3 DEF CaseTypeOK

LEMMA ControllerTyped ==
  ASSUME CaseTypeOK, now \in Nat, NEW answer \in DOMAIN ControllerTarget,
         RecordControllerOutcome(answer)
  PROVE  CaseTypeOK'
PROOF
<1>1. now + ProcessingTicks \in Time /\ now \in Time /\ Never \in Time
  BY DelaysAreNat, LaterIsTime
<1>2. ControllerTarget[answer] \in CaseStates
  BY StatesListed DEF ControllerTarget
<1>3. "controller" \in Outcomes /\ "controller_response_only" \in Scopes
  BY DEF Outcomes, Scopes
<1>4. CASE answer = "acknowledged"
  BY <1>1, <1>2, <1>3, <1>4 DEF RecordControllerOutcome, CaseTypeOK
<1>5. CASE answer = "confirmed"
  BY <1>1, <1>2, <1>3, <1>5 DEF RecordControllerOutcome, CaseTypeOK
<1>6. CASE answer \notin {"acknowledged", "confirmed"}
  BY <1>1, <1>2, <1>3, <1>6 DEF RecordControllerOutcome, CaseTypeOK
<1> QED
  BY <1>4, <1>5, <1>6

===============================================================================
