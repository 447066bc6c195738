-------------------------- MODULE CaseLifecycleProofs ---------------------------
(* Proofs about CaseLifecycle for any number of rescans, listings and delays:  *)
(* the types, the inductive invariant, and that a removal is confirmed only by *)
(* two absences.  A section proves the deadlines of DropFiling, for any number *)
(* of calls, any start of the processing and any positive delays; the last one *)
(* the properties of CampaignLoop, for any campaigns that CampaignAssumption   *)
(* allows, any number of brokers, any delays and any grant.                    *)
EXTENDS CaseLifecycle, DropFiling, CampaignLoop, CaseLedgerProofs, WellFoundedInduction

-----------------------------------------------------------------------------
(* Types                                                                     *)

\* Channels a request may be reserved on are channels.
LEMMA RequestChannels == {"smtp_email", "browser_form"} \subseteq Channels
  BY DEF Channels

LEMMA ClockTyped ==
  ASSUME ClockTypeOK
  PROVE  /\ now \in Nat
         /\ ClockTicks => ClockTypeOK'
  BY ClockAssumption DEF ClockTypeOK, ClockTicks

LEMMA ScanTyped ==
  ASSUME TypeOK, NEW r \in Rescans,
         \/ RescanStarts(r) \/ RescanRecords(r) \/ RescanLost(r)
         \/ \E seen \in Observations : RescanReads(r, seen)
  PROVE  scan' \in [Rescans -> ScanRecord]
PROOF
<1>1. /\ scan \in [Rescans -> ScanRecord] /\ scan[r] \in ScanRecord /\ now \in Nat
      /\ IdleScan \in ScanRecord
  BY ClockTyped DEF TypeOK, ScanRecord, IdleScan
<1>2. CASE RescanStarts(r)
  BY <1>1, <1>2 DEF RescanStarts, ScanRecord
<1>3. CASE RescanRecords(r) \/ RescanLost(r)
  BY <1>1, <1>3 DEF RescanRecords, RescanLost
<1>4. CASE \E seen \in Observations : RescanReads(r, seen)
  <2>1. PICK seen \in Observations : RescanReads(r, seen)
    BY <1>4
  <2>2. [pc |-> "read", seen |-> seen, at |-> now] \in ScanRecord
    BY <1>1 DEF ScanRecord
  <2> QED
    BY <1>1, <2>1, <2>2 DEF RescanReads
<1> QED
  BY <1>2, <1>3, <1>4

LEMMA NextTyped ==
  ASSUME TypeOK, [Next]_vars
  PROVE  TypeOK'
PROOF
<1>1. now \in Nat /\ CaseTypeOK /\ ClockTypeOK
  BY ClockTyped DEF TypeOK
<1>2. CASE UNCHANGED vars
  BY <1>2 DEF vars, TypeOK, ClockTypeOK, CaseTypeOK
<1>3. ASSUME NEW r \in Rescans, RescanStarts(r) \/ RescanLost(r)
      PROVE  TypeOK'
  <2>1. scan' \in [Rescans -> ScanRecord]
    BY <1>3, ScanTyped
  <2>2. UNCHANGED <<now, brokerCase, captured, sent, absences>>
    BY <1>3 DEF RescanStarts, RescanLost
  <2> QED
    BY <2>1, <2>2 DEF TypeOK, ClockTypeOK, CaseTypeOK
<1>4. ASSUME NEW r \in Rescans, NEW seen \in Observations, RescanReads(r, seen)
      PROVE  TypeOK'
  <2>1. scan' \in [Rescans -> ScanRecord]
    BY <1>4, ScanTyped
  <2>2. UNCHANGED <<now, brokerCase, captured, sent, absences>>
    BY <1>4 DEF RescanReads
  <2> QED
    BY <2>1, <2>2 DEF TypeOK, ClockTypeOK, CaseTypeOK
<1>5. ASSUME NEW r \in Rescans, RescanRecords(r)
      PROVE  TypeOK'
  <2>1. scan' \in [Rescans -> ScanRecord] /\ scan[r].at \in Nat
    BY <1>5, ScanTyped DEF TypeOK, ScanRecord
  <2>2. CaseTypeOK'
    BY <1>1, <1>5, <2>1, RescansTyped DEF RescanRecords
  <2>3. absences' \subseteq Nat /\ UNCHANGED <<now, captured, sent>>
    BY <1>5, <2>1 DEF RescanRecords, TypeOK
  <2> QED
    BY <2>1, <2>2, <2>3 DEF TypeOK, ClockTypeOK
<1>6. CASE Discover
  <2>1. CaseTypeOK'
    BY <1>1, <1>6, ScansTyped DEF Discover
  <2>2. captured' \subseteq Listings /\ UNCHANGED <<now, scan, sent, absences>>
    BY <1>6 DEF Discover, TypeOK
  <2> QED
    BY <2>1, <2>2 DEF TypeOK, ClockTypeOK
<1>7. CASE RequestBegins \/ RequestFails \/ RequestSent \/ Verify \/ HandOff \/ Defer
  <2>1. CaseTypeOK'
    <3>1. CASE RequestBegins
      BY <1>1, <3>1, SubmissionsTyped, PortalTyped, RequestChannels DEF RequestBegins
    <3>2. CASE RequestFails
      <4>1. "smtp_email" \in Channels
        BY RequestChannels
      <4> QED
        BY <1>1, <3>2, <4>1, SubmissionsTyped DEF RequestFails
    <3>3. CASE RequestSent
      <4>1. "smtp_email" \in Channels
        BY RequestChannels
      <4> QED
        BY <1>1, <3>3, <4>1, SubmissionsTyped, PortalTyped DEF RequestSent
    <3>4. CASE Verify \/ HandOff
      BY <1>1, <3>4, LifecycleTyped DEF Verify, HandOff
    <3>5. CASE Defer
      <4>1. "smtp_email" \in Channels
        BY RequestChannels
      <4> QED
        BY <1>1, <3>5, <4>1, SubmissionsTyped DEF Defer
    <3> QED
      BY <1>7, <3>1, <3>2, <3>3, <3>4, <3>5
  <2>2. UNCHANGED <<now, scan, captured, absences>> /\ sent' \in BOOLEAN
    BY <1>7 DEF RequestBegins, RequestFails, RequestSent, Verify, HandOff, Defer, TypeOK
  <2> QED
    BY <2>1, <2>2 DEF TypeOK, ClockTypeOK
<1>8. CASE Tick
  BY <1>1, <1>8, ClockTyped DEF Tick, TypeOK, CaseTypeOK
<1> QED
  BY <1>2, <1>3, <1>4, <1>5, <1>6, <1>7, <1>8 DEF Next

\* Every variable of the life of a case keeps its type.
THEOREM TypeCorrect == Spec => []TypeOK
PROOF
<1>1. ASSUME Init
      PROVE  TypeOK
  <2>1. CaseTypeOK
    BY <1>1, StatesListed DEF Init, CaseInit, NewCase, CaseTypeOK, Outcomes, Scopes, Time
  <2>2. ClockTypeOK
    BY <1>1, ClockAssumption DEF Init, ClockInit, ClockTypeOK
  <2>3. scan \in [Rescans -> ScanRecord]
    BY <1>1 DEF Init, IdleScan, ScanRecord
  <2> QED
    BY <1>1, <2>1, <2>2, <2>3 DEF Init, TypeOK
<1>2. TypeOK /\ [Next]_vars => TypeOK'
  BY NextTyped
<1> QED
  BY <1>1, <1>2, PTL DEF Spec

-----------------------------------------------------------------------------
(* The inductive invariant                                                   *)

\* A report is recorded with the time at which it was read.
LEMMA RescanKeeps ==
  ASSUME TypeOK, LifecycleInv, NEW r \in Rescans, RescanRecords(r)
  PROVE  LifecycleInv'
PROOF
<1> DEFINE at == scan[r].at
<1>1. /\ at \in Nat /\ CaseTypeOK /\ sent' = sent /\ absences \subseteq Nat
      /\ at + WeekTicks \in Nat /\ at + RescanTicks \in Nat /\ at + DayTicks \in Nat
  BY DelaysAreNat DEF RescanRecords, TypeOK, ScanRecord
<1> HIDE DEF at
<1> USE <1>1 DEF LifecycleInv, ConfirmationDated, InFlightHasRecheck, RequestPrecedes,
                 ClockHasAbsence, CaseTypeOK, InFlight, Never
<1>2. CASE RecordPresent(at) /\ absences' = {}
  BY <1>2 DEF RecordPresent
<1>3. CASE RecordAbsent(at) /\ absences' = absences \cup {at}
  <2>1. CASE RecordFirstAbsence(at)
    BY <1>3, <2>1 DEF RecordFirstAbsence
  <2>2. CASE RecordEarlyAbsence(at)
    BY <1>3, <2>2 DEF RecordEarlyAbsence
  <2>3. CASE RecordSecondAbsence(at)
    BY <1>3, <2>3 DEF RecordSecondAbsence
  <2>4. CASE RecordUnpromptedAbsence(at)
    BY <1>3, <2>4 DEF RecordUnpromptedAbsence
  <2> QED
    BY <1>3, <2>1, <2>2, <2>3, <2>4 DEF RecordAbsent
<1>4. CASE RecordInconclusive(at) /\ UNCHANGED absences
  BY <1>4 DEF RecordInconclusive
<1> QED
  BY <1>2, <1>3, <1>4 DEF RescanRecords, at

LEMMA DiscoverKeeps ==
  ASSUME TypeOK, LifecycleInv, Discover
  PROVE  LifecycleInv'
PROOF
<1> USE DEF LifecycleInv, ConfirmationDated, InFlightHasRecheck, RequestPrecedes,
            ClockHasAbsence, CaseTypeOK, InFlight
<1>1. CaseTypeOK /\ UNCHANGED <<sent, absences>>
  BY DEF Discover, TypeOK
<1>2. ASSUME NEW result \in {"indirect_exposure", "inconclusive"},
             NEW listing, RecordScan(result, listing)
      PROVE  LifecycleInv'
  BY <1>1, <1>2 DEF RecordScan, ScanMutable
<1>3. ASSUME NEW listing, RecordBrowserDiscovery(listing)
      PROVE  LifecycleInv'
  BY <1>1, <1>3 DEF RecordBrowserDiscovery, DiscoveryProtected
<1> QED
  BY <1>2, <1>3 DEF Discover

LEMMA RequestKeeps ==
  ASSUME TypeOK, LifecycleInv, RequestBegins \/ RequestFails \/ RequestSent
  PROVE  LifecycleInv'
PROOF
<1> USE DEF LifecycleInv, ConfirmationDated, InFlightHasRecheck, RequestPrecedes,
            ClockHasAbsence, CaseTypeOK, InFlight, Never
<1>1. /\ CaseTypeOK /\ now \in Nat /\ UNCHANGED absences
      /\ now + DayTicks \in Nat /\ now + ProcessingTicks \in Nat
  <2>1. CaseTypeOK /\ now \in Nat
    BY ClockTyped DEF TypeOK
  <2>2. UNCHANGED absences
    BY DEF RequestBegins, RequestFails, RequestSent
  <2> QED
    BY <2>1, <2>2, DelaysAreNat
<1>2. CASE RequestBegins
  <2>1. ASSUME NEW channel, Reserve(channel, TRUE)
        PROVE  LifecycleInv'
    BY <1>1, <1>2, <2>1 DEF RequestBegins, Reserve, Submittable
  <2>2. CASE ReserveVerifiedPortal
    BY <1>1, <1>2, <2>2 DEF RequestBegins, ReserveVerifiedPortal
  <2> QED
    BY <1>2, <2>1, <2>2 DEF RequestBegins
<1>3. CASE RequestFails
  BY <1>1, <1>3 DEF RequestFails, Release, RecordUncertain, ReconcileNotStarted, Flagged
<1>4. CASE RequestSent
  <2>1. sent'
    BY <1>4 DEF RequestSent
  <2>2. CASE RecordRemoval(now)
    BY <1>1, <2>1, <2>2 DEF RecordRemoval
  <2>3. CASE RecordFormSubmission(now)
    BY <1>1, <2>1, <2>3 DEF RecordFormSubmission
  <2>4. CASE RecordVerificationRequested(now)
    BY <1>1, <2>1, <2>4 DEF RecordVerificationRequested
  <2>5. CASE RecordSuppression(now)
    BY <1>1, <2>1, <2>5 DEF RecordSuppression
  <2>6. CASE ReconcileConfirmed
    <3>1. CASE brokerCase.channel = "browser_form"
      BY <1>1, <2>1, <2>6, <3>1 DEF ReconcileConfirmed, Flagged
    <3>2. CASE brokerCase.channel # "browser_form"
      BY <1>1, <2>1, <2>6, <3>2 DEF ReconcileConfirmed, Flagged
    <3> QED
      BY <3>1, <3>2
  <2> QED
    BY <1>4, <2>2, <2>3, <2>4, <2>5, <2>6 DEF RequestSent
<1> QED
  BY <1>2, <1>3, <1>4

\* A confirmation is not left for the states the other tools record.
LEMMA LifecycleKeeps ==
  ASSUME TypeOK, LifecycleInv, Verify \/ HandOff
  PROVE  LifecycleInv'
PROOF
<1> USE DEF LifecycleInv, ConfirmationDated, InFlightHasRecheck, RequestPrecedes,
            ClockHasAbsence, CaseTypeOK, InFlight, Never
<1>1. /\ CaseTypeOK /\ now \in Nat /\ UNCHANGED <<sent, absences>>
      /\ now + DayTicks \in Nat /\ now + ProcessingTicks \in Nat
  BY ClockTyped, DelaysAreNat DEF TypeOK, Verify, HandOff
<1>2. Transitions["confirmed_removed"] = {"confirmed_removed", "reappeared"}
  BY DEF Transitions
<1>3. ASSUME sent, RecordLifecycle("verification_pending")
      PROVE  LifecycleInv'
  BY <1>1, <1>2, <1>3 DEF RecordLifecycle, CanMove
<1>4. ASSUME sent, RecordLifecycle("awaiting_processing")
      PROVE  LifecycleInv'
  BY <1>1, <1>2, <1>4 DEF RecordLifecycle, CanMove
<1>5. ASSUME NEW to \in {"blocked", "human_task_queued"}, RecordLifecycle(to)
      PROVE  LifecycleInv'
  BY <1>1, <1>2, <1>5 DEF RecordLifecycle, CanMove
<1> QED
  BY <1>3, <1>4, <1>5 DEF Verify, HandOff

LEMMA NextKeepsInv ==
  ASSUME TypeOK, LifecycleInv, [Next]_vars
  PROVE  LifecycleInv'
PROOF
<1>1. ASSUME UNCHANGED <<brokerCase, sent, absences>>
      PROVE  LifecycleInv'
  BY <1>1 DEF LifecycleInv, ConfirmationDated, InFlightHasRecheck, RequestPrecedes,
     ClockHasAbsence
<1>2. CASE UNCHANGED vars \/ Tick
  BY <1>1, <1>2 DEF vars, Tick
<1>3. CASE \E r \in Rescans : \/ RescanStarts(r) \/ RescanLost(r)
                            \/ \E seen \in Observations : RescanReads(r, seen)
  BY <1>1, <1>3 DEF RescanStarts, RescanLost, RescanReads
<1>4. CASE \E r \in Rescans : RescanRecords(r)
  BY <1>4, RescanKeeps
<1>5. CASE Discover
  BY <1>5, DiscoverKeeps
<1>6. CASE RequestBegins \/ RequestFails \/ RequestSent
  BY <1>6, RequestKeeps
<1>7. CASE Verify \/ HandOff
  BY <1>7, LifecycleKeeps
<1>8. CASE Defer
  <2>1. /\ brokerCase' = [brokerCase EXCEPT !.recheck = now + DayTicks]
        /\ UNCHANGED <<sent, absences>> /\ CaseTypeOK /\ now + DayTicks \in Nat
    BY <1>8, ClockTyped, DelaysAreNat DEF Defer, DeferRecheck, TypeOK
  <2> QED
    BY <2>1 DEF LifecycleInv, ConfirmationDated, InFlightHasRecheck, RequestPrecedes,
       ClockHasAbsence, CaseTypeOK, Never
<1> QED
  BY <1>2, <1>3, <1>4, <1>5, <1>6, <1>7, <1>8 DEF Next

\* Requests, dates and absences of a case agree in every reachable state.
THEOREM LifecycleInvariant == Spec => []LifecycleInv
PROOF
<1>1. ASSUME Init
      PROVE  LifecycleInv
  BY <1>1 DEF Init, CaseInit, NewCase, LifecycleInv, ConfirmationDated, InFlightHasRecheck,
     RequestPrecedes, ClockHasAbsence, InFlight
<1>2. TypeOK /\ LifecycleInv /\ [Next]_vars => LifecycleInv'
  BY NextKeepsInv
<1> QED
  BY <1>1, <1>2, TypeCorrect, PTL DEF Spec

\* No request is in flight without a recheck date that brings it back to the planner.
THEOREM NeverForgotten == Spec => []InFlightHasRecheck
PROOF
<1>1. LifecycleInv => InFlightHasRecheck
  BY DEF LifecycleInv
<1> QED
  BY <1>1, LifecycleInvariant, PTL

\* A confirmed removal is dated, and no case that a presence has refuted keeps the date.
THEOREM ConfirmationStands == Spec => []ConfirmationDated
PROOF
<1>1. LifecycleInv => ConfirmationDated
  BY DEF LifecycleInv
<1> QED
  BY <1>1, LifecycleInvariant, PTL

\* No case is in flight, removed or reappeared without a request that was sent.
THEOREM RequestFirst == Spec => []RequestPrecedes
PROOF
<1>1. LifecycleInv => RequestPrecedes
  BY DEF LifecycleInv
<1> QED
  BY <1>1, LifecycleInvariant, PTL

\* A case is confirmed only after a request, and only by a second absence, read
\* later than a first one that no presence has refuted and not before the recheck.
THEOREM ConfirmedTwice == Spec => ConfirmedByTwoAbsences
PROOF
<1> DEFINE Confirms ==
      brokerCase.state # "confirmed_removed" /\ brokerCase'.state = "confirmed_removed"
    Grounded ==
      /\ sent
      /\ \E first \in absences : first < brokerCase'.confirmedAt
      /\ brokerCase.recheck \in 0 .. brokerCase'.confirmedAt
<1>1. ASSUME TypeOK, LifecycleInv, Next, Confirms
      PROVE  Grounded
  <2>1. /\ CaseTypeOK /\ CaseTypeOK' /\ brokerCase.state \in CaseStates
        /\ Transitions["confirmed_removed"] = {"confirmed_removed", "reappeared"}
    BY <1>1, NextTyped DEF TypeOK, CaseTypeOK, Transitions
  <2>2. PICK r \in Rescans : RescanRecords(r)
    <3> USE <1>1, <2>1 DEF CaseTypeOK
    <3>1. CASE Discover
      BY <3>1 DEF Discover, RecordScan, RecordBrowserDiscovery
    <3>2. CASE RequestBegins \/ RequestFails
      BY <3>2 DEF RequestBegins, RequestFails, Reserve, ReserveVerifiedPortal, Release,
         RecordUncertain, ReconcileNotStarted
    <3>3. CASE RequestSent
      BY <3>3 DEF RequestSent, RecordRemoval, RecordFormSubmission,
         RecordVerificationRequested, RecordSuppression, ReconcileConfirmed
    <3>4. CASE Verify \/ HandOff
      BY <3>4 DEF Verify, HandOff, RecordLifecycle
    <3>5. CASE Defer \/ Tick
      BY <3>5 DEF Defer, DeferRecheck, Tick
    <3>6. CASE \E r \in Rescans : \/ RescanStarts(r) \/ RescanLost(r)
                                \/ \E seen \in Observations : RescanReads(r, seen)
      BY <3>6 DEF RescanStarts, RescanLost, RescanReads
    <3> QED
      BY <3>1, <3>2, <3>3, <3>4, <3>5, <3>6 DEF Next
  <2> DEFINE at == scan[r].at
  <2>3. at \in Nat
    BY <1>1, <2>2 DEF TypeOK, ScanRecord
  <2>4. RecordSecondAbsence(at)
    <3> USE <1>1, <2>1 DEF CaseTypeOK
    <3>1. ~RecordPresent(at) /\ ~RecordInconclusive(at)
      BY DEF RecordPresent, RecordInconclusive
    <3>2. ~RecordFirstAbsence(at) /\ ~RecordEarlyAbsence(at) /\ ~RecordUnpromptedAbsence(at)
      BY DEF RecordFirstAbsence, RecordEarlyAbsence, RecordUnpromptedAbsence
    <3> QED
      BY <2>2, <3>1, <3>2 DEF RescanRecords, RecordAbsent
  <2>5. /\ brokerCase.state \in InFlight /\ brokerCase.absentAt # Never /\ AbsenceDue(at)
        /\ brokerCase'.confirmedAt = at
    BY <1>1, <2>1, <2>4 DEF RecordSecondAbsence, CaseTypeOK
  <2>6. brokerCase.recheck \in Nat /\ brokerCase.absentAt \in absences /\ sent
    BY <1>1, <2>1, <2>5 DEF CaseTypeOK, Time, AbsenceDue, LifecycleInv, ClockHasAbsence,
       RequestPrecedes
  <2> QED
    BY <2>3, <2>5, <2>6 DEF AbsenceDue
<1>2. TypeOK /\ LifecycleInv /\ [Next]_vars => [Confirms => Grounded]_vars
  BY <1>1
<1> QED
  BY <1>2, TypeCorrect, LifecycleInvariant, PTL DEF Spec, ConfirmedByTwoAbsences

-----------------------------------------------------------------------------
(* DROP filings                                                              *)

\* What a filing holds.
Filing ==
  [state : {"new", "submitted", "awaiting_processing", "human_task_queued"},
   status : Statuses \cup {"none", "filed"}, proof : Nat, at : Time, deadline : Time,
   recheck : Time]

\* Of a filing the deadline stands from its first day, some way past the start
\* of the processing; who has looked at it, has looked already.
DeadlineSet ==
  IF filing.state = "new" THEN filing.deadline = Never
  ELSE /\ filing.deadline \in Nat /\ filing.deadline >= ProcessingStart
       /\ filing.at \in 0 .. now

DropInv == ClockTypeOK /\ filing \in Filing /\ DeadlineSet /\ FilingWatched

LEMMA DropInvInit == ClockInit /\ DropInit => DropInv
BY ClockAssumption
   DEF ClockInit, DropInit, DropInv, ClockTypeOK, Filing, NoFiling, DeadlineSet, FilingWatched,
       InFlight, Time, Statuses

\* The moves of the table that a status can ask for.
LEMMA StatusMoves ==
  ASSUME filing \in Filing, NEW status \in Statuses, Observable(status)
  PROVE  /\ filing.state # "new"
         /\ filing.state = "awaiting_processing" => StatusTarget(status) # "submitted"
BY DEF Observable, StatusTarget, Filing, Transitions

\* A filing just recorded is looked at before its deadline.
LEMMA FirstLook ==
  ASSUME now \in Nat
  PROVE  /\ OrdinaryDeadline(now) \in Nat /\ FirstStatusCheck(now) \in Nat
         /\ OrdinaryDeadline(now) >= ProcessingStart
         /\ FirstStatusCheck(now) > now /\ FirstStatusCheck(now) >= ProcessingStart
         /\ FirstStatusCheck(now) <= OrdinaryDeadline(now)
BY DropAssumption DEF OrdinaryDeadline, FirstStatusCheck, Earlier

\* So is one whose status has just been seen, unless a person takes it over.
LEMMA NextLook ==
  ASSUME now \in Nat, filing.deadline \in Nat, filing.deadline >= ProcessingStart,
         NEW status \in Statuses, status = "deleted" => now >= ProcessingStart,
         StatusTarget(status) # "human_task_queued"
  PROVE  /\ NextStatusCheck(status) \in Nat
         /\ NextStatusCheck(status) > now /\ NextStatusCheck(status) >= ProcessingStart
         /\ status # "deleted" => NextStatusCheck(status) <= filing.deadline
BY DropAssumption DEF NextStatusCheck, StatusTarget, Earlier, Statuses

LEMMA FiledKeeps ==
  ASSUME DropInv, NEW c \in Calls, RecordFiled(c)
  PROVE  DropInv' /\ (filing.deadline # Never => filing'.deadline = filing.deadline)
<1>1. now \in Nat /\ now' = now BY ClockAssumption DEF RecordFiled, DropInv, ClockTypeOK
<1>2. CASE filing' = filing
  BY <1>1, <1>2 DEF DropInv, ClockTypeOK, DeadlineSet, FilingWatched
<1>3. CASE filing' # filing
  <2>1. /\ Fileable
        /\ filing' = [state |-> IF now < ProcessingStart THEN "submitted" ELSE "awaiting_processing",
             status |-> "filed", proof |-> filing.proof + 1, at |-> now,
             deadline |-> OrdinaryDeadline(now), recheck |-> FirstStatusCheck(now)]
    BY <1>3 DEF RecordFiled
  <2>2. filing.deadline = Never
    BY <2>1 DEF Fileable, DropInv, Filing, DeadlineSet
  <2>3. filing' \in Filing
    BY <1>1, <2>1, FirstLook DEF DropInv, Filing, Time, Statuses
  <2>4. DeadlineSet'
    BY <1>1, <2>1, FirstLook DEF DeadlineSet
  <2>5. FilingWatched'
    BY <1>1, <2>1, FirstLook, DropAssumption DEF FilingWatched, InFlight
  <2> QED BY <1>1, <2>2, <2>3, <2>4, <2>5 DEF DropInv, ClockTypeOK
<1> QED BY <1>2, <1>3

LEMMA StatusKeeps ==
  ASSUME DropInv, NEW c \in Calls, RecordStatus(c)
  PROVE  DropInv' /\ filing'.deadline = filing.deadline
<1>1. now \in Nat /\ now' = now BY ClockAssumption DEF RecordStatus, DropInv, ClockTypeOK
<1>2. CASE filing' = filing
  BY <1>1, <1>2 DEF DropInv, ClockTypeOK, DeadlineSet, FilingWatched
<1>3. CASE filing' # filing
  <2> DEFINE status == call[c].kind
             target == StatusTarget(status)
  <2>1. /\ status \in Statuses /\ Observable(status)
        /\ filing' = [filing EXCEPT !.state = target, !.status = status,
             !.proof = @ + 1, !.at = now,
             !.recheck = IF target = "human_task_queued" THEN Never ELSE NextStatusCheck(status)]
    BY <1>3 DEF RecordStatus
  <2>2. /\ filing.state # "new" /\ filing \in Filing /\ filing.deadline \in Nat
        /\ filing.deadline >= ProcessingStart
    BY <2>1, StatusMoves DEF DropInv, DeadlineSet
  <2>3. /\ target \in {"human_task_queued", "awaiting_processing", "submitted"}
        /\ target = "submitted" => now < ProcessingStart
        /\ target = "awaiting_processing" => now >= ProcessingStart
    BY <1>1, DropAssumption DEF StatusTarget
  <2>4. status = "deleted" => now >= ProcessingStart BY <2>1 DEF Observable
  <2> HIDE DEF status, target
  <2>5. target # "human_task_queued" =>
          /\ NextStatusCheck(status) \in Nat
          /\ NextStatusCheck(status) > now /\ NextStatusCheck(status) >= ProcessingStart
          /\ status # "deleted" => NextStatusCheck(status) <= filing.deadline
    BY <1>1, <2>1, <2>2, <2>4, NextLook DEF target
  <2>6. /\ filing'.state = target /\ filing'.status = status /\ filing'.at = now
        /\ filing'.deadline = filing.deadline
        /\ target # "human_task_queued" => filing'.recheck = NextStatusCheck(status)
    BY <2>1, <2>2 DEF Filing
  <2>7. filing' \in Filing
    <3>1. filing.proof + 1 \in Nat /\ now \in Time /\ status \in Statuses \cup {"none", "filed"}
      BY <1>1, <2>1, <2>2 DEF Filing, Time
    <3>2. (IF target = "human_task_queued" THEN Never ELSE NextStatusCheck(status)) \in Time
      BY <2>5 DEF Time
    <3> QED BY <2>1, <2>2, <2>3, <3>1, <3>2 DEF Filing
  <2>8. DeadlineSet' BY <1>1, <2>2, <2>3, <2>6 DEF DeadlineSet
  <2>9. FilingWatched'
    BY <1>1, <2>3, <2>5, <2>6, DropAssumption DEF FilingWatched, InFlight
  <2> QED BY <1>1, <2>6, <2>7, <2>8, <2>9 DEF DropInv, ClockTypeOK
<1> QED BY <1>2, <1>3

LEMMA OthersKeep ==
  ASSUME DropInv, filing' = filing, now' = now \/ ClockTicks
  PROVE  DropInv'
<1>1. now \in Nat /\ now' \in Nat /\ now' >= now /\ ClockTypeOK'
  BY ClockAssumption DEF DropInv, ClockTypeOK, ClockTicks
<1> QED BY <1>1 DEF DropInv, DeadlineSet, FilingWatched

LEMMA DropStep ==
  DropInv /\ [DropNext]_<<now, dropVars>> =>
    DropInv' /\ (filing.deadline # Never => filing'.deadline = filing.deadline)
<1> SUFFICES ASSUME DropInv, [DropNext]_<<now, dropVars>>
             PROVE  DropInv' /\ (filing.deadline # Never => filing'.deadline = filing.deadline)
  OBVIOUS
<1>1. CASE \E c \in Calls, kind \in Kinds : Ask(c, kind)
  BY <1>1, OthersKeep DEF Ask
<1>2. ASSUME NEW c \in Calls, Clear(c) \/ Refuse(c) \/ RecordPreference(c)
      PROVE  DropInv' /\ filing' = filing
  BY <1>2, OthersKeep DEF Clear, Refuse, RecordPreference
<1>3. ASSUME NEW c \in Calls, RecordFiled(c)
      PROVE  DropInv' /\ (filing.deadline # Never => filing'.deadline = filing.deadline)
  BY <1>3, FiledKeeps
<1>4. ASSUME NEW c \in Calls, RecordStatus(c)
      PROVE  DropInv' /\ filing'.deadline = filing.deadline
  BY <1>4, StatusKeeps
<1>5. CASE GatewayRestart \/ (ClockTicks /\ UNCHANGED dropVars) \/ UNCHANGED <<now, dropVars>>
  BY <1>5, OthersKeep DEF GatewayRestart, dropVars
<1> QED BY <1>1, <1>2, <1>3, <1>4, <1>5 DEF DropNext

\* Whatever statuses are recorded, at any time and by any overlapping calls, a
\* filing in flight has a next look on the right side of its deadline.
THEOREM FilingsWatched == DropSpec => []FilingWatched
<1>1. DropInv => FilingWatched BY DEF DropInv
<1> QED BY <1>1, DropInvInit, DropStep, PTL DEF DropSpec

\* No later call moves the deadline a person was promised at the filing.
THEOREM PromisedDeadlineStands == DropSpec => DeadlineStands
<1>1. DropInv /\ [DropNext]_<<now, dropVars>> =>
        [filing.deadline # Never => filing'.deadline = filing.deadline]_dropVars
  BY DropStep
<1> QED BY <1>1, DropInvInit, DropStep, PTL DEF DropSpec, DeadlineStands

-----------------------------------------------------------------------------
(* The campaign loop, for any brokers, campaigns, delays and grant.           *)

LEMMA LeastMember ==
  ASSUME NEW S \in SUBSET Nat, S # {}
  PROVE  \E b \in S : \A c \in S : b <= c
<1> DEFINE Less == OpToRel(<, Nat)
<1>1. IsWellFoundedOn(Less, Nat)
  BY NatLessThanWellFounded
<1>2. \E b \in S : \A c \in S : <<c, b>> \notin Less
  BY <1>1, WFMin
<1>3. \A b, c \in Nat : <<c, b>> \notin Less => b <= c
  BY DEF OpToRel
<1> QED BY <1>2, <1>3

LEMMA FirstIsMember ==
  ASSUME NEW S \in SUBSET Nat, S # {}
  PROVE  First(S) \in S
BY LeastMember DEF First

\* What a command says of the case of a broker that it names.
Row(cases, at, b, tool) ==
  /\ tool = "live_scan" => cases[b].state \notin ActiveSubmissionStates
  /\ tool = "cloud_discovery" => cases[b].state = "blocked"
  /\ tool \in Submissions => cases[b].state \in ActionableStates
  /\ tool = "begin_discovery" => cases[b].state \in ActionableStates /\ ~cases[b].listing
  /\ tool = "direct_rescan" => cases[b].state = "indirect_exposure" \/ b \in Due(cases, at)
  /\ tool \in Polls => b \in Due(cases, at)

LEMMA ActionSteps ==
  ASSUME NEW g, NEW cases, NEW b, ActionStep(g, cases, b) \in Commands
  PROVE  \/ ActionStep(g, cases, b) \in {"submit_parity_email", "begin_webmail", "begin_form"}
         \/ ActionStep(g, cases, b) = "direct_rescan" /\ cases[b].state = "indirect_exposure"
         \/ ActionStep(g, cases, b) = "begin_discovery" /\ ~cases[b].listing
BY DEF ActionStep, Commands

LEMMA DueSteps ==
  ASSUME NEW g, NEW cases, NEW b, DueStep(g, cases, b) \in Commands
  PROVE  DueStep(g, cases, b) \in {"direct_rescan", "poll_verification", "begin_webmail_verification"}
BY DEF DueStep, Commands

LEMMA OldestExists ==
  ASSUME NEW cases, NEW T, T # {}, \A b \in T : cases[b].recheck \in Nat
  PROVE  \E b \in T : \A c \in T : cases[b].recheck <= cases[c].recheck
<1> DEFINE dates == {cases[b].recheck : b \in T}
<1>1. dates \in SUBSET Nat /\ dates # {}
  OBVIOUS
<1>2. PICK d \in dates : \A e \in dates : d <= e
  BY <1>1, LeastMember
<1> QED BY <1>2

LEMMA ParityRow ==
  ASSUME Brokers \subseteq Nat \ {0}, NEW g, NEW cases, NEW at,
         \A b \in Brokers : cases[b].recheck \in Time,
         NEW b \in Brokers, b \in ParityNext(g, cases, at).brokers,
         NEW tool, tool = ParityNext(g, cases, at).tool,
         ParityNext(g, cases, at).kind = "execute_tool" \/ tool \in Commands
  PROVE  tool \in Commands /\ Row(cases, at, b, tool)
<1> DEFINE uncertain == {c \in Brokers : cases[c].state \in Flagged}
           blocked == {c \in Brokers :
             /\ cases[c].state = "blocked" /\ g.cloudRetry /\ g.browser # "remote_cloud_cdp"
             /\ "publisher_discover" \in g.effects /\ g.route[c].source = "observed"}
           unscanned == {c \in Undiscovered(cases) : ~g.route[c].restricted}
           acting == {c \in Brokers : /\ cases[c].state \in ActionableStates
                                      /\ ActionStep(g, cases, c) \in Commands}
           checking == {c \in Due(cases, at) : DueStep(g, cases, c) \in Commands}
           leading == IF acting \cap g.heads = {} THEN acting ELSE acting \cap g.heads
           oldest == {c \in checking : \A d \in checking : cases[c].recheck <= cases[d].recheck}
           plan == IF uncertain # {} THEN HumanGate({First(uncertain)})
     ELSE IF blocked # {} THEN Command("cloud_discovery", {First(blocked)})
     ELSE IF unscanned # {} /\ "discover" \in g.effects THEN Command("live_scan", Batch(unscanned))
     ELSE IF acting # {} THEN Command(ActionStep(g, cases, First(leading)), {First(leading)})
     ELSE IF checking # {} THEN Command(DueStep(g, cases, First(oldest)), {First(oldest)})
     ELSE Done
<1>1. plan.tool = tool /\ b \in plan.brokers /\ (plan.kind = "execute_tool" \/ tool \in Commands)
  BY DEF ParityNext
<1> HIDE DEF uncertain, blocked, unscanned, acting, checking, leading, oldest
<1>2. CASE uncertain # {}
  BY <1>1, <1>2 DEF HumanGate, Commands
<1>3. CASE uncertain = {} /\ blocked # {}
  <2>1. blocked \in SUBSET Nat
    BY DEF blocked
  <2>2. tool = "cloud_discovery" /\ b = First(blocked)
    BY <1>1, <1>3 DEF Command
  <2>3. b \in blocked
    BY <1>3, <2>1, <2>2, FirstIsMember
  <2>4. cases[b].state = "blocked"
    BY <2>3 DEF blocked
  <2> QED BY <2>2, <2>4 DEF Row, Submissions, Polls, Commands
<1>4. CASE uncertain = {} /\ blocked = {} /\ unscanned # {} /\ "discover" \in g.effects
  <2>1. tool = "live_scan" /\ b \in Batch(unscanned)
    BY <1>1, <1>4 DEF Command
  <2>2. cases[b].state \notin ActiveSubmissionStates
    BY <2>1 DEF Batch, unscanned, Undiscovered
  <2> QED BY <2>1, <2>2 DEF Row, Submissions, Polls, Commands
<1>5. CASE /\ uncertain = {} /\ blocked = {} /\ ~ (unscanned # {} /\ "discover" \in g.effects)
           /\ acting # {}
  <2>1. leading \in SUBSET Nat /\ leading # {} /\ leading \subseteq acting
    BY <1>5 DEF leading, acting
  <2>2. b = First(leading) /\ tool = ActionStep(g, cases, b)
    BY <1>1, <1>5 DEF Command
  <2>3. b \in acting
    BY <2>1, <2>2, FirstIsMember
  <2>4. cases[b].state \in ActionableStates /\ ActionStep(g, cases, b) \in Commands
    BY <2>3 DEF acting
  <2> QED BY <2>2, <2>4, ActionSteps DEF Row, Submissions, Polls
<1>6. CASE /\ uncertain = {} /\ blocked = {} /\ ~ (unscanned # {} /\ "discover" \in g.effects)
           /\ acting = {} /\ checking # {}
  <2>1. checking \in SUBSET Nat /\ \A c \in checking : cases[c].recheck \in Nat
    BY DEF checking, Due, Time
  <2>2. oldest \in SUBSET Nat /\ oldest # {}
    BY <1>6, <2>1, OldestExists DEF oldest
  <2>3. b = First(oldest) /\ tool = DueStep(g, cases, b)
    BY <1>1, <1>6 DEF Command
  <2>4. b \in checking
    BY <2>2, <2>3, FirstIsMember DEF oldest
  <2>5. b \in Due(cases, at) /\ DueStep(g, cases, b) \in Commands
    BY <2>4 DEF checking
  <2> QED BY <2>3, <2>5, DueSteps DEF Row, Submissions
<1>7. CASE /\ uncertain = {} /\ blocked = {} /\ ~ (unscanned # {} /\ "discover" \in g.effects)
           /\ acting = {} /\ checking = {}
  BY <1>1, <1>7 DEF Done, Commands
<1> QED BY <1>2, <1>3, <1>4, <1>5, <1>6, <1>7

\* A command of the planner finds the case of each broker it names in the row of
\* its plan that the command belongs to.
LEMMA PlanRow ==
  ASSUME Brokers \subseteq Nat \ {0}, NEW g, NEW cases, NEW at,
         \A b \in Brokers : cases[b].recheck \in Time,
         NEW b \in Brokers, b \in CampaignNext(g, cases, at).brokers,
         NEW tool, tool = CampaignNext(g, cases, at).tool,
         CampaignNext(g, cases, at).kind = "execute_tool" \/ tool \in Commands
  PROVE  tool \in Commands /\ Row(cases, at, b, tool)
<1>1. CASE g.effects = {"discover"}
  <2>1. tool = "live_scan" /\ b \in Undiscovered(cases)
    BY <1>1 DEF CampaignNext, GlobalScanNext, Command, Done, Batch, Commands
  <2> QED BY <2>1 DEF Row, Submissions, Polls, Undiscovered, Commands
<1>2. CASE g.effects # {"discover"}
  BY <1>2, ParityRow DEF CampaignNext
<1> QED BY <1>1, <1>2

-----------------------------------------------------------------------------
(* What the ledger shows the planner of the case of Me.                       *)

CasesOf(g, case) == [b \in Brokers |-> IF b = Me THEN Shown(case) ELSE g.standing[b]]
IsDue(case, at) == case.recheck # Never /\ case.recheck <= at

\* The rows of the plan again, for the case of Me.
Fits(case, at, tool) ==
  /\ tool = "live_scan" => case.state \notin ActiveSubmissionStates
  /\ tool = "cloud_discovery" => case.state = "blocked"
  /\ tool \in Submissions => case.state \in ActionableStates
  /\ tool = "begin_discovery" => case.state \in ActionableStates /\ case.listing = NoListing
  /\ tool = "direct_rescan" => case.state = "indirect_exposure" \/ IsDue(case, at)
  /\ tool \in Polls => IsDue(case, at)

LEMMA CaseOfMe ==
  ASSUME CampaignAssumption, NEW g, NEW case, NEW at
  PROVE  /\ CasesOf(g, case)[Me] = Shown(case)
         /\ Me \in Due(CasesOf(g, case), at) <=> IsDue(case, at)
<1>1. Me \in Brokers
  BY DEF CampaignAssumption
<1>2. CasesOf(g, case)[Me] = Shown(case)
  BY <1>1 DEF CasesOf
<1> QED BY <1>1, <1>2 DEF Shown, Due, IsDue

LEMMA PlanFits ==
  ASSUME CampaignAssumption, NEW g \in Campaigns, NEW case, case.recheck \in Time, NEW at,
         Me \in CampaignNext(g, CasesOf(g, case), at).brokers,
         NEW tool, tool = CampaignNext(g, CasesOf(g, case), at).tool,
         CampaignNext(g, CasesOf(g, case), at).kind = "execute_tool" \/ tool \in Commands
  PROVE  tool \in Commands /\ Fits(case, at, tool)
<1> DEFINE cases == CasesOf(g, case)
<1>1. Brokers \subseteq Nat \ {0} /\ Me \in Brokers /\ g.standing \in [Brokers \ {Me} -> Standing]
  BY DEF CampaignAssumption
<1>2. ASSUME NEW b \in Brokers PROVE cases[b].recheck \in Time
  <2>0. cases[Me] = Shown(case) /\ Shown(case).recheck = case.recheck
    BY CaseOfMe DEF Shown
  <2>1. CASE b = Me
    BY <2>0, <2>1
  <2>2. CASE b # Me
    <3>1. cases[b] = g.standing[b] /\ g.standing[b] \in Standing
      BY <1>1, <2>2 DEF CasesOf
    <3> QED BY <3>1 DEF Standing
  <2> QED BY <2>1, <2>2
<1> HIDE DEF cases
<1>3. tool \in Commands /\ Row(cases, at, Me, tool)
  BY <1>1, <1>2, PlanRow DEF cases
<1>4. cases[Me] = Shown(case) /\ (Me \in Due(cases, at) <=> IsDue(case, at))
  BY CaseOfMe DEF cases
<1>5. Shown(case).state = case.state /\ Shown(case).listing = (case.listing # NoListing)
  BY DEF Shown
<1> QED BY <1>3, <1>4, <1>5 DEF Row, Fits

-----------------------------------------------------------------------------
(* The inductive invariant                                                    *)

\* How a step of the loop may move the case: one operation of the ledger, at
\* the present tick; the clock ticks only between the commands.
CaseMoves ==
  \/ UNCHANGED brokerCase
  \/ \E result \in {"indirect_exposure", "inconclusive"}, listing \in Listings \cup {NoListing} :
       RecordScan(result, listing)
  \/ \E listing \in Listings : RecordBrowserDiscovery(listing)
  \/ RecordPresent(now) \/ RecordAbsent(now) \/ RecordInconclusive(now)
  \/ \E channel \in Channels :
       \/ Reserve(channel, FALSE) \/ Release \/ RecordUncertain(channel)
       \/ RecordRemoval(now) \/ RecordFormSubmission(now)
       \/ ReconcileNotStarted \/ ReconcileConfirmed \/ DeferRecheck
  \/ \E to \in {"awaiting_processing", "human_task_queued", "blocked"} : RecordLifecycle(to)

LEMMA LoopMovesCase ==
  ASSUME LoopNext
  PROVE  /\ UNCHANGED campaign
         /\ \/ now' = now /\ CaseMoves
            \/ ClockTicks /\ brokerCase' = brokerCase
<1>1. Channel \in Channels /\ "smtp_email" \in Channels
  BY DEF Channel, Channels
<1>2. CASE AskNext \/ Charge \/ Ineligible \/ Leave \/ SubmitRefused
  BY <1>2 DEF AskNext, Charge, Ineligible, Leave, SubmitRefused, CaseMoves
<1>3. CASE Announce \/ PrimaryBlocked \/ DraftInDoubt \/ LinkForPerson \/ LinkOpened
  BY <1>3 DEF Announce, PrimaryBlocked, DraftInDoubt, LinkForPerson, LinkOpened, CaseMoves
<1>4. CASE Scan
  BY <1>4 DEF Scan, CaseMoves
<1>5. CASE Discovery
  BY <1>5 DEF Discovery, CaseMoves
<1>6. CASE Rescan
  BY <1>6 DEF Rescan, CaseMoves
<1>7. CASE Submit \/ Sent \/ InDoubt \/ NotSent
  BY <1>1, <1>7 DEF Submit, Sent, InDoubt, NotSent, CaseMoves
<1>8. CASE MailboxEmpty \/ Review
  BY <1>1, <1>8 DEF MailboxEmpty, Review, CaseMoves
<1>9. CASE NextDay
  BY <1>9 DEF NextDay
<1> QED BY <1>2, <1>3, <1>4, <1>5, <1>6, <1>7, <1>8, <1>9 DEF LoopNext

LEMMA MovesTyped ==
  ASSUME CaseTypeOK, now \in Nat, CaseMoves
  PROVE  CaseTypeOK'
<1>1. CASE UNCHANGED brokerCase
  BY <1>1 DEF CaseTypeOK
<1>2. CASE \E result \in {"indirect_exposure", "inconclusive"},
              listing \in Listings \cup {NoListing} : RecordScan(result, listing)
  BY <1>2, ScansTyped
<1>3. CASE \E listing \in Listings : RecordBrowserDiscovery(listing)
  BY <1>3, ScansTyped
<1>4. CASE RecordPresent(now) \/ RecordAbsent(now) \/ RecordInconclusive(now)
  BY <1>4, RescansTyped
<1>5. CASE \E channel \in Channels :
             \/ Reserve(channel, FALSE) \/ Release \/ RecordUncertain(channel)
             \/ RecordRemoval(now) \/ RecordFormSubmission(now)
             \/ ReconcileNotStarted \/ ReconcileConfirmed \/ DeferRecheck
  BY <1>5, SubmissionsTyped
<1>6. CASE \E to \in {"awaiting_processing", "human_task_queued", "blocked"} :
             RecordLifecycle(to)
  BY <1>6, LifecycleTyped
<1> QED BY <1>1, <1>2, <1>3, <1>4, <1>5, <1>6 DEF CaseMoves

\* Dated(case, at): the invariant LoopDated, of any case at any time.
Dated(case, at) ==
  /\ case.state \notin {"partially_removed", "request_rejected"}
  /\ case.state \in InFlight \cup {"confirmed_removed"} => case.recheck # Never
  /\ case.absentAt <= at
  /\ case.absentAt # Never /\ case.recheck # Never => case.absentAt < case.recheck

LEMMA MovesDated ==
  ASSUME CaseTypeOK, now \in Nat, Dated(brokerCase, now), CaseMoves
  PROVE  Dated(brokerCase', now)
<1>1. /\ now + DayTicks \in Nat /\ now + WeekTicks \in Nat /\ now + ProcessingTicks \in Nat
      /\ now + RescanTicks \in Nat
      /\ now < now + DayTicks /\ now < now + WeekTicks /\ now < now + ProcessingTicks
      /\ now < now + RescanTicks
  BY CaseAssumption
<1>2. brokerCase \in [state : CaseStates, channel : Channels \cup {"none"}, outcome : Outcomes,
                  recheck : Time, absentAt : Time, confirmedAt : Time, scope : Scopes,
                  listing : Listings \cup {NoListing}]
  BY DEF CaseTypeOK
<1> USE <1>2 DEF Dated, Time, Never
<1>3. CASE UNCHANGED brokerCase
  BY <1>3
<1>4. CASE \E result \in {"indirect_exposure", "inconclusive"},
              listing \in Listings \cup {NoListing} : RecordScan(result, listing)
  BY <1>4 DEF RecordScan, InFlight
<1>5. CASE \E listing \in Listings : RecordBrowserDiscovery(listing)
  BY <1>5 DEF RecordBrowserDiscovery, InFlight
<1>6. CASE RecordPresent(now)
  BY <1>6 DEF RecordPresent, InFlight
<1>7. CASE RecordFirstAbsence(now)
  BY <1>1, <1>7 DEF RecordFirstAbsence, InFlight
<1>8. CASE RecordEarlyAbsence(now)
  BY <1>8 DEF RecordEarlyAbsence, InFlight
<1>9. CASE RecordSecondAbsence(now)
  BY <1>1, <1>9 DEF RecordSecondAbsence, InFlight
<1>10. CASE RecordUnpromptedAbsence(now)
  BY <1>10 DEF RecordUnpromptedAbsence, InFlight
<1>11. CASE RecordInconclusive(now)
  BY <1>1, <1>11 DEF RecordInconclusive, InFlight
<1>12. CASE \E channel \in Channels : Reserve(channel, FALSE) \/ RecordUncertain(channel)
  BY <1>12 DEF Reserve, RecordUncertain, InFlight
<1>13. CASE Release
  BY <1>13 DEF Release, InFlight
<1>19. CASE ReconcileNotStarted
  BY <1>19 DEF ReconcileNotStarted, InFlight
<1>14. CASE RecordRemoval(now)
  BY <1>1, <1>14 DEF RecordRemoval, InFlight
<1>20. CASE RecordFormSubmission(now)
  BY <1>1, <1>20 DEF RecordFormSubmission, InFlight
<1>18. CASE DeferRecheck
  BY <1>1, <1>18 DEF DeferRecheck, InFlight
<1>15. CASE ReconcileConfirmed
  <2>1. CASE brokerCase.channel = "browser_form"
    BY <1>1, <1>15, <2>1 DEF ReconcileConfirmed
  <2>2. CASE brokerCase.channel # "browser_form"
    BY <1>1, <1>15, <2>2 DEF ReconcileConfirmed
  <2> QED BY <2>1, <2>2
<1>16. CASE RecordLifecycle("awaiting_processing")
  BY <1>1, <1>16 DEF RecordLifecycle
<1>17. CASE RecordLifecycle("human_task_queued") \/ RecordLifecycle("blocked")
  BY <1>1, <1>17 DEF RecordLifecycle, InFlight
<1> QED BY <1>3, <1>4, <1>5, <1>6, <1>7, <1>8, <1>9, <1>10, <1>11, <1>12, <1>13, <1>14,
           <1>15, <1>16, <1>17, <1>18, <1>19, <1>20 DEF CaseMoves, RecordAbsent

LEMMA StepTyped ==
  ASSUME CampaignAssumption, LoopTypeOK, LoopNext
  PROVE  /\ step' \in [pc : {"idle", "called", "charged", "works", "sends"},
                       tool : Commands \cup {"none"}]
         /\ ended' \in Endings
<1>1. /\ step \in [pc : {"idle", "called", "charged", "works", "sends"},
                   tool : Commands \cup {"none"}]
      /\ ended \in Endings
      /\ Resting \in [pc : {"idle", "called", "charged", "works", "sends"},
                      tool : Commands \cup {"none"}]
  BY DEF LoopTypeOK, Resting
<1>2. CASE AskNext
  <2>1. Plan = CampaignNext(campaign, CasesOf(campaign, brokerCase), now)
    BY DEF Plan, CasesNow, CasesOf
  <2>2. Plan.tool \in Commands
    BY <1>2, <2>1, PlanFits DEF AskNext, LoopTypeOK, CaseTypeOK
  <2> QED BY <1>2, <2>2 DEF AskNext, Endings
<1>3. CASE Charge
  <2>1. CASE step.tool = "cloud_discovery"
    BY <1>1, <1>3, <2>1 DEF Charge
  <2>2. CASE step.tool # "cloud_discovery"
    BY <1>1, <1>3, <2>2 DEF Charge
  <2> QED BY <2>1, <2>2
<1>4. CASE Announce
  BY <1>1, <1>4 DEF Announce
<1>5. CASE Submit
  BY <1>1, <1>5 DEF Submit
<1>6. CASE Ineligible \/ Leave \/ Scan \/ Discovery \/ PrimaryBlocked \/ Rescan \/ SubmitRefused
  BY <1>1, <1>6 DEF Ineligible, Leave, Scan, Discovery, PrimaryBlocked, Rescan, SubmitRefused,
     Ends, Endings
<1>7. CASE Sent \/ InDoubt \/ NotSent \/ DraftInDoubt \/ MailboxEmpty \/ LinkForPerson \/ LinkOpened
  BY <1>1, <1>7 DEF Sent, InDoubt, NotSent, DraftInDoubt, MailboxEmpty, LinkForPerson, LinkOpened,
     Ends, Endings
<1>8. CASE Review \/ NextDay
  BY <1>1, <1>8 DEF Review, NextDay, Endings
<1> QED BY <1>2, <1>3, <1>4, <1>5, <1>6, <1>7, <1>8 DEF LoopNext

LEMMA FitsKept ==
  ASSUME CampaignAssumption, LoopInv, LoopNext
  PROVE  StepFits'
<1> DEFINE FitsAt(c, s, e, at) ==
      /\ s.pc # "idle" => e = "none"
      /\ s.pc = "charged" => s.tool = "cloud_discovery"
      /\ s.tool = "cloud_discovery" /\ s.pc \in {"called", "charged"} => c.state = "blocked"
      /\ s.tool \in Submissions /\ s.pc \in {"called", "works"} => c.state \in ActionableStates
      /\ s.tool = "direct_rescan" /\ s.pc # "idle"
           => c.state = "indirect_exposure" \/ IsDue(c, at)
<1>1. /\ CasesNow = CasesOf(campaign, brokerCase)
      /\ CasesNow' = CasesOf(campaign', brokerCase')
      /\ Plan = CampaignNext(campaign, CasesOf(campaign, brokerCase), now)
  BY DEF CasesNow, CasesOf, Plan
<1>2. FitsAt(brokerCase, step, ended, now)
  BY <1>1, CaseOfMe DEF LoopInv, StepFits
<1>3. SUFFICES FitsAt(brokerCase', step', ended', now')
  BY <1>1, CaseOfMe DEF StepFits
<1>4. step \in [pc : {"idle", "called", "charged", "works", "sends"},
                tool : Commands \cup {"none"}]
  BY DEF LoopInv, LoopTypeOK
<1>5. CASE step' = Resting
  BY <1>5 DEF Resting, Submissions
<1>6. CASE AskNext
  <2>1. Fits(brokerCase, now, Plan.tool)
    BY <1>1, <1>6, PlanFits DEF AskNext, LoopInv, LoopTypeOK, CaseTypeOK
  <2>2. /\ step'.pc = "called" /\ step'.tool = Plan.tool /\ ended' = "none"
        /\ brokerCase' = brokerCase /\ now' = now
    BY <1>6 DEF AskNext
  <2> QED BY <2>1, <2>2 DEF Fits
<1>7. CASE Charge
  <2>1. /\ brokerCase' = brokerCase /\ now' = now /\ ended' = ended /\ step.pc = "called"
        /\ step'.tool = step.tool /\ step'.pc \in {"charged", "works"}
        /\ step'.pc = "charged" => step.tool = "cloud_discovery"
    <3>1. CASE step.tool = "cloud_discovery"
      BY <1>4, <1>7, <3>1 DEF Charge
    <3>2. CASE step.tool # "cloud_discovery"
      BY <1>4, <1>7, <3>2 DEF Charge
    <3> QED BY <3>1, <3>2
  <2> QED BY <1>2, <2>1
<1>8. CASE Announce
  <2>1. step'.tool = step.tool /\ step'.pc = "works" /\ step.pc = "charged" /\ ended' = ended
    BY <1>4, <1>8 DEF Announce
  <2>2. step.tool = "cloud_discovery" /\ ended = "none"
    BY <1>2, <2>1
  <2> QED BY <2>1, <2>2 DEF Submissions
<1>9. CASE Submit
  <2>1. /\ step'.tool = step.tool /\ step'.pc = "sends" /\ step.pc = "works" /\ ended' = ended
        /\ step.tool \in Submissions
    BY <1>4, <1>9 DEF Submit, Works
  <2> QED BY <1>2, <2>1 DEF Submissions
<1>10. CASE Review \/ NextDay
  <2>1. step' = step /\ step.pc = "idle"
    BY <1>10 DEF Review, NextDay
  <2> QED BY <2>1
<1> QED BY <1>5, <1>6, <1>7, <1>8, <1>9, <1>10 DEF LoopNext, Ineligible, Leave, Scan, Discovery,
     PrimaryBlocked, Rescan, SubmitRefused, Sent, InDoubt, NotSent, DraftInDoubt, MailboxEmpty,
     LinkForPerson, LinkOpened, Ends

LEMMA LoopInitHolds ==
  ASSUME ClockInit, CaseInit, LoopInit
  PROVE  LoopInv
<1>1. ClockTypeOK
  BY ClockAssumption DEF ClockInit, ClockTypeOK
<1>2. CaseTypeOK
  BY StatesListed DEF CaseInit, CaseTypeOK, NewCase, Outcomes, Time, Scopes, Never
<1>3. LoopTypeOK
  BY <1>1, <1>2 DEF LoopInit, LoopTypeOK, Resting, Endings
<1>4. LoopDated
  BY DEF ClockInit, CaseInit, LoopDated, NewCase, InFlight, Never
<1>5. StepFits
  BY DEF LoopInit, StepFits, Resting, Submissions
<1> QED BY <1>3, <1>4, <1>5 DEF LoopInv

LEMMA LoopInvKept ==
  ASSUME CampaignAssumption, LoopInv, [LoopNext]_<<now, brokerCase, loopVars>>
  PROVE  LoopInv'
<1>1. CASE UNCHANGED <<now, brokerCase, loopVars>>
  BY <1>1 DEF loopVars, LoopInv, LoopTypeOK, ClockTypeOK, CaseTypeOK, LoopDated, StepFits, CasesNow
<1>2. CASE LoopNext
  <2>1. now \in Nat /\ now \in 0 .. MaxTime /\ CaseTypeOK
    BY ClockAssumption DEF LoopInv, LoopTypeOK, ClockTypeOK
  <2>2. Dated(brokerCase, now)
    BY DEF Dated, LoopInv, LoopDated
  <2>3. /\ campaign' = campaign /\ now' \in 0 .. MaxTime /\ now <= now'
        /\ CaseTypeOK' /\ Dated(brokerCase', now)
    <3>1. CASE now' = now /\ CaseMoves
      BY <1>2, <2>1, <2>2, <3>1, LoopMovesCase, MovesTyped, MovesDated
    <3>2. CASE ClockTicks /\ brokerCase' = brokerCase
      BY <1>2, <2>1, <2>2, <3>2, LoopMovesCase, ClockAssumption DEF ClockTicks, CaseTypeOK
    <3> QED BY <1>2, <3>1, <3>2, LoopMovesCase
  <2>4. LoopTypeOK'
    BY <1>2, <2>3, StepTyped DEF LoopInv, LoopTypeOK, ClockTypeOK
  <2>5. LoopDated'
    <3>1. brokerCase'.absentAt \in Int
      BY <2>3 DEF CaseTypeOK, Time, Never
    <3> QED BY <2>1, <2>3, <3>1 DEF Dated, LoopDated
  <2> QED BY <1>2, <2>4, <2>5, FitsKept DEF LoopInv
<1> QED BY <1>1, <1>2

\* In every campaign the plan's reason for a command holds until the command
\* has done its work, and every request that was sent has its date.
THEOREM LoopInvariant == CampaignAssumption => (LoopSpec => []LoopInv)
<1> SUFFICES ASSUME CampaignAssumption PROVE LoopSpec => []LoopInv
  OBVIOUS
<1>1. ClockInit /\ CaseInit /\ LoopInit => LoopInv
  BY LoopInitHolds
<1>2. LoopInv /\ [LoopNext]_<<now, brokerCase, loopVars>> => LoopInv'
  BY LoopInvKept
<1> QED BY <1>1, <1>2, PTL DEF LoopSpec

-----------------------------------------------------------------------------
(* Outcomes and refusals                                                      *)

\* What the operations of a discovery or of a scan leave behind.
LEMMA SearchesAdvance ==
  ASSUME CaseTypeOK, Scan \/ Discovery \/ PrimaryBlocked, NEW at
  PROVE  ~Fits(brokerCase', at, step.tool)
<1> USE DEF CaseTypeOK
<1>1. CASE Scan
  <2>1. brokerCase'.state \in ActiveSubmissionStates
    <3>1. PICK result \in {"indirect_exposure", "inconclusive"},
               listing \in Listings \cup {NoListing} : RecordScan(result, listing)
      BY <1>1 DEF Scan
    <3>2. brokerCase'.state = result \/ brokerCase'.state \in CaseStates \ ScanMutable
      BY <3>1 DEF RecordScan
    <3> QED BY <3>1, <3>2, StatesListed DEF ScanMutable, ActiveSubmissionStates
  <2>2. step.tool = "live_scan"
    BY <1>1 DEF Scan, Works
  <2> QED BY <2>1, <2>2 DEF Fits
<1>2. CASE Discovery
  <2>1. step.tool \in {"begin_discovery", "cloud_discovery"}
    BY <1>2 DEF Discovery, Works
  <2>2. CASE RecordLifecycle("human_task_queued")
    BY <2>1, <2>2 DEF RecordLifecycle, Fits, ActionableStates
  <2>3. CASE \E listing \in Listings : RecordBrowserDiscovery(listing)
    <3>1. brokerCase'.listing \in Listings /\ brokerCase'.state # "blocked"
      BY <2>3 DEF RecordBrowserDiscovery, DiscoveryProtected
    <3> QED BY <2>1, <3>1, CaseAssumption DEF Fits
  <2> QED BY <1>2, <2>2, <2>3 DEF Discovery
<1>3. CASE PrimaryBlocked
  <2>1. step.tool \in {"begin_discovery", "begin_form"} /\ brokerCase'.state = "blocked"
    BY <1>3 DEF PrimaryBlocked, Works, RecordLifecycle
  <2> QED BY <2>1 DEF Fits, ActionableStates, Submissions
<1> QED BY <1>1, <1>2, <1>3

LEMMA RescansAdvance ==
  ASSUME LoopInv, CampaignAssumption, Rescan, ~UnpromptedAbsence
  PROVE  ~Fits(brokerCase', now, step.tool)
<1>1. now \in Nat /\ CaseTypeOK /\ Dated(brokerCase, now) /\ step.tool = "direct_rescan"
  BY ClockAssumption DEF LoopInv, LoopTypeOK, ClockTypeOK, Dated, LoopDated, Rescan, Works
<1>2. brokerCase.state = "indirect_exposure" \/ IsDue(brokerCase, now)
  <2>1. step.pc # "idle"
    BY DEF Rescan, Works
  <2>2. CasesNow = CasesOf(campaign, brokerCase)
    BY DEF CasesNow, CasesOf
  <2> QED BY <1>1, <2>1, <2>2, CaseOfMe DEF LoopInv, StepFits
<1>3. SUFFICES brokerCase'.state # "indirect_exposure" /\ ~IsDue(brokerCase', now)
  BY <1>1 DEF Fits
<1>4. /\ now + WeekTicks \in Nat /\ now + RescanTicks \in Nat /\ now + DayTicks \in Nat
      /\ now < now + WeekTicks /\ now < now + RescanTicks /\ now < now + DayTicks
  BY <1>1, CaseAssumption
<1>5. brokerCase \in [state : CaseStates, channel : Channels \cup {"none"}, outcome : Outcomes,
                  recheck : Time, absentAt : Time, confirmedAt : Time, scope : Scopes,
                  listing : Listings \cup {NoListing}]
  BY <1>1 DEF CaseTypeOK
<1>6. CASE RecordPresent(now)
  BY <1>5, <1>6 DEF RecordPresent, IsDue, Never
<1>7. CASE RecordFirstAbsence(now)
  <2>1. CASE brokerCase.recheck = Never \/ brokerCase.recheck <= now
    BY <1>1, <1>4, <1>5, <1>7, <2>1 DEF RecordFirstAbsence, IsDue
  <2>2. CASE ~(brokerCase.recheck = Never \/ brokerCase.recheck <= now)
    BY <1>1, <1>5, <1>7, <2>2 DEF RecordFirstAbsence, IsDue
  <2> QED BY <2>1, <2>2
<1>8. CASE RecordEarlyAbsence(now)
  <2>1. brokerCase.state # "indirect_exposure" /\ brokerCase.absentAt # Never /\ ~AbsenceDue(now)
    BY <1>8 DEF RecordEarlyAbsence, InFlight
  <2>2. brokerCase.recheck # Never /\ brokerCase.recheck <= now
    BY <1>2, <2>1 DEF IsDue
  <2>3. brokerCase.absentAt < brokerCase.recheck
    BY <1>1, <2>1, <2>2 DEF Dated
  <2> QED BY <1>1, <1>5, <2>1, <2>2, <2>3 DEF AbsenceDue, Time, Never
<1>9. CASE RecordSecondAbsence(now)
  BY <1>1, <1>4, <1>5, <1>9 DEF RecordSecondAbsence, IsDue
<1>10. CASE RecordUnpromptedAbsence(now)
  BY <1>1, <1>5, <1>10 DEF RecordUnpromptedAbsence, UnpromptedAbsence
<1>11. CASE RecordInconclusive(now)
  <2>1. /\ brokerCase'.recheck = now + DayTicks
        /\ brokerCase'.state \in InFlight \cup {"confirmed_removed", "inconclusive"}
    BY <1>5, <1>11 DEF RecordInconclusive
  <2> QED BY <1>1, <1>4, <2>1 DEF IsDue, InFlight
<1> QED BY <1>6, <1>7, <1>8, <1>9, <1>10, <1>11 DEF Rescan, RecordAbsent

LEMMA RequestsAdvance ==
  ASSUME CaseTypeOK, now \in Nat, Sent \/ InDoubt \/ DraftInDoubt
  PROVE  ~Fits(brokerCase', now, step.tool) \/ step.tool \notin Commands
<1>1. SUFFICES /\ brokerCase'.state \in {"submitted", "verification_pending",
                                         "submission_uncertain", "human_task_queued"}
               /\ brokerCase'.recheck = Never \/ now < brokerCase'.recheck
               /\ brokerCase'.recheck \in Time
  <2>1. ~IsDue(brokerCase', now)
    BY <1>1 DEF IsDue, Time, Never
  <2>2. brokerCase'.state \notin ActionableStates
        /\ brokerCase'.state \in ActiveSubmissionStates
        /\ brokerCase'.state \notin {"blocked", "indirect_exposure"}
    BY <1>1 DEF ActionableStates, ActiveSubmissionStates
  <2> QED BY <2>1, <2>2 DEF Fits, Commands, Submissions, Polls
<1>2. /\ now + ProcessingTicks \in Nat /\ now + DayTicks \in Nat
      /\ now < now + ProcessingTicks /\ now < now + DayTicks
  BY CaseAssumption
<1> USE DEF CaseTypeOK, Time
<1>3. CASE Sent
  <2>1. RecordFormSubmission(now) \/ RecordRemoval(now)
    BY <1>3 DEF Sent
  <2> QED BY <1>2, <2>1 DEF RecordFormSubmission, RecordRemoval
<1>4. CASE InDoubt
  BY <1>4 DEF InDoubt, RecordUncertain
<1>5. CASE DraftInDoubt
  BY <1>5 DEF DraftInDoubt, RecordLifecycle
<1> QED BY <1>3, <1>4, <1>5

LEMMA PollsAdvance ==
  ASSUME CaseTypeOK, now \in Nat, MailboxEmpty \/ LinkForPerson \/ LinkOpened
  PROVE  ~Fits(brokerCase', now, step.tool)
<1>1. step.tool \in Polls
  BY DEF MailboxEmpty, LinkForPerson, LinkOpened, Works, Polls
<1>2. /\ now + ProcessingTicks \in Nat /\ now + DayTicks \in Nat
      /\ now < now + ProcessingTicks /\ now < now + DayTicks
  BY CaseAssumption
<1>3. SUFFICES ~IsDue(brokerCase', now)
  BY <1>1 DEF Fits
<1> USE DEF CaseTypeOK, Time, IsDue
<1>4. CASE MailboxEmpty
  BY <1>2, <1>4 DEF MailboxEmpty, DeferRecheck
<1>5. CASE RecordLifecycle("awaiting_processing")
  BY <1>2, <1>5 DEF RecordLifecycle
<1>6. CASE RecordLifecycle("human_task_queued")
  BY <1>6 DEF RecordLifecycle
<1> QED BY <1>4, <1>5, <1>6 DEF LinkForPerson, LinkOpened

LEMMA RecordingAdvances ==
  ASSUME CampaignAssumption, LoopInv, LoopNext, ended' = "recorded", ~UnpromptedAbsence,
         NEW tool \in Commands, step.tool = tool
  PROVE  ~Planned(tool)'
<1>1. now \in Nat /\ CaseTypeOK /\ (step.pc # "idle" => ended = "none")
  BY ClockAssumption DEF LoopInv, LoopTypeOK, ClockTypeOK, StepFits
<1>2. /\ ~AskNext /\ ~Charge /\ ~Ineligible /\ ~Announce /\ ~Leave /\ ~Submit /\ ~SubmitRefused
      /\ ~NotSent /\ ~Review /\ ~NextDay
  BY <1>1 DEF AskNext, Charge, Ineligible, Announce, Leave, Submit, SubmitRefused, NotSent,
     Review, NextDay, Ends, Works
<1>3. now' = now /\ campaign' = campaign
  BY <1>2 DEF LoopNext, Scan, Discovery, PrimaryBlocked, Rescan, Sent, InDoubt, DraftInDoubt,
     MailboxEmpty, LinkForPerson, LinkOpened
<1>4. ~Fits(brokerCase', now, tool)
  BY <1>1, <1>2, SearchesAdvance, RescansAdvance, RequestsAdvance, PollsAdvance DEF LoopNext
<1>5. CaseTypeOK'
  BY LoopInvKept DEF LoopInv, LoopTypeOK
<1>6. SUFFICES ASSUME Planned(tool)' PROVE FALSE
  OBVIOUS
<1>7. Plan' = CampaignNext(campaign, CasesOf(campaign, brokerCase'), now)
  BY <1>3 DEF Plan, CasesNow, CasesOf
<1>8. /\ CampaignNext(campaign, CasesOf(campaign, brokerCase'), now).tool = tool
      /\ Me \in CampaignNext(campaign, CasesOf(campaign, brokerCase'), now).brokers
  BY <1>6, <1>7 DEF Planned
<1>9. campaign \in Campaigns /\ brokerCase'.recheck \in Time
  BY <1>5 DEF LoopInv, LoopTypeOK, CaseTypeOK
<1>10. Fits(brokerCase', now, tool)
  BY <1>8, <1>9, PlanFits
<1> QED BY <1>4, <1>10

\* A command whose outcome the ledger has taken is not planned again at once for
\* the same broker, in any campaign and with any delays.
THEOREM OutcomesAlwaysAdvance == CampaignAssumption => (LoopSpec => OutcomesAdvance)
<1> SUFFICES ASSUME CampaignAssumption PROVE LoopSpec => OutcomesAdvance
  OBVIOUS
<1>1. LoopInv /\ [LoopNext]_<<now, brokerCase, loopVars>>
      => [ (ended' = "recorded" /\ ~UnpromptedAbsence) =>
             \A tool \in Commands : step.tool = tool => ~Planned(tool)'
         ]_<<now, brokerCase, loopVars>>
  BY RecordingAdvances
<1>2. LoopSpec => []LoopInv
  BY LoopInvariant
<1>3. LoopSpec => [][LoopNext]_<<now, brokerCase, loopVars>>
  BY DEF LoopSpec
<1> QED BY <1>1, <1>2, <1>3, PTL DEF OutcomesAdvance

LEMMA RefusalsAreTwo ==
  ASSUME LoopInv, LoopNext, ended' = "refused"
  PROVE  \/ step.tool \in Submissions /\ brokerCase.state \in {"inconclusive", "not_found"}
         \/ step.tool \in Polls
<1>1. step.pc # "idle" => ended = "none"
  BY DEF LoopInv, StepFits
<1>2. Ineligible \/ SubmitRefused
  BY <1>1 DEF LoopNext, AskNext, Charge, Announce, Leave, Scan, Discovery, PrimaryBlocked, Rescan,
     Submit, Sent, InDoubt, NotSent, DraftInDoubt, MailboxEmpty, LinkForPerson, LinkOpened, Review,
     NextDay, Ends, Works
<1>3. CASE Ineligible
  <2>1. step.tool = "cloud_discovery" => brokerCase.state = "blocked"
    BY <1>3 DEF Ineligible, LoopInv, StepFits
  <2> QED BY <1>3, <2>1 DEF Ineligible, Eligible
<1>4. CASE SubmitRefused
  <2>1. step.tool \in Submissions /\ brokerCase.state \in ActionableStates
    BY <1>4 DEF SubmitRefused, Works, LoopInv, StepFits
  <2> QED BY <1>4, <2>1 DEF SubmitRefused, Submittable, ActionableStates
<1> QED BY <1>2, <1>3, <1>4

\* The planner names nothing that its tool turns down, but for a submission
\* after a search in vain and a look for a mail that is not expected.
THEOREM PlannedIsAlwaysAccepted == CampaignAssumption => (LoopSpec => PlannedIsAccepted)
<1> SUFFICES ASSUME CampaignAssumption PROVE LoopSpec => PlannedIsAccepted
  OBVIOUS
<1>1. LoopInv /\ [LoopNext]_<<now, brokerCase, loopVars>>
      => [ ended' = "refused" =>
             \/ step.tool \in Submissions /\ brokerCase.state \in {"inconclusive", "not_found"}
             \/ step.tool \in Polls ]_<<now, brokerCase, loopVars>>
  BY RefusalsAreTwo
<1>2. LoopSpec => []LoopInv
  BY LoopInvariant
<1>3. LoopSpec => [][LoopNext]_<<now, brokerCase, loopVars>>
  BY DEF LoopSpec
<1> QED BY <1>1, <1>2, <1>3, PTL DEF PlannedIsAccepted

-----------------------------------------------------------------------------
(* Done for now                                                               *)

LEMMA DoneMeans ==
  ASSUME NEW g, NEW cases, NEW at, ParityNext(g, cases, at).kind = "done_for_now",
         NEW b \in Brokers
  PROVE  /\ cases[b].state \notin Flagged
         /\ ~(b \in Undiscovered(cases) /\ ~g.route[b].restricted /\ "discover" \in g.effects)
         /\ ~(cases[b].state \in ActionableStates /\ ActionStep(g, cases, b) \in Commands)
         /\ ~(b \in Due(cases, at) /\ DueStep(g, cases, b) \in Commands)
<1> DEFINE uncertain == {c \in Brokers : cases[c].state \in Flagged}
           blocked == {c \in Brokers :
             /\ cases[c].state = "blocked" /\ g.cloudRetry /\ g.browser # "remote_cloud_cdp"
             /\ "publisher_discover" \in g.effects /\ g.route[c].source = "observed"}
           unscanned == {c \in Undiscovered(cases) : ~g.route[c].restricted}
           acting == {c \in Brokers : /\ cases[c].state \in ActionableStates
                                      /\ ActionStep(g, cases, c) \in Commands}
           checking == {c \in Due(cases, at) : DueStep(g, cases, c) \in Commands}
           leading == IF acting \cap g.heads = {} THEN acting ELSE acting \cap g.heads
           oldest == {c \in checking : \A d \in checking : cases[c].recheck <= cases[d].recheck}
           plan == IF uncertain # {} THEN HumanGate({First(uncertain)})
     ELSE IF blocked # {} THEN Command("cloud_discovery", {First(blocked)})
     ELSE IF unscanned # {} /\ "discover" \in g.effects THEN Command("live_scan", Batch(unscanned))
     ELSE IF acting # {} THEN Command(ActionStep(g, cases, First(leading)), {First(leading)})
     ELSE IF checking # {} THEN Command(DueStep(g, cases, First(oldest)), {First(oldest)})
     ELSE Done
<1>1. plan.kind = "done_for_now"
  BY DEF ParityNext
<1> HIDE DEF uncertain, blocked, unscanned, acting, checking, leading, oldest
<1>2. /\ uncertain = {} /\ ~(unscanned # {} /\ "discover" \in g.effects)
      /\ acting = {} /\ checking = {}
  BY <1>1 DEF HumanGate, Command
<1> QED BY <1>2 DEF uncertain, unscanned, acting, checking

\* Why an actionable case is given no command.
LEMMA NoAction ==
  ASSUME CampaignAssumption, campaign \in Campaigns, brokerCase.state \in ActionableStates,
         ActionStep(campaign, CasesNow, Me) \notin Commands,
         CasesNow[Me] = Shown(brokerCase)
  PROVE  \/ InDigest(campaign, CasesNow, Me, now)
         \/ Covered(campaign, CasesNow, Me) \/ NoTransport \/ NotGranted
<1> DEFINE r == campaign.route[Me]
           unlisted == r.listed /\ ~CasesNow[Me].listing
<1>1. /\ r \in Route /\ CasesNow[Me].state \in ActionableStates
      /\ r.method = "email" => r.rescue # "none"
      /\ r.rescue = "listing" => r.listed
  <2>1. /\ Me \in Brokers /\ campaign.route \in [Brokers -> Route]
        /\ \A b \in Brokers :
             /\ campaign.route[b].method = "email" => campaign.route[b].rescue # "none"
             /\ campaign.route[b].rescue = "listing" => campaign.route[b].listed
    BY DEF CampaignAssumption
  <2>2. r \in Route
    BY <2>1
  <2>3. CasesNow[Me].state \in ActionableStates
    BY DEF Shown
  <2> QED BY <2>1, <2>2, <2>3
<1>2. r.method \in {"web_form", "email", "phone"} /\ r.source \in {"observed", "needs_evidence", "unavailable"}
  BY <1>1 DEF Route
<1>3. CASE ActionStep(campaign, CasesNow, Me) \in {"deferred", "degraded"}
  BY <1>1, <1>3 DEF InDigest
<1>4. CASE Covered(campaign, CasesNow, Me)
  BY <1>4
<1>5. CASE ~Covered(campaign, CasesNow, Me) /\ ActionStep(campaign, CasesNow, Me) \notin {"deferred", "degraded"}
  <2>1. ~MailLane(campaign, CasesNow, Me)
    BY <1>5 DEF ActionStep, Commands
  <2>2. /\ r.source = "observed" /\ ~unlisted /\ r.method # "phone"
        /\ ~(r.method = "web_form" /\ "submit_form" \in campaign.effects)
    BY <1>2, <1>5, <2>1 DEF ActionStep, Commands
  <2>3. CASE r.method = "web_form"
    BY <2>2, <2>3 DEF NotGranted
  <2>4. CASE r.method = "email"
    <3>1. \/ "submit_email" \notin campaign.effects \/ campaign.email = "unavailable"
          \/ r.rescue = "listing" /\ ~CasesNow[Me].listing
      BY <1>1, <2>1, <2>4 DEF MailLane
    <3>2. "submit_email" \notin campaign.effects \/ campaign.email = "unavailable"
      BY <1>1, <2>2, <3>1
    <3> QED BY <2>4, <3>2 DEF NotGranted, NoTransport
  <2> QED BY <1>2, <2>2, <2>3, <2>4
<1> QED BY <1>3, <1>4, <1>5

\* Why a case whose date has come is given no command.
LEMMA NoCheck ==
  ASSUME Me \in Due(CasesNow, now), DueStep(campaign, CasesNow, Me) \notin Commands,
         CasesNow[Me] = Shown(brokerCase)
  PROVE  InDigest(campaign, CasesNow, Me, now) \/ NothingToCheck \/ NotGranted
<1> DEFINE r == campaign.route[Me]
<1>1. CasesNow[Me].listing = (brokerCase.listing # NoListing)
  BY DEF Shown
<1>2. CASE DueStep(campaign, CasesNow, Me) = "deferred"
  BY <1>2 DEF InDigest
<1>3. CASE DueStep(campaign, CasesNow, Me) # "deferred"
  <2>1. /\ r.source = "observed" /\ ~(r.mailed /\ "poll_verification" \in campaign.effects)
        /\ ~(CasesNow[Me].listing /\ "direct_recheck" \in campaign.effects)
    BY <1>3 DEF DueStep, Commands
  <2>2. \/ brokerCase.listing = NoListing /\ ~r.mailed
        \/ brokerCase.listing # NoListing /\ "direct_recheck" \notin campaign.effects
        \/ r.mailed /\ "poll_verification" \notin campaign.effects
    BY <1>1, <2>1
  <2> QED BY <2>1, <2>2 DEF NothingToCheck, NotGranted
<1> QED BY <1>2, <1>3

LEMMA DoneForgetsNothing ==
  ASSUME CampaignAssumption, LoopInv
  PROVE  NothingForgotten
<1> SUFFICES ASSUME step.pc = "idle", campaign.effects # {"discover"}, Plan.kind = "done_for_now"
             PROVE  \/ WillWake(CasesNow, Me, now)
                    \/ InDigest(campaign, CasesNow, Me, now)
                    \/ Covered(campaign, CasesNow, Me) /\ brokerCase.state \in ActionableStates
                    \/ NoTransport \/ NothingToCheck \/ NotGranted
  BY DEF NothingForgotten
<1>1. Me \in Brokers /\ campaign \in Campaigns
  BY DEF CampaignAssumption, LoopInv, LoopTypeOK
<1>2. CasesNow[Me] = Shown(brokerCase)
  BY <1>1 DEF CasesNow
<1>3. /\ CasesNow[Me].state = brokerCase.state
      /\ CasesNow[Me].recheck = brokerCase.recheck
  BY <1>2 DEF Shown
<1>4. ParityNext(campaign, CasesNow, now).kind = "done_for_now"
  BY DEF Plan, CampaignNext
<1>5. /\ brokerCase.state \notin Flagged
      /\ ~(Me \in Undiscovered(CasesNow) /\ ~campaign.route[Me].restricted
           /\ "discover" \in campaign.effects)
      /\ brokerCase.state \in ActionableStates => ActionStep(campaign, CasesNow, Me) \notin Commands
      /\ Me \in Due(CasesNow, now) => DueStep(campaign, CasesNow, Me) \notin Commands
  BY <1>1, <1>3, <1>4, DoneMeans
<1>6. brokerCase.state \in CaseStates /\ brokerCase.recheck \in Time /\ now \in Nat
  BY ClockAssumption DEF LoopInv, LoopTypeOK, CaseTypeOK, ClockTypeOK
<1>7. CASE brokerCase.state \in {"new", "searching"}
  <2>1. Me \in Undiscovered(CasesNow)
    BY <1>1, <1>3, <1>7 DEF Undiscovered, ActiveSubmissionStates
  <2> QED BY <1>5, <2>1 DEF InDigest, NotGranted
<1>8. CASE brokerCase.state \in ActionableStates
  BY <1>1, <1>2, <1>5, <1>8, NoAction
<1>9. CASE brokerCase.state \in HumanStates
  BY <1>3, <1>9 DEF InDigest
<1>10. CASE brokerCase.state \in InFlight \cup {"confirmed_removed"}
  <2>1. brokerCase.recheck # Never
    BY <1>10 DEF LoopInv, LoopDated
  <2>2. CASE brokerCase.recheck > now
    BY <1>3, <2>1, <2>2 DEF WillWake
  <2>3. CASE brokerCase.recheck <= now
    <3>1. Me \in Due(CasesNow, now)
      BY <1>1, <1>3, <2>1, <2>3 DEF Due
    <3> QED BY <1>2, <1>5, <3>1, NoCheck
  <2> QED BY <1>6, <2>2, <2>3 DEF Time, Never
<1>11. brokerCase.state \notin {"partially_removed", "request_rejected"}
  BY DEF LoopInv, LoopDated
<1> QED BY <1>5, <1>6, <1>7, <1>8, <1>9, <1>10, <1>11, StatesListed
     DEF ActionableStates, HumanStates, InFlight, Flagged

\* A broker with which the planner is done for now has a date ahead, is in the
\* digest, is covered by its parent, or is one of the cases named above.
THEOREM NothingIsForgotten == CampaignAssumption => (LoopSpec => []NothingForgotten)
<1> SUFFICES ASSUME CampaignAssumption PROVE LoopSpec => []NothingForgotten
  OBVIOUS
<1>1. LoopInv => NothingForgotten
  BY DoneForgetsNothing
<1>2. LoopSpec => []LoopInv
  BY LoopInvariant
<1> QED BY <1>1, <1>2, PTL

===============================================================================
