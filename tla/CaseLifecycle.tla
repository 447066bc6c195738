---------------------------- MODULE CaseLifecycle ------------------------------
(* The case of a people-search broker over time: discovery, requests and their *)
(* outcomes, and the direct rescans that may one day confirm the removal.      *)
(* A rescan reads the listing pages, stamps its report with that moment and    *)
(* records it later, when other tools and other rescans may have written.      *)
(* Controller answers belong to brokers that have no direct rescan and are     *)
(* part of RemovalSubmission; there too is the protocol around a request.      *)
EXTENDS CaseLedger

CONSTANT Rescans    \* concurrent rightout_direct_rescan calls

VARIABLES
  scan,       \* the rescans in flight
  captured,   \* handles in the listing vault, which outlives the model
  sent,       \* history: the ledger has recorded a request that left
  absences    \* history: times of the absences recorded since the last presence

vars == <<now, brokerCase, scan, captured, sent, absences>>

Observations == {"present", "absent", "inconclusive"}
IdleScan == [pc |-> "idle", seen |-> "none", at |-> 0]
ScanRecord == [pc : {"idle", "reading", "read"}, seen : Observations \cup {"none"}, at : Nat]

TypeOK ==
  /\ ClockTypeOK /\ CaseTypeOK
  /\ scan \in [Rescans -> ScanRecord]
  /\ captured \subseteq Listings
  /\ sent \in BOOLEAN
  /\ absences \subseteq Nat

Init ==
  /\ ClockInit /\ CaseInit
  /\ scan = [r \in Rescans |-> IdleScan]
  /\ captured = {} /\ sent = FALSE /\ absences = {}

-----------------------------------------------------------------------------
(* rightout_direct_rescan                                                    *)

\* Any handle the vault still resolves will do, not only the case's own.
RescanStarts(r) ==
  /\ scan[r].pc = "idle" /\ captured # {}
  /\ scan' = [scan EXCEPT ![r].pc = "reading"]
  /\ UNCHANGED <<now, brokerCase, captured, sent, absences>>

\* The pages have answered; the report is stamped.
RescanReads(r, seen) ==
  /\ scan[r].pc = "reading"
  /\ scan' = [scan EXCEPT ![r] = [pc |-> "read", seen |-> seen, at |-> now]]
  /\ UNCHANGED <<now, brokerCase, captured, sent, absences>>

\* recordDirectRescan, with the report's time.
RescanRecords(r) ==
  LET at == scan[r].at IN
  /\ scan[r].pc = "read"
  /\ scan' = [scan EXCEPT ![r] = IdleScan]
  /\ \/ /\ scan[r].seen = "present"
        /\ RecordPresent(at)
        /\ absences' = {}
     \/ /\ scan[r].seen = "absent"
        /\ RecordAbsent(at)
        /\ absences' = absences \cup {at}
     \/ /\ scan[r].seen = "inconclusive"
        /\ RecordInconclusive(at)
        /\ UNCHANGED absences
  /\ UNCHANGED <<now, captured, sent>>

\* The call is cancelled, or the ledger refuses the report: both are swallowed.
RescanLost(r) ==
  /\ scan[r].pc # "idle"
  /\ scan' = [scan EXCEPT ![r] = IdleScan]
  /\ UNCHANGED <<now, brokerCase, captured, sent, absences>>

-----------------------------------------------------------------------------
(* Everything else that writes the case                                      *)

\* A discovery stores what it found under a new handle and records it.
Discover ==
  /\ \/ \E result \in {"indirect_exposure", "inconclusive"} :
          RecordScan(result, NoListing) /\ UNCHANGED captured
     \/ \E listing \in Listings \ captured :
          /\ captured' = captured \cup {listing}
          /\ RecordScan("indirect_exposure", listing) \/ RecordBrowserDiscovery(listing)
  /\ UNCHANGED <<now, scan, sent, absences>>

RequestBegins ==
  /\ \/ \E channel \in {"smtp_email", "browser_form"} : Reserve(channel, TRUE)
     \/ ReserveVerifiedPortal
  /\ UNCHANGED <<now, scan, captured, sent, absences>>

RequestFails ==
  /\ Release \/ (\E channel \in Channels : RecordUncertain(channel)) \/ ReconcileNotStarted
  /\ UNCHANGED <<now, scan, captured, sent, absences>>

RequestSent ==
  /\ \/ brokerCase.channel = "smtp_email" /\ RecordRemoval(now)
     \/ /\ brokerCase.channel = "browser_form"
        /\ \/ RecordFormSubmission(now)
           \/ RecordVerificationRequested(now)
           \/ RecordSuppression(now)
     \/ ReconcileConfirmed
  /\ sent' = TRUE
  /\ UNCHANGED <<now, scan, captured, absences>>

\* The verification tools ask verificationContext for a submitted case before
\* they wait for a mailbox or a page, and record when that is over.
Verify ==
  /\ sent
  /\ \E to \in {"verification_pending", "awaiting_processing"} : RecordLifecycle(to)
  /\ UNCHANGED <<now, scan, captured, sent, absences>>

HandOff ==
  /\ \E to \in {"blocked", "human_task_queued"} : RecordLifecycle(to)
  /\ UNCHANGED <<now, scan, captured, sent, absences>>

Defer ==
  /\ DeferRecheck
  /\ UNCHANGED <<now, scan, captured, sent, absences>>

Tick ==
  /\ ClockTicks
  /\ UNCHANGED <<brokerCase, scan, captured, sent, absences>>

Next ==
  \/ \E r \in Rescans :
       \/ RescanStarts(r) \/ RescanRecords(r) \/ RescanLost(r)
       \/ \E seen \in Observations : RescanReads(r, seen)
  \/ Discover \/ RequestBegins \/ RequestFails \/ RequestSent
  \/ Verify \/ HandOff \/ Defer \/ Tick

Spec == Init /\ [][Next]_vars

-----------------------------------------------------------------------------
(* Properties                                                                *)

\* docs/architecture.md: "only a second time-separated trusted direct absence
\* after a prior removal and after the durable recheck time can produce
\* confirmed_removed".  Reports recorded late, twice or across requests included.
ConfirmedByTwoAbsences ==
  [][ (brokerCase.state # "confirmed_removed" /\ brokerCase'.state = "confirmed_removed")
      => /\ sent
         /\ \E first \in absences : first < brokerCase'.confirmedAt
         /\ brokerCase.recheck \in 0 .. brokerCase'.confirmedAt ]_vars

\* Only a direct presence takes a confirmation back (docs/architecture.md), and
\* no other state carries the date of one (removal_confirmed_at in status()).
ConfirmationDated ==
  brokerCase.confirmedAt # Never <=> brokerCase.state = "confirmed_removed"

\* due() lists what has a recheck date: no request in flight is without one.
InFlightHasRecheck == brokerCase.state \in InFlight => brokerCase.recheck # Never

\* No observation, human task or verification puts a case in flight, or calls
\* it removed, to whose broker no request was ever sent.
RequestPrecedes ==
  brokerCase.state \in InFlight \cup {"confirmed_removed", "reappeared"} => sent

\* The absence clock was started by an absence that no presence has refuted.
ClockHasAbsence == brokerCase.absentAt # Never => brokerCase.absentAt \in absences

\* The inductive invariant.
LifecycleInv ==
  /\ ConfirmationDated /\ InFlightHasRecheck /\ RequestPrecedes /\ ClockHasAbsence

==============================================================================
