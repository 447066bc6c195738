-------------------------- MODULE RemovalSubmission ---------------------------
(* One removal request of one profile to one broker: the tools that reserve    *)
(* the case, write to the provider and record what became of it, the           *)
(* deduplication record beside the case, the operator's review and the other   *)
(* tools that touch the same case.  A tool invocation is a run with a program  *)
(* counter, suspended at every await between two accesses to shared state.     *)
(* The steps of one browser form session are runs of their own that share the  *)
(* session object; its timer, pruning and revocation end it under their feet.  *)
(* One gateway process serves the state directory.  Campaign charges and       *)
(* approvals precede all of this and are left out.                             *)
EXTENDS CaseLedger

CONSTANTS
  Runs,            \* concurrent tool invocations, session steps and clean-ups
  Sessions,        \* browser form sessions
  NoSession,
  Lanes,           \* the lanes the catalogs give this broker
  NeedsDiscovery,  \* the e-mail lane's discoveryRequirement
  Reconcilable,    \* whether resolveSubmissionReconciliationBroker may know the broker
  MaxAttempts      \* bound: reservations

ASSUME SubmissionAssumption ==
  /\ Lanes \subseteq {"email", "parity", "webmail", "form", "session"}
  /\ NoSession \notin Sessions
  /\ NeedsDiscovery \in BOOLEAN /\ Reconcilable \subseteq BOOLEAN
  /\ MaxAttempts \in Nat

VARIABLES
  dedupe,       \* phase of the encrypted deduplication record, "none" when absent
  scopeMark,    \* submittedScopes of the process: "none", "inFlight", "cooldown"
  run,
  session,      \* the session objects; a step keeps the one it was given
  review,       \* the reconciliation tool: what it still has to delete
  attempts,     \* reservations so far; the last one owns the case's intent
  doubt,        \* history: attempts whose write may have begun, outcome unrecorded
  lost          \* history: paths that took the flag off a case they should not have

vars == <<now, brokerCase, dedupe, scopeMark, run, session, review, attempts, doubt, lost>>

Pc == {"idle", "scope", "acquire", "lookup", "load", "takeover", "retake", "reserve",
       "mark", "undo", "step", "closing", "write", "wrote", "record", "uncertain", "release",
       "forget", "human", "cleanup"}
Idle == [pc |-> "idle", lane |-> "none", attempt |-> 0, fresh |-> FALSE, seen |-> "none",
         session |-> NoSession]
Phase == {"none", "reserved", "intent"}
Causes == {"handoff", "cancel", "receipt", "review", "sibling"}
RunRecord == [pc : Pc, lane : Lanes \cup {"none", "session"}, attempt : Nat, fresh : BOOLEAN, seen : Phase,
              session : Sessions \cup {NoSession}]

\* intent is submissionIntentReserved.  attempt is history: the reservation the
\* intent stands for, 0 when there is none or its outcome is on the record.
SessionRecord == [open : BOOLEAN, intent : BOOLEAN, attempt : Nat]
Closed == [open |-> FALSE, intent |-> FALSE, attempt |-> 0]

TypeOK ==
  /\ ClockTypeOK /\ CaseTypeOK
  /\ dedupe \in Phase
  /\ scopeMark \in {"none", "inFlight", "cooldown"}
  /\ run \in [Runs -> RunRecord]
  /\ session \in [Sessions -> SessionRecord]
  /\ review \in {"idle", "scope", "dedupe", "refused"}
  /\ attempts \in Nat
  /\ doubt \subseteq Nat /\ lost \subseteq Causes

Init ==
  /\ ClockInit /\ CaseInit
  /\ dedupe = "none" /\ scopeMark = "none"
  /\ run = [t \in Runs |-> Idle] /\ session = [s \in Sessions |-> Closed]
  /\ \E known \in Reconcilable : review = IF known THEN "idle" ELSE "refused"
  /\ attempts = 0
  /\ doubt = {} /\ lost = {}

-----------------------------------------------------------------------------
(* The lanes                                                                 *)

Channel(lane) ==
  CASE lane \in {"email", "parity"} -> "smtp_email"
    [] lane = "webmail" -> "browser_webmail"
    [] OTHER -> "browser_form"

\* Lanes that call removalContext, and lanes that keep a mark in submittedScopes.
Gated(lane) == lane = "form" \/ (lane = "email" /\ NeedsDiscovery)
Scoped(lane) == lane \in {"email", "form"}

Lane(t) == run[t].lane
At(t, pc) == run[t].pc = pc
Go(t, pc) == run' = [run EXCEPT ![t].pc = pc]
Return(t) == run' = [run EXCEPT ![t] = Idle]
SetScope(t, mark) == scopeMark' = IF Scoped(Lane(t)) THEN mark ELSE scopeMark

\* A failure that leads to recordSubmissionUncertain: the run is done writing.
FailUncertain(t) == run' = [run EXCEPT ![t].pc = "uncertain", ![t].attempt = 0]

\* A run that may still write under a reservation, and a session that lets one.
Holds(t) == run[t].attempt # 0
Live(s) == session[s].open \/ \E t \in Runs : run[t].session = s
SessionHolds(s) == session[s].attempt # 0 /\ Live(s)
SomeoneHolds == (\E t \in Runs : Holds(t)) \/ (\E s \in Sessions : SessionHolds(s))

\* Another step of the same session writes under the same reservation.
SiblingHolds(t) ==
  /\ run[t].session # NoSession
  /\ \E u \in Runs \ {t} : Holds(u) /\ run[u].session = run[t].session

\* A step changes the session it was given, deleted from the map or not.
Mine(t) == session[run[t].session]
AtStep(t) == At(t, "step") /\ run[t].session \in Sessions
SetSession(t, changed) ==
  session' = [s \in Sessions |-> IF s = run[t].session THEN changed ELSE session[s]]
Lose(cause) == lost' = lost \cup {cause}
\* A state written over one that still flags a possible write.
LoseIfFlagged == lost' = IF brokerCase.state \in Flagged THEN lost \cup {"handoff"} ELSE lost

KeepsRest == UNCHANGED <<now, brokerCase, attempts, review, doubt, lost>>
KeepsCase == KeepsRest /\ UNCHANGED session

-----------------------------------------------------------------------------
(* Beginning, and acquireSubmissionDedupe                                    *)

Begin(t, lane) ==
  /\ At(t, "idle") /\ lane # "session"
  /\ Gated(lane) => RemovalReady
  /\ run' = [run EXCEPT ![t] = [Idle EXCEPT !.lane = lane,
                                 !.pc = IF Scoped(lane) THEN "scope" ELSE "acquire"]]
  /\ KeepsCase /\ UNCHANGED <<dedupe, scopeMark>>

\* The in-process mark refuses a second request before any store is asked.
CheckScope(t) ==
  /\ At(t, "scope")
  /\ IF scopeMark = "none" THEN Go(t, "acquire") ELSE Return(t)
  /\ KeepsCase /\ UNCHANGED <<dedupe, scopeMark>>

\* rightout_begin_form_session: every session has a new identifier.
OpenSession(s) ==
  /\ ~Live(s)
  /\ session' = [session EXCEPT ![s] = [Closed EXCEPT !.open = TRUE]]
  /\ KeepsRest /\ UNCHANGED <<dedupe, scopeMark, run>>

\* A step is given its session and then awaits the pruning and the revalidation.
BeginStep(t, s) ==
  /\ At(t, "idle") /\ session[s].open
  /\ run' = [run EXCEPT ![t] = [Idle EXCEPT !.lane = "session", !.pc = "step", !.session = s]]
  /\ KeepsCase /\ UNCHANGED <<dedupe, scopeMark>>

\* An inspection, a fill, or a refusal before anything was reserved.
StepEnds(t) ==
  /\ At(t, "step") /\ Return(t)
  /\ KeepsCase /\ UNCHANGED <<dedupe, scopeMark>>

\* The first provider click of the session reserves.
FirstClick(t) ==
  /\ AtStep(t) /\ ~Mine(t).intent
  /\ Go(t, "acquire")
  /\ KeepsCase /\ UNCHANGED <<dedupe, scopeMark>>

\* Any other action under the session's intent, whoever reserved it and whatever
\* became of it: reservedThisAction is false.
Click(t) ==
  /\ AtStep(t) /\ Mine(t).intent
  /\ run' = [run EXCEPT ![t].pc = "write", ![t].attempt = Mine(t).attempt]
  /\ IF Mine(t).attempt = 0 THEN Lose("sibling") ELSE UNCHANGED lost
  /\ UNCHANGED <<now, brokerCase, dedupe, scopeMark, session, review, attempts, doubt>>

\* registerIfAbsent
Acquire(t) ==
  /\ run[t].pc \in {"acquire", "retake"}
  /\ IF dedupe = "none" THEN dedupe' = "reserved" /\ Go(t, "reserve")
     ELSE /\ UNCHANGED dedupe
          /\ IF At(t, "acquire") THEN Go(t, "lookup") ELSE Return(t)
  /\ KeepsCase /\ UNCHANGED scopeMark

Lookup(t) ==
  /\ At(t, "lookup")
  /\ run' = [run EXCEPT ![t].pc = "load", ![t].seen = dedupe]
  /\ KeepsCase /\ UNCHANGED <<dedupe, scopeMark>>

\* preIntentOrphan, and reconciledNotStarted
Replaceable(seen) ==
  \/ /\ seen = "reserved"
     /\ brokerCase.state \notin Flagged \cup InFlight \cup {"confirmed_removed"}
  \/ /\ seen = "intent"
     /\ brokerCase.state = "action_selected" /\ brokerCase.outcome = "human_not_started"

LoadCase(t) ==
  /\ At(t, "load")
  /\ IF Replaceable(run[t].seen) THEN Go(t, "takeover") ELSE Return(t)
  /\ KeepsCase /\ UNCHANGED <<dedupe, scopeMark>>

TakeOver(t) ==
  /\ At(t, "takeover")
  /\ dedupe' = "none" /\ Go(t, "retake")
  /\ KeepsCase /\ UNCHANGED scopeMark

-----------------------------------------------------------------------------
(* Reserving the case                                                        *)

\* Fault: a failed reservation does not stop the request.
ReserveIgnoresFailure(t) ==
  /\ At(t, "reserve") /\ attempts < MaxAttempts
  /\ attempts' = attempts + 1
  /\ run' = [run EXCEPT ![t].pc = "mark", ![t].attempt = attempts + 1,
                        ![t].fresh = TRUE]
  /\ UNCHANGED <<now, brokerCase, dedupe, scopeMark, session, review, doubt, lost>>

ReserveCase(t) ==
  /\ At(t, "reserve") /\ attempts < MaxAttempts
  /\ Reserve(Channel(Lane(t)), Gated(Lane(t)))
  /\ attempts' = attempts + 1
  /\ run' = [run EXCEPT ![t].pc = "mark", ![t].attempt = attempts + 1,
                        ![t].fresh = TRUE]
  /\ UNCHANGED <<now, dedupe, scopeMark, session, review, doubt, lost>>

\* The ledger refuses, or the store fails; the same for the marking below.
\* Only the webmail lane has no handler that deletes the record again.
ReserveFails(t) ==
  /\ run[t].pc \in {"reserve", "mark"}
  /\ IF Lane(t) = "webmail" THEN Return(t)
     ELSE run' = [run EXCEPT ![t].pc = "undo", ![t].attempt = 0]
  /\ KeepsCase /\ UNCHANGED <<dedupe, scopeMark>>

Undo(t) ==
  /\ At(t, "undo")
  /\ dedupe' = "none" /\ Return(t)
  /\ KeepsCase /\ UNCHANGED scopeMark

\* markSubmissionDedupeIntentReserved; then the session has an intent.
MarkIntent(t) ==
  /\ At(t, "mark")
  /\ dedupe' = "intent" /\ SetScope(t, "inFlight") /\ Go(t, "write")
  /\ SetSession(t, [Mine(t) EXCEPT !.intent = TRUE, !.attempt = run[t].attempt])
  /\ KeepsRest

-----------------------------------------------------------------------------
(* The provider write and its outcome                                        *)

\* From here on the provider may have acted.
Write(t) ==
  /\ At(t, "write")
  /\ doubt' = doubt \cup {run[t].attempt} /\ Go(t, "wrote")
  /\ UNCHANGED <<now, brokerCase, dedupe, scopeMark, session, review, attempts, lost>>

\* Fault: a failure whose write may have begun counts as one that did not.
CannotProveItStarted(t) == run[t].pc \in {"write", "wrote"}

\* The code of the failure proves that this call sent nothing.
ProvablyNotStarted(t) == At(t, "write")

\* Release: not by webmail, and by a session's step only when it reserved itself.
NotStarted(t) ==
  /\ ProvablyNotStarted(t)
  /\ Lane(t) # "webmail" /\ (Lane(t) = "session" => run[t].fresh)
  /\ SetScope(t, "none") /\ Go(t, "release")
  /\ KeepsCase /\ UNCHANGED dedupe

\* A later click of a session that provably did nothing leaves it as it was.
ClickRefused(t) ==
  /\ At(t, "write") /\ Lane(t) = "session" /\ ~run[t].fresh
  /\ Return(t)
  /\ KeepsCase /\ UNCHANGED <<dedupe, scopeMark>>

\* Fault: a transport failure is taken for a request that was not sent.
AmbiguousReleases(t) ==
  /\ run[t].pc \in {"write", "wrote"}
  /\ SetScope(t, "none") /\ Go(t, "release")
  /\ KeepsCase /\ UNCHANGED dedupe

\* Any other failure, before the write or after it.
Ambiguous(t) ==
  /\ run[t].pc \in {"write", "wrote"}
  /\ SetScope(t, "cooldown") /\ FailUncertain(t)
  /\ KeepsCase /\ UNCHANGED dedupe

\* The provider accepted the request, or the success page was observed.
Sent(t) ==
  /\ At(t, "wrote")
  /\ SetScope(t, "cooldown") /\ Go(t, "record")
  /\ KeepsCase /\ UNCHANGED dedupe

\* A provider click of a form session that was not the last one.
Progress(t) ==
  /\ At(t, "wrote") /\ Lane(t) = "session"
  /\ Return(t)
  /\ KeepsCase /\ UNCHANGED <<dedupe, scopeMark>>

\* runParityEmail: an abort during sendMail reads as a cancelled request.
CancelledInFlight(t) ==
  /\ At(t, "wrote") /\ Lane(t) = "parity"
  /\ Go(t, "release") /\ Lose("cancel")
  /\ UNCHANGED <<now, brokerCase, dedupe, scopeMark, session, review, attempts, doubt>>

\* A confirmed success whose receipt cannot be taken off-domain: the code is
\* one of those that mean "not started".
ReceiptOffDomain(t) ==
  /\ At(t, "wrote") /\ Lane(t) = "session"
  /\ IF run[t].fresh THEN Go(t, "release") /\ Lose("receipt")
     ELSE Return(t) /\ UNCHANGED lost
  /\ UNCHANGED <<now, brokerCase, dedupe, scopeMark, session, review, attempts, doubt>>

\* assessFormRecipeSession, in any action of a step: the page drifted from the
\* signed recipe, the case is blocked; then the session is invalidated.
PageDrifted(t) ==
  /\ run[t].pc \in {"step", "write", "wrote"} /\ Lane(t) = "session"
  /\ RecordLifecycle("blocked") /\ LoseIfFlagged
  /\ run' = [run EXCEPT ![t].pc = "closing", ![t].attempt = 0]
  /\ UNCHANGED <<now, dedupe, scopeMark, session, review, attempts, doubt>>

-----------------------------------------------------------------------------
(* Recording the outcome                                                     *)

\* A session's own success also deletes the session.
Record(t) ==
  /\ At(t, "record")
  /\ IF Channel(Lane(t)) = "browser_form" THEN RecordFormSubmission(now) ELSE RecordRemoval(now)
  /\ doubt' = doubt \ {run[t].attempt}
  /\ IF SiblingHolds(t) THEN Lose("sibling") ELSE UNCHANGED lost
  /\ SetSession(t, [Mine(t) EXCEPT !.open = FALSE, !.attempt = 0])
  /\ Return(t)
  /\ UNCHANGED <<now, dedupe, scopeMark, review, attempts>>

RecordFails(t) ==
  /\ At(t, "record")
  /\ FailUncertain(t)
  /\ KeepsCase /\ UNCHANGED <<dedupe, scopeMark>>

\* An ending browser session cleans up after itself; a tool's own error path
\* on a form session only closes the tab.
AfterUncertain(t) ==
  /\ SetSession(t, [Mine(t) EXCEPT !.open = FALSE])
  /\ \/ Lane(t) # "webmail" /\ Return(t)
     \/ Lane(t) \in {"webmail", "session"} /\ Go(t, "cleanup")

MarkUncertain(t) ==
  /\ At(t, "uncertain")
  /\ RecordUncertain(Channel(Lane(t)))
  /\ AfterUncertain(t)
  /\ UNCHANGED <<now, dedupe, scopeMark, review, attempts, doubt, lost>>

\* Every caller swallows a failure of recordSubmissionUncertain.
MarkUncertainFails(t) ==
  /\ At(t, "uncertain")
  /\ AfterUncertain(t)
  /\ KeepsRest /\ UNCHANGED <<dedupe, scopeMark>>

\* cleanupAndCloseBrowserSession: a draft or a tab that cannot be closed
\* becomes a human task.
Cleanup(t) ==
  /\ At(t, "cleanup")
  /\ \/ UNCHANGED <<brokerCase, lost>>
     \/ (RecordLifecycle("human_task_queued") /\ LoseIfFlagged)
  /\ Return(t)
  /\ UNCHANGED <<now, dedupe, scopeMark, session, review, attempts, doubt>>

\* A failure of the release is swallowed.  A step does not ask whether another
\* step of its session has written, or is about to, under the reservation.
ReleaseCase(t) ==
  /\ At(t, "release")
  /\ \/ /\ Release
        /\ IF SiblingHolds(t) \/ (Lane(t) = "session" /\ doubt # {})
           THEN Lose("sibling") ELSE UNCHANGED lost
        /\ SetSession(t, [Mine(t) EXCEPT !.attempt = 0])
     \/ UNCHANGED <<brokerCase, lost, session>>
  /\ run' = [run EXCEPT ![t].pc = "forget", ![t].attempt = 0]
  /\ UNCHANGED <<now, dedupe, scopeMark, review, attempts, doubt>>

\* Then the deduplication record and the session's intent go; the form lane
\* also queues a human task.
Forget(t) ==
  /\ At(t, "forget")
  /\ dedupe' = "none"
  /\ SetSession(t, [Mine(t) EXCEPT !.intent = FALSE, !.attempt = 0])
  /\ IF Lane(t) = "form" THEN Go(t, "human") ELSE Return(t)
  /\ KeepsRest /\ UNCHANGED scopeMark

QueueHuman(t) ==
  /\ At(t, "human")
  /\ \/ UNCHANGED <<brokerCase, lost>>
     \/ (RecordLifecycle("human_task_queued") /\ LoseIfFlagged)
  /\ Return(t)
  /\ UNCHANGED <<now, dedupe, scopeMark, session, review, attempts, doubt>>

\* invalidateBrowserSession, by the 30-minute timer, pruning or a revocation
\* while steps are suspended, by a drifted step, or by a step that closes the
\* session or fails its revalidation, whoever has deleted it before.
EndSession(t, s) ==
  /\ \/ At(t, "idle") /\ session[s].open
     \/ run[t].pc \in {"step", "closing"} /\ run[t].session = s
  /\ run' = [run EXCEPT ![t] = [Idle EXCEPT !.lane = "session", !.session = s,
                !.pc = IF session[s].intent THEN "uncertain" ELSE "cleanup"]]
  /\ session' = [session EXCEPT ![s].open = FALSE]
  /\ KeepsRest /\ UNCHANGED <<dedupe, scopeMark>>

-----------------------------------------------------------------------------
(* rightout_reconcile_submission: an approved operator review                *)

\* The ledger's part.  The tool does not ask whether a request is in flight.
Reconcile ==
  /\ review = "idle"
  /\ \/ ReconcileNotStarted /\ review' = "scope"
     \/ ReconcileConfirmed /\ UNCHANGED review
  /\ doubt' = {}
  /\ IF SomeoneHolds THEN Lose("review") ELSE UNCHANGED lost
  /\ UNCHANGED <<now, dedupe, scopeMark, run, session, attempts>>

ForgetScope ==
  /\ review = "scope"
  /\ review' = "dedupe" /\ scopeMark' = "none"
  /\ UNCHANGED <<now, brokerCase, dedupe, run, session, attempts, doubt, lost>>

ForgetDedupe ==
  /\ review = "dedupe"
  /\ review' = "idle" /\ dedupe' = "none"
  /\ UNCHANGED <<now, brokerCase, scopeMark, run, session, attempts, doubt, lost>>

-----------------------------------------------------------------------------
(* The other tools on the same case, the clock of the stores, the process    *)

OtherTools == <<now, dedupe, scopeMark, run, session, review, attempts>>

\* Scans, browser discovery, direct rescans and deferrals.
Observe ==
  /\ \/ \E result \in {"indirect_exposure", "inconclusive"} :
          \E listing \in Listings \cup {NoListing} : RecordScan(result, listing)
     \/ \E listing \in Listings : RecordBrowserDiscovery(listing)
     \/ RecordPresent(now) \/ RecordAbsent(now) \/ RecordInconclusive(now)
     \/ DeferRecheck
  /\ UNCHANGED <<OtherTools, doubt, lost>>

\* The verification tools; their check of the case precedes the call.
Verify ==
  /\ \E to \in {"verification_pending", "awaiting_processing"} : RecordLifecycle(to)
  /\ UNCHANGED <<OtherTools, doubt, lost>>

\* rightout_record_controller_outcome: the answer proves receipt.  Like the
\* review it does not ask whether a session still writes.
ControllerAnswers ==
  /\ "email" \in Lanes
  /\ \E answer \in DOMAIN ControllerTarget : RecordControllerOutcome(answer)
  /\ doubt' = IF brokerCase.state = "submission_uncertain" THEN {} ELSE doubt
  /\ IF SomeoneHolds THEN Lose("review") ELSE UNCHANGED lost
  /\ UNCHANGED OtherTools

\* begin_discovery_session, its steps, begin_form_session and a webmail fill
\* record a blocked page or a human task whatever the state of the case.
HandOff ==
  /\ \E to \in {"blocked", "human_task_queued"} : RecordLifecycle(to)
  /\ LoseIfFlagged
  /\ UNCHANGED <<OtherTools, doubt>>

\* The stores keep the record for 24 hours, longer than a call or a session
\* lasts; the process's own mark was made later.
NothingInFlight ==
  /\ \A t \in Runs : At(t, "idle")
  /\ \A s \in Sessions : session[s].open => ~session[s].intent

DedupeExpires ==
  /\ NothingInFlight /\ review \in {"idle", "refused"}
  /\ dedupe' = "none"
  /\ UNCHANGED <<now, brokerCase, scopeMark, run, session, review, attempts, doubt, lost>>

ScopeExpires ==
  /\ NothingInFlight /\ dedupe = "none" /\ scopeMark = "cooldown"
  /\ scopeMark' = "none"
  /\ UNCHANGED <<now, brokerCase, dedupe, run, session, review, attempts, doubt, lost>>

\* The gateway dies and restarts: the stores survive.
Crash ==
  /\ run' = [t \in Runs |-> Idle] /\ session' = [s \in Sessions |-> Closed]
  /\ review' = IF review = "refused" THEN "refused" ELSE "idle"
  /\ scopeMark' = "none"
  /\ UNCHANGED <<now, brokerCase, dedupe, attempts, doubt, lost>>

-----------------------------------------------------------------------------
\* What a tool invocation does once it has begun.
RunStep(t) ==
  \/ CheckScope(t) \/ StepEnds(t) \/ FirstClick(t) \/ Click(t)
  \/ Acquire(t) \/ Lookup(t) \/ LoadCase(t) \/ TakeOver(t)
  \/ ReserveCase(t) \/ ReserveFails(t) \/ Undo(t) \/ MarkIntent(t)
  \/ Write(t) \/ NotStarted(t) \/ ClickRefused(t) \/ Ambiguous(t) \/ Sent(t) \/ Progress(t)
  \/ CancelledInFlight(t) \/ ReceiptOffDomain(t) \/ PageDrifted(t)
  \/ Record(t) \/ RecordFails(t) \/ MarkUncertain(t) \/ MarkUncertainFails(t) \/ Cleanup(t)
  \/ ReleaseCase(t) \/ Forget(t) \/ QueueHuman(t)

Environment ==
  \/ Reconcile \/ ForgetScope \/ ForgetDedupe
  \/ Observe \/ Verify \/ ControllerAnswers \/ HandOff
  \/ DedupeExpires \/ ScopeExpires \/ Crash

Next ==
  \/ \E t \in Runs :
       \/ \E lane \in Lanes : Begin(t, lane)
       \/ \E s \in Sessions : BeginStep(t, s) \/ EndSession(t, s)
       \/ RunStep(t)
  \/ "session" \in Lanes /\ \E s \in Sessions : OpenSession(s)
  \/ Environment

Spec == Init /\ [][Next]_vars

\* Fairness: the process runs its pending calls, the timer ends a session within
\* its 30 minutes, and the operator reviews a flagged case that nothing is
\* working on, when the review knows the broker: this last is an assumption on
\* the person, nothing in the code brings it about.
ReviewIdleCase == ~SomeoneHolds /\ Reconcile

FairSpec ==
  /\ Spec
  /\ \A t \in Runs : WF_vars(RunStep(t) \/ \E s \in Sessions : At(t, "closing") /\ EndSession(t, s))
  /\ \A s \in Sessions : SF_vars(\E t \in Runs : EndSession(t, s))
  /\ WF_vars(ForgetScope \/ ForgetDedupe) /\ WF_vars(ReviewIdleCase)

-----------------------------------------------------------------------------
(* Properties                                                                *)

\* At most one request is in doubt: no second write is made while what became
\* of an earlier one is unknown.
AtMostOneInDoubt == \A a, b \in doubt : a = b

\* README: "A provider write may have started.  Automatic retry is blocked
\* pending explicit reconciliation".  Whatever the interleaving of two requests,
\* of the steps and the clean-ups of a session, expiries and crashes, only the
\* five paths in `lost' lead to a blind retry: a hand-off or a clean-up over the
\* flag, a cancellation and an off-domain receipt taken for "not started", an
\* operator's decision under a request at work, and a session's step that
\* releases or records what another step of it still writes under.
NoBlindRetry == lost = {} => AtMostOneInDoubt

\* And only they leave a write in doubt on a case that no longer says so,
\* whichever step, timer or crash came between the write and its record.
DoubtIsFlagged == (lost = {} /\ doubt # {}) => brokerCase.state \in Flagged

\* docs/architecture.md: "Every SMTP/form effect first commits an encrypted
\* submission_pending intent."  A write that begins finds the last reservation
\* on the case, still undecided, though another step may have made it.
WriteHasIntent ==
  [][ (lost = {} /\ doubt' # doubt /\ doubt' # {} /\ doubt \subseteq doubt')
      => /\ brokerCase.state \in Flagged
         /\ doubt' = {attempts} ]_vars

\* The same claim when the one path that may be taken is the cancellation.
CancelKeepsClaim == lost \subseteq {"cancel"} => AtMostOneInDoubt

\* A flagged case is settled: by its own request or, if the operator reviews what
\* nothing works on, by the review.  Of a broker that only the parity catalog
\* knows, which the review refuses, the code settles less: every request and
\* session comes to an end, and the flag stays.
FlaggedSettles ==
  (brokerCase.state \in Flagged)
    ~> (brokerCase.state \notin Flagged \/ (review = "refused" /\ ~SomeoneHolds))

\* The request of RemovalClaim that the case and its history stand for.
ClaimPhase ==
  IF lost # {} THEN "void"
  ELSE IF doubt # {} THEN "open"
  ELSE IF brokerCase.state \in Flagged THEN "claimed" ELSE "none"
Claims == IF lost # {} THEN 0 ELSE attempts

Claimed == INSTANCE RemovalClaim WITH phase <- ClaimPhase, request <- Claims

\* SECURITY.md: a request is never repeated automatically, and each commits its
\* intent first.  Every step of every tool is a step of the claim, or none.
ImplementsClaim == Claimed!Spec

-----------------------------------------------------------------------------
(* The inductive invariant behind the safety properties                      *)

\* Whoever may still write holds the last reservation, and the case says so on
\* the holder's channel.
HolderOwnsCase ==
  /\ \A t \in Runs : Holds(t) =>
       /\ run[t].attempt = attempts
       /\ brokerCase.state \in Flagged
       /\ brokerCase.channel = Channel(Lane(t))
  /\ \A s \in Sessions : SessionHolds(s) =>
       /\ session[s].attempt = attempts
       /\ brokerCase.state \in Flagged
       /\ brokerCase.channel = "browser_form"

\* Two holders are of one session, and nobody shares a reservation before the
\* intent is marked.
HoldersAreSiblings ==
  /\ \A t, u \in Runs : Holds(t) /\ Holds(u) /\ t # u =>
       /\ run[t].session # NoSession /\ run[t].session = run[u].session
       /\ run[t].pc # "mark"
  /\ \A t \in Runs, s \in Sessions : Holds(t) /\ SessionHolds(s) =>
       run[t].session = s /\ run[t].pc # "mark"
  /\ \A s, z \in Sessions : SessionHolds(s) /\ SessionHolds(z) => s = z

\* Where a run holds a reservation, and where nothing has been written yet.
Holding == {"mark", "write", "wrote", "record", "release"}

Placed(r) ==
  /\ r.attempt # 0 <=> r.pc \in Holding
  /\ r.lane = "session" <=> r.session # NoSession
  /\ (r.pc = "mark" \/ (r.pc \in {"write", "release"} /\ r.lane # "session")) => doubt = {}
  /\ r.pc \in {"step", "closing"} => r.lane = "session"

Accounted ==
  /\ HolderOwnsCase /\ HoldersAreSiblings
  /\ \A t \in Runs : Placed(run[t])
  /\ doubt \subseteq {attempts}
  /\ doubt # {} => brokerCase.state \in Flagged

SubmissionInv == lost = {} => Accounted

=============================================================================
