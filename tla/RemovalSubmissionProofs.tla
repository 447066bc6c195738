----------------------- MODULE RemovalSubmissionProofs ------------------------
(* Proofs about RemovalSubmission for any number of runs, sessions, lanes,     *)
(* attempts and crashes: the types, and that a write in doubt is never retried *)
(* blindly.                                                                    *)
EXTENDS RemovalSubmission, CaseLedgerProofs

-----------------------------------------------------------------------------
(* Types                                                                     *)

LEMMA RunUpdateTyped ==
  ASSUME NEW t \in Runs, run \in [Runs -> RunRecord], NEW r \in RunRecord,
         run' = [run EXCEPT ![t] = r]
  PROVE  run' \in [Runs -> RunRecord]
  OBVIOUS

LEMMA IdleIsRun == Idle \in RunRecord
  BY DEF Idle, RunRecord, Pc, Phase

LEMMA ChannelIsChannel ==
  ASSUME NEW lane \in Lanes \cup {"none", "session"}
  PROVE  Channel(lane) \in Channels
  BY DEF Channel, Channels

LEMMA GoTyped ==
  ASSUME NEW t \in Runs, run \in [Runs -> RunRecord], NEW pc \in Pc, Go(t, pc)
  PROVE  run' \in [Runs -> RunRecord]
  BY DEF Go, RunRecord

LEMMA ReturnTyped ==
  ASSUME NEW t \in Runs, run \in [Runs -> RunRecord], Return(t)
  PROVE  run' \in [Runs -> RunRecord]
  BY IdleIsRun DEF Return

LEMMA PcListed ==
  Pc = {"idle", "scope", "acquire", "lookup", "load", "takeover", "retake", "reserve",
        "mark", "undo", "step", "closing", "write", "wrote", "record", "uncertain", "release",
        "forget", "human", "cleanup"}
  BY DEF Pc

\* A step of one run: it begins, goes on, or is a clean-up of a session.
RunMoves(t) ==
  \/ \E lane \in Lanes : Begin(t, lane)
  \/ \E s \in Sessions : BeginStep(t, s) \/ EndSession(t, s)
  \/ RunStep(t)

\* A run that fails into the uncertain state stays a run.
LEMMA FailTyped ==
  ASSUME NEW t \in Runs, run \in [Runs -> RunRecord], FailUncertain(t)
  PROVE  run' \in [Runs -> RunRecord]
PROOF
<1>1. "uncertain" \in Pc /\ 0 \in Nat /\ run[t] \in RunRecord
  BY PcListed
<1>2. [run[t] EXCEPT !.pc = "uncertain", !.attempt = 0] \in RunRecord
  BY <1>1 DEF RunRecord
<1> QED
  BY <1>2 DEF FailUncertain

\* The record a session's step has at hand is one.
LEMMA SessionUpdateTyped ==
  ASSUME NEW t \in Runs, TypeOK, NEW changed, SetSession(t, changed),
         run[t].session \in Sessions => changed \in SessionRecord
  PROVE  session' \in [Sessions -> SessionRecord]
  BY DEF TypeOK, SetSession

\* Whatever a run does, its own record stays one.
LEMMA RunsTyped ==
  ASSUME TypeOK, NEW t \in Runs, RunMoves(t)
  PROVE  run' \in [Runs -> RunRecord]
PROOF
<1> run \in [Runs -> RunRecord] /\ run[t] \in RunRecord /\ attempts \in Nat /\ dedupe \in Phase
  BY DEF TypeOK
<1> session \in [Sessions -> SessionRecord]
  BY DEF TypeOK
<1>1. CASE CheckScope(t)
  BY <1>1, GoTyped, ReturnTyped, PcListed DEF CheckScope
<1>2. CASE TakeOver(t)
  BY <1>2, GoTyped, ReturnTyped, PcListed DEF TakeOver
<1>3. CASE Undo(t)
  BY <1>3, GoTyped, ReturnTyped, PcListed DEF Undo
<1>4. CASE MarkIntent(t)
  BY <1>4, GoTyped, ReturnTyped, PcListed DEF MarkIntent
<1>5. CASE NotStarted(t)
  BY <1>5, GoTyped, ReturnTyped, PcListed DEF NotStarted
<1>6. CASE ClickRefused(t)
  BY <1>6, GoTyped, ReturnTyped, PcListed DEF ClickRefused
<1>7. CASE Sent(t)
  BY <1>7, GoTyped, ReturnTyped, PcListed DEF Sent
<1>8. CASE Progress(t)
  BY <1>8, GoTyped, ReturnTyped, PcListed DEF Progress
<1>9. CASE StepEnds(t)
  BY <1>9, GoTyped, ReturnTyped, PcListed DEF StepEnds
<1>10. CASE FirstClick(t)
  BY <1>10, GoTyped, ReturnTyped, PcListed DEF FirstClick
<1>11. CASE CancelledInFlight(t)
  BY <1>11, GoTyped, ReturnTyped, PcListed DEF CancelledInFlight
<1>12. CASE ReceiptOffDomain(t)
  BY <1>12, GoTyped, ReturnTyped, PcListed DEF ReceiptOffDomain
<1>13. CASE Write(t)
  BY <1>13, GoTyped, ReturnTyped, PcListed DEF Write
<1>14. CASE Acquire(t)
  BY <1>14, GoTyped, ReturnTyped, PcListed DEF Acquire
<1>15. CASE LoadCase(t)
  BY <1>15, GoTyped, ReturnTyped, PcListed DEF LoadCase
<1>16. CASE Forget(t)
  BY <1>16, GoTyped, ReturnTyped, PcListed DEF Forget
<1>17. CASE Ambiguous(t)
  BY <1>17, FailTyped DEF Ambiguous
<1>18. CASE RecordFails(t)
  BY <1>18, FailTyped DEF RecordFails
<1>19. CASE \E lane \in Lanes : Begin(t, lane)
  <2>1. PICK lane \in Lanes : Begin(t, lane)
    BY <1>19
  <2>2. PICK pc \in Pc : run' = [run EXCEPT ![t] = [Idle EXCEPT !.lane = lane, !.pc = pc]]
    <3>1. CASE Scoped(lane)
      BY <2>1, <3>1, PcListed DEF Begin
    <3>2. CASE ~Scoped(lane)
      BY <2>1, <3>2, PcListed DEF Begin
    <3> QED
      BY <3>1, <3>2
  <2>3. [Idle EXCEPT !.lane = lane, !.pc = pc] \in RunRecord
    BY IdleIsRun DEF RunRecord
  <2> QED
    BY <2>2, <2>3
<1>20. CASE \E s \in Sessions : BeginStep(t, s) \/ EndSession(t, s)
  <2>1. PICK s \in Sessions : BeginStep(t, s) \/ EndSession(t, s)
    BY <1>20
  <2>2. PICK pc \in Pc :
          run' = [run EXCEPT ![t] = [Idle EXCEPT !.lane = "session", !.session = s, !.pc = pc]]
    <3>1. CASE BeginStep(t, s)
      <4>1. [Idle EXCEPT !.lane = "session", !.pc = "step", !.session = s]
            = [Idle EXCEPT !.lane = "session", !.session = s, !.pc = "step"]
        BY DEF Idle
      <4> QED
        BY <3>1, <4>1, PcListed DEF BeginStep
    <3>2. CASE EndSession(t, s)
      <4>1. CASE session[s].intent
        BY <3>2, <4>1, PcListed DEF EndSession
      <4>2. CASE ~session[s].intent
        BY <3>2, <4>2, PcListed DEF EndSession
      <4> QED
        BY <4>1, <4>2
    <3> QED
      BY <2>1, <3>1, <3>2
  <2>3. [Idle EXCEPT !.lane = "session", !.session = s, !.pc = pc] \in RunRecord
    BY IdleIsRun DEF RunRecord
  <2> QED
    BY <2>2, <2>3
<1>21. CASE Click(t)
  <2>1. PICK a \in Nat : run' = [run EXCEPT ![t].pc = "write", ![t].attempt = a]
    BY <1>21 DEF Click, AtStep, Mine, SessionRecord
  <2> QED
    BY <2>1, PcListed DEF RunRecord
<1>22. CASE Lookup(t)
  BY <1>22, PcListed DEF Lookup, RunRecord
<1>23. CASE ReserveFails(t)
  BY <1>23, ReturnTyped, PcListed DEF ReserveFails, RunRecord
<1>24. CASE ReserveCase(t)
  <2>1. attempts + 1 \in Nat /\ "mark" \in Pc
    BY PcListed
  <2>2. [run[t] EXCEPT !.pc = "mark", !.attempt = attempts + 1, !.fresh = TRUE] \in RunRecord
    BY <2>1 DEF RunRecord
  <2>3. run' = [run EXCEPT ![t] =
                  [run[t] EXCEPT !.pc = "mark", !.attempt = attempts + 1, !.fresh = TRUE]]
    BY <1>24 DEF ReserveCase
  <2> QED
    BY <2>2, <2>3
<1>25. CASE MarkUncertain(t) \/ MarkUncertainFails(t)
  BY <1>25, GoTyped, ReturnTyped, PcListed DEF MarkUncertain, MarkUncertainFails, AfterUncertain
<1>26. CASE Record(t) \/ Cleanup(t) \/ QueueHuman(t)
  BY <1>26, ReturnTyped DEF Record, Cleanup, QueueHuman
<1>27. CASE ReleaseCase(t)
  BY <1>27, PcListed DEF ReleaseCase, RunRecord
<1>28. CASE PageDrifted(t)
  BY <1>28, PcListed DEF PageDrifted, RunRecord
<1> QED
  BY <1>1, <1>2, <1>3, <1>4, <1>5, <1>6, <1>7, <1>8, <1>9, <1>10, <1>11, <1>12, <1>13, <1>14, <1>15, <1>16, <1>17, <1>18, <1>19, <1>20, <1>21, <1>22, <1>23, <1>24, <1>25, <1>26, <1>27, <1>28 DEF RunStep, RunMoves

\* And the session objects stay what they are.
LEMMA SessionsTyped ==
  ASSUME TypeOK, NEW t \in Runs, RunMoves(t)
  PROVE  session' \in [Sessions -> SessionRecord]
PROOF
<1>1. /\ session \in [Sessions -> SessionRecord] /\ run[t].attempt \in Nat
      /\ (run[t].session \in Sessions => Mine(t) \in SessionRecord)
  BY DEF TypeOK, RunRecord, Mine
<1>2. CASE session' = session
  BY <1>1, <1>2
<1>3. CASE \E s \in Sessions : session' = [session EXCEPT ![s].open = FALSE]
  BY <1>1, <1>3 DEF SessionRecord
<1>4. CASE MarkIntent(t)
  BY <1>1, <1>4, SessionUpdateTyped DEF MarkIntent, SessionRecord
<1>5. CASE Record(t)
  BY <1>1, <1>5, SessionUpdateTyped DEF Record, SessionRecord
<1>6. CASE MarkUncertain(t) \/ MarkUncertainFails(t)
  BY <1>1, <1>6, SessionUpdateTyped DEF MarkUncertain, MarkUncertainFails, AfterUncertain,
     SessionRecord
<1>7. CASE ReleaseCase(t)
  BY <1>1, <1>2, <1>7, SessionUpdateTyped DEF ReleaseCase, SessionRecord
<1>8. CASE Forget(t)
  BY <1>1, <1>8, SessionUpdateTyped DEF Forget, SessionRecord
<1>9. \/ MarkIntent(t) \/ Record(t) \/ MarkUncertain(t) \/ MarkUncertainFails(t)
      \/ ReleaseCase(t) \/ Forget(t) \/ session' = session
      \/ \E s \in Sessions : session' = [session EXCEPT ![s].open = FALSE]
  BY DEF RunMoves, RunStep, Begin, BeginStep, EndSession, CheckScope, StepEnds, FirstClick, Click,
     Acquire, Lookup, LoadCase, TakeOver, ReserveCase, ReserveFails, Undo, Write, NotStarted,
     ClickRefused, Ambiguous, Sent, Progress, CancelledInFlight, ReceiptOffDomain, PageDrifted,
     RecordFails, Cleanup, QueueHuman, KeepsCase
<1> QED
  BY <1>2, <1>3, <1>4, <1>5, <1>6, <1>7, <1>8, <1>9

\* Everything in the types but the runs, the sessions and the case.
RestTyped ==
  /\ ClockTypeOK /\ dedupe \in Phase /\ scopeMark \in {"none", "inFlight", "cooldown"}
  /\ review \in {"idle", "scope", "dedupe", "refused"} /\ attempts \in Nat
  /\ doubt \subseteq Nat /\ lost \subseteq Causes

\* And what a run does to it.
LEMMA RestStaysTyped ==
  ASSUME TypeOK, NEW t \in Runs, RunMoves(t)
  PROVE  RestTyped'
PROOF
<1>1. /\ RestTyped
      /\ {"none", "reserved", "intent"} \subseteq Phase
      /\ {"cancel", "receipt", "handoff", "sibling"} \subseteq Causes
      /\ attempts + 1 \in Nat /\ run[t].attempt \in Nat
  BY DEF TypeOK, RestTyped, Phase, Causes, RunRecord
<1>2. /\ now' = now /\ review' = review /\ attempts' \in {attempts, attempts + 1}
  BY DEF RunMoves, RunStep, Begin, BeginStep, EndSession, CheckScope, StepEnds, FirstClick, Click,
     Acquire, Lookup, LoadCase, TakeOver, ReserveCase, ReserveFails, Undo, MarkIntent, Write,
     NotStarted, ClickRefused, Ambiguous, Sent, Progress, CancelledInFlight, ReceiptOffDomain,
     PageDrifted, Record, RecordFails, MarkUncertain, MarkUncertainFails, AfterUncertain, Cleanup,
     ReleaseCase, Forget, QueueHuman, KeepsCase, KeepsRest
<1>3. /\ dedupe' \in {dedupe, "none", "reserved", "intent"}
      /\ scopeMark' \in {scopeMark, "none", "inFlight", "cooldown"}
  BY DEF RunMoves, RunStep, Begin, BeginStep, EndSession, CheckScope, StepEnds, FirstClick, Click,
     Acquire, Lookup, LoadCase, TakeOver, ReserveCase, ReserveFails, Undo, MarkIntent, Write,
     NotStarted, ClickRefused, Ambiguous, Sent, Progress, CancelledInFlight, ReceiptOffDomain,
     PageDrifted, Record, RecordFails, MarkUncertain, MarkUncertainFails, AfterUncertain, Cleanup,
     ReleaseCase, Forget, QueueHuman, KeepsCase, KeepsRest, SetScope
<1>4. doubt' \subseteq doubt \cup {run[t].attempt}
  BY DEF RunMoves, RunStep, Begin, BeginStep, EndSession, CheckScope, StepEnds, FirstClick, Click,
     Acquire, Lookup, LoadCase, TakeOver, ReserveCase, ReserveFails, Undo, MarkIntent, Write,
     NotStarted, ClickRefused, Ambiguous, Sent, Progress, CancelledInFlight, ReceiptOffDomain,
     PageDrifted, Record, RecordFails, MarkUncertain, MarkUncertainFails, AfterUncertain, Cleanup,
     ReleaseCase, Forget, QueueHuman, KeepsCase, KeepsRest
<1>5. lost' \subseteq lost \cup {"cancel", "receipt", "handoff", "sibling"}
  BY DEF RunMoves, RunStep, Begin, BeginStep, EndSession, CheckScope, StepEnds, FirstClick, Click,
     Acquire, Lookup, LoadCase, TakeOver, ReserveCase, ReserveFails, Undo, MarkIntent, Write,
     NotStarted, ClickRefused, Ambiguous, Sent, Progress, CancelledInFlight, ReceiptOffDomain,
     PageDrifted, Record, RecordFails, MarkUncertain, MarkUncertainFails, AfterUncertain, Cleanup,
     ReleaseCase, Forget, QueueHuman, KeepsCase, KeepsRest,
     Lose, LoseIfFlagged
<1> QED
  BY <1>1, <1>2, <1>3, <1>4, <1>5 DEF RestTyped, ClockTypeOK

\* The steps of a run that leave the case alone.
LEMMA CaseUntouched ==
  ASSUME NEW t \in Runs, RunMoves(t),
         ~ReserveCase(t), ~Record(t), ~MarkUncertain(t), ~Cleanup(t), ~ReleaseCase(t),
         ~QueueHuman(t), ~PageDrifted(t)
  PROVE  brokerCase' = brokerCase /\ attempts' = attempts
  BY DEF RunMoves, RunStep, Begin, BeginStep, EndSession, CheckScope, StepEnds, FirstClick, Click,
     Acquire, Lookup, LoadCase, TakeOver, ReserveFails, Undo, MarkIntent, Write, NotStarted,
     ClickRefused, Ambiguous, Sent, Progress, CancelledInFlight, ReceiptOffDomain, RecordFails,
     MarkUncertainFails, Forget, KeepsCase, KeepsRest

LEMMA CaseStaysTyped ==
  ASSUME TypeOK, NEW t \in Runs, RunMoves(t)
  PROVE  CaseTypeOK'
PROOF
<1>1. CaseTypeOK /\ now \in Nat /\ run[t] \in RunRecord
  BY ClockAssumption DEF TypeOK, ClockTypeOK
<1>2. Channel(Lane(t)) \in Channels
  BY <1>1, ChannelIsChannel DEF Lane, RunRecord
<1>3. CASE brokerCase' = brokerCase
  BY <1>1, <1>3 DEF CaseTypeOK
<1>4. CASE ReserveCase(t)
  BY <1>1, <1>2, <1>4, SubmissionsTyped DEF ReserveCase
<1>5. CASE Record(t)
  BY <1>1, <1>2, <1>5, SubmissionsTyped DEF Record
<1>6. CASE MarkUncertain(t)
  BY <1>1, <1>2, <1>6, SubmissionsTyped DEF MarkUncertain
<1>7. CASE ReleaseCase(t)
  BY <1>1, <1>2, <1>3, <1>7, SubmissionsTyped DEF ReleaseCase
<1>8. CASE PageDrifted(t)
  BY <1>1, <1>8, LifecycleTyped DEF PageDrifted
<1>9. CASE Cleanup(t) \/ QueueHuman(t)
  BY <1>1, <1>3, <1>9, LifecycleTyped DEF Cleanup, QueueHuman
<1> QED
  BY <1>3, <1>4, <1>5, <1>6, <1>7, <1>8, <1>9, CaseUntouched

LEMMA ClosedIsSession == Closed \in SessionRecord
  BY DEF Closed, SessionRecord

LEMMA EnvironmentTyped ==
  ASSUME TypeOK, Environment
  PROVE  TypeOK'
PROOF
<1>1. CaseTypeOK /\ now \in Nat /\ now' = now
  BY ClockAssumption DEF TypeOK, ClockTypeOK, Environment, Reconcile, ForgetScope, ForgetDedupe,
     Observe, Verify, ControllerAnswers, HandOff, DedupeExpires, ScopeExpires, Crash, OtherTools
<1>2. "handoff" \in Causes /\ "review" \in Causes /\ "none" \in Phase /\ "smtp_email" \in Channels
  BY DEF Causes, Phase, Channels
<1>3. ASSUME brokerCase' = brokerCase PROVE CaseTypeOK'
  BY <1>1, <1>3 DEF CaseTypeOK
<1>4. CASE Reconcile
  <2>1. CaseTypeOK'
    BY <1>1, <1>2, <1>4, SubmissionsTyped DEF Reconcile
  <2> QED
    BY <1>2, <1>4, <2>1 DEF Reconcile, TypeOK, ClockTypeOK, Lose
<1>5. CASE ForgetScope \/ ForgetDedupe \/ DedupeExpires \/ ScopeExpires
  BY <1>2, <1>3, <1>5 DEF ForgetScope, ForgetDedupe, DedupeExpires, ScopeExpires, TypeOK,
     ClockTypeOK
<1>6. CASE Observe
  <2>1. CaseTypeOK'
    BY <1>1, <1>2, <1>6, ScansTyped, RescansTyped, SubmissionsTyped DEF Observe
  <2> QED
    BY <1>6, <2>1 DEF Observe, OtherTools, TypeOK, ClockTypeOK
<1>7. CASE Verify \/ HandOff
  <2>1. CaseTypeOK'
    BY <1>1, <1>7, LifecycleTyped DEF Verify, HandOff
  <2> QED
    BY <1>2, <1>7, <2>1 DEF Verify, HandOff, LoseIfFlagged, OtherTools, TypeOK, ClockTypeOK
<1>8. CASE ControllerAnswers
  <2>1. CaseTypeOK'
    BY <1>1, <1>8, ControllerTyped DEF ControllerAnswers
  <2> QED
    BY <1>2, <1>8, <2>1 DEF ControllerAnswers, Lose, OtherTools, TypeOK, ClockTypeOK
<1>9. CASE Crash
  <2>1. run' \in [Runs -> RunRecord] /\ session' \in [Sessions -> SessionRecord]
    BY <1>9, IdleIsRun, ClosedIsSession DEF Crash
  <2> QED
    BY <1>3, <1>9, <2>1 DEF Crash, TypeOK, ClockTypeOK
<1> QED
  BY <1>4, <1>5, <1>6, <1>7, <1>8, <1>9 DEF Environment

\* Every reachable state has the types the modules declare.
THEOREM TypeCorrect == Spec => []TypeOK
PROOF
<1>1. Init => TypeOK
  <2> SUFFICES ASSUME Init PROVE TypeOK
    OBVIOUS
  <2>1. CaseTypeOK
    BY StatesListed DEF Init, CaseInit, NewCase, CaseTypeOK, Outcomes, Time, Scopes
  <2>2. ClockTypeOK
    BY ClockAssumption DEF Init, ClockInit, ClockTypeOK
  <2> QED
    BY <2>1, <2>2, IdleIsRun, ClosedIsSession DEF Init, TypeOK, Phase
<1>2. TypeOK /\ [Next]_vars => TypeOK'
  <2> SUFFICES ASSUME TypeOK, [Next]_vars PROVE TypeOK'
    OBVIOUS
  <2>1. CASE UNCHANGED vars
    BY <2>1 DEF vars, TypeOK, ClockTypeOK, CaseTypeOK
  <2>2. CASE Environment
    BY <2>2, EnvironmentTyped
  <2>3. ASSUME NEW t \in Runs, RunMoves(t)
        PROVE TypeOK'
    BY <2>3, RunsTyped, SessionsTyped, RestStaysTyped, CaseStaysTyped DEF TypeOK, RestTyped
  <2>4. ASSUME NEW s \in Sessions, OpenSession(s)
        PROVE TypeOK'
    <3>1. session' \in [Sessions -> SessionRecord]
      BY <2>4 DEF OpenSession, Closed, SessionRecord, TypeOK
    <3> QED
      BY <2>4, <3>1 DEF OpenSession, KeepsRest, TypeOK, ClockTypeOK, CaseTypeOK
  <2> QED
    BY <2>1, <2>2, <2>3, <2>4 DEF Next, RunMoves
<1> QED
  BY <1>1, <1>2, PTL DEF Spec

-----------------------------------------------------------------------------
(* A write in doubt is never retried blindly                                 *)

\* A session that lives on was alive before, unless a run was just given one
\* that was not open.
LEMMA LiveBefore ==
  ASSUME run \in [Runs -> RunRecord], NEW t \in Runs, NEW r \in RunRecord,
         run' = [run EXCEPT ![t] = r],
         \/ r.session \in {NoSession, run[t].session}
         \/ r.session \in Sessions /\ session[r.session].open,
         NEW s \in Sessions, session'[s].open => session[s].open, Live(s)'
  PROVE  Live(s)
PROOF
<1>1. run'[t] = r /\ \A u \in Runs : u # t => run'[u] = run[u]
  OBVIOUS
<1>2. s # NoSession
  BY SubmissionAssumption
<1> QED
  BY <1>1, <1>2 DEF Live

\* Fewer runs and sessions hold the case, or as many, and the case keeps its
\* flag and channel, or nobody holds it any more.
LEMMA HoldersShrink ==
  ASSUME Accounted, attempts' = attempts, doubt' \subseteq doubt,
         \A t \in Runs : Placed(run[t])',
         \A t \in Runs : Holds(t)' =>
           /\ Holds(t)
           /\ run'[t].attempt = run[t].attempt /\ run'[t].lane = run[t].lane
           /\ run'[t].session = run[t].session
           /\ run'[t].pc = "mark" => run[t].pc = "mark",
         \A s \in Sessions : SessionHolds(s)' =>
           SessionHolds(s) /\ session'[s].attempt = session[s].attempt,
         \/ brokerCase' = brokerCase
         \/ brokerCase'.state \in Flagged /\ brokerCase'.channel = brokerCase.channel
         \/ doubt' = {} /\ ~SomeoneHolds'
  PROVE  Accounted'
PROOF
<1>1. HolderOwnsCase'
  BY DEF Accounted, HolderOwnsCase, SomeoneHolds, Lane
<1>2. HoldersAreSiblings'
  <2>1. ASSUME NEW t \in Runs, NEW u \in Runs, Holds(t)', Holds(u)', t # u
        PROVE  run'[t].session # NoSession /\ run'[t].session = run'[u].session
               /\ run'[t].pc # "mark"
    BY <2>1 DEF Accounted, HoldersAreSiblings
  <2>2. ASSUME NEW t \in Runs, NEW s \in Sessions, Holds(t)', SessionHolds(s)'
        PROVE  run'[t].session = s /\ run'[t].pc # "mark"
    BY <2>2 DEF Accounted, HoldersAreSiblings
  <2>3. ASSUME NEW s \in Sessions, NEW z \in Sessions, SessionHolds(s)', SessionHolds(z)'
        PROVE  s = z
    BY <2>3 DEF Accounted, HoldersAreSiblings
  <2> QED
    BY <2>1, <2>2, <2>3 DEF HoldersAreSiblings
<1>3. doubt' \subseteq {attempts'} /\ (doubt' # {} => brokerCase'.state \in Flagged)
  BY DEF Accounted
<1> QED
  BY <1>1, <1>2, <1>3 DEF Accounted

\* One run gives its reservation back or keeps it, and ends a session or not.
LEMMA StepOfRun ==
  ASSUME Accounted, run \in [Runs -> RunRecord], NEW t \in Runs, NEW r \in RunRecord,
         run' = [run EXCEPT ![t] = r], attempts' = attempts, doubt' \subseteq doubt,
         \/ r.session \in {NoSession, run[t].session}
         \/ r.session \in Sessions /\ session[r.session].open,
         \/ r.attempt = 0
         \/ /\ r.attempt = run[t].attempt /\ r.lane = run[t].lane
            /\ r.session = run[t].session /\ r.pc # "mark",
         Placed(r)',
         \A s \in Sessions :
           /\ session'[s].open => session[s].open
           /\ session'[s].attempt \in {0, session[s].attempt},
         \/ brokerCase' = brokerCase
         \/ brokerCase'.state \in Flagged /\ brokerCase'.channel = brokerCase.channel
         \/ doubt' = {} /\ ~SomeoneHolds'
  PROVE  Accounted'
PROOF
<1>1. run'[t] = r /\ \A u \in Runs : u # t => run'[u] = run[u]
  OBVIOUS
<1>2. \A u \in Runs : Placed(run[u])'
  <2>1. ASSUME NEW u \in Runs, u # t PROVE Placed(run[u])'
    <3>1. Placed(run[u]) /\ run'[u] = run[u]
      BY <1>1, <2>1 DEF Accounted
    <3> QED
      BY <3>1 DEF Placed
  <2>2. Placed(run[t])'
    BY <1>1 DEF Placed
  <2> QED
    BY <2>1, <2>2
<1>3. \A u \in Runs : Holds(u)' =>
        /\ Holds(u)
        /\ run'[u].attempt = run[u].attempt /\ run'[u].lane = run[u].lane
        /\ run'[u].session = run[u].session
        /\ run'[u].pc = "mark" => run[u].pc = "mark"
  BY <1>1 DEF Holds
<1>4. \A s \in Sessions : SessionHolds(s)' =>
        SessionHolds(s) /\ session'[s].attempt = session[s].attempt
  BY LiveBefore DEF SessionHolds
<1> QED
  BY <1>2, <1>3, <1>4, HoldersShrink

\* Nobody holds an unflagged case, and nothing is in doubt.
LEMMA UnflaggedIsFree ==
  ASSUME Accounted, brokerCase.state \notin Flagged
  PROVE  doubt = {} /\ ~SomeoneHolds
  BY DEF Accounted, HolderOwnsCase, SomeoneHolds

\* Holders stay none while only runs without a reservation move.
LEMMA StaysFree ==
  ASSUME ~SomeoneHolds, run \in [Runs -> RunRecord], NEW t \in Runs, NEW r \in RunRecord,
         run' = [run EXCEPT ![t] = r], r.attempt = 0,
         r.session \in {NoSession, run[t].session}, session' = session
  PROVE  ~SomeoneHolds'
PROOF
<1>1. run'[t] = r /\ \A u \in Runs : u # t => run'[u] = run[u]
  OBVIOUS
<1>2. \A s \in Sessions : SessionHolds(s)' => SessionHolds(s)
  BY LiveBefore DEF SessionHolds
<1> QED
  BY <1>1, <1>2 DEF SomeoneHolds, Holds

LEMMA IdleIsPlaced == Placed(Idle) /\ Placed(Idle)'
  BY DEF Idle, Placed, Holding

\* The steps of a run that leave the case and the doubt alone, and give no new
\* holder.
Quiet(t) ==
  \/ \E lane \in Lanes : Begin(t, lane)
  \/ \E s \in Sessions : BeginStep(t, s) \/ EndSession(t, s)
  \/ CheckScope(t) \/ StepEnds(t) \/ FirstClick(t)
  \/ Acquire(t) \/ Lookup(t) \/ LoadCase(t) \/ TakeOver(t)
  \/ ReserveFails(t) \/ Undo(t) \/ NotStarted(t)
  \/ ClickRefused(t) \/ Ambiguous(t) \/ Sent(t) \/ Progress(t)
  \/ RecordFails(t) \/ MarkUncertainFails(t) \/ Forget(t)

LEMMA QuietFacts ==
  ASSUME NEW t \in Runs, Quiet(t)
  PROVE  /\ brokerCase' = brokerCase /\ attempts' = attempts /\ doubt' = doubt
         /\ lost' = lost
  BY DEF Quiet, Begin, BeginStep, EndSession, CheckScope, StepEnds, FirstClick, Acquire, Lookup,
     LoadCase, TakeOver, ReserveFails, Undo, NotStarted, ClickRefused, Ambiguous, Sent, Progress,
     RecordFails, MarkUncertainFails, Forget, KeepsCase, KeepsRest

LEMMA QuietSessions ==
  ASSUME TypeOK, NEW t \in Runs, Quiet(t), NEW z \in Sessions
  PROVE  /\ session'[z].open => session[z].open
         /\ session'[z].attempt \in {0, session[z].attempt}
PROOF
<1>1. session \in [Sessions -> SessionRecord] /\ session[z] \in SessionRecord
  BY DEF TypeOK
<1>2. CASE session' = session
  BY <1>2
<1>3. CASE \E s \in Sessions : EndSession(t, s)
  BY <1>1, <1>3 DEF EndSession, SessionRecord
<1>4. CASE MarkUncertainFails(t) \/ Forget(t)
  <2>1. session'[z] = session[z]
        \/ session'[z] = [session[z] EXCEPT !.open = FALSE]
        \/ session'[z] = [session[z] EXCEPT !.intent = FALSE, !.attempt = 0]
    BY <1>4 DEF MarkUncertainFails, AfterUncertain, Forget, SetSession, Mine
  <2> QED
    BY <1>1, <2>1 DEF SessionRecord
<1> QED
  BY <1>2, <1>3, <1>4 DEF Quiet, Begin, BeginStep, CheckScope, StepEnds, FirstClick, Acquire,
     Lookup, LoadCase, TakeOver, ReserveFails, Undo, NotStarted, ClickRefused, Ambiguous, Sent,
     Progress, RecordFails, KeepsCase

\* What a quiet step leaves of the run it moves.
Calm(t, r) ==
  /\ run' = [run EXCEPT ![t] = r]
  /\ \/ r.session \in {NoSession, run[t].session}
     \/ r.session \in Sessions /\ session[r.session].open
  /\ \/ r.attempt = 0
     \/ /\ r.attempt = run[t].attempt /\ r.lane = run[t].lane
        /\ r.session = run[t].session /\ r.pc # "mark"
  /\ Placed(r)'

LEMMA GoIsCalm ==
  ASSUME TypeOK, Accounted, NEW t \in Runs, NEW pc \in Pc \ {"mark"}, Go(t, pc), doubt' = doubt,
         run[t].pc \in Holding <=> pc \in Holding,
         pc = "write" => run[t].pc = "mark",
         pc = "release" /\ run[t].lane # "session" => run[t].pc = "write",
         pc \notin {"step", "closing"}
  PROVE  \E r \in RunRecord : Calm(t, r)
PROOF
<1>0. PICK r \in RunRecord : r = [run[t] EXCEPT !.pc = pc]
  BY DEF TypeOK, RunRecord
<1>1. run[t] \in RunRecord /\ Placed(run[t]) /\ run' = [run EXCEPT ![t] = r]
  BY <1>0 DEF TypeOK, Accounted, Go
<1>2. /\ r \in RunRecord /\ r.pc = pc /\ r.attempt = run[t].attempt
      /\ r.lane = run[t].lane /\ r.session = run[t].session
  BY <1>0, <1>1 DEF RunRecord
<1>3. Placed(r)'
  BY <1>1, <1>2 DEF Placed, Holding
<1> QED
  BY <1>1, <1>2, <1>3 DEF Calm, Holding

LEMMA ReturnIsCalm ==
  ASSUME NEW t \in Runs, Return(t)
  PROVE  \E r \in RunRecord : Calm(t, r)
PROOF
<1>1. Idle.session = NoSession /\ Idle.attempt = 0
  BY DEF Idle
<1> QED
  BY <1>1, IdleIsRun, IdleIsPlaced DEF Return, Calm

\* The reservation is given up without leaving the call.
LEMMA DropIsCalm ==
  ASSUME TypeOK, Accounted, NEW t \in Runs, NEW pc \in Pc \ Holding,
         pc \in {"step", "closing"} => run[t].lane = "session",
         run' = [run EXCEPT ![t].pc = pc, ![t].attempt = 0]
  PROVE  \E r \in RunRecord : Calm(t, r)
PROOF
<1>0. PICK r \in RunRecord : r = [run[t] EXCEPT !.pc = pc, !.attempt = 0]
  BY DEF TypeOK, RunRecord
<1>1. run[t] \in RunRecord /\ Placed(run[t]) /\ run' = [run EXCEPT ![t] = r]
  BY <1>0 DEF TypeOK, Accounted
<1>2. /\ r \in RunRecord /\ r.pc = pc /\ r.attempt = 0
      /\ r.lane = run[t].lane /\ r.session = run[t].session
  BY <1>0, <1>1 DEF RunRecord
<1>3. Placed(r)'
  BY <1>1, <1>2 DEF Placed, Holding
<1> QED
  BY <1>1, <1>2, <1>3 DEF Calm

LEMMA QuietIsCalm ==
  ASSUME TypeOK, Accounted, NEW t \in Runs, Quiet(t)
  PROVE  \E r \in RunRecord : Calm(t, r)
PROOF
<1>1. run \in [Runs -> RunRecord] /\ run[t] \in RunRecord /\ Placed(run[t])
  BY DEF TypeOK, Accounted
<1>2. doubt' = doubt
  BY QuietFacts
<1>3. CASE Return(t)
  BY <1>3, ReturnIsCalm
<1>4. CASE \E lane \in Lanes : Begin(t, lane)
  <2>1. PICK lane \in Lanes : Begin(t, lane)
    BY <1>4
  <2>2. PICK pc \in {"scope", "acquire"} :
          run' = [run EXCEPT ![t] = [Idle EXCEPT !.lane = lane, !.pc = pc]]
    <3>1. CASE Scoped(lane)
      BY <2>1, <3>1 DEF Begin
    <3>2. CASE ~Scoped(lane)
      BY <2>1, <3>2 DEF Begin
    <3> QED
      BY <3>1, <3>2
  <2> DEFINE r == [Idle EXCEPT !.lane = lane, !.pc = pc]
  <2>3. /\ r \in RunRecord /\ r.attempt = 0 /\ r.session = NoSession /\ r.pc = pc
        /\ r.lane = lane /\ lane # "session"
    BY <2>1, IdleIsRun, PcListed DEF RunRecord, Idle, Begin
  <2>4. Placed(r)'
    BY <2>2, <2>3 DEF Placed, Holding
  <2> QED
    BY <2>2, <2>3, <2>4 DEF Calm
<1>5. CASE \E s \in Sessions : BeginStep(t, s) \/ EndSession(t, s)
  <2>1. PICK s \in Sessions : BeginStep(t, s) \/ EndSession(t, s)
    BY <1>5
  <2>2. PICK pc \in {"step", "uncertain", "cleanup"} :
          run' = [run EXCEPT ![t] = [Idle EXCEPT !.lane = "session", !.session = s, !.pc = pc]]
    <3>1. CASE BeginStep(t, s)
      <4>1. [Idle EXCEPT !.lane = "session", !.pc = "step", !.session = s]
            = [Idle EXCEPT !.lane = "session", !.session = s, !.pc = "step"]
        BY DEF Idle
      <4> QED
        BY <3>1, <4>1 DEF BeginStep
    <3>2. CASE EndSession(t, s)
      <4>1. CASE session[s].intent
        BY <3>2, <4>1 DEF EndSession
      <4>2. CASE ~session[s].intent
        BY <3>2, <4>2 DEF EndSession
      <4> QED
        BY <4>1, <4>2
    <3> QED
      BY <2>1, <3>1, <3>2
  <2> DEFINE r == [Idle EXCEPT !.lane = "session", !.session = s, !.pc = pc]
  <2>3. /\ r \in RunRecord /\ r.attempt = 0 /\ r.session = s /\ r.pc = pc
        /\ r.lane = "session" /\ s # NoSession
    BY IdleIsRun, PcListed, SubmissionAssumption DEF RunRecord, Idle
  <2>4. Placed(r)'
    BY <2>2, <2>3 DEF Placed, Holding
  <2>5. session[s].open \/ run[t].session = s
    BY <2>1 DEF BeginStep, EndSession
  <2> QED
    BY <2>2, <2>3, <2>4, <2>5 DEF Calm
<1>6. CASE \E pc \in {"acquire", "lookup", "load", "takeover", "retake", "reserve", "cleanup", "human"} :
             Go(t, pc) /\ run[t].pc \notin Holding
  BY <1>2, <1>6, GoIsCalm, PcListed DEF Holding
<1>7. CASE Lookup(t)
  <2>0. PICK r \in RunRecord : r = [run[t] EXCEPT !.pc = "load", !.seen = dedupe]
    BY <1>1, PcListed DEF RunRecord, TypeOK
  <2>1. run' = [run EXCEPT ![t] = r]
    BY <1>7, <2>0 DEF Lookup
  <2>2. /\ r \in RunRecord /\ r.pc = "load" /\ r.attempt = run[t].attempt
        /\ r.lane = run[t].lane /\ r.session = run[t].session
    BY <1>1, <2>0 DEF RunRecord
  <2>3. Placed(r)'
    BY <1>1, <1>7, <2>2 DEF Lookup, At, Placed, Holding
  <2> QED
    BY <2>1, <2>2, <2>3 DEF Calm
<1>8. CASE ReserveFails(t)
  BY <1>3, <1>8, DropIsCalm, PcListed DEF ReserveFails, Holding
<1>9. CASE NotStarted(t)
  BY <1>2, <1>9, GoIsCalm, PcListed DEF NotStarted, ProvablyNotStarted, At, Holding
<1>10. CASE Sent(t)
  BY <1>2, <1>10, GoIsCalm, PcListed DEF Sent, At, Holding
<1>11. CASE Ambiguous(t) \/ RecordFails(t)
  BY <1>11, DropIsCalm, PcListed DEF Ambiguous, RecordFails, FailUncertain, Holding
<1> QED
  BY <1>3, <1>4, <1>5, <1>6, <1>7, <1>8, <1>9, <1>10, <1>11
     DEF Quiet, CheckScope, StepEnds, FirstClick, AtStep, Acquire, LoadCase, TakeOver, Undo,
         ClickRefused, Progress, MarkUncertainFails, AfterUncertain, Forget, At, Holding

LEMMA QuietStepAccounted ==
  ASSUME TypeOK, Accounted, NEW t \in Runs, Quiet(t)
  PROVE  Accounted'
PROOF
<1>1. PICK r \in RunRecord : Calm(t, r)
  BY QuietIsCalm
<1>2. run \in [Runs -> RunRecord]
  BY DEF TypeOK
<1> QED
  BY <1>1, <1>2, QuietFacts, QuietSessions, StepOfRun DEF Calm

\* A reservation is made of a case that nobody holds.
LEMMA ReserveAccounted ==
  ASSUME TypeOK, Accounted, NEW t \in Runs, ReserveCase(t)
  PROVE  Accounted'
PROOF
<1>1. run \in [Runs -> RunRecord] /\ run[t] \in RunRecord /\ attempts \in Nat /\ CaseTypeOK
  BY DEF TypeOK
<1>2. doubt = {} /\ ~SomeoneHolds
  BY UnflaggedIsFree, SubmittableIsUnflagged DEF ReserveCase, Reserve
<1>3. /\ brokerCase'.state = "submission_pending" /\ brokerCase'.channel = Channel(Lane(t))
      /\ attempts' = attempts + 1 /\ doubt' = {} /\ session' = session
  BY <1>1, <1>2 DEF ReserveCase, Reserve, CaseTypeOK
<1>4. PICK r \in RunRecord :
        r = [run[t] EXCEPT !.pc = "mark", !.attempt = attempts + 1, !.fresh = TRUE]
  <2>1. attempts + 1 \in Nat /\ "mark" \in Pc
    BY <1>1, PcListed
  <2>2. [run[t] EXCEPT !.pc = "mark", !.attempt = attempts + 1, !.fresh = TRUE] \in RunRecord
    BY <1>1, <2>1 DEF RunRecord
  <2> QED
    BY <2>2
<1>5. /\ run' = [run EXCEPT ![t] = r] /\ r.pc = "mark" /\ r.attempt = attempts + 1
      /\ r.lane = run[t].lane /\ r.session = run[t].session
  BY <1>1, <1>4 DEF ReserveCase, RunRecord
<1>6. run'[t] = r /\ \A u \in Runs : u # t => run'[u] = run[u]
  BY <1>1, <1>5
<1>7. (\A u \in Runs : u # t => ~Holds(u)') /\ \A s \in Sessions : ~SessionHolds(s)'
  <2>1. \A u \in Runs : u # t => ~Holds(u)'
    BY <1>2, <1>6 DEF SomeoneHolds, Holds
  <2>2. ASSUME NEW s \in Sessions, SessionHolds(s)' PROVE FALSE
    <3>1. session'[s] = session[s] /\ Live(s)' /\ session'[s].attempt # 0
      BY <1>3, <2>2 DEF SessionHolds
    <3>2. Live(s)
      BY <1>1, <1>5, <3>1, LiveBefore
    <3> QED
      BY <1>2, <3>1, <3>2 DEF SomeoneHolds, SessionHolds
  <2> QED
    BY <2>1, <2>2
<1>8. HolderOwnsCase'
  BY <1>3, <1>5, <1>6, <1>7 DEF HolderOwnsCase, Lane, Flagged
<1>9. HoldersAreSiblings'
  BY <1>7 DEF HoldersAreSiblings
<1>10. \A u \in Runs : Placed(run[u])'
  <2>1. Placed(run[t])'
    BY <1>1, <1>3, <1>5, <1>6 DEF Accounted, Placed, Holding, ReserveCase, At
  <2>2. ASSUME NEW u \in Runs, u # t PROVE Placed(run[u])'
    BY <1>2, <1>3, <1>6, <2>2 DEF Accounted, Placed
  <2> QED
    BY <2>1, <2>2
<1> QED
  BY <1>3, <1>8, <1>9, <1>10 DEF Accounted

\* What the invariant says of a run that holds the case.
LEMMA HolderFacts ==
  ASSUME Accounted, NEW t \in Runs, Holds(t)
  PROVE  /\ run[t].attempt = attempts /\ brokerCase.state \in Flagged
         /\ brokerCase.channel = Channel(run[t].lane) /\ doubt \subseteq {attempts}
  BY DEF Accounted, HolderOwnsCase, Lane

\* Marking the intent makes the session a holder beside the run that reserved.
LEMMA MarkAccounted ==
  ASSUME TypeOK, Accounted, NEW t \in Runs, MarkIntent(t)
  PROVE  Accounted'
PROOF
<1>1. /\ run \in [Runs -> RunRecord] /\ run[t] \in RunRecord /\ Placed(run[t])
      /\ session \in [Sessions -> SessionRecord]
  BY DEF TypeOK, Accounted
<1>2. Holds(t) /\ run[t].pc = "mark" /\ doubt = {}
  BY <1>1 DEF MarkIntent, At, Placed, Holding, Holds
<1>3. brokerCase' = brokerCase /\ attempts' = attempts /\ doubt' = doubt
  BY DEF MarkIntent, KeepsRest
<1>4. PICK r \in RunRecord : r = [run[t] EXCEPT !.pc = "write"]
  BY <1>1, PcListed DEF RunRecord
<1>5. /\ run' = [run EXCEPT ![t] = r] /\ r.pc = "write" /\ r.attempt = run[t].attempt
      /\ r.lane = run[t].lane /\ r.session = run[t].session
  BY <1>1, <1>4 DEF MarkIntent, Go, RunRecord
<1>6. run'[t] = r /\ \A u \in Runs : u # t => run'[u] = run[u]
  BY <1>1, <1>5
<1>7. (\A u \in Runs : u # t => ~Holds(u)) /\ \A s \in Sessions : ~SessionHolds(s)
  BY <1>2 DEF Accounted, HoldersAreSiblings
<1>8. \A u \in Runs : u # t => ~Holds(u)'
  BY <1>6, <1>7 DEF Holds
<1>9. \A s \in Sessions : s # run[t].session => ~SessionHolds(s)'
  <2>1. ASSUME NEW s \in Sessions, s # run[t].session PROVE session'[s] = session[s]
    BY <2>1 DEF MarkIntent, SetSession
  <2> QED
    BY <1>1, <1>5, <1>7, <2>1, LiveBefore DEF SessionHolds
<1>10. run[t].session \in Sessions => session'[run[t].session].attempt = run[t].attempt
  BY <1>1 DEF MarkIntent, SetSession, Mine, SessionRecord
<1>11. HolderOwnsCase'
  <2>1. ASSUME NEW u \in Runs, Holds(u)'
        PROVE  /\ run'[u].attempt = attempts' /\ brokerCase'.state \in Flagged
               /\ brokerCase'.channel = Channel(Lane(u))'
    BY <1>2, <1>3, <1>5, <1>6, <1>8, <2>1, HolderFacts DEF Lane
  <2>2. ASSUME NEW s \in Sessions, SessionHolds(s)'
        PROVE  /\ session'[s].attempt = attempts' /\ brokerCase'.state \in Flagged
               /\ brokerCase'.channel = "browser_form"
    <3>1. s = run[t].session /\ run[t].lane = "session"
      BY <1>1, <1>9, <2>2, SubmissionAssumption DEF Placed
    <3> QED
      BY <1>2, <1>3, <1>10, <3>1, HolderFacts DEF Channel
  <2> QED
    BY <2>1, <2>2 DEF HolderOwnsCase
<1>12. HoldersAreSiblings'
  BY <1>5, <1>6, <1>8, <1>9 DEF HoldersAreSiblings
<1>13. \A u \in Runs : Placed(run[u])'
  <2>1. Placed(run[t])'
    BY <1>1, <1>2, <1>3, <1>5, <1>6 DEF Placed, Holding
  <2>2. ASSUME NEW u \in Runs, u # t PROVE Placed(run[u])'
    BY <1>3, <1>6, <2>2 DEF Accounted, Placed
  <2> QED
    BY <2>1, <2>2
<1> QED
  BY <1>3, <1>11, <1>12, <1>13 DEF Accounted

\* A step that acts under the intent of its session joins its holders.
LEMMA ClickAccounted ==
  ASSUME TypeOK, Accounted, NEW t \in Runs, Click(t), lost' = {}
  PROVE  Accounted'
PROOF
<1>1. /\ run \in [Runs -> RunRecord] /\ run[t] \in RunRecord /\ Placed(run[t])
      /\ session \in [Sessions -> SessionRecord]
  BY DEF TypeOK, Accounted
<1>2. PICK s \in Sessions : s = run[t].session
  BY DEF Click, AtStep
<1>3. session[s].attempt # 0 /\ session[s].attempt \in Nat
  BY <1>1, <1>2 DEF Click, Mine, Lose, SessionRecord
<1>4. SessionHolds(s)
  BY <1>2, <1>3 DEF SessionHolds, Live
<1>5. /\ session[s].attempt = attempts /\ brokerCase.state \in Flagged
      /\ brokerCase.channel = "browser_form"
  BY <1>4 DEF Accounted, HolderOwnsCase
<1>6. /\ brokerCase' = brokerCase /\ attempts' = attempts /\ doubt' = doubt
      /\ session' = session /\ run[t].lane = "session" /\ run[t].pc = "step"
  BY <1>1, <1>2, SubmissionAssumption DEF Click, AtStep, At, Placed
<1>7. PICK r \in RunRecord : r = [run[t] EXCEPT !.pc = "write", !.attempt = attempts]
  BY <1>1, <1>3, <1>5, PcListed DEF RunRecord
<1>8. /\ run' = [run EXCEPT ![t] = r] /\ r.pc = "write" /\ r.attempt = attempts
      /\ r.lane = "session" /\ r.session = s
  BY <1>1, <1>2, <1>5, <1>6, <1>7 DEF Click, Mine, RunRecord
<1>9. run'[t] = r /\ \A u \in Runs : u # t => run'[u] = run[u]
  BY <1>1, <1>8
<1>10. \A z \in Sessions : SessionHolds(z)' => SessionHolds(z)
  BY <1>1, <1>2, <1>6, <1>8, LiveBefore DEF SessionHolds
<1>11. \A u \in Runs : u # t /\ Holds(u)' =>
         Holds(u) /\ run[u].session = s /\ run[u].pc # "mark"
  BY <1>4, <1>9 DEF Holds, Accounted, HoldersAreSiblings
<1>12. HolderOwnsCase'
  <2>1. ASSUME NEW u \in Runs, Holds(u)'
        PROVE  /\ run'[u].attempt = attempts' /\ brokerCase'.state \in Flagged
               /\ brokerCase'.channel = Channel(Lane(u))'
    <3>1. CASE u = t
      BY <1>5, <1>6, <1>8, <1>9, <3>1 DEF Lane, Channel
    <3>2. CASE u # t
      BY <1>6, <1>9, <1>11, <2>1, <3>2, HolderFacts DEF Lane
    <3> QED
      BY <3>1, <3>2
  <2>2. ASSUME NEW z \in Sessions, SessionHolds(z)'
        PROVE  /\ session'[z].attempt = attempts' /\ brokerCase'.state \in Flagged
               /\ brokerCase'.channel = "browser_form"
    BY <1>6, <1>10, <2>2 DEF Accounted, HolderOwnsCase
  <2> QED
    BY <2>1, <2>2 DEF HolderOwnsCase
<1>13. HoldersAreSiblings'
  <2>1. ASSUME NEW u \in Runs, Holds(u)'
        PROVE  run'[u].session = s /\ run'[u].pc # "mark"
    BY <1>8, <1>9, <1>11, <2>1
  <2>2. ASSUME NEW z \in Sessions, SessionHolds(z)'
        PROVE  z = s
    BY <1>4, <1>10, <2>2 DEF Accounted, HoldersAreSiblings
  <2> QED
    BY <2>1, <2>2, SubmissionAssumption DEF HoldersAreSiblings
<1>14. \A u \in Runs : Placed(run[u])'
  <2>1. Placed(run[t])'
    BY <1>2, <1>3, <1>5, <1>8, <1>9, SubmissionAssumption DEF Placed, Holding
  <2>2. ASSUME NEW u \in Runs, u # t PROVE Placed(run[u])'
    BY <1>6, <1>9, <2>2 DEF Accounted, Placed
  <2> QED
    BY <2>1, <2>2
<1> QED
  BY <1>6, <1>12, <1>13, <1>14 DEF Accounted

LEMMA WriteAccounted ==
  ASSUME TypeOK, Accounted, NEW t \in Runs, Write(t)
  PROVE  Accounted'
PROOF
<1>1. /\ run \in [Runs -> RunRecord] /\ run[t] \in RunRecord /\ Placed(run[t])
  BY DEF TypeOK, Accounted
<1>2. Holds(t) /\ run[t].pc = "write"
  BY <1>1 DEF Write, At, Placed, Holding, Holds
<1>3. /\ doubt' = {attempts} /\ brokerCase' = brokerCase /\ attempts' = attempts
      /\ session' = session
  BY <1>2, HolderFacts DEF Write
<1>4. PICK r \in RunRecord : r = [run[t] EXCEPT !.pc = "wrote"]
  BY <1>1, PcListed DEF RunRecord
<1>5. /\ run' = [run EXCEPT ![t] = r] /\ r.pc = "wrote" /\ r.attempt = run[t].attempt
      /\ r.lane = run[t].lane /\ r.session = run[t].session
  BY <1>1, <1>4 DEF Write, Go, RunRecord
<1>6. run'[t] = r /\ \A u \in Runs : u # t => run'[u] = run[u]
  BY <1>1, <1>5
<1>7. \A s \in Sessions : SessionHolds(s)' => SessionHolds(s)
  BY <1>1, <1>3, <1>5, LiveBefore DEF SessionHolds
<1>8. \A u \in Runs : Holds(u)' =>
        /\ Holds(u) /\ run'[u].attempt = run[u].attempt /\ run'[u].lane = run[u].lane
        /\ run'[u].session = run[u].session /\ (run'[u].pc = "mark" => run[u].pc = "mark")
  BY <1>5, <1>6 DEF Holds
<1>9. HolderOwnsCase'
  BY <1>3, <1>7, <1>8 DEF Accounted, HolderOwnsCase, Lane
<1>10. HoldersAreSiblings'
  <2>1. ASSUME NEW u \in Runs, NEW w \in Runs, Holds(u)', Holds(w)', u # w
        PROVE  run'[u].session # NoSession /\ run'[u].session = run'[w].session
               /\ run'[u].pc # "mark"
    BY <1>8, <2>1 DEF Accounted, HoldersAreSiblings
  <2>2. ASSUME NEW u \in Runs, NEW s \in Sessions, Holds(u)', SessionHolds(s)'
        PROVE  run'[u].session = s /\ run'[u].pc # "mark"
    BY <1>7, <1>8, <2>2 DEF Accounted, HoldersAreSiblings
  <2>3. ASSUME NEW s \in Sessions, NEW z \in Sessions, SessionHolds(s)', SessionHolds(z)'
        PROVE  s = z
    BY <1>7, <2>3 DEF Accounted, HoldersAreSiblings
  <2> QED
    BY <2>1, <2>2, <2>3 DEF HoldersAreSiblings
<1>11. \A u \in Runs : Placed(run[u])'
  <2>1. Placed(run[t])'
    BY <1>1, <1>2, <1>5, <1>6 DEF Placed, Holding
  <2>2. ASSUME NEW u \in Runs, u # t PROVE Placed(run[u])'
    <3>1. Placed(run[u]) /\ run'[u] = run[u]
      BY <1>6, <2>2 DEF Accounted
    <3>2. Holds(u) => run[u].pc # "mark" /\ run[u].session # NoSession
      BY <1>2, <2>2 DEF Accounted, HoldersAreSiblings
    <3> QED
      BY <3>1, <3>2 DEF Placed, Holding, Holds
  <2> QED
    BY <2>1, <2>2
<1> QED
  BY <1>2, <1>3, <1>9, <1>10, <1>11, HolderFacts DEF Accounted

\* When one run decides the request and no sibling holds it, nobody does.
LEMMA DecisionFrees ==
  ASSUME TypeOK, Accounted, NEW t \in Runs, Holds(t), ~SiblingHolds(t), NEW r \in RunRecord,
         run' = [run EXCEPT ![t] = r], r.attempt = 0,
         r.session \in {NoSession, run[t].session},
         NEW changed, SetSession(t, changed),
         run[t].session \in Sessions =>
           changed.attempt = 0 /\ (changed.open => Mine(t).open)
  PROVE  ~SomeoneHolds'
PROOF
<1>1. run \in [Runs -> RunRecord] /\ run[t] \in RunRecord
  BY DEF TypeOK
<1>2. run'[t] = r /\ \A u \in Runs : u # t => run'[u] = run[u]
  BY <1>1
<1>3. \A u \in Runs : ~Holds(u)'
  BY <1>2 DEF Accounted, HoldersAreSiblings, SiblingHolds, Holds
<1>4. ASSUME NEW s \in Sessions, SessionHolds(s)' PROVE FALSE
  <2>1. CASE s = run[t].session
    <3>1. session'[s] = changed
      BY <2>1 DEF SetSession
    <3> QED
      BY <1>4, <2>1, <3>1 DEF SessionHolds
  <2>2. CASE s # run[t].session
    <3>1. session'[s] = session[s]
      BY <2>2 DEF SetSession
    <3>2. SessionHolds(s)
      BY <1>1, <1>4, <3>1, LiveBefore DEF SessionHolds
    <3> QED
      BY <2>2, <3>2 DEF Accounted, HoldersAreSiblings
  <2> QED
    BY <2>1, <2>2
<1> QED
  BY <1>3, <1>4 DEF SomeoneHolds

\* What a step of a session has at hand.
LEMMA MineIsSession ==
  ASSUME TypeOK, NEW t \in Runs, run[t].session \in Sessions
  PROVE  /\ Mine(t) \in SessionRecord
         /\ [Mine(t) EXCEPT !.open = FALSE, !.attempt = 0].attempt = 0
         /\ ~[Mine(t) EXCEPT !.open = FALSE, !.attempt = 0].open
         /\ [Mine(t) EXCEPT !.attempt = 0].attempt = 0
         /\ [Mine(t) EXCEPT !.attempt = 0].open = Mine(t).open
         /\ ~[Mine(t) EXCEPT !.open = FALSE].open
         /\ [Mine(t) EXCEPT !.open = FALSE].attempt = Mine(t).attempt
PROOF
<1>1. Mine(t) \in SessionRecord
  BY DEF TypeOK, Mine
<1> QED
  BY <1>1 DEF SessionRecord

LEMMA RecordAccounted ==
  ASSUME TypeOK, Accounted, NEW t \in Runs, Record(t), lost' = {}
  PROVE  Accounted'
PROOF
<1>1. /\ run \in [Runs -> RunRecord] /\ run[t] \in RunRecord /\ Placed(run[t])
      /\ session \in [Sessions -> SessionRecord]
  BY DEF TypeOK, Accounted
<1>2. Holds(t) /\ ~SiblingHolds(t)
  BY <1>1 DEF Record, At, Placed, Holding, Holds, Lose
<1>3. Idle.attempt = 0 /\ Idle.session = NoSession
  BY DEF Idle
<1>4. run' = [run EXCEPT ![t] = Idle] /\ attempts' = attempts
      /\ SetSession(t, [Mine(t) EXCEPT !.open = FALSE, !.attempt = 0])
  BY DEF Record, Return
<1>5. ~SomeoneHolds'
  BY <1>2, <1>3, <1>4, IdleIsRun, MineIsSession, DecisionFrees
<1>6. doubt' = {}
  BY <1>2, HolderFacts DEF Record
<1>7. \A s \in Sessions :
        /\ session'[s].open => session[s].open
        /\ session'[s].attempt \in {0, session[s].attempt}
  BY <1>4, MineIsSession DEF SetSession
<1> QED
  BY <1>1, <1>3, <1>4, <1>5, <1>6, <1>7, IdleIsRun, IdleIsPlaced, StepOfRun

\* An uncertain outcome keeps the flag, so it does not matter who holds it.
LEMMA UncertainAccounted ==
  ASSUME TypeOK, Accounted, NEW t \in Runs, MarkUncertain(t)
  PROVE  Accounted'
PROOF
<1>1. /\ run \in [Runs -> RunRecord] /\ run[t] \in RunRecord /\ Placed(run[t])
      /\ CaseTypeOK
  BY DEF TypeOK, Accounted
<1>2. attempts' = attempts /\ doubt' = doubt /\ run[t].attempt = 0
  BY <1>1 DEF MarkUncertain, At, Placed, Holding
<1>3. brokerCase'.state \in Flagged /\ brokerCase'.channel = brokerCase.channel
  BY <1>1 DEF MarkUncertain, RecordUncertain, CaseTypeOK, Flagged
<1>4. \A s \in Sessions :
        /\ session'[s].open => session[s].open
        /\ session'[s].attempt \in {0, session[s].attempt}
  BY MineIsSession DEF MarkUncertain, AfterUncertain, SetSession, Mine
<1>5. CASE Return(t)
  <2>1. Idle.attempt = 0 /\ Idle.session = NoSession
    BY DEF Idle
  <2>2. run' = [run EXCEPT ![t] = Idle]
    BY <1>5 DEF Return
  <2> QED
    BY <1>1, <1>2, <1>3, <1>4, <2>1, <2>2, IdleIsRun, IdleIsPlaced, StepOfRun
<1>6. CASE Go(t, "cleanup")
  <2>0. PICK r \in RunRecord : r = [run[t] EXCEPT !.pc = "cleanup"]
    BY <1>1, PcListed DEF RunRecord
  <2>1. run' = [run EXCEPT ![t] = r] /\ r.pc = "cleanup" /\ r.attempt = 0
        /\ r.lane = run[t].lane /\ r.session = run[t].session
    BY <1>1, <1>2, <1>6, <2>0 DEF Go, RunRecord
  <2>2. Placed(r)'
    BY <1>1, <2>1 DEF Placed, Holding
  <2> QED
    BY <1>1, <1>2, <1>3, <1>4, <2>1, <2>2, StepOfRun
<1> QED
  BY <1>5, <1>6 DEF MarkUncertain, AfterUncertain

\* A hand-off by a run that writes no more, where it takes off no flag.
LEMMA HandOffAccounted ==
  ASSUME TypeOK, Accounted, NEW t \in Runs, Cleanup(t) \/ QueueHuman(t), lost' = {}
  PROVE  Accounted'
PROOF
<1>1. run \in [Runs -> RunRecord] /\ Idle.attempt = 0 /\ Idle.session = NoSession
  BY DEF TypeOK, Idle
<1>2. run' = [run EXCEPT ![t] = Idle] /\ attempts' = attempts /\ doubt' = doubt
      /\ session' = session
  BY DEF Cleanup, QueueHuman, Return
<1>3. CASE brokerCase' = brokerCase
  BY <1>1, <1>2, <1>3, IdleIsRun, IdleIsPlaced, StepOfRun
<1>4. CASE brokerCase.state \notin Flagged
  <2>1. doubt' = {} /\ ~SomeoneHolds
    BY <1>2, <1>4, UnflaggedIsFree
  <2>2. ~SomeoneHolds'
    BY <1>1, <1>2, <2>1, IdleIsRun, StaysFree
  <2> QED
    BY <1>1, <1>2, <2>1, <2>2, IdleIsRun, IdleIsPlaced, StepOfRun
<1> QED
  BY <1>3, <1>4 DEF Cleanup, QueueHuman, LoseIfFlagged

LEMMA ReleaseAccounted ==
  ASSUME TypeOK, Accounted, NEW t \in Runs, ReleaseCase(t), lost' = {}
  PROVE  Accounted'
PROOF
<1>1. /\ run \in [Runs -> RunRecord] /\ run[t] \in RunRecord /\ Placed(run[t])
  BY DEF TypeOK, Accounted
<1>2. Holds(t) /\ run[t].pc = "release"
  BY <1>1 DEF ReleaseCase, At, Placed, Holding, Holds
<1>3. PICK r \in RunRecord : r = [run[t] EXCEPT !.pc = "forget", !.attempt = 0]
  BY <1>1, PcListed DEF RunRecord
<1>4. /\ run' = [run EXCEPT ![t] = r] /\ r.pc = "forget" /\ r.attempt = 0
      /\ r.lane = run[t].lane /\ r.session = run[t].session
      /\ attempts' = attempts /\ doubt' = doubt
  BY <1>1, <1>3 DEF ReleaseCase, RunRecord
<1>5. Placed(r)'
  BY <1>1, <1>4 DEF Placed, Holding
<1>6. CASE brokerCase' = brokerCase /\ session' = session
  BY <1>1, <1>4, <1>5, <1>6, StepOfRun
<1>7. CASE /\ IF SiblingHolds(t) \/ (Lane(t) = "session" /\ doubt # {})
              THEN Lose("sibling") ELSE UNCHANGED lost
           /\ SetSession(t, [Mine(t) EXCEPT !.attempt = 0])
  <2>1. ~SiblingHolds(t) /\ doubt = {}
    BY <1>1, <1>2, <1>7 DEF Lose, Placed, Lane
  <2>2. ~SomeoneHolds'
    BY <1>2, <1>4, <1>7, <2>1, MineIsSession, DecisionFrees
  <2>3. \A s \in Sessions :
          /\ session'[s].open => session[s].open
          /\ session'[s].attempt \in {0, session[s].attempt}
    BY <1>7, MineIsSession DEF SetSession, Mine
  <2>4. doubt' = {}
    BY <1>4, <2>1
  <2> QED
    BY <1>1, <1>4, <1>5, <2>2, <2>3, <2>4, StepOfRun
<1> QED
  BY <1>6, <1>7 DEF ReleaseCase

\* A drifted page blocks the case; the step that saw it writes no more.
LEMMA DriftAccounted ==
  ASSUME TypeOK, Accounted, NEW t \in Runs, PageDrifted(t), lost' = {}
  PROVE  Accounted'
PROOF
<1>1. /\ run \in [Runs -> RunRecord] /\ run[t] \in RunRecord /\ Placed(run[t])
  BY DEF TypeOK, Accounted
<1>2. doubt = {} /\ ~SomeoneHolds
  BY UnflaggedIsFree DEF PageDrifted, LoseIfFlagged
<1>3. PICK r \in RunRecord : r = [run[t] EXCEPT !.pc = "closing", !.attempt = 0]
  BY <1>1, PcListed DEF RunRecord
<1>4. /\ run' = [run EXCEPT ![t] = r] /\ r.pc = "closing" /\ r.attempt = 0
      /\ r.lane = "session" /\ r.session = run[t].session
      /\ attempts' = attempts /\ doubt' = {} /\ session' = session
  BY <1>1, <1>2, <1>3 DEF PageDrifted, RunRecord, Lane
<1>5. Placed(r)'
  BY <1>1, <1>4 DEF Placed, Holding, PageDrifted, Lane
<1>6. ~SomeoneHolds'
  BY <1>1, <1>2, <1>4, StaysFree
<1> QED
  BY <1>1, <1>2, <1>4, <1>5, <1>6, StepOfRun

\* A receipt that cannot be taken, in a step that did not reserve.
LEMMA ReceiptAccounted ==
  ASSUME TypeOK, Accounted, NEW t \in Runs, ReceiptOffDomain(t), lost' = {}
  PROVE  Accounted'
PROOF
<1>1. run \in [Runs -> RunRecord] /\ Idle.attempt = 0 /\ Idle.session = NoSession
  BY DEF TypeOK, Idle
<1>2. run' = [run EXCEPT ![t] = Idle] /\ attempts' = attempts /\ doubt' = doubt
      /\ session' = session /\ brokerCase' = brokerCase
  BY DEF ReceiptOffDomain, Lose, Return
<1> QED
  BY <1>1, <1>2, IdleIsRun, IdleIsPlaced, StepOfRun

\* Whatever one run does.
LEMMA RunAccounted ==
  ASSUME TypeOK, Accounted, NEW t \in Runs, RunMoves(t), lost' = {}
  PROVE  Accounted'
PROOF
<1>1. ~CancelledInFlight(t)
  BY DEF CancelledInFlight, Lose
<1> QED
  BY <1>1, QuietStepAccounted, ReserveAccounted, MarkAccounted, ClickAccounted, WriteAccounted,
     RecordAccounted, UncertainAccounted, HandOffAccounted, ReleaseAccounted, DriftAccounted,
     ReceiptAccounted DEF RunMoves, RunStep, Quiet

\* The case moves, or not, and no run or session does.
LEMMA CaseMoves ==
  ASSUME Accounted, run' = run, session' = session, attempts' = attempts,
         \/ doubt' = doubt /\ brokerCase' = brokerCase
         \/ doubt' = doubt /\ brokerCase.state \notin Flagged
         \/ /\ doubt' = doubt
            /\ brokerCase'.state \in Flagged /\ brokerCase'.channel = brokerCase.channel
         \/ doubt' = {} /\ ~SomeoneHolds
  PROVE  Accounted'
PROOF
<1>1. /\ SomeoneHolds' <=> SomeoneHolds
      /\ \A t \in Runs : Holds(t)' <=> Holds(t)
      /\ \A s \in Sessions : SessionHolds(s)' <=> SessionHolds(s)
  BY DEF SomeoneHolds, Holds, SessionHolds, Live
<1>2. brokerCase.state \notin Flagged => doubt = {} /\ ~SomeoneHolds
  BY UnflaggedIsFree
<1>3. doubt' \subseteq doubt
  OBVIOUS
<1>4. \A t \in Runs : Placed(run[t])'
  BY <1>3 DEF Accounted, Placed
<1>5. \/ brokerCase' = brokerCase
      \/ brokerCase'.state \in Flagged /\ brokerCase'.channel = brokerCase.channel
      \/ doubt' = {} /\ ~SomeoneHolds'
  BY <1>1, <1>2
<1> QED
  BY <1>1, <1>3, <1>4, <1>5, HoldersShrink

\* A new session has no intent, and had no steps left.
LEMMA OpenAccounted ==
  ASSUME TypeOK, Accounted, NEW s \in Sessions, OpenSession(s)
  PROVE  Accounted'
PROOF
<1>1. session \in [Sessions -> SessionRecord] /\ [Closed EXCEPT !.open = TRUE].attempt = 0
  BY DEF TypeOK, Closed
<1>2. /\ session' = [session EXCEPT ![s] = [Closed EXCEPT !.open = TRUE]] /\ run' = run
      /\ brokerCase' = brokerCase /\ doubt' = doubt /\ attempts' = attempts
  BY DEF OpenSession, KeepsRest
<1>3. \A z \in Sessions : SessionHolds(z)' =>
        SessionHolds(z) /\ session'[z].attempt = session[z].attempt
  BY <1>1, <1>2 DEF SessionHolds, Live
<1>4. \A t \in Runs : Placed(run[t])'
  BY <1>2 DEF Accounted, Placed
<1> QED
  BY <1>2, <1>3, <1>4, HoldersShrink DEF Holds

LEMMA EnvironmentAccounted ==
  ASSUME TypeOK, Accounted, Environment, lost' = {}
  PROVE  Accounted'
PROOF
<1>1. CaseTypeOK
  BY DEF TypeOK
<1>2. CASE Reconcile
  <2>1. doubt' = {} /\ ~SomeoneHolds /\ run' = run /\ session' = session /\ attempts' = attempts
    BY <1>2 DEF Reconcile, Lose
  <2> QED
    BY <2>1, CaseMoves
<1>3. CASE ForgetScope \/ ForgetDedupe \/ DedupeExpires \/ ScopeExpires
  BY <1>3, CaseMoves DEF ForgetScope, ForgetDedupe, DedupeExpires, ScopeExpires
<1>4. CASE Observe \/ Verify
  <2>1. run' = run /\ session' = session /\ attempts' = attempts /\ doubt' = doubt
    BY <1>4 DEF Observe, Verify, OtherTools
  <2>2. CASE brokerCase.state \in Flagged
    BY <1>1, <1>4, <2>1, <2>2, ObservationsKeepFlag, CaseMoves DEF Observe, Verify
  <2> QED
    BY <2>1, <2>2, CaseMoves
<1>5. CASE ControllerAnswers
  <2>1. run' = run /\ session' = session /\ attempts' = attempts /\ ~SomeoneHolds
    BY <1>5 DEF ControllerAnswers, OtherTools, Lose
  <2>2. CASE brokerCase.state = "submission_uncertain"
    BY <1>5, <2>1, <2>2, CaseMoves DEF ControllerAnswers
  <2>3. CASE brokerCase.state # "submission_uncertain"
    <3>1. brokerCase.state \notin Flagged
      BY <1>5, <2>3 DEF ControllerAnswers, RecordControllerOutcome, InFlight, Flagged
    <3> QED
      BY <1>5, <2>1, <2>3, <3>1, CaseMoves DEF ControllerAnswers
  <2> QED
    BY <2>2, <2>3
<1>6. CASE HandOff
  BY <1>6, CaseMoves DEF HandOff, LoseIfFlagged, OtherTools
<1>7. CASE Crash
  <2>1. (\A t \in Runs : run'[t] = Idle) /\ \A s \in Sessions : session'[s] = Closed
    BY <1>7 DEF Crash
  <2>2. Idle.attempt = 0 /\ Closed.attempt = 0
    BY DEF Idle, Closed
  <2>3. \A t \in Runs : ~Holds(t)' /\ Placed(run[t])'
    BY <2>1, <2>2, IdleIsPlaced DEF Holds
  <2>4. \A s \in Sessions : ~SessionHolds(s)'
    BY <2>1, <2>2 DEF SessionHolds
  <2> QED
    BY <1>7, <2>3, <2>4, HoldersShrink DEF Crash
<1> QED
  BY <1>2, <1>3, <1>4, <1>5, <1>6, <1>7 DEF Environment

\* Nothing forgets a lost flag.
LEMMA LostGrows ==
  ASSUME [Next]_vars
  PROVE  lost \subseteq lost'
PROOF
<1>1. ASSUME NEW t \in Runs, RunMoves(t) PROVE lost \subseteq lost'
  BY <1>1 DEF RunMoves, RunStep, Begin, BeginStep, EndSession, CheckScope, StepEnds, FirstClick,
     Click, Acquire, Lookup, LoadCase, TakeOver, ReserveCase, ReserveFails, Undo, MarkIntent,
     Write, NotStarted, ClickRefused, Ambiguous, Sent, Progress, CancelledInFlight,
     ReceiptOffDomain, PageDrifted, Record, RecordFails, MarkUncertain, MarkUncertainFails,
     Cleanup, ReleaseCase, Forget, QueueHuman, KeepsCase, KeepsRest, Lose, LoseIfFlagged
<1>2. CASE Environment
  BY <1>2 DEF Environment, Lose, LoseIfFlagged, Reconcile, ForgetScope, ForgetDedupe, Observe,
     Verify, ControllerAnswers, HandOff, DedupeExpires, ScopeExpires, Crash
<1>3. ASSUME NEW s \in Sessions, OpenSession(s) PROVE lost \subseteq lost'
  BY <1>3 DEF OpenSession, KeepsRest
<1> QED
  BY <1>1, <1>2, <1>3 DEF Next, RunMoves, vars

LEMMA SubmissionInvStep ==
  ASSUME TypeOK, SubmissionInv, [Next]_vars
  PROVE  SubmissionInv'
PROOF
<1> SUFFICES ASSUME lost' = {} PROVE Accounted'
  BY DEF SubmissionInv
<1>1. Accounted
  BY LostGrows DEF SubmissionInv
<1>2. CASE UNCHANGED vars
  BY <1>1, <1>2, CaseMoves DEF vars
<1>3. CASE Environment
  BY <1>1, <1>3, EnvironmentAccounted
<1>4. ASSUME NEW t \in Runs, RunMoves(t) PROVE Accounted'
  BY <1>1, <1>4, RunAccounted
<1>5. ASSUME NEW s \in Sessions, OpenSession(s) PROVE Accounted'
  BY <1>1, <1>5, OpenAccounted
<1> QED
  BY <1>2, <1>3, <1>4, <1>5 DEF Next, RunMoves

\* In every behaviour the last reservation alone may be in doubt, whoever writes
\* under it holds it, and while one does the case says so: until one of the
\* paths named in `lost' is taken.
THEOREM SubmissionAccounted == Spec => []SubmissionInv
PROOF
<1>1. Init => SubmissionInv
  <2> SUFFICES ASSUME Init PROVE Accounted
    BY DEF SubmissionInv
  <2>1. (\A t \in Runs : run[t] = Idle) /\ \A s \in Sessions : session[s] = Closed
    BY DEF Init
  <2>2. Idle.attempt = 0 /\ Closed.attempt = 0
    BY DEF Idle, Closed
  <2>3. \A t \in Runs : ~Holds(t) /\ Placed(run[t])
    BY <2>1, <2>2, IdleIsPlaced DEF Holds
  <2>4. \A s \in Sessions : ~SessionHolds(s)
    BY <2>1, <2>2 DEF SessionHolds
  <2>5. HolderOwnsCase /\ HoldersAreSiblings
    BY <2>3, <2>4 DEF HolderOwnsCase, HoldersAreSiblings
  <2> QED
    BY <2>3, <2>5 DEF Init, Accounted
<1>2. TypeOK /\ SubmissionInv /\ [Next]_vars => SubmissionInv'
  BY SubmissionInvStep
<1> QED
  BY <1>1, <1>2, TypeCorrect, PTL DEF Spec

\* README: "Automatic retry is blocked pending explicit reconciliation".
THEOREM NeverRetriedBlindly == Spec => []NoBlindRetry
PROOF
<1>1. SubmissionInv => NoBlindRetry
  BY DEF SubmissionInv, Accounted, NoBlindRetry, AtMostOneInDoubt
<1> QED
  BY <1>1, SubmissionAccounted, PTL

\* A write in doubt is on a case that waits for its review.
THEOREM DoubtAlwaysFlagged == Spec => []DoubtIsFlagged
PROOF
<1>1. SubmissionInv => DoubtIsFlagged
  BY DEF SubmissionInv, Accounted, DoubtIsFlagged
<1> QED
  BY <1>1, SubmissionAccounted, PTL

\* Only the provider write adds a doubt.
LEMMA OnlyWritesDoubt ==
  ASSUME [Next]_vars, doubt' # doubt, doubt' # {}, doubt \subseteq doubt'
  PROVE  \E t \in Runs : Write(t)
PROOF
<1>1. Environment => doubt' = doubt \/ doubt' = {}
  BY DEF Environment, Reconcile, ForgetScope, ForgetDedupe, Observe, Verify, ControllerAnswers,
     HandOff, DedupeExpires, ScopeExpires, Crash
<1>2. ASSUME NEW t \in Runs, RunMoves(t), ~Write(t)
      PROVE  doubt' \subseteq doubt
  BY <1>2 DEF RunMoves, RunStep, Begin, BeginStep, EndSession, CheckScope, StepEnds, FirstClick,
     Click, Acquire, Lookup, LoadCase, TakeOver, ReserveCase, ReserveFails, Undo, MarkIntent,
     NotStarted, ClickRefused, Ambiguous, Sent, Progress, CancelledInFlight, ReceiptOffDomain,
     PageDrifted, Record, RecordFails, MarkUncertain, MarkUncertainFails, Cleanup, ReleaseCase,
     Forget, QueueHuman, KeepsCase, KeepsRest
<1>3. ASSUME NEW s \in Sessions, OpenSession(s)
      PROVE  doubt' = doubt
  BY <1>3 DEF OpenSession, KeepsRest
<1> QED
  BY <1>1, <1>2, <1>3 DEF Next, RunMoves, vars

\* docs/architecture.md: a write is made only under its own durable intent.
THEOREM WritesHaveIntent == Spec => WriteHasIntent
PROOF
<1>1. ASSUME TypeOK, SubmissionInv, [Next]_vars,
             lost = {}, doubt' # doubt, doubt' # {}, doubt \subseteq doubt'
      PROVE  brokerCase.state \in Flagged /\ doubt' = {attempts}
  <2>1. PICK t \in Runs : Write(t)
    BY <1>1, OnlyWritesDoubt
  <2>2. Accounted /\ run[t] \in RunRecord
    BY <1>1 DEF SubmissionInv, TypeOK
  <2>3. Holds(t)
    BY <2>1, <2>2 DEF Accounted, Placed, Holding, Holds, Write, At
  <2>4. run[t].attempt = attempts /\ brokerCase.state \in Flagged /\ doubt \subseteq {attempts}
    BY <2>2, <2>3, HolderFacts
  <2> QED
    BY <2>1, <2>4 DEF Write
<1>2. TypeOK /\ SubmissionInv /\ [Next]_vars
      => [(lost = {} /\ doubt' # doubt /\ doubt' # {} /\ doubt \subseteq doubt')
          => /\ brokerCase.state \in Flagged
             /\ doubt' = {attempts}]_vars
  BY <1>1
<1> QED
  BY <1>2, TypeCorrect, SubmissionAccounted, PTL DEF Spec, WriteHasIntent

-----------------------------------------------------------------------------
(* The refinement                                                            *)

\* A step that keeps the flag and the doubt is no step of the claim.
LEMMA ClaimStutters ==
  ASSUME lost = {}, lost' = {}, doubt' = doubt, attempts' = attempts,
         brokerCase'.state \in Flagged <=> brokerCase.state \in Flagged
  PROVE  UNCHANGED <<ClaimPhase, Claims>>
  BY DEF ClaimPhase, Claims

\* One after which neither is left decides it, or had nothing to decide.
LEMMA ClaimDecided ==
  ASSUME lost = {}, lost' = {}, doubt' = {}, attempts' = attempts,
         brokerCase'.state \notin Flagged
  PROVE  [Claimed!Decide]_<<ClaimPhase, Claims>>
  BY DEF ClaimPhase, Claims, Claimed!Decide

\* The steps that leave the case and the doubt alone, a step's click and the
\* marking of its intent among them.
LEMMA QuietStepStutters ==
  ASSUME lost = {}, lost' = {}, NEW t \in Runs,
         Quiet(t) \/ MarkIntent(t) \/ Click(t) \/ ReceiptOffDomain(t)
  PROVE  UNCHANGED <<ClaimPhase, Claims>>
PROOF
<1>1. brokerCase' = brokerCase /\ attempts' = attempts /\ doubt' = doubt
  BY QuietFacts DEF MarkIntent, KeepsRest, Click, ReceiptOffDomain
<1> QED
  BY <1>1, ClaimStutters

\* The steps of a run that write, or that move the case.
LEMMA EffectStepClaims ==
  ASSUME TypeOK, Accounted, NEW t \in Runs, lost = {}, lost' = {},
         \/ ReserveCase(t) \/ Write(t) \/ Record(t) \/ MarkUncertain(t) \/ Cleanup(t)
         \/ ReleaseCase(t) \/ QueueHuman(t) \/ PageDrifted(t)
  PROVE  [Claimed!Next]_<<ClaimPhase, Claims>>
PROOF
<1>1. run[t] \in RunRecord /\ attempts \in Nat /\ CaseTypeOK /\ Placed(run[t])
  BY DEF TypeOK, Accounted
<1>2. CASE ReserveCase(t)
  <2>1. brokerCase.state \notin Flagged /\ doubt = {}
    BY <1>2, SubmittableIsUnflagged DEF ReserveCase, Reserve, Accounted
  <2>2. brokerCase'.state \in Flagged /\ doubt' = {} /\ attempts' = attempts + 1
    BY <1>1, <1>2, <2>1 DEF ReserveCase, Reserve, CaseTypeOK, Flagged
  <2>3. Claimed!Claim
    BY <2>1, <2>2 DEF Claimed!Claim, ClaimPhase, Claims
  <2> QED
    BY <2>3 DEF Claimed!Next
<1>3. CASE Write(t)
  <2>1. Holds(t)
    BY <1>1, <1>3 DEF Write, At, Placed, Holding, Holds
  <2>2. doubt' = {attempts} /\ brokerCase' = brokerCase /\ attempts' = attempts
    BY <1>3, <2>1, HolderFacts DEF Write
  <2>3. CASE doubt = {}
    <3>1. Claimed!Open
      BY <2>1, <2>2, <2>3, HolderFacts DEF Claimed!Open, ClaimPhase, Claims
    <3> QED
      BY <3>1 DEF Claimed!Next
  <2>4. CASE doubt # {}
    <3>1. doubt' = doubt
      BY <2>1, <2>2, <2>4, HolderFacts
    <3> QED
      BY <2>2, <3>1, ClaimStutters
  <2> QED
    BY <2>3, <2>4
<1>4. CASE Record(t)
  <2>1. Holds(t)
    BY <1>1, <1>4 DEF Record, At, Placed, Holding, Holds
  <2>2. doubt' = {} /\ attempts' = attempts
    BY <1>4, <2>1, HolderFacts DEF Record
  <2>3. brokerCase'.state \notin Flagged
    BY <1>1, <1>4 DEF Record, RecordFormSubmission, RecordRemoval, CaseTypeOK, Flagged
  <2> QED
    BY <2>2, <2>3, ClaimDecided DEF Claimed!Next
<1>5. CASE MarkUncertain(t)
  <2>1. /\ doubt' = doubt /\ attempts' = attempts
        /\ brokerCase.state \in Flagged /\ brokerCase'.state \in Flagged
    BY <1>1, <1>5 DEF MarkUncertain, RecordUncertain, CaseTypeOK, Flagged
  <2> QED
    BY <2>1, ClaimStutters
<1>6. CASE ReleaseCase(t)
  <2>1. doubt' = doubt /\ attempts' = attempts
    BY <1>6 DEF ReleaseCase
  <2>2. CASE brokerCase' = brokerCase
    BY <2>1, <2>2, ClaimStutters
  <2>3. CASE Release /\ ~(Lane(t) = "session" /\ doubt # {})
    <3>1. doubt' = {}
      BY <1>1, <1>6, <2>1, <2>3 DEF ReleaseCase, At, Placed, Lane
    <3>2. brokerCase'.state \notin Flagged
      BY <1>1, <2>3 DEF Release, CaseTypeOK, Flagged
    <3> QED
      BY <2>1, <3>1, <3>2, ClaimDecided DEF Claimed!Next
  <2> QED
    BY <1>6, <2>2, <2>3 DEF ReleaseCase, Lose
<1>7. CASE Cleanup(t) \/ QueueHuman(t) \/ PageDrifted(t)
  <2>1. attempts' = attempts /\ doubt' = doubt
    BY <1>7 DEF Cleanup, QueueHuman, PageDrifted
  <2>2. \/ brokerCase' = brokerCase
        \/ /\ brokerCase.state \notin Flagged
           /\ RecordLifecycle("human_task_queued") \/ RecordLifecycle("blocked")
    BY <1>7 DEF Cleanup, QueueHuman, PageDrifted, LoseIfFlagged
  <2>3. brokerCase'.state \in Flagged <=> brokerCase.state \in Flagged
    BY <1>1, <2>2 DEF RecordLifecycle, CaseTypeOK, Flagged
  <2> QED
    BY <2>1, <2>3, ClaimStutters
<1> QED
  BY <1>2, <1>3, <1>4, <1>5, <1>6, <1>7

\* The operator, the other tools, the expiries and a crash.
LEMMA EnvironmentClaims ==
  ASSUME TypeOK, Accounted, Environment, lost = {}, lost' = {}
  PROVE  [Claimed!Next]_<<ClaimPhase, Claims>>
PROOF
<1>1. CaseTypeOK
  BY DEF TypeOK
<1>2. CASE Reconcile
  <2>1. doubt' = {} /\ attempts' = attempts
    BY <1>2 DEF Reconcile
  <2>2. brokerCase'.state \notin Flagged
    BY <1>1, <1>2 DEF Reconcile, ReconcileNotStarted, ReconcileConfirmed, CaseTypeOK, Flagged
  <2> QED
    BY <2>1, <2>2, ClaimDecided DEF Claimed!Next
<1>3. CASE ForgetScope \/ ForgetDedupe \/ DedupeExpires \/ ScopeExpires \/ Crash
  BY <1>3, ClaimStutters DEF ForgetScope, ForgetDedupe, DedupeExpires, ScopeExpires, Crash
<1>4. CASE Observe \/ Verify
  <2>1. attempts' = attempts /\ doubt' = doubt
    BY <1>4 DEF Observe, Verify, OtherTools
  <2>2. CASE brokerCase.state \in Flagged
    <3>1. brokerCase'.state = brokerCase.state
      BY <1>1, <1>4, <2>2, ObservationsKeepFlag DEF Observe, Verify
    <3> QED
      BY <2>1, <3>1, ClaimStutters
  <2>3. CASE brokerCase.state \notin Flagged
    <3>1. {"verification_pending", "awaiting_processing"} \subseteq CaseStates \ Flagged
      BY DEF CaseStates, Transitions, Flagged
    <3>2. brokerCase'.state \notin Flagged
      BY <1>1, <1>4, <2>3, <3>1, ObservationsNeverFlag DEF Observe, Verify
    <3> QED
      BY <2>1, <2>3, <3>2, ClaimStutters
  <2> QED
    BY <2>2, <2>3
<1>5. CASE ControllerAnswers
  <2>1. attempts' = attempts
    BY <1>5 DEF ControllerAnswers, OtherTools
  <2>2. brokerCase'.state \notin Flagged
    BY <1>1, <1>5, AnswersUnflag DEF ControllerAnswers
  <2>3. CASE brokerCase.state = "submission_uncertain"
    BY <1>5, <2>1, <2>2, <2>3, ClaimDecided DEF ControllerAnswers, Claimed!Next
  <2>4. CASE brokerCase.state # "submission_uncertain"
    <3>1. brokerCase.state \notin Flagged
      BY <1>5, <2>4 DEF ControllerAnswers, RecordControllerOutcome, InFlight, Flagged
    <3> QED
      BY <1>5, <2>1, <2>2, <2>4, <3>1, ClaimStutters DEF ControllerAnswers
  <2> QED
    BY <2>3, <2>4
<1>6. CASE HandOff
  <2>1. attempts' = attempts /\ doubt' = doubt /\ brokerCase.state \notin Flagged
    BY <1>6 DEF HandOff, LoseIfFlagged, OtherTools
  <2>2. brokerCase'.state \notin Flagged
    BY <1>1, <1>6 DEF HandOff, RecordLifecycle, CaseTypeOK, Flagged
  <2> QED
    BY <2>1, <2>2, ClaimStutters
<1> QED
  BY <1>2, <1>3, <1>4, <1>5, <1>6 DEF Environment

\* Every step, once a flag is lost and before.
LEMMA StepClaims ==
  ASSUME TypeOK, SubmissionInv, [Next]_vars
  PROVE  [Claimed!Next]_<<ClaimPhase, Claims>>
PROOF
<1>1. CASE lost' # {}
  <2>1. Claimed!Forfeit
    BY <1>1 DEF Claimed!Forfeit, ClaimPhase, Claims
  <2> QED
    BY <2>1 DEF Claimed!Next
<1>2. CASE lost' = {}
  <2>1. lost = {} /\ Accounted
    BY <1>2, LostGrows DEF SubmissionInv
  <2>2. CASE UNCHANGED vars
    BY <1>2, <2>1, <2>2, ClaimStutters DEF vars
  <2>3. CASE Environment
    BY <1>2, <2>1, <2>3, EnvironmentClaims
  <2>4. ASSUME NEW t \in Runs, RunMoves(t)
        PROVE [Claimed!Next]_<<ClaimPhase, Claims>>
    <3>1. ~CancelledInFlight(t)
      BY <1>2 DEF CancelledInFlight, Lose
    <3> QED
      BY <1>2, <2>1, <2>4, <3>1, QuietStepStutters, EffectStepClaims DEF RunMoves, RunStep, Quiet
  <2>5. ASSUME NEW s \in Sessions, OpenSession(s)
        PROVE [Claimed!Next]_<<ClaimPhase, Claims>>
    BY <1>2, <2>1, <2>5, ClaimStutters DEF OpenSession, KeepsRest
  <2> QED
    BY <2>2, <2>3, <2>4, <2>5 DEF Next, RunMoves
<1> QED
  BY <1>1, <1>2

\* SECURITY.md: the submission tools together keep the promise of RemovalClaim.
THEOREM SubmissionImplementsClaim == Spec => ImplementsClaim
PROOF
<1>1. Init => Claimed!Init
  BY DEF Init, CaseInit, NewCase, ClaimPhase, Claims, Claimed!Init, Flagged
<1>2. TypeOK /\ SubmissionInv /\ [Next]_vars => [Claimed!Next]_<<ClaimPhase, Claims>>
  BY StepClaims
<1> QED
  BY <1>1, <1>2, TypeCorrect, SubmissionAccounted, PTL
     DEF Spec, ImplementsClaim, Claimed!Spec, Claimed!claimVars

===============================================================================
