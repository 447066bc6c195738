----------------------------- MODULE Verification -----------------------------
(* Verification mail of one profile and one broker (index.ts):                 *)
(* rightout_poll_verification turns a mail into a one-use handle,              *)
(* rightout_open_verification spends the handle on the broker's link, and, for *)
(* the identity portal, rightout_begin_form_session and                        *)
(* rightout_form_session_step go on in the tab the link opened.  Every await   *)
(* is a step of a task; the case, the handles, the open guard, the portal flow *)
(* and the submission dedupe are durable, tasks and browser sessions are not.  *)
(* The submission that asks for the mail is RemovalSubmission's; here it is    *)
(* reserved and, if it gets that far, recorded.  Nothing here reads a date of  *)
(* the case, so its clock stands still; lifetimes count down in days.          *)
EXTENDS CaseLedger

CONSTANTS
  Lanes,         \* open_link modes: "get", "portal", "human"
  Tasks,         \* concurrent chains of awaits: tool calls, timers
  Handles,       \* bound: verification handles at one time
  Sessions,      \* bound: browser sessions at one time
  MaxRequests,   \* bound: submissions recorded
  MaxEntries,    \* bound: "submitted" entries
  FlowDays,      \* lifetime of a portal flow and its sessions
  HandleDays,    \* defaultTtlMs of the verification handles
  MailDays,      \* sinceDays of the mail search
  GuardDays,     \* defaultTtlMs of the open guard
  Nobody         \* no handle, no session

ASSUME VerificationAssumption ==
  /\ Lanes \subseteq {"get", "portal", "human"}
  /\ {MaxRequests, MaxEntries} \subseteq Nat /\ Nobody \notin Handles \cup Sessions
  /\ {FlowDays, HandleDays, MailDays, GuardDays} \subseteq Nat \ {0}

\* The guard of an open is kept for 30 days, a handle for 7; a mail is searched
\* for 14.
ASSUME LifetimeAssumption == HandleDays < GuardDays /\ MailDays <= GuardDays

VARIABLES
  lane,
  dedupe,      \* phase of the submission dedupe record
  request,     \* submissions recorded: the last proof of one is its reference
  epoch,       \* "submitted" entries of the history: the time of the last one
  mail,        \* per request: the days its mail stays in the search window, and
               \* the "submitted" entries before it arrived
  handle,      \* verificationTokens
  guard,       \* verificationOpenDedupe: the days left, per request
  flow,        \* portalFlowStore: the days left, 0 when only the record is left
  session,     \* guided sessions; open while in browserSessions
  task,
  unresolved,  \* history: mails whose link was opened and to no record
  clicker      \* history: per request, the session that clicked for it

mailVars == <<lane, dedupe, request, epoch, mail, handle, guard, flow, session, task,
              unresolved, clicker>>
verificationVars == <<now, brokerCase, mailVars>>

Requests == 1 .. MaxRequests
NoMail == [days |-> Never, epoch |-> 0]
NoHandle == [ref |-> 0, epoch |-> 0, link |-> 0, days |-> 0]
NoSession == [open |-> FALSE, intent |-> FALSE, claims |-> 0, days |-> 0]
Rest == [pc |-> "idle", old |-> FALSE, ref |-> 0, epoch |-> 0, link |-> 0,
         item |-> Nobody, last |-> "idle"]

MailInit ==
  /\ lane \in Lanes /\ dedupe = "none" /\ request = 0 /\ epoch = 0
  /\ mail = [r \in Requests |-> NoMail]
  /\ handle = [h \in Handles |-> NoHandle] /\ guard = [r \in Requests |-> 0]
  /\ flow = Never /\ session = [s \in Sessions |-> NoSession]
  /\ task = [t \in Tasks |-> Rest]
  /\ unresolved = {} /\ clicker = [r \in Requests |-> Nobody]

VerificationInit ==
  ClockInit /\ brokerCase = [NewCase EXCEPT !.state = "found"] /\ MailInit

\* Steps of a task.  A call begins idle, and a refusal or a failure ends it.
At(t, pc) == task[t].pc = pc
Begins(t, pc, item, last) ==
  /\ At(t, "idle")
  /\ task' = [task EXCEPT ![t] = [Rest EXCEPT !.pc = pc, !.item = item, !.last = last]]
Goes(t, pc) == task' = [task EXCEPT ![t] = IF pc = "idle" THEN Rest ELSE [@ EXCEPT !.pc = pc]]
GoesWith(t, pc, ref, at) ==
  task' = [task EXCEPT ![t].pc = pc, ![t].ref = ref, ![t].epoch = at]

-----------------------------------------------------------------------------
(* The submission and the world                                              *)

RequestReserved ==
  /\ request < MaxRequests /\ dedupe = "none"
  /\ Reserve(IF lane = "portal" THEN "browser_form" ELSE "smtp_email", TRUE)
  /\ dedupe' = "reserved"
  /\ UNCHANGED <<now, lane, request, epoch, mail, handle, guard, flow, session, task,
                 unresolved, clicker>>

RequestRecorded ==
  /\ dedupe = "reserved" /\ request < MaxRequests /\ epoch < MaxEntries
  /\ IF lane = "portal" THEN RecordVerificationRequested(now) ELSE RecordRemoval(now)
  /\ dedupe' = IF lane = "portal" THEN "requested" ELSE "sent"
  /\ request' = request + 1 /\ epoch' = epoch + 1
  /\ UNCHANGED <<now, lane, mail, handle, guard, flow, session, task, unresolved, clicker>>

\* The duplicate window of a submission ends.
DedupeLapses ==
  /\ dedupe # "none"
  /\ dedupe' = "none"
  /\ UNCHANGED <<now, brokerCase, lane, request, epoch, mail, handle, guard, flow, session,
                 task, unresolved, clicker>>

\* rightout_reconcile_submission: the operator settles what the clicks came to.
Reconciled ==
  /\ \/ ReconcileNotStarted /\ dedupe' = "none" /\ UNCHANGED epoch
     \/ ReconcileConfirmed /\ epoch < MaxEntries /\ epoch' = epoch + 1 /\ UNCHANGED dedupe
  /\ clicker' = [r \in Requests |-> Nobody]
  /\ UNCHANGED <<now, lane, request, mail, handle, guard, flow, session, task, unresolved>>

\* A direct rescan finds the listing again: the case may be submitted anew.
Relisted ==
  /\ request < MaxRequests
  /\ RecordPresent(now)
  /\ UNCHANGED <<now, mailVars>>

MailArrives(r) ==
  /\ r <= request /\ mail[r] = NoMail
  /\ mail' = [mail EXCEPT ![r] = [days |-> MailDays, epoch |-> epoch]]
  /\ UNCHANGED <<now, brokerCase, lane, dedupe, request, epoch, handle, guard, flow, session,
                 task, unresolved, clicker>>

-----------------------------------------------------------------------------
(* rightout_poll_verification                                                *)

\* A stored flow closes the portal lane for polls and opens.
LaneFree == lane = "portal" => flow = Never

PollBegin(t) ==
  /\ LaneFree
  /\ Begins(t, "pollContext", Nobody, "idle")
  /\ UNCHANGED <<now, brokerCase, lane, dedupe, request, epoch, mail, handle, guard, flow,
                 session, unresolved, clicker>>

\* verificationContext: the case, its last reference and its last "submitted".
Context(t, states, pc) ==
  /\ brokerCase.state \in states /\ request > 0
  /\ GoesWith(t, pc, request, epoch)
  /\ UNCHANGED <<now, brokerCase, lane, dedupe, request, epoch, mail, handle, guard, flow,
                 session, unresolved, clicker>>

PollContext(t) ==
  /\ At(t, "pollContext")
  /\ Context(t, {"submitted", "verification_pending"}, "pollGuard")

GuardLive(ref) == guard[ref] > 0

PollGuard(t) ==
  /\ At(t, "pollGuard") /\ ~ GuardLive(task[t].ref)
  /\ Goes(t, "pollMail")
  /\ UNCHANGED <<now, brokerCase, lane, dedupe, request, epoch, mail, handle, guard, flow,
                 session, unresolved, clicker>>

\* pollImapVerification: a mail since the submission, inside the search window.
Observable(t, r) == mail[r].days > 0 /\ mail[r].epoch >= task[t].epoch

\* No mail passed the checks, or a portal mail was polled without a campaign.
PollDefers(t) ==
  /\ At(t, "pollMail")
  /\ DeferRecheck
  /\ Goes(t, "idle")
  /\ UNCHANGED <<now, lane, dedupe, request, epoch, mail, handle, guard, flow, session,
                 unresolved, clicker>>

PollFinds(t, r) ==
  /\ At(t, "pollMail") /\ Observable(t, r)
  /\ \/ lane = "human" /\ RecordLifecycle("human_task_queued") /\ Goes(t, "idle")
     \/ /\ lane # "human" /\ RecordLifecycle("verification_pending")
        /\ task' = [task EXCEPT ![t].pc = "pollHandle", ![t].link = r]
  /\ UNCHANGED <<now, lane, dedupe, request, epoch, mail, handle, guard, flow, session,
                 unresolved, clicker>>

PollHandle(t) ==
  /\ At(t, "pollHandle")
  /\ \E h \in Handles :
       /\ handle[h] = NoHandle /\ \A u \in Tasks : task[u].item # h
       /\ handle' = [handle EXCEPT ![h] =
                       [ref |-> task[t].ref, epoch |-> task[t].epoch,
                        link |-> task[t].link, days |-> HandleDays]]
  /\ Goes(t, "idle")
  /\ UNCHANGED <<now, brokerCase, lane, dedupe, request, epoch, mail, guard, flow, session,
                 unresolved, clicker>>

-----------------------------------------------------------------------------
(* rightout_open_verification                                                *)

OpenBegin(t, h) ==
  /\ LaneFree /\ handle[h] # NoHandle
  /\ Begins(t, "openContext", h, "idle")
  /\ UNCHANGED <<now, brokerCase, lane, dedupe, request, epoch, mail, handle, guard, flow,
                 session, unresolved, clicker>>

OpenContext(t) ==
  /\ At(t, "openContext")
  /\ Context(t, {"verification_pending"}, "openToken")

\* The handle must be of the submission the context names.
OpenToken(t) ==
  /\ At(t, "openToken") /\ handle[task[t].item].days > 0
  /\ handle[task[t].item].ref = task[t].ref /\ handle[task[t].item].epoch = task[t].epoch
  /\ Goes(t, "openGuard")
  /\ UNCHANGED <<now, brokerCase, lane, dedupe, request, epoch, mail, handle, guard, flow,
                 session, unresolved, clicker>>

\* registerIfAbsent, before anything is sent.
OpenGuard(t) ==
  /\ At(t, "openGuard") /\ ~ GuardLive(task[t].ref)
  /\ guard' = [guard EXCEPT ![task[t].ref] = GuardDays]
  /\ Goes(t, "openConsume")
  /\ UNCHANGED <<now, brokerCase, lane, dedupe, request, epoch, mail, handle, flow, session,
                 unresolved, clicker>>

OpenConsume(t) ==
  /\ At(t, "openConsume")
  /\ IF handle[task[t].item].days > 0
       THEN /\ handle' = [handle EXCEPT ![task[t].item] = NoHandle]
            /\ task' = [task EXCEPT ![t].pc = "openSend", ![t].epoch = 0,
                                    ![t].link = handle[task[t].item].link, ![t].item = Nobody]
       ELSE Goes(t, "unguard") /\ UNCHANGED handle
  /\ UNCHANGED <<now, brokerCase, lane, dedupe, request, epoch, mail, guard, flow, session,
                 unresolved, clicker>>

\* fetchWithSsrFGuard or openSession leaves the process.
OpenSend(t) ==
  /\ At(t, "openSend")
  /\ unresolved' = unresolved \cup {task[t].link}
  /\ Goes(t, IF lane = "portal" THEN "openTab" ELSE "openAnswer")
  /\ UNCHANGED <<now, brokerCase, lane, dedupe, request, epoch, mail, handle, guard, flow,
                 session, clicker>>

OpenAnswer(t) ==
  /\ At(t, "openAnswer")
  /\ \E pc \in {"openRecord", "human"} : Goes(t, pc)
  /\ UNCHANGED <<now, brokerCase, lane, dedupe, request, epoch, mail, handle, guard, flow,
                 session, unresolved, clicker>>

\* Fault: the guard goes although the case could not be advanced.
UnguardedAnyway(t) ==
  /\ At(t, "openRecord")
  /\ UNCHANGED <<brokerCase, unresolved>> /\ Goes(t, "unguard")
  /\ UNCHANGED <<now, lane, dedupe, request, epoch, mail, handle, guard, flow, session,
                 clicker>>

\* The guard outlives an open whose case could not be advanced.
OpenRecord(t) ==
  /\ At(t, "openRecord")
  /\ \/ /\ RecordLifecycle("awaiting_processing")
        /\ unresolved' = unresolved \ {task[t].link}
        /\ Goes(t, "unguard")
     \/ Goes(t, "idle") /\ UNCHANGED <<brokerCase, unresolved>>
  /\ UNCHANGED <<now, lane, dedupe, request, epoch, mail, handle, guard, flow, session,
                 clicker>>

OpenUnguard(t) ==
  /\ At(t, "unguard")
  /\ guard' = [guard EXCEPT ![task[t].ref] = 0]
  /\ Goes(t, "idle")
  /\ UNCHANGED <<now, brokerCase, lane, dedupe, request, epoch, mail, handle, flow, session,
                 unresolved, clicker>>

\* The tab is open: first the flow is stored, then the session.
OpenFlow(t) ==
  /\ At(t, "openTab")
  /\ flow' = FlowDays
  /\ Goes(t, "openSession")
  /\ UNCHANGED <<now, brokerCase, lane, dedupe, request, epoch, mail, handle, guard, session,
                 unresolved, clicker>>

\* storeBrowserSession, under an identifier nothing remembers.
Store(s, days) ==
  /\ ~ session[s].open /\ \A u \in Tasks : task[u].item # s
  /\ \A r \in Requests : clicker[r] # s
  /\ session' = [session EXCEPT ![s] = [NoSession EXCEPT !.open = TRUE, !.days = days]]

\* deleteBrowserSession; another task that works on the session keeps the object.
Forgotten(t, s) ==
  [session EXCEPT ![s] = IF \E u \in Tasks \ {t} : task[u].item = s
                           THEN [@ EXCEPT !.open = FALSE, !.days = 0] ELSE NoSession]

OpenSession(t) ==
  /\ At(t, "openSession")
  /\ \E s \in Sessions :
       /\ Store(s, FlowDays)
       /\ task' = [task EXCEPT ![t].pc = "openAssess", ![t].item = s]
  /\ unresolved' = unresolved \ {task[t].link}
  /\ UNCHANGED <<now, brokerCase, lane, dedupe, request, epoch, mail, handle, guard, flow,
                 clicker>>

OpenAssess(t) ==
  /\ At(t, "openAssess")
  /\ Goes(t, "unguard")
  /\ UNCHANGED <<now, brokerCase, lane, dedupe, request, epoch, mail, handle, guard, flow,
                 session, unresolved, clicker>>

\* Whatever fails after the link may have been opened: the session and the flow
\* go, the case is handed to a human, the guard stays.
OpenTabFails(t) ==
  /\ task[t].pc \in {"openTab", "openSession", "openAssess"}
  /\ session' = IF At(t, "openAssess") THEN Forgotten(t, task[t].item)
                ELSE session
  /\ unresolved' = unresolved \cup {task[t].link}
  /\ task' = [task EXCEPT ![t].pc = IF At(t, "openTab") THEN "human" ELSE "flow",
                          ![t].last = "human"]
  /\ UNCHANGED <<now, brokerCase, lane, dedupe, request, epoch, mail, handle, guard, flow,
                 clicker>>

-----------------------------------------------------------------------------
(* The identity portal: begin_form_session and form_session_step              *)

\* begin_form_session on a stored flow that has not expired.
ResumeBegin(t) ==
  /\ lane = "portal" /\ flow > 0
  /\ Begins(t, "resume", Nobody, "idle")
  /\ UNCHANGED <<now, brokerCase, lane, dedupe, request, epoch, mail, handle, guard, flow,
                 session, unresolved, clicker>>

\* The tab is still there, is lost, or the campaign no longer covers it.
Resume(t) ==
  /\ At(t, "resume")
  /\ \/ flow > 0 /\ Goes(t, "idle") /\ \E s \in Sessions : Store(s, flow)
     \/ \E last \in {"human", "idle"} :
          task' = [task EXCEPT ![t].pc = "flow", ![t].last = last] /\ UNCHANGED session
  /\ UNCHANGED <<now, brokerCase, lane, dedupe, request, epoch, mail, handle, guard, flow,
                 unresolved, clicker>>

\* activeFormSession asks whether the session is stored, not whether it expired.
ClickBegin(t, s) ==
  /\ session[s].open
  /\ Begins(t, "click", s, "session")
  /\ UNCHANGED <<now, brokerCase, lane, dedupe, request, epoch, mail, handle, guard, flow,
                 session, unresolved, clicker>>

\* A session that holds the intent clicks on; another needs a request that has
\* seen its verification mail asked for and nothing more.
ClickIntent(t) ==
  LET s == session[task[t].item] IN
  /\ At(t, "click")
  /\ s.intent \/ dedupe = "requested"
  /\ Goes(t, IF s.intent THEN "clickSend" ELSE "clickReserve")
  /\ UNCHANGED <<now, brokerCase, lane, dedupe, request, epoch, mail, handle, guard, flow,
                 session, unresolved, clicker>>

ClickReserve(t) ==
  /\ At(t, "clickReserve")
  /\ ReserveVerifiedPortal
  /\ GoesWith(t, "clickMark", request, 0)
  /\ UNCHANGED <<now, lane, dedupe, request, epoch, mail, handle, guard, flow, session,
                 unresolved, clicker>>

ClickMark(t) ==
  /\ At(t, "clickMark")
  /\ dedupe' = "suppress"
  /\ session' = [session EXCEPT ![task[t].item].intent = TRUE,
                                ![task[t].item].claims = task[t].ref]
  /\ Goes(t, "clickSend")
  /\ UNCHANGED <<now, brokerCase, lane, request, epoch, mail, handle, guard, flow,
                 unresolved, clicker>>

\* browserSessionDriver.act: the provider's page is clicked.
ClickSend(t) ==
  /\ At(t, "clickSend")
  /\ clicker' = [clicker EXCEPT ![session[task[t].item].claims] = task[t].item]
  /\ Goes(t, "clickAnswer")
  /\ UNCHANGED <<now, brokerCase, lane, dedupe, request, epoch, mail, handle, guard, flow,
                 session, unresolved>>

\* An intermediate step went through or the click never started; the suppression
\* is confirmed; or what it came to is not known.
ClickAnswer(t) ==
  /\ At(t, "clickAnswer")
  /\ \E pc \in {"idle", "clickRecord", "uncertain"} : Goes(t, pc)
  /\ UNCHANGED <<now, brokerCase, lane, dedupe, request, epoch, mail, handle, guard, flow,
                 session, unresolved, clicker>>

ClickRecord(t) ==
  /\ At(t, "clickRecord")
  /\ \/ RecordSuppression(now) /\ Goes(t, "flow")
     \/ UNCHANGED brokerCase /\ Goes(t, "uncertain")
  /\ UNCHANGED <<now, lane, dedupe, request, epoch, mail, handle, guard, flow, session,
                 unresolved, clicker>>

\* Close, the session's timer, the sweep and a failed revalidation take the
\* session out of memory, record a pending click as uncertain, drop the flow and,
\* unless a close leaves that to the reconciliation, hand the case to a human.
SessionEnds(t, s, human) ==
  /\ session[s].open
  /\ session' = Forgotten(t, s)
  /\ Begins(t, IF session[s].intent THEN "uncertain" ELSE "flow", s,
            IF human THEN "human" ELSE "idle")
  /\ UNCHANGED <<now, brokerCase, lane, dedupe, request, epoch, mail, handle, guard, flow,
                 unresolved, clicker>>

Closes(t, s) == SessionEnds(t, s, ~ session[s].intent)
Expires(t, s) == session[s].days = 0 /\ SessionEnds(t, s, TRUE)
Revalidates(t, s) == SessionEnds(t, s, FALSE)

\* invalidatePortalFlows: a flow that expired while its session was lost.
FlowExpires(t) ==
  /\ flow = 0
  /\ Begins(t, "flow", Nobody, "human")
  /\ UNCHANGED <<now, brokerCase, lane, dedupe, request, epoch, mail, handle, guard, flow,
                 session, unresolved, clicker>>

\* The store's own limit takes a flow nobody swept, and queues nobody.
FlowLapses ==
  /\ flow = 0
  /\ flow' = Never
  /\ UNCHANGED <<now, brokerCase, lane, dedupe, request, epoch, mail, handle, guard, session,
                 task, unresolved, clicker>>

\* recordSubmissionUncertain, its failure swallowed.
RecordsUncertain(t) ==
  /\ At(t, "uncertain")
  /\ RecordUncertain("browser_form") \/ UNCHANGED brokerCase
  /\ Goes(t, "flow")
  /\ UNCHANGED <<now, lane, dedupe, request, epoch, mail, handle, guard, flow, session,
                 unresolved, clicker>>

DropsFlow(t) ==
  /\ At(t, "flow")
  /\ flow' = Never
  /\ Goes(t, task[t].last)
  /\ UNCHANGED <<now, brokerCase, lane, dedupe, request, epoch, mail, handle, guard, session,
                 unresolved, clicker>>

DropsSession(t) ==
  /\ At(t, "session")
  /\ session' = Forgotten(t, task[t].item)
  /\ Goes(t, "idle")
  /\ UNCHANGED <<now, brokerCase, lane, dedupe, request, epoch, mail, handle, guard, flow,
                 unresolved, clicker>>

\* recordLifecycle to human_task_queued, its failure swallowed.
QueuesHuman(t) ==
  /\ At(t, "human")
  /\ RecordLifecycle("human_task_queued") \/ UNCHANGED brokerCase
  /\ Goes(t, "idle")
  /\ UNCHANGED <<now, lane, dedupe, request, epoch, mail, handle, guard, flow, session,
                 unresolved, clicker>>

-----------------------------------------------------------------------------
(* Failures                                                                  *)

\* A refusal, or a failure nothing catches, where it leaves nothing to undo.
Interruptible ==
  {"pollContext", "pollGuard", "pollMail", "pollHandle", "openContext", "openToken",
   "openGuard", "unguard", "resume", "click", "clickReserve", "clickMark", "flow"}

Aborts(t) ==
  /\ task[t].pc \in Interruptible
  /\ Goes(t, "idle")
  /\ UNCHANGED <<now, brokerCase, lane, dedupe, request, epoch, mail, handle, guard, flow,
                 session, unresolved, clicker>>

\* Tasks and browser sessions are memory.
GatewayRestarts ==
  /\ task' = [t \in Tasks |-> Rest]
  /\ session' = [s \in Sessions |-> NoSession]
  /\ UNCHANGED <<now, brokerCase, lane, dedupe, request, epoch, mail, handle, guard, flow,
                 unresolved, clicker>>

Less(days) == IF days > 0 THEN days - 1 ELSE days

\* A call lives for minutes, so it ends in the day it began or in the next.
DayPasses ==
  /\ \A t \in Tasks : ~ task[t].old
  /\ task' = [t \in Tasks |-> [task[t] EXCEPT !.old = ~ At(t, "idle")]]
  /\ mail' = [r \in Requests |-> [mail[r] EXCEPT !.days = Less(@)]]
  /\ handle' = [h \in Handles |-> IF handle[h].days > 1 THEN [handle[h] EXCEPT !.days = @ - 1]
                                  ELSE NoHandle]
  /\ guard' = [r \in Requests |-> Less(guard[r])]
  /\ flow' = Less(flow)
  /\ session' = [s \in Sessions |-> [session[s] EXCEPT !.days = Less(@)]]
  /\ UNCHANGED <<now, brokerCase, lane, dedupe, request, epoch, unresolved, clicker>>

TaskStep(t) ==
  \/ PollBegin(t) \/ PollContext(t) \/ PollGuard(t) \/ PollDefers(t) \/ PollHandle(t)
  \/ \E r \in Requests : PollFinds(t, r)
  \/ \E h \in Handles : OpenBegin(t, h)
  \/ OpenContext(t) \/ OpenToken(t) \/ OpenGuard(t) \/ OpenConsume(t) \/ OpenSend(t)
  \/ OpenAnswer(t) \/ OpenRecord(t) \/ OpenUnguard(t)
  \/ OpenFlow(t) \/ OpenSession(t) \/ OpenAssess(t) \/ OpenTabFails(t)
  \/ ResumeBegin(t) \/ Resume(t)
  \/ \E s \in Sessions :
       ClickBegin(t, s) \/ Closes(t, s) \/ Expires(t, s) \/ Revalidates(t, s)
  \/ ClickIntent(t) \/ ClickReserve(t) \/ ClickMark(t) \/ ClickSend(t) \/ ClickAnswer(t)
  \/ ClickRecord(t)
  \/ FlowExpires(t) \/ RecordsUncertain(t) \/ DropsFlow(t) \/ DropsSession(t)
  \/ QueuesHuman(t) \/ Aborts(t)

VerificationNext ==
  \/ RequestReserved \/ RequestRecorded \/ DedupeLapses \/ Reconciled \/ Relisted
  \/ \E r \in Requests : MailArrives(r)
  \/ \E t \in Tasks : TaskStep(t)
  \/ FlowLapses \/ GatewayRestarts \/ DayPasses

VerificationSpec == VerificationInit /\ [][VerificationNext]_verificationVars

-----------------------------------------------------------------------------
(* Properties *)

\* The link of a mail is never opened again while an earlier open of it began and
\* is on no record, neither the case nor a session telling what it came to: not
\* by a second handle, after a crash or a failed record, nor by a late poll.
NoBlindReopen ==
  [][\A t \in Tasks :
       At(t, "openSend") /\ task'[t].pc \in {"openTab", "openAnswer"} =>
         task[t].link \notin unresolved]_verificationVars

\* Once a browser session has clicked for a request in the portal, no other
\* session clicks for it before the operator has reconciled the submission: not
\* after a crash, a resumed tab, a lost answer or an expired session.
OneSessionClicks ==
  [][\A r \in Requests :
       clicker[r] # Nobody /\ clicker'[r] # Nobody => clicker'[r] = clicker[r]]_verificationVars

=============================================================================
