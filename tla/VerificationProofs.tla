------------------------- MODULE VerificationProofs --------------------------
(* Proofs about Verification, for every set of tasks, handles and sessions and *)
(* every lifetime: one session clicks for a request, and a link whose open is  *)
(* in doubt is not opened again.                                               *)
EXTENDS Verification, CaseLedgerProofs

-----------------------------------------------------------------------------
(* Types                                                                     *)

\* A task that goes by the dates of a context: what it finds is of that request.
Dated == {"pollGuard", "pollMail", "pollHandle", "openToken", "openGuard", "openConsume"}
\* The link has left the process, and no record tells what came of it.
Sent == {"openAnswer", "openTab", "openSession", "openRecord"}
\* The task knows the link of the mail it opens.
Linked == {"openSend", "openAssess"} \cup Sent
\* Between the registration of the open guard and its release.
Section == {"openConsume", "unguard"} \cup Linked
HandleSteps == {"openContext", "openToken", "openGuard", "openConsume"}
ClickSteps == {"click", "clickReserve", "clickMark", "clickSend"}

Lasts == {"idle", "human", "session"}
Steps ==
  {"pollContext", "openContext", "resume", "clickAnswer", "clickRecord", "flow", "uncertain"}
    \cup Dated \cup Section \cup ClickSteps \cup Lasts

Days == Nat \cup {Never}
TaskRecords ==
  {k \in [pc : Steps, old : BOOLEAN, ref : Nat, epoch : Nat, link : Nat,
          item : Handles \cup Sessions \cup {Nobody}, last : Lasts] :
     /\ k.pc \in Dated \cup Section => k.ref \in Requests
     /\ k.pc \in Linked \cup {"pollHandle"} => k.link \in Requests
     /\ k.pc \in HandleSteps => k.item \in Handles
     /\ k.pc \in ClickSteps => k.item \in Sessions}

StoresTyped ==
  /\ request \in 0 .. MaxRequests /\ epoch \in Nat
  /\ mail \in [Requests -> [days : Days, epoch : Nat]]
  /\ handle \in [Handles -> [ref : Nat, epoch : Nat, link : Nat, days : Nat]]
  /\ \A h \in Handles : handle[h].days > 0 => handle[h].link \in Requests
  /\ guard \in [Requests -> Nat]
  /\ flow \in Days
  /\ session \in [Sessions -> [open : BOOLEAN, intent : BOOLEAN, claims : Nat, days : Days]]
  /\ unresolved \subseteq Requests
  /\ clicker \in [Requests -> Sessions \cup {Nobody}]

TasksTyped == task \in [Tasks -> TaskRecords]

VerificationTypeOK == now \in Nat /\ CaseTypeOK /\ StoresTyped /\ TasksTyped

LEMMA RestTyped == Rest \in TaskRecords
PROOF
<1>1. Rest.pc = "idle"
  BY DEF Rest
<1>2. "idle" \notin Dated \cup Section \cup Linked \cup {"pollHandle"} \cup HandleSteps \cup ClickSteps
  BY DEF Dated, Section, Linked, Sent, HandleSteps, ClickSteps
<1>3. Rest \in [pc : Steps, old : BOOLEAN, ref : Nat, epoch : Nat, link : Nat,
                item : Handles \cup Sessions \cup {Nobody}, last : Lasts]
  BY DEF Rest, Steps, Lasts
<1> QED
  BY <1>1, <1>2, <1>3 DEF TaskRecords

\* A task goes on, with the request and the link its step needs.
LEMMA GoesTyped ==
  ASSUME TasksTyped, NEW t \in Tasks, NEW pc \in Steps, Goes(t, pc),
         pc \in Dated \cup Section => task[t].ref \in Requests,
         pc \in Linked \cup {"pollHandle"} => task[t].link \in Requests,
         pc \in HandleSteps => task[t].item \in Handles,
         pc \in ClickSteps => task[t].item \in Sessions
  PROVE  TasksTyped'
PROOF
<1>1. task[t] \in TaskRecords
  BY DEF TasksTyped
<1>2. [task[t] EXCEPT !.pc = pc] \in TaskRecords
  BY <1>1 DEF TaskRecords
<1> QED
  BY <1>2, RestTyped DEF Goes, TasksTyped

LEMMA BeginsTyped ==
  ASSUME TasksTyped, NEW t \in Tasks, NEW pc \in Steps, NEW last \in Lasts,
         NEW item \in Handles \cup Sessions \cup {Nobody}, Begins(t, pc, item, last),
         pc \notin Dated \cup Section \cup Linked \cup {"pollHandle"},
         pc \in HandleSteps => item \in Handles,
         pc \in ClickSteps => item \in Sessions
  PROVE  TasksTyped'
PROOF
<1>1. [Rest EXCEPT !.pc = pc, !.item = item, !.last = last] \in TaskRecords
  BY DEF Rest, TaskRecords
<1> QED
  BY <1>1 DEF Begins, TasksTyped

LEMMA GoesWithTyped ==
  ASSUME TasksTyped, NEW t \in Tasks, NEW pc \in Steps, NEW ref \in Nat, NEW at \in Nat,
         GoesWith(t, pc, ref, at),
         pc \in Dated \cup Section => ref \in Requests,
         pc \notin Linked \cup {"pollHandle"},
         pc \in HandleSteps => task[t].item \in Handles,
         pc \in ClickSteps => task[t].item \in Sessions
  PROVE  TasksTyped'
PROOF
<1>1. task[t] \in TaskRecords
  BY DEF TasksTyped
<1>2. [task[t] EXCEPT !.pc = pc, !.ref = ref, !.epoch = at] \in TaskRecords
  BY <1>1 DEF TaskRecords
<1>3. task' = [task EXCEPT ![t] = [task[t] EXCEPT !.pc = pc, !.ref = ref, !.epoch = at]]
  BY <1>1 DEF GoesWith, TasksTyped
<1> QED
  BY <1>2, <1>3 DEF TasksTyped

\* What a step does to the tasks.
LEMMA TasksStep ==
  ASSUME StoresTyped, TasksTyped, VerificationNext
  PROVE  TasksTyped'
PROOF
<1> USE DEF Steps, Lasts
<1>a. \A t \in Tasks : task[t] \in TaskRecords
  BY DEF TasksTyped
<1>b. \A t \in Tasks : task[t].last \in Lasts /\ task[t].old \in BOOLEAN /\ task[t].epoch \in Nat
                       /\ task[t].item \in Handles \cup Sessions \cup {Nobody}
  BY <1>a DEF TaskRecords
<1>c. \A t \in Tasks :
        /\ task[t].pc \in Dated \cup Section => task[t].ref \in Requests
        /\ task[t].pc \in Linked \cup {"pollHandle"} => task[t].link \in Requests
        /\ task[t].pc \in HandleSteps => task[t].item \in Handles
        /\ task[t].pc \in ClickSteps => task[t].item \in Sessions
  BY <1>a DEF TaskRecords
<1>d. request \in Nat /\ epoch \in Nat /\ (request > 0 => request \in Requests)
  BY VerificationAssumption DEF StoresTyped, Requests
<1>1. CASE \/ RequestReserved \/ RequestRecorded \/ DedupeLapses \/ Reconciled \/ Relisted
           \/ (\E r \in Requests : MailArrives(r)) \/ FlowLapses
  BY <1>1 DEF RequestReserved, RequestRecorded, DedupeLapses, Reconciled, Relisted, MailArrives,
              FlowLapses, TasksTyped, mailVars
<1>2. CASE GatewayRestarts
  BY <1>2, RestTyped DEF GatewayRestarts, TasksTyped
<1>3. CASE DayPasses
  <2>1. \A t \in Tasks : [task[t] EXCEPT !.old = ~ At(t, "idle")] \in TaskRecords
    BY <1>a DEF TaskRecords
  <2> QED
    BY <1>3, <2>1 DEF DayPasses, TasksTyped
<1>4. ASSUME NEW t \in Tasks, TaskStep(t)
      PROVE  TasksTyped'
  <2> USE DEF At, Dated, Section, Linked, Sent, HandleSteps, ClickSteps
  <2>1. CASE PollBegin(t)
    BY <2>1, BeginsTyped DEF PollBegin
  <2>2. CASE PollContext(t) \/ OpenContext(t)
    BY <1>c, <1>d, <2>2, GoesWithTyped DEF PollContext, OpenContext, Context
  <2>3. CASE PollGuard(t) \/ PollDefers(t) \/ PollHandle(t)
    BY <1>c, <2>3, GoesTyped DEF PollGuard, PollDefers, PollHandle
  <2>4. CASE \E r \in Requests : PollFinds(t, r)
    <3>1. PICK r \in Requests : PollFinds(t, r)
      BY <2>4
    <3>2. CASE Goes(t, "idle")
      BY <3>2, GoesTyped
    <3>3. CASE task' = [task EXCEPT ![t].pc = "pollHandle", ![t].link = r]
      <4>1. [task[t] EXCEPT !.pc = "pollHandle", !.link = r] \in TaskRecords
        <5>1. task[t].ref \in Requests /\ r \in Nat /\ task[t] \in TaskRecords
          BY <1>a, <1>c, <3>1 DEF PollFinds, Requests
        <5> QED
          BY <5>1 DEF TaskRecords
      <4> QED
        BY <3>3, <4>1 DEF TasksTyped
    <3> QED
      BY <3>1, <3>2, <3>3 DEF PollFinds
  <2>5. CASE \E h \in Handles : OpenBegin(t, h)
    BY <2>5, BeginsTyped DEF OpenBegin
  <2>6. CASE OpenToken(t) \/ OpenGuard(t) \/ OpenSend(t) \/ OpenAnswer(t) \/ OpenRecord(t)
             \/ OpenUnguard(t) \/ OpenFlow(t) \/ OpenAssess(t)
    BY <1>c, <2>6, GoesTyped
       DEF OpenToken, OpenGuard, OpenSend, OpenAnswer, OpenRecord, OpenUnguard, OpenFlow, OpenAssess
  <2>7. CASE ResumeBegin(t)
    BY <2>7, BeginsTyped DEF ResumeBegin
  <2>8. CASE ClickIntent(t) \/ ClickMark(t) \/ ClickSend(t) \/ ClickAnswer(t) \/ ClickRecord(t)
             \/ RecordsUncertain(t) \/ DropsSession(t) \/ QueuesHuman(t) \/ Aborts(t)
    BY <1>c, <2>8, GoesTyped
       DEF ClickIntent, ClickMark, ClickSend, ClickAnswer, ClickRecord, RecordsUncertain,
           DropsSession, QueuesHuman, Aborts
  <2>9. CASE ClickReserve(t)
    BY <1>c, <1>d, <2>9, GoesWithTyped DEF ClickReserve
  <2>10. CASE \E s \in Sessions : ClickBegin(t, s)
    BY <2>10, BeginsTyped DEF ClickBegin
  <2>11. CASE \E s \in Sessions : Closes(t, s) \/ Expires(t, s) \/ Revalidates(t, s)
    BY <2>11, BeginsTyped DEF Closes, Expires, Revalidates, SessionEnds
  <2>12. CASE FlowExpires(t)
    BY <2>12, BeginsTyped DEF FlowExpires
  <2>13. CASE DropsFlow(t)
    BY <1>b, <1>c, <2>13, GoesTyped DEF DropsFlow
  <2>14. CASE OpenConsume(t)
    <3>1. CASE Goes(t, "unguard")
      BY <1>c, <2>14, <3>1, GoesTyped DEF OpenConsume
    <3>2. CASE task' = [task EXCEPT ![t].pc = "openSend", ![t].epoch = 0,
                            ![t].link = handle[task[t].item].link, ![t].item = Nobody]
               /\ handle[task[t].item].days > 0
      <4>1. handle[task[t].item].link \in Requests
        BY <1>c, <2>14, <3>2 DEF OpenConsume, StoresTyped
      <4>2. [task[t] EXCEPT !.pc = "openSend", !.epoch = 0,
                            !.link = handle[task[t].item].link, !.item = Nobody] \in TaskRecords
        <5>1. task[t].ref \in Requests /\ task[t] \in TaskRecords
              /\ handle[task[t].item].link \in Nat
          BY <1>a, <1>c, <2>14, <4>1 DEF OpenConsume, Requests
        <5> QED
          BY <4>1, <5>1 DEF TaskRecords
      <4> QED
        BY <3>2, <4>2 DEF TasksTyped
    <3> QED
      BY <2>14, <3>1, <3>2 DEF OpenConsume
  <2>15. CASE OpenSession(t)
    <3>1. PICK s \in Sessions : task' = [task EXCEPT ![t].pc = "openAssess", ![t].item = s]
      BY <2>15 DEF OpenSession
    <3>2. [task[t] EXCEPT !.pc = "openAssess", !.item = s] \in TaskRecords
      <4>1. task[t].ref \in Requests /\ task[t].link \in Requests /\ task[t] \in TaskRecords
        BY <1>a, <1>c, <2>15 DEF OpenSession
      <4> QED
        BY <4>1 DEF TaskRecords
    <3> QED
      BY <3>1, <3>2 DEF TasksTyped
  <2>16. ASSUME NEW pc \in {"human", "flow"}, NEW last \in {"human", "idle"},
                task' = [task EXCEPT ![t].pc = pc, ![t].last = last]
         PROVE  TasksTyped'
    <3>1. [task[t] EXCEPT !.pc = pc, !.last = last] \in TaskRecords
      BY <1>a DEF TaskRecords
    <3> QED
      BY <2>16, <3>1 DEF TasksTyped
  <2>17. CASE OpenTabFails(t)
    BY <2>16, <2>17 DEF OpenTabFails
  <2>18. CASE Resume(t)
    <3>1. CASE Goes(t, "idle")
      BY <3>1, GoesTyped
    <3> QED
      BY <2>16, <2>18, <3>1 DEF Resume
  <2> QED
    BY <1>4, <2>1, <2>2, <2>3, <2>4, <2>5, <2>6, <2>7, <2>8, <2>9, <2>10, <2>11, <2>12, <2>13,
       <2>14, <2>15, <2>17, <2>18 DEF TaskStep
<1> QED
  BY <1>1, <1>2, <1>3, <1>4 DEF VerificationNext

\* What a step does to the stores and the sessions.
LEMMA StoresStep ==
  ASSUME StoresTyped, TasksTyped, VerificationNext
  PROVE  StoresTyped'
PROOF
<1> DEFINE Kept == <<request, epoch, mail, handle, guard, flow, session, unresolved, clicker>>
<1>a. \A t \in Tasks : task[t] \in TaskRecords
  BY DEF TasksTyped
<1>b. \A t \in Tasks :
        /\ task[t].epoch \in Nat /\ task[t].ref \in Nat
        /\ task[t].pc \in Linked \cup {"pollHandle"} => task[t].link \in Requests
        /\ task[t].pc \in ClickSteps => task[t].item \in Sessions
  BY <1>a DEF TaskRecords
<1>c. /\ FlowDays \in Nat /\ HandleDays \in Nat /\ MailDays \in Nat /\ GuardDays \in Nat
      /\ MaxRequests \in Nat /\ \A r \in Requests : r \in Nat
  BY VerificationAssumption DEF Requests
<1>d. ASSUME UNCHANGED Kept
      PROVE  StoresTyped'
  BY <1>d DEF StoresTyped
<1>1. CASE \/ RequestReserved \/ DedupeLapses \/ Relisted
  BY <1>1, <1>d DEF RequestReserved, DedupeLapses, Relisted, mailVars
<1>2. CASE RequestRecorded \/ Reconciled
  BY <1>2, <1>c DEF RequestRecorded, Reconciled, StoresTyped
<1>3. CASE \E r \in Requests : MailArrives(r)
  BY <1>3, <1>c DEF MailArrives, StoresTyped, Days
<1>4. CASE FlowLapses
  BY <1>4, <1>c DEF FlowLapses, StoresTyped, Days
<1>5. CASE GatewayRestarts
  <2>1. NoSession \in [open : BOOLEAN, intent : BOOLEAN, claims : Nat, days : Days]
    BY DEF NoSession, Days
  <2> QED
    BY <1>5, <2>1 DEF GatewayRestarts, StoresTyped
<1>6. CASE DayPasses
  <2>1. \A d \in Days : Less(d) \in Days /\ (d \in Nat => Less(d) \in Nat)
    BY DEF Less, Days, Never
  <2>2. mail' \in [Requests -> [days : Days, epoch : Nat]]
    BY <1>6, <2>1 DEF DayPasses, StoresTyped
  <2>3. handle' \in [Handles -> [ref : Nat, epoch : Nat, link : Nat, days : Nat]]
        /\ \A h \in Handles : handle'[h].days > 0 => handle'[h].link \in Requests
    <3> DEFINE H == [ref : Nat, epoch : Nat, link : Nat, days : Nat]
    <3>1. NoHandle \in H /\ NoHandle.days = 0
      BY DEF NoHandle
    <3>2. ASSUME NEW h \in Handles, handle[h].days > 1
          PROVE  /\ [handle[h] EXCEPT !.days = @ - 1] \in H
                 /\ [handle[h] EXCEPT !.days = @ - 1].link = handle[h].link
                 /\ handle[h].link \in Requests
      BY <3>2 DEF StoresTyped
    <3>3. \A h \in Handles : handle'[h] = IF handle[h].days > 1 THEN [handle[h] EXCEPT !.days = @ - 1]
                                          ELSE NoHandle
      BY <1>6 DEF DayPasses
    <3>4. \A h \in Handles : handle'[h] \in H /\ (handle'[h].days > 0 => handle'[h].link \in Requests)
      <4> HIDE DEF H
      <4> TAKE h \in Handles
      <4>1. CASE handle[h].days > 1
        <5>1. handle'[h] = [handle[h] EXCEPT !.days = @ - 1]
          BY <3>3, <4>1
        <5> QED
          BY <3>2, <4>1, <5>1
      <4>2. CASE ~ (handle[h].days > 1)
        <5>1. handle'[h] = NoHandle
          BY <3>3, <4>2
        <5> QED
          BY <3>1, <5>1
      <4> QED
        BY <4>1, <4>2
    <3> QED
      BY <1>6, <3>4 DEF DayPasses
  <2>4. guard' \in [Requests -> Nat]
    BY <1>6, <2>1 DEF DayPasses, StoresTyped, Days
  <2>5. flow' \in Days
    BY <1>6, <2>1 DEF DayPasses, StoresTyped
  <2>6. session' \in [Sessions -> [open : BOOLEAN, intent : BOOLEAN, claims : Nat, days : Days]]
    BY <1>6, <2>1 DEF DayPasses, StoresTyped
  <2> QED
    BY <1>6, <2>2, <2>3, <2>4, <2>5, <2>6 DEF DayPasses, StoresTyped
<1>7. ASSUME NEW t \in Tasks, TaskStep(t)
      PROVE  StoresTyped'
  <2>1. CASE \/ PollBegin(t) \/ PollContext(t) \/ PollGuard(t) \/ PollDefers(t)
             \/ (\E r \in Requests : PollFinds(t, r)) \/ (\E h \in Handles : OpenBegin(t, h))
             \/ OpenContext(t) \/ OpenToken(t)
    BY <2>1, <1>d DEF PollBegin, PollContext, PollGuard, PollDefers, PollFinds, OpenBegin,
                      OpenContext, OpenToken, Context
  <2>2. CASE \/ OpenAnswer(t) \/ OpenAssess(t) \/ ResumeBegin(t) \/ ClickIntent(t)
             \/ ClickReserve(t) \/ ClickAnswer(t) \/ ClickRecord(t) \/ FlowExpires(t)
             \/ RecordsUncertain(t) \/ QueuesHuman(t) \/ Aborts(t)
             \/ (\E s \in Sessions : ClickBegin(t, s))
    BY <2>2, <1>d DEF OpenAnswer, OpenAssess, ResumeBegin, ClickIntent, ClickReserve, ClickAnswer,
                      ClickRecord, FlowExpires, RecordsUncertain, QueuesHuman, Aborts, ClickBegin
  <2>3. CASE PollHandle(t)
    <3> DEFINE H == [ref : Nat, epoch : Nat, link : Nat, days : Nat]
    <3>1. PICK h \in Handles :
            handle' = [handle EXCEPT ![h] = [ref |-> task[t].ref, epoch |-> task[t].epoch,
                                             link |-> task[t].link, days |-> HandleDays]]
      BY <2>3 DEF PollHandle
    <3>2. task[t].link \in Requests
      BY <2>3, <1>b DEF PollHandle, At
    <3>3. [ref |-> task[t].ref, epoch |-> task[t].epoch, link |-> task[t].link,
           days |-> HandleDays] \in H
      BY <3>2, <1>b, <1>c
    <3>4. \A k \in Handles :
            handle'[k] = IF k = h THEN [ref |-> task[t].ref, epoch |-> task[t].epoch,
                                        link |-> task[t].link, days |-> HandleDays]
                         ELSE handle[k]
      BY <3>1 DEF StoresTyped
    <3>5. handle' \in [Handles -> H] /\ \A k \in Handles : handle'[k].days > 0 => handle'[k].link \in Requests
      <4>1. handle' \in [Handles -> H]
        <5> HIDE DEF H
        <5>1. handle \in [Handles -> H]
          BY DEF StoresTyped, H
        <5> QED
          BY <3>1, <3>3, <5>1
      <4>2. \A k \in Handles : handle'[k].days > 0 => handle'[k].link \in Requests
        BY <3>2, <3>4 DEF StoresTyped
      <4> QED
        BY <4>1, <4>2
    <3> QED
      BY <2>3, <3>5 DEF PollHandle, StoresTyped
  <2>4. CASE OpenGuard(t) \/ OpenUnguard(t)
    BY <2>4, <1>c DEF OpenGuard, OpenUnguard, StoresTyped
  <2>5. CASE OpenConsume(t)
    <3>1. NoHandle \in [ref : Nat, epoch : Nat, link : Nat, days : Nat] /\ NoHandle.days = 0
      BY DEF NoHandle
    <3> QED
      BY <2>5, <3>1 DEF OpenConsume, StoresTyped
  <2>6. CASE OpenSend(t) \/ OpenRecord(t)
    BY <2>6, <1>b DEF OpenSend, OpenRecord, StoresTyped, At, Linked
  <2>7. CASE OpenFlow(t) \/ DropsFlow(t)
    BY <2>7, <1>c DEF OpenFlow, DropsFlow, StoresTyped, Days
  <2>8. ASSUME NEW s \in Sessions, NEW days \in Days, Store(s, days)
        PROVE  session' \in [Sessions -> [open : BOOLEAN, intent : BOOLEAN, claims : Nat, days : Days]]
    <3>1. [NoSession EXCEPT !.open = TRUE, !.days = days]
            \in [open : BOOLEAN, intent : BOOLEAN, claims : Nat, days : Days]
      BY DEF NoSession
    <3> QED
      BY <2>8, <3>1 DEF Store, StoresTyped
  <2>9. ASSUME NEW s
        PROVE  Forgotten(t, s)
                 \in [Sessions -> [open : BOOLEAN, intent : BOOLEAN, claims : Nat, days : Days]]
    <3>1. NoSession \in [open : BOOLEAN, intent : BOOLEAN, claims : Nat, days : Days]
      BY DEF NoSession, Days
    <3> QED
      BY <3>1 DEF Forgotten, StoresTyped, Days
  <2>10. CASE OpenSession(t) \/ Resume(t)
    BY <2>8, <2>10, <1>c DEF OpenSession, Resume, StoresTyped, Days
  <2>11. CASE OpenTabFails(t)
    BY <2>9, <2>11, <1>b DEF OpenTabFails, StoresTyped, Linked, Sent, At
  <2>12. CASE DropsSession(t) \/ \E s \in Sessions : Closes(t, s) \/ Expires(t, s) \/ Revalidates(t, s)
    <3>1. /\ \E s : session' = Forgotten(t, s)
          /\ UNCHANGED <<request, epoch, mail, handle, guard, flow, unresolved, clicker>>
      <4>1. CASE DropsSession(t)
        BY <4>1 DEF DropsSession
      <4>2. CASE \E s \in Sessions : Closes(t, s) \/ Expires(t, s) \/ Revalidates(t, s)
        BY <4>2 DEF Closes, Expires, Revalidates, SessionEnds
      <4> QED
        BY <2>12, <4>1, <4>2
    <3> QED
      BY <2>9, <3>1 DEF StoresTyped
  <2>13. CASE ClickMark(t) \/ ClickSend(t)
    <3>1. task[t].item \in Sessions /\ task[t].ref \in Nat
      BY <2>13, <1>b DEF ClickMark, ClickSend, At, ClickSteps
    <3>2. CASE ClickMark(t)
      <4>1. [session[task[t].item] EXCEPT !.intent = TRUE, !.claims = task[t].ref]
              \in [open : BOOLEAN, intent : BOOLEAN, claims : Nat, days : Days]
        BY <3>1 DEF StoresTyped
      <4>2. session' = [session EXCEPT ![task[t].item] =
              [session[task[t].item] EXCEPT !.intent = TRUE, !.claims = task[t].ref]]
        BY <3>1, <3>2 DEF ClickMark, StoresTyped
      <4> QED
        BY <3>2, <4>1, <4>2 DEF ClickMark, StoresTyped
    <3>3. CASE ClickSend(t)
      BY <3>1, <3>3 DEF ClickSend, StoresTyped
    <3> QED
      BY <2>13, <3>2, <3>3
  <2> QED
    BY <1>7, <2>1, <2>2, <2>3, <2>4, <2>5, <2>6, <2>7, <2>10, <2>11, <2>12, <2>13 DEF TaskStep
<1> QED
  BY <1>1, <1>2, <1>3, <1>4, <1>5, <1>6, <1>7 DEF VerificationNext

\* What a step does to the case: it asks for the mail of a new request only when
\* it records that one.
LEMMA CaseStep ==
  ASSUME now \in Nat, CaseTypeOK, VerificationNext
  PROVE  /\ now' = now /\ CaseTypeOK'
         /\ brokerCase'.outcome = "portal_requested" =>
              brokerCase.outcome = "portal_requested" \/ RequestRecorded
PROOF
<1> DEFINE Goal == /\ now' = now /\ CaseTypeOK'
                   /\ brokerCase'.outcome = "portal_requested" =>
                        brokerCase.outcome = "portal_requested" \/ RequestRecorded
<1>a. Channels = {"smtp_email", "browser_webmail", "browser_form"}
  BY DEF Channels
<1>b. ASSUME UNCHANGED <<now, brokerCase>>
      PROVE  Goal
  BY <1>b DEF CaseTypeOK
<1>c. ASSUME NEW to \in {"verification_pending", "awaiting_processing", "human_task_queued"},
             RecordLifecycle(to), now' = now
      PROVE  Goal
  BY <1>c, LifecycleTyped DEF RecordLifecycle, CaseTypeOK
<1>d. ASSUME now' = now,
             \/ \E channel \in Channels : Reserve(channel, TRUE) \/ RecordUncertain(channel)
             \/ DeferRecheck \/ ReconcileNotStarted \/ ReconcileConfirmed
      PROVE  Goal
  <2>1. CaseTypeOK'
    BY <1>a, <1>d, SubmissionsTyped
  <2> QED
    BY <1>d, <2>1 DEF Reserve, RecordUncertain, DeferRecheck, ReconcileNotStarted,
                      ReconcileConfirmed, CaseTypeOK
<1>e. ASSUME now' = now, ReserveVerifiedPortal \/ RecordSuppression(now) \/ RecordPresent(now)
      PROVE  Goal
  <2>1. CaseTypeOK'
    BY <1>e, PortalTyped, RescansTyped
  <2> QED
    BY <1>e, <2>1 DEF ReserveVerifiedPortal, RecordSuppression, RecordPresent, CaseTypeOK
<1>1. CASE RequestReserved
  BY <1>1, <1>a, <1>d DEF RequestReserved
<1>2. CASE RequestRecorded
  BY <1>2, PortalTyped, SubmissionsTyped, <1>a DEF RequestRecorded
<1>3. CASE Reconciled
  BY <1>3, <1>d DEF Reconciled
<1>4. CASE Relisted
  BY <1>4, <1>e DEF Relisted
<1>5. CASE DedupeLapses \/ (\E r \in Requests : MailArrives(r)) \/ FlowLapses \/ GatewayRestarts
           \/ DayPasses
  BY <1>5, <1>b DEF DedupeLapses, MailArrives, FlowLapses, GatewayRestarts, DayPasses
<1>6. ASSUME NEW t \in Tasks, TaskStep(t)
      PROVE  Goal
  <2> HIDE DEF Goal
  <2>1. CASE \/ PollBegin(t) \/ PollContext(t) \/ PollGuard(t) \/ PollHandle(t)
             \/ (\E h \in Handles : OpenBegin(t, h))
             \/ OpenContext(t) \/ OpenToken(t) \/ OpenGuard(t) \/ OpenConsume(t) \/ OpenSend(t)
             \/ OpenAnswer(t) \/ OpenUnguard(t) \/ OpenFlow(t) \/ OpenSession(t)
             \/ OpenAssess(t) \/ OpenTabFails(t)
    BY <2>1, <1>b DEF PollBegin, PollContext, PollGuard, PollHandle, OpenBegin,
                      OpenContext, OpenToken, Context, OpenGuard, OpenConsume, OpenSend,
                      OpenAnswer, OpenUnguard, OpenFlow, OpenSession, OpenAssess, OpenTabFails
  <2>2. CASE \/ ResumeBegin(t) \/ Resume(t) \/ ClickIntent(t) \/ ClickMark(t) \/ ClickSend(t)
             \/ ClickAnswer(t) \/ FlowExpires(t) \/ DropsFlow(t) \/ DropsSession(t) \/ Aborts(t)
             \/ \E s \in Sessions :
                  ClickBegin(t, s) \/ Closes(t, s) \/ Expires(t, s) \/ Revalidates(t, s)
    BY <2>2, <1>b DEF ResumeBegin, Resume, ClickIntent, ClickMark, ClickSend, ClickAnswer,
                      FlowExpires, DropsFlow, DropsSession, Aborts, ClickBegin, Closes, Expires,
                      Revalidates, SessionEnds
  <2>3. CASE PollDefers(t)
    BY <2>3, <1>d DEF PollDefers
  <2>4. CASE \E r \in Requests : PollFinds(t, r)
    BY <2>4, <1>c DEF PollFinds
  <2>5. CASE OpenRecord(t)
    BY <2>5, <1>b, <1>c DEF OpenRecord
  <2>6. CASE ClickReserve(t)
    BY <2>6, <1>e DEF ClickReserve
  <2>7. CASE ClickRecord(t)
    BY <2>7, <1>b, <1>e DEF ClickRecord
  <2>8. CASE RecordsUncertain(t)
    BY <2>8, <1>a, <1>b, <1>d DEF RecordsUncertain
  <2>9. CASE QueuesHuman(t)
    BY <2>9, <1>b, <1>c DEF QueuesHuman
  <2> QED
    BY <1>6, <2>1, <2>2, <2>3, <2>4, <2>5, <2>6, <2>7, <2>8, <2>9 DEF TaskStep
<1> QED
  BY <1>1, <1>2, <1>3, <1>4, <1>5, <1>6 DEF VerificationNext

-----------------------------------------------------------------------------
(* The types always hold                                                     *)

LEMMA VerificationInitTyped == VerificationInit => VerificationTypeOK
PROOF
<1> SUFFICES ASSUME VerificationInit
             PROVE  VerificationTypeOK
  OBVIOUS
<1>1. now \in Nat
  BY DEF VerificationInit, MailInit, ClockInit
<1>2. CaseTypeOK
  <2>1. NewCase \in [state : CaseStates, channel : Channels \cup {"none"}, outcome : Outcomes,
                     recheck : Time, absentAt : Time, confirmedAt : Time, scope : Scopes,
                     listing : Listings \cup {NoListing}]
    BY StatesListed DEF NewCase, Outcomes, Scopes, Time
  <2> QED
    BY <2>1, StatesListed DEF VerificationInit, MailInit, CaseTypeOK
<1>3. StoresTyped
  <2>1. /\ NoMail \in [days : Days, epoch : Nat]
        /\ NoHandle \in [ref : Nat, epoch : Nat, link : Nat, days : Nat] /\ NoHandle.days = 0
        /\ NoSession \in [open : BOOLEAN, intent : BOOLEAN, claims : Nat, days : Days]
        /\ Never \in Days /\ MaxRequests \in Nat
    BY VerificationAssumption DEF NoMail, NoHandle, NoSession, Days
  <2> QED
    BY <2>1 DEF VerificationInit, MailInit, StoresTyped
<1>4. TasksTyped
  BY RestTyped DEF VerificationInit, MailInit, TasksTyped
<1> QED
  BY <1>1, <1>2, <1>3, <1>4 DEF VerificationTypeOK

LEMMA VerificationStutters ==
  ASSUME VerificationTypeOK, UNCHANGED verificationVars
  PROVE  VerificationTypeOK'
  BY DEF VerificationTypeOK, verificationVars, mailVars, StoresTyped, TasksTyped, CaseTypeOK

LEMMA VerificationTypeStep ==
  ASSUME VerificationTypeOK, [VerificationNext]_verificationVars
  PROVE  VerificationTypeOK'
  BY TasksStep, StoresStep, CaseStep, VerificationStutters DEF VerificationTypeOK

-----------------------------------------------------------------------------
(* One session clicks                                                        *)

\* A request is claimed by one reservation, or by the session that reservation
\* became; whoever clicked for it holds the claim, if a session still holds it.
OneClaim ==
  /\ \A t, u \in Tasks : At(t, "clickMark") /\ At(u, "clickMark") /\ task[t].ref = task[u].ref => t = u
  /\ \A t \in Tasks : At(t, "clickMark") =>
       /\ task[t].ref \in 1 .. request /\ clicker[task[t].ref] = Nobody
       /\ \A s \in Sessions : session[s].claims # task[t].ref
  /\ \A s \in Sessions : session[s].claims \in 0 .. request
  /\ \A s, o \in Sessions : session[s].claims > 0 /\ session[s].claims = session[o].claims => s = o
  /\ \A r \in Requests : clicker[r] # Nobody =>
       r <= request /\ \A s \in Sessions : session[s].claims = r => s = clicker[r]

\* Until its portal submission is reserved, nobody claims the last request.
NotClaimedYet ==
  brokerCase.outcome = "portal_requested" =>
    /\ request > 0 /\ clicker[request] = Nobody
    /\ \A s \in Sessions : session[s].claims # request
    /\ \A t \in Tasks : At(t, "clickMark") => task[t].ref # request

Claims == OneClaim /\ NotClaimedYet

\* Steps that claim nothing; sessions and reservations may be lost.
LEMMA ClaimsStay ==
  ASSUME StoresTyped, Claims, request' = request, clicker' = clicker,
         \A s \in Sessions : session'[s].claims = session[s].claims \/ session'[s].claims = 0,
         \A t \in Tasks : At(t, "clickMark")' => At(t, "clickMark") /\ task'[t].ref = task[t].ref,
         brokerCase'.outcome = "portal_requested" => brokerCase.outcome = "portal_requested"
  PROVE  Claims'
PROOF
<1>0. request \in Nat
  BY VerificationAssumption DEF StoresTyped
<1>1. OneClaim'
  <2>1. \A t, u \in Tasks : (At(t, "clickMark") /\ At(u, "clickMark") /\ task[t].ref = task[u].ref)' => t = u
    BY DEF Claims, OneClaim
  <2>2. \A t \in Tasks : At(t, "clickMark")' =>
          /\ task'[t].ref \in 1 .. request /\ clicker[task'[t].ref] = Nobody
          /\ \A s \in Sessions : session'[s].claims # task'[t].ref
    BY <1>0 DEF Claims, OneClaim
  <2>3. \A s \in Sessions : session'[s].claims \in 0 .. request
    BY <1>0 DEF Claims, OneClaim
  <2>4. \A s, o \in Sessions :
          session'[s].claims > 0 /\ session'[s].claims = session'[o].claims => s = o
    BY <1>0 DEF Claims, OneClaim
  <2>5. \A r \in Requests : clicker[r] # Nobody =>
          r <= request /\ \A s \in Sessions : session'[s].claims = r => s = clicker[r]
    BY <1>0 DEF Claims, OneClaim, Requests
  <2> QED
    BY <2>1, <2>2, <2>3, <2>4, <2>5 DEF OneClaim
<1>2. NotClaimedYet'
  BY <1>0 DEF Claims, NotClaimedYet
<1> QED
  BY <1>1, <1>2 DEF Claims

\* Only ClickReserve brings a task to the reservation of a click.
LEMMA ReservationsAreMade ==
  ASSUME TasksTyped, NEW t \in Tasks, TaskStep(t), ~ ClickReserve(t), NEW u \in Tasks,
         At(u, "clickMark")'
  PROVE  At(u, "clickMark") /\ task'[u] = task[u]
PROOF
<1> USE DEF At
<1>a. \A v \in Tasks : task[v] \in TaskRecords
  BY DEF TasksTyped
<1>b. ASSUME NEW pc, pc # "clickMark", Goes(t, pc)
      PROVE  At(u, "clickMark") /\ task'[u] = task[u]
  BY <1>a, <1>b DEF Goes, Rest, TasksTyped, TaskRecords
<1>c. ASSUME NEW pc, pc # "clickMark", NEW item, NEW last, Begins(t, pc, item, last)
      PROVE  At(u, "clickMark") /\ task'[u] = task[u]
  BY <1>c DEF Begins, Rest, TasksTyped
<1>d. ASSUME NEW ref, NEW at, NEW pc, pc # "clickMark", GoesWith(t, pc, ref, at)
      PROVE  At(u, "clickMark") /\ task'[u] = task[u]
  BY <1>a, <1>d DEF GoesWith, TasksTyped, TaskRecords
<1>1. CASE \/ PollBegin(t) \/ (\E h \in Handles : OpenBegin(t, h)) \/ ResumeBegin(t) \/ FlowExpires(t)
           \/ (\E s \in Sessions : ClickBegin(t, s))
  BY <1>1, <1>c DEF PollBegin, OpenBegin, ResumeBegin, FlowExpires, ClickBegin
<1>2. CASE \E s \in Sessions : Closes(t, s) \/ Expires(t, s) \/ Revalidates(t, s)
  BY <1>2, <1>c DEF Closes, Expires, Revalidates, SessionEnds
<1>3. CASE PollContext(t) \/ OpenContext(t)
  BY <1>3, <1>d DEF PollContext, OpenContext, Context
<1>4. CASE \/ PollGuard(t) \/ PollDefers(t) \/ PollHandle(t) \/ OpenToken(t) \/ OpenGuard(t)
           \/ OpenSend(t) \/ OpenAnswer(t) \/ OpenRecord(t) \/ OpenUnguard(t) \/ OpenFlow(t)
           \/ OpenAssess(t)
  BY <1>4, <1>b DEF PollGuard, PollDefers, PollHandle, OpenToken, OpenGuard, OpenSend, OpenAnswer,
                    OpenRecord, OpenUnguard, OpenFlow, OpenAssess
<1>5. CASE \/ ClickIntent(t) \/ ClickMark(t) \/ ClickSend(t) \/ ClickAnswer(t) \/ ClickRecord(t)
           \/ RecordsUncertain(t) \/ DropsSession(t) \/ QueuesHuman(t) \/ Aborts(t)
  BY <1>5, <1>b DEF ClickIntent, ClickMark, ClickSend, ClickAnswer, ClickRecord, RecordsUncertain,
                    DropsSession, QueuesHuman, Aborts
<1>6. CASE DropsFlow(t)
  <2>1. task[t].last # "clickMark"
    BY <1>a DEF TaskRecords, Lasts
  <2> QED
    BY <1>6, <1>b, <2>1 DEF DropsFlow
<1>7. CASE \E r \in Requests : PollFinds(t, r)
  <2>1. CASE Goes(t, "idle")
    BY <1>b, <2>1
  <2>2. PICK r \in Requests : PollFinds(t, r)
    BY <1>7
  <2>3. CASE task' = [task EXCEPT ![t] = [task[t] EXCEPT !.pc = "pollHandle", !.link = r]]
    BY <1>a, <2>3 DEF TasksTyped, TaskRecords
  <2> QED
    BY <1>a, <2>1, <2>2, <2>3 DEF PollFinds, TasksTyped
<1>8. CASE OpenConsume(t)
  BY <1>a, <1>b, <1>8 DEF OpenConsume, TasksTyped, TaskRecords
<1>9. CASE OpenSession(t)
  BY <1>a, <1>9 DEF OpenSession, TasksTyped, TaskRecords
<1>10. CASE OpenTabFails(t)
  BY <1>a, <1>10 DEF OpenTabFails, TasksTyped, TaskRecords
<1>11. CASE Resume(t)
  BY <1>a, <1>b, <1>11 DEF Resume, TasksTyped, TaskRecords
<1> QED
  BY <1>1, <1>2, <1>3, <1>4, <1>5, <1>6, <1>7, <1>8, <1>9, <1>10, <1>11 DEF TaskStep

\* Only ClickMark gives a session a claim.
LEMMA ClaimsAreMarked ==
  ASSUME StoresTyped, NEW t \in Tasks, TaskStep(t), ~ ClickMark(t), NEW s \in Sessions
  PROVE  session'[s].claims = session[s].claims \/ session'[s].claims = 0
PROOF
<1>a. ASSUME session' = session
      PROVE  session'[s].claims = session[s].claims
  BY <1>a
<1>b. ASSUME NEW o \in Sessions, NEW days, Store(o, days)
      PROVE  session'[s].claims = session[s].claims \/ session'[s].claims = 0
  BY <1>b DEF Store, NoSession, StoresTyped
<1>c. ASSUME NEW o, session' = Forgotten(t, o)
      PROVE  session'[s].claims = session[s].claims \/ session'[s].claims = 0
  BY <1>c DEF Forgotten, NoSession, StoresTyped
<1>1. CASE \/ PollBegin(t) \/ PollContext(t) \/ PollGuard(t) \/ PollDefers(t) \/ PollHandle(t)
           \/ (\E r \in Requests : PollFinds(t, r))
           \/ (\E h \in Handles : OpenBegin(t, h))
           \/ OpenContext(t) \/ OpenToken(t) \/ OpenGuard(t) \/ OpenConsume(t) \/ OpenSend(t)
           \/ OpenAnswer(t) \/ OpenUnguard(t) \/ OpenFlow(t) \/ OpenAssess(t) \/ OpenRecord(t)
  BY <1>1, <1>a DEF PollBegin, PollContext, PollGuard, PollDefers, PollHandle, PollFinds, OpenBegin,
                    OpenContext, OpenToken, Context, OpenGuard, OpenConsume, OpenSend,
                    OpenAnswer, OpenUnguard, OpenFlow, OpenAssess, OpenRecord
<1>2. CASE \/ ResumeBegin(t) \/ ClickIntent(t) \/ ClickReserve(t) \/ ClickSend(t)
           \/ ClickAnswer(t) \/ ClickRecord(t) \/ FlowExpires(t) \/ DropsFlow(t) \/ QueuesHuman(t)
           \/ RecordsUncertain(t) \/ Aborts(t) \/ (\E o \in Sessions : ClickBegin(t, o))
  BY <1>2, <1>a DEF ResumeBegin, ClickIntent, ClickReserve, ClickSend, ClickAnswer, ClickRecord,
                    FlowExpires, DropsFlow, QueuesHuman, RecordsUncertain, Aborts, ClickBegin
<1>3. CASE OpenSession(t) \/ Resume(t)
  BY <1>3, <1>a, <1>b DEF OpenSession, Resume
<1>4. CASE OpenTabFails(t)
  BY <1>4, <1>a, <1>c DEF OpenTabFails
<1>5. CASE DropsSession(t)
  BY <1>5, <1>c DEF DropsSession
<1>6. CASE \E o \in Sessions : Closes(t, o) \/ Expires(t, o) \/ Revalidates(t, o)
  BY <1>6, <1>c DEF Closes, Expires, Revalidates, SessionEnds
<1> QED
  BY <1>1, <1>2, <1>3, <1>4, <1>5, <1>6 DEF TaskStep

\* Only RequestRecorded counts the requests, only ClickSend and the operator's
\* review say who clicked.
LEMMA ClicksAreSent ==
  ASSUME NEW t \in Tasks, TaskStep(t)
  PROVE  request' = request /\ (ClickSend(t) \/ clicker' = clicker)
PROOF
<1>1. CASE \/ PollBegin(t) \/ PollContext(t) \/ PollGuard(t) \/ PollDefers(t) \/ PollHandle(t)
           \/ (\E r \in Requests : PollFinds(t, r))
           \/ (\E h \in Handles : OpenBegin(t, h))
           \/ OpenContext(t) \/ OpenToken(t) \/ OpenGuard(t) \/ OpenConsume(t) \/ OpenSend(t)
           \/ OpenAnswer(t) \/ OpenUnguard(t) \/ OpenFlow(t) \/ OpenAssess(t) \/ OpenRecord(t)
  BY <1>1 DEF PollBegin, PollContext, PollGuard, PollDefers, PollHandle, PollFinds, OpenBegin,
              OpenContext, OpenToken, Context, OpenGuard, OpenConsume, OpenSend,
              OpenAnswer, OpenUnguard, OpenFlow, OpenAssess, OpenRecord
<1>2. CASE \/ ResumeBegin(t) \/ ClickIntent(t) \/ ClickReserve(t) \/ ClickMark(t) \/ ClickSend(t)
           \/ ClickAnswer(t) \/ ClickRecord(t) \/ FlowExpires(t) \/ DropsFlow(t) \/ QueuesHuman(t)
           \/ RecordsUncertain(t) \/ Aborts(t) \/ (\E o \in Sessions : ClickBegin(t, o))
  BY <1>2 DEF ResumeBegin, ClickIntent, ClickReserve, ClickMark, ClickSend, ClickAnswer, ClickRecord,
              FlowExpires, DropsFlow, QueuesHuman, RecordsUncertain, Aborts, ClickBegin
<1>3. CASE \/ OpenSession(t) \/ Resume(t) \/ OpenTabFails(t) \/ DropsSession(t)
           \/ \E o \in Sessions : Closes(t, o) \/ Expires(t, o) \/ Revalidates(t, o)
  BY <1>3 DEF OpenSession, Resume, OpenTabFails, DropsSession, Closes, Expires, Revalidates,
              SessionEnds
<1> QED
  BY <1>1, <1>2, <1>3 DEF TaskStep

LEMMA ClaimsStep ==
  ASSUME VerificationTypeOK, VerificationTypeOK', Claims, [VerificationNext]_verificationVars
  PROVE  Claims'
PROOF
<1> USE DEF At
<1>a. /\ StoresTyped /\ TasksTyped /\ StoresTyped' /\ TasksTyped' /\ CaseTypeOK /\ now \in Nat
      /\ request \in Nat /\ MaxRequests \in Nat
  BY VerificationAssumption DEF VerificationTypeOK, StoresTyped
<1>b. VerificationNext /\ ~ RequestRecorded =>
        (brokerCase'.outcome = "portal_requested" => brokerCase.outcome = "portal_requested")
  BY <1>a, CaseStep
<1>1. CASE UNCHANGED verificationVars
  BY <1>1, <1>a, ClaimsStay DEF verificationVars, mailVars
<1>2. CASE RequestRecorded
  <2>1. /\ request' = request + 1 /\ request' \in Requests
        /\ UNCHANGED <<session, task, clicker>>
    BY <1>a, <1>2 DEF RequestRecorded, Requests
  <2>2. clicker[request'] = Nobody
    BY <1>a, <2>1 DEF Claims, OneClaim
  <2>3. OneClaim'
    BY <1>a, <2>1 DEF Claims, OneClaim
  <2>4. NotClaimedYet'
    BY <1>a, <2>1, <2>2 DEF Claims, OneClaim, NotClaimedYet
  <2> QED
    BY <2>3, <2>4 DEF Claims
<1>3. CASE Reconciled
  <2>1. /\ UNCHANGED <<request, session, task>> /\ \A r \in Requests : clicker'[r] = Nobody
        /\ brokerCase'.outcome # "portal_requested"
    BY <1>a, <1>3 DEF Reconciled, ReconcileNotStarted, ReconcileConfirmed, CaseTypeOK
  <2>2. \A t \in Tasks : At(t, "clickMark") => task[t].ref \in Requests
    BY <1>a DEF Claims, OneClaim, Requests, StoresTyped
  <2>3. OneClaim'
    BY <1>a, <2>1, <2>2 DEF Claims, OneClaim
  <2> QED
    BY <2>1, <2>3 DEF Claims, NotClaimedYet
<1>4. CASE RequestReserved \/ DedupeLapses \/ Relisted \/ (\E r \in Requests : MailArrives(r)) \/ FlowLapses
  <2>1. UNCHANGED <<request, clicker, session, task>> /\ ~ RequestRecorded
    BY <1>4, <1>a DEF RequestReserved, DedupeLapses, Relisted, MailArrives, FlowLapses, mailVars,
                      RequestRecorded
  <2> QED
    BY <1>4, <1>a, <1>b, <2>1, ClaimsStay DEF VerificationNext
<1>5. CASE GatewayRestarts
  <2>1. /\ UNCHANGED <<request, clicker>> /\ \A s \in Sessions : session'[s].claims = 0
        /\ \A t \in Tasks : ~ At(t, "clickMark")'
        /\ brokerCase' = brokerCase
    BY <1>5 DEF GatewayRestarts, NoSession, Rest
  <2> QED
    BY <1>a, <2>1, ClaimsStay
<1>6. CASE DayPasses
  <2>1. /\ UNCHANGED <<request, clicker>> /\ \A s \in Sessions : session'[s].claims = session[s].claims
        /\ \A t \in Tasks : task'[t].pc = task[t].pc /\ task'[t].ref = task[t].ref
        /\ brokerCase' = brokerCase
    BY <1>6, <1>a DEF DayPasses, StoresTyped, TasksTyped, TaskRecords
  <2> QED
    BY <1>a, <2>1, ClaimsStay
<1>7. ASSUME NEW t \in Tasks, TaskStep(t)
      PROVE  Claims'
  <2>a. request' = request /\ VerificationNext
    BY <1>7, ClicksAreSent DEF VerificationNext
  <2>b. ~ RequestRecorded
    BY <1>a, <2>a DEF RequestRecorded
  <2>c. task[t] \in TaskRecords
    BY <1>a DEF TasksTyped
  <2>1. CASE ClickReserve(t)
    <3>1. /\ brokerCase.outcome = "portal_requested" /\ brokerCase'.outcome = "pending"
          /\ UNCHANGED <<clicker, session>>
      BY <1>a, <2>1 DEF ClickReserve, ReserveVerifiedPortal, CaseTypeOK
    <3>2. /\ request > 0 /\ request \in Requests /\ clicker[request] = Nobody
          /\ \A s \in Sessions : session[s].claims # request
          /\ \A u \in Tasks : At(u, "clickMark") => task[u].ref # request
      BY <1>a, <3>1 DEF Claims, NotClaimedYet, Requests, StoresTyped
    <3>3. /\ task'[t].pc = "clickMark" /\ task'[t].ref = request
          /\ \A u \in Tasks \ {t} : task'[u] = task[u]
      BY <1>a, <2>1, <2>c DEF ClickReserve, GoesWith, TasksTyped, TaskRecords
    <3>4. OneClaim'
      BY <1>a, <2>a, <3>1, <3>2, <3>3 DEF Claims, OneClaim
    <3> QED
      BY <3>1, <3>4 DEF Claims, NotClaimedYet
  <2>2. CASE ClickMark(t)
    <3> DEFINE r == task[t].ref
               i == task[t].item
    <3>1. /\ i \in Sessions /\ r \in 1 .. request /\ clicker[r] = Nobody
          /\ \A s \in Sessions : session[s].claims # r
          /\ \A u \in Tasks \ {t} : At(u, "clickMark") => task[u].ref # r
      BY <2>2, <2>c DEF ClickMark, Claims, OneClaim, TaskRecords, ClickSteps
    <3>2. /\ session'[i].claims = r /\ \A s \in Sessions \ {i} : session'[s] = session[s]
          /\ UNCHANGED <<clicker, brokerCase>>
      BY <1>a, <2>2, <3>1 DEF ClickMark, StoresTyped
    <3>3. /\ task'[t].pc # "clickMark" /\ \A u \in Tasks \ {t} : task'[u] = task[u]
      BY <1>a, <2>2, <2>c DEF ClickMark, Goes, Rest, TasksTyped, TaskRecords
    <3> HIDE DEF r, i
    <3>4. OneClaim'
      BY <1>a, <2>a, <3>1, <3>2, <3>3 DEF Claims, OneClaim
    <3>5. NotClaimedYet'
      <4>1. brokerCase.outcome = "portal_requested" => r # request
        BY <2>2 DEF Claims, NotClaimedYet, ClickMark, r
      <4> QED
        BY <1>a, <2>a, <3>1, <3>2, <3>3, <4>1 DEF Claims, NotClaimedYet
    <3> QED
      BY <3>4, <3>5 DEF Claims
  <2>3. CASE ClickSend(t)
    <3> DEFINE i == task[t].item
               r == session[i].claims
    <3>1. /\ i \in Sessions /\ r \in 0 .. request
          /\ \A s \in Sessions : r > 0 /\ session[s].claims = r => s = i
          /\ \A u \in Tasks : At(u, "clickMark") => task[u].ref # r
      BY <1>a, <2>3, <2>c DEF ClickSend, Claims, OneClaim, TaskRecords, ClickSteps, StoresTyped
    <3>2. /\ clicker' = [clicker EXCEPT ![r] = i]
          /\ UNCHANGED <<session, brokerCase>>
      BY <2>3 DEF ClickSend
    <3>3. \A u \in Tasks : At(u, "clickMark")' => At(u, "clickMark") /\ task'[u] = task[u]
      BY <1>7, <1>a, <2>3, ReservationsAreMade DEF ClickSend, ClickReserve
    <3>4. brokerCase.outcome = "portal_requested" => r # request
      BY <3>1 DEF Claims, NotClaimedYet
    <3> HIDE DEF r, i
    <3>5. OneClaim'
      <4>1. \A q \in Requests : clicker'[q] = IF q = r THEN i ELSE clicker[q]
        BY <1>a, <3>2 DEF StoresTyped
      <4>2. \A q \in Requests : clicker'[q] # Nobody =>
              q <= request /\ \A s \in Sessions : session[s].claims = q => s = clicker'[q]
        BY <1>a, <3>1, <4>1 DEF Claims, OneClaim, Requests
      <4>3. \A u \in Tasks : At(u, "clickMark")' =>
              /\ task'[u].ref \in 1 .. request /\ clicker'[task'[u].ref] = Nobody
              /\ \A s \in Sessions : session[s].claims # task'[u].ref
        <5> TAKE u \in Tasks
        <5> HAVE At(u, "clickMark")'
        <5>1. /\ task[u].ref \in 1 .. request /\ clicker[task[u].ref] = Nobody
              /\ \A s \in Sessions : session[s].claims # task[u].ref
              /\ task[u].ref # r /\ task'[u] = task[u]
          BY <3>1, <3>3 DEF Claims, OneClaim
        <5>2. task[u].ref \in Requests
          BY <1>a, <5>1 DEF StoresTyped, Requests
        <5> QED
          BY <4>1, <5>1, <5>2
      <4>4. \A u, v \in Tasks :
              (At(u, "clickMark") /\ At(v, "clickMark") /\ task[u].ref = task[v].ref)' => u = v
        BY <3>3 DEF Claims, OneClaim
      <4> QED
        BY <2>a, <3>2, <4>2, <4>3, <4>4 DEF Claims, OneClaim
    <3>6. NotClaimedYet'
      <4>1. \A q \in Requests : clicker'[q] = IF q = r THEN i ELSE clicker[q]
        BY <1>a, <3>2 DEF StoresTyped
      <4>2. request > 0 => request \in Requests
        BY <1>a DEF StoresTyped, Requests
      <4> QED
        BY <1>a, <2>a, <3>2, <3>3, <3>4, <4>1, <4>2 DEF Claims, NotClaimedYet
    <3> QED
      BY <3>5, <3>6 DEF Claims
  <2>4. CASE ~ ClickReserve(t) /\ ~ ClickMark(t) /\ ~ ClickSend(t)
    <3>1. clicker' = clicker
      BY <1>7, <2>4, ClicksAreSent
    <3>2. \A u \in Tasks : At(u, "clickMark")' => At(u, "clickMark") /\ task'[u].ref = task[u].ref
      BY <1>7, <1>a, <2>4, ReservationsAreMade
    <3>3. \A s \in Sessions : session'[s].claims = session[s].claims \/ session'[s].claims = 0
      BY <1>7, <1>a, <2>4, ClaimsAreMarked
    <3> QED
      BY <1>a, <1>b, <2>a, <2>b, <3>1, <3>2, <3>3, ClaimsStay
  <2> QED
    BY <2>1, <2>2, <2>3, <2>4
<1> QED
  BY <1>1, <1>2, <1>3, <1>4, <1>5, <1>6, <1>7 DEF VerificationNext

LEMMA ClaimsInit ==
  ASSUME VerificationInit
  PROVE  Claims
PROOF
<1>1. /\ \A t \in Tasks : ~ At(t, "clickMark")
      /\ \A s \in Sessions : session[s].claims = 0
      /\ \A r \in Requests : clicker[r] = Nobody
      /\ request = 0
  BY DEF VerificationInit, MailInit, At, Rest, NoSession
<1>2. brokerCase.outcome # "portal_requested"
  BY DEF VerificationInit, MailInit, NewCase
<1> QED
  BY <1>1, <1>2 DEF Claims, OneClaim, NotClaimedYet

LEMMA ClickStep ==
  ASSUME VerificationTypeOK, Claims, [VerificationNext]_verificationVars,
         NEW r \in Requests, clicker[r] # Nobody, clicker'[r] # Nobody
  PROVE  clicker'[r] = clicker[r]
PROOF
<1>1. CASE clicker' = clicker
  BY <1>1
<1>2. CASE Reconciled
  BY <1>2 DEF Reconciled
<1>3. ASSUME NEW t \in Tasks, ClickSend(t)
      PROVE  clicker'[r] = clicker[r]
  <2>1. task[t].item \in Sessions
    BY <1>3 DEF ClickSend, At, VerificationTypeOK, TasksTyped, TaskRecords, ClickSteps
  <2>2. session[task[t].item].claims = r => task[t].item = clicker[r]
    BY <2>1 DEF Claims, OneClaim
  <2> QED
    BY <1>3, <2>2 DEF ClickSend, VerificationTypeOK, StoresTyped
<1>4. ASSUME NEW t \in Tasks, TaskStep(t), ~ ClickSend(t)
      PROVE  clicker' = clicker
  BY <1>4, ClicksAreSent
<1>5. CASE \/ RequestReserved \/ RequestRecorded \/ DedupeLapses \/ Relisted
           \/ (\E q \in Requests : MailArrives(q)) \/ FlowLapses \/ GatewayRestarts \/ DayPasses
           \/ UNCHANGED verificationVars
  BY <1>1, <1>5 DEF RequestReserved, RequestRecorded, DedupeLapses, Relisted, MailArrives, FlowLapses,
                    GatewayRestarts, DayPasses, mailVars, verificationVars
<1> QED
  BY <1>1, <1>2, <1>3, <1>4, <1>5 DEF VerificationNext

\* Whatever crashes, lost answers, resumed tabs and expired sessions there are, a
\* request is clicked for in the portal by one browser session until the operator
\* has reconciled its submission: for any number of tasks and sessions.
THEOREM OneSessionOnly == VerificationSpec => OneSessionClicks
PROOF
<1>1. VerificationInit => VerificationTypeOK /\ Claims
  BY VerificationInitTyped, ClaimsInit
<1>2. VerificationTypeOK /\ Claims /\ [VerificationNext]_verificationVars =>
        (VerificationTypeOK /\ Claims)'
  BY VerificationTypeStep, ClaimsStep
<1>3. VerificationTypeOK /\ Claims /\ [VerificationNext]_verificationVars =>
        [\A r \in Requests :
           clicker[r] # Nobody /\ clicker'[r] # Nobody => clicker'[r] = clicker[r]]_verificationVars
  BY ClickStep
<1> QED
  BY <1>1, <1>2, <1>3, PTL DEF VerificationSpec, OneSessionClicks

-----------------------------------------------------------------------------
(* No link is opened again blindly                                           *)

Live(h) == handle[h].days > 0
Mailed(r) == mail[r].days \in Nat

\* Who says that request ref was the last when the history had "at" entries: the
\* case, a handle or a task.
Tells(ref, at) ==
  \/ ref = request /\ at = epoch
  \/ \E h \in Handles : Live(h) /\ handle[h].ref = ref /\ handle[h].epoch = at
  \/ \E t \in Tasks : task[t].pc \in Dated /\ task[t].ref = ref /\ task[t].epoch = at

\* A date names one request.
DatesNameRequests ==
  \A ref, at \in Nat : Tells(ref, at) =>
    /\ at <= epoch
    /\ \A other \in Nat : Tells(other, at) => other = ref

\* A handle, and a task that has one, is of the mail it was made from.
MailsDated ==
  /\ \A r \in Requests : mail[r].days <= MailDays /\ mail[r].epoch <= epoch
  /\ \A r \in unresolved : Mailed(r)
  /\ \A h \in Handles :
       /\ handle[h].days <= HandleDays
       /\ Live(h) => Mailed(handle[h].link) /\ handle[h].epoch <= mail[handle[h].link].epoch

TasksDated ==
  \A t \in Tasks :
    /\ task[t].pc = "pollHandle" =>
         Mailed(task[t].link) /\ task[t].epoch <= mail[task[t].link].epoch
    /\ task[t].pc \in {"openToken", "openGuard", "openConsume"} /\ Live(task[t].item) =>
         mail[handle[task[t].item].link].epoch <= task[t].epoch
    /\ task[t].pc \in {"openGuard", "openConsume"} /\ Live(task[t].item) =>
         handle[task[t].item].ref = task[t].ref /\ handle[task[t].item].epoch = task[t].epoch
    /\ task[t].pc \in Linked => Mailed(task[t].link)

\* The guard of ref outlasts every way in which the link of mail r could yet be
\* opened for it.
Outlasts(ref, r) ==
  /\ guard[ref] >= mail[r].days
  /\ \A h \in Handles : handle[h].link = r /\ handle[h].ref = ref => guard[ref] >= handle[h].days
  /\ \A t \in Tasks :
       /\ task[t].ref = ref
       /\ \/ task[t].pc = "pollHandle" /\ task[t].link = r
          \/ task[t].pc = "pollMail" /\ mail[r].days > 0
       => guard[ref] >= HandleDays + (IF task[t].old THEN 0 ELSE 1)

Opens(t, r) ==
  \/ task[t].pc \in Linked /\ task[t].link = r
  \/ task[t].pc = "openConsume" /\ Live(task[t].item) /\ handle[task[t].item].link = r

GuardOutlasts ==
  \A ref, r \in Requests :
    \/ r \in unresolved /\ Tells(ref, mail[r].epoch)
    \/ \E t \in Tasks : Opens(t, r) /\ task[t].ref = ref
    => Outlasts(ref, r)

Openable(ref, r) ==
  \/ mail[r].days > 0
  \/ \E h \in Handles : Live(h) /\ handle[h].link = r /\ handle[h].ref = ref
  \/ \E t \in Tasks : task[t].pc = "pollHandle" /\ task[t].link = r /\ task[t].ref = ref

\* As long as a link in doubt can be opened, no task is behind the guard of its
\* request but the one that opened it and has no answer yet.
DoubtIsGuarded ==
  \A r \in unresolved, ref \in Requests : Tells(ref, mail[r].epoch) /\ Openable(ref, r) =>
    \A t \in Tasks : task[t].pc \in Section /\ task[t].ref = ref =>
      task[t].pc \in Sent /\ task[t].link = r

OneInSection ==
  \A t \in Tasks : task[t].pc \in Section =>
    /\ guard[task[t].ref] >= GuardDays - (IF task[t].old THEN 1 ELSE 0)
    /\ \A u \in Tasks : task[u].pc \in Section /\ task[u].ref = task[t].ref => u = t

OneOpener ==
  \A t \in Tasks : task[t].pc \in Linked =>
    /\ \A ref \in Requests : Tells(ref, mail[task[t].link].epoch) => ref = task[t].ref
    /\ \A u \in Tasks : task[u].pc \in Linked /\ task[u].link = task[t].link => u = t

NotInDoubt == \A t \in Tasks : At(t, "openSend") => task[t].link \notin unresolved

OpensGuarded ==
  /\ DatesNameRequests /\ MailsDated /\ TasksDated /\ GuardOutlasts /\ DoubtIsGuarded
  /\ OneInSection /\ OneOpener /\ NotInDoubt

Typed == StoresTyped /\ TasksTyped

\* What the types say of one handle, mail or task.
LEMMA Fields ==
  ASSUME Typed
  PROVE  /\ request \in Nat /\ epoch \in Nat
         /\ HandleDays \in Nat /\ MailDays \in Nat /\ GuardDays \in Nat
         /\ HandleDays > 0 /\ HandleDays < GuardDays /\ MailDays <= GuardDays
         /\ \A r \in Requests : /\ r \in Nat /\ mail[r].epoch \in Nat /\ guard[r] \in Nat
                                /\ mail[r].days \in Int
         /\ \A h \in Handles : /\ handle[h].ref \in Nat /\ handle[h].epoch \in Nat
                               /\ handle[h].days \in Nat /\ handle[h].link \in Nat
                               /\ Live(h) => handle[h].link \in Requests
         /\ \A t \in Tasks : /\ task[t].ref \in Nat /\ task[t].epoch \in Nat /\ task[t].link \in Nat
                             /\ task[t].old \in BOOLEAN
                             /\ task[t].pc \in Dated \cup Section => task[t].ref \in Requests
                             /\ task[t].pc \in Linked \cup {"pollHandle"} => task[t].link \in Requests
                             /\ task[t].pc \in HandleSteps => task[t].item \in Handles
PROOF
<1>1. \A t \in Tasks : task[t] \in TaskRecords
  BY DEF Typed, TasksTyped
<1>2. \A r \in Requests : mail[r].epoch \in Nat /\ guard[r] \in Nat /\ mail[r].days \in Int /\ r \in Nat
  BY VerificationAssumption DEF Typed, StoresTyped, Days, Never, Requests
<1>3. \A t \in Tasks : /\ task[t].ref \in Nat /\ task[t].epoch \in Nat /\ task[t].link \in Nat
                       /\ task[t].old \in BOOLEAN
                       /\ task[t].pc \in Dated \cup Section => task[t].ref \in Requests
                       /\ task[t].pc \in Linked \cup {"pollHandle"} => task[t].link \in Requests
                       /\ task[t].pc \in HandleSteps => task[t].item \in Handles
  BY <1>1 DEF TaskRecords
<1>4. \A h \in Handles : /\ handle[h].ref \in Nat /\ handle[h].epoch \in Nat
                         /\ handle[h].days \in Nat /\ handle[h].link \in Nat
                         /\ Live(h) => handle[h].link \in Requests
  BY DEF Typed, StoresTyped, Live
<1> QED
  BY <1>2, <1>3, <1>4, VerificationAssumption, LifetimeAssumption DEF Typed, StoresTyped

\* Steps of tasks that neither poll nor open a link, or stop doing so.
LEMMA OthersKeepGuarded ==
  ASSUME Typed, OpensGuarded, UNCHANGED <<request, epoch, mail, handle, guard, unresolved>>,
         \A t \in Tasks : task'[t].pc \in Dated \cup Section => task'[t] = task[t]
  PROVE  OpensGuarded'
PROOF
<1> USE DEF Live, Mailed
<1>a. \A t \in Tasks : task'[t].pc \in Dated \cup Section \/ task'[t].pc \in Linked
                       \/ task'[t].pc \in {"pollMail", "pollHandle", "openToken", "openGuard",
                                           "openConsume", "openSend"}
        => task'[t] = task[t]
  BY DEF Dated, Section, Linked
<1>b. \A ref, at : Tells(ref, at)' => Tells(ref, at)
  BY <1>a DEF Tells
<1>1. DatesNameRequests'
  BY <1>b DEF OpensGuarded, DatesNameRequests
<1>2. MailsDated'
  BY DEF OpensGuarded, MailsDated
<1>3. TasksDated'
  BY <1>a DEF OpensGuarded, TasksDated
<1>c. \A ref, r \in Requests : Outlasts(ref, r) => Outlasts(ref, r)'
  BY <1>a DEF Outlasts
<1>d. \A t \in Tasks, r \in Requests : Opens(t, r)' => Opens(t, r) /\ task'[t] = task[t]
  BY <1>a DEF Opens
<1>4. GuardOutlasts'
  BY <1>b, <1>c, <1>d DEF OpensGuarded, GuardOutlasts
<1>e. \A ref, r \in Requests : Openable(ref, r)' => Openable(ref, r)
  BY <1>a DEF Openable
<1>5. DoubtIsGuarded'
  BY <1>a, <1>b, <1>e DEF OpensGuarded, DoubtIsGuarded, Typed, StoresTyped
<1>6. OneInSection'
  BY <1>a DEF OpensGuarded, OneInSection
<1>7. OneOpener'
  BY <1>a, <1>b DEF OpensGuarded, OneOpener
<1>8. NotInDoubt'
  BY <1>a DEF OpensGuarded, NotInDoubt, At
<1> QED
  BY <1>1, <1>2, <1>3, <1>4, <1>5, <1>6, <1>7, <1>8 DEF OpensGuarded

\* Steps behind the guard: an open whose answer is known is in doubt no longer.
LEMMA SectionKeepsGuarded ==
  ASSUME Typed, OpensGuarded, UNCHANGED <<request, epoch, mail, handle, guard>>,
         unresolved' \subseteq unresolved,
         NEW t \in Tasks, \A u \in Tasks \ {t} : task'[u] = task[u],
         task[t].pc \in Section, task'[t].pc \in Section \ {"openConsume", "openSend"},
         task'[t].ref = task[t].ref, task'[t].old = task[t].old,
         task'[t].pc \in Linked => task[t].pc \in Linked /\ task'[t].link = task[t].link,
         task[t].pc \in Sent /\ task'[t].pc \notin Sent => task[t].link \notin unresolved'
  PROVE  OpensGuarded'
PROOF
<1> USE DEF Live, Mailed
<1>a. /\ task'[t].pc \notin Dated
      /\ task'[t].pc \notin {"pollMail", "pollHandle", "openToken", "openGuard", "openConsume",
                             "openSend"}
      /\ \A u \in Tasks : task'[u].pc \in Dated \/ task'[u].pc \in {"pollMail", "pollHandle",
           "openToken", "openGuard", "openConsume", "openSend"} => u # t /\ task'[u] = task[u]
  BY DEF Dated, Section, Linked, Sent
<1>s. /\ Sent \subseteq Linked /\ Linked \subseteq Section
      /\ unresolved' \subseteq Requests
  BY DEF Section, Linked, Typed, StoresTyped
<1>b. \A ref, at : Tells(ref, at)' => Tells(ref, at)
  BY <1>a DEF Tells
<1>1. DatesNameRequests'
  BY <1>b DEF OpensGuarded, DatesNameRequests
<1>2. MailsDated'
  BY DEF OpensGuarded, MailsDated
<1>3. TasksDated'
  BY <1>a DEF OpensGuarded, TasksDated
<1>c. \A ref, r \in Requests : Outlasts(ref, r) => Outlasts(ref, r)'
  BY <1>a DEF Outlasts
<1>d. \A u \in Tasks, r \in Requests : Opens(u, r)' => Opens(u, r) /\ task'[u].ref = task[u].ref
  BY <1>a DEF Opens
<1>4. GuardOutlasts'
  BY <1>b, <1>c, <1>d DEF OpensGuarded, GuardOutlasts
<1>e. \A ref, r \in Requests : Openable(ref, r)' => Openable(ref, r)
  BY <1>a DEF Openable
<1>5. DoubtIsGuarded'
  <2> SUFFICES ASSUME NEW r \in unresolved', NEW ref \in Requests,
                      Tells(ref, mail[r].epoch)', Openable(ref, r)',
                      NEW u \in Tasks, task'[u].pc \in Section, task'[u].ref = ref
               PROVE  task'[u].pc \in Sent /\ task'[u].link = r
    BY DEF DoubtIsGuarded
  <2>1. task[u].pc \in Section /\ task[u].ref = ref
    OBVIOUS
  <2>2. task[u].pc \in Sent /\ task[u].link = r
    BY <1>b, <1>e, <1>s, <2>1 DEF OpensGuarded, DoubtIsGuarded
  <2> QED
    BY <1>s, <2>2
<1>6. OneInSection'
  BY <1>a DEF OpensGuarded, OneInSection
<1>7. OneOpener'
  BY <1>a, <1>b DEF OpensGuarded, OneOpener
<1>8. NotInDoubt'
  BY <1>a DEF OpensGuarded, NotInDoubt, At
<1> QED
  BY <1>1, <1>2, <1>3, <1>4, <1>5, <1>6, <1>7, <1>8 DEF OpensGuarded

\* A later "submitted" entry dates nothing that was dated before.
LEMMA EntriesKeepGuarded ==
  ASSUME Typed, OpensGuarded, UNCHANGED <<mail, handle, guard, task, unresolved>>,
         epoch' = epoch + 1, request' \in Nat
  PROVE  OpensGuarded'
PROOF
<1> USE DEF Live, Mailed
<1>a. epoch \in Nat /\ \A r \in Requests : mail[r].epoch \in Nat /\ mail[r].epoch <= epoch
  BY Fields DEF OpensGuarded, MailsDated
<1>b. \A ref, at : at # epoch + 1 => (Tells(ref, at)' => Tells(ref, at))
  BY DEF Tells
<1>b1. \A ref, at \in Nat : at = epoch + 1 => (Tells(ref, at)' => ref = request')
  BY <1>a DEF Tells, OpensGuarded, DatesNameRequests
<1>c. \A r \in Requests : \A ref : Tells(ref, mail[r].epoch)' => Tells(ref, mail[r].epoch)
  BY <1>a, <1>b
<1>1. DatesNameRequests'
  <2> SUFFICES ASSUME NEW ref \in Nat, NEW at \in Nat, Tells(ref, at)'
               PROVE  at <= epoch' /\ \A other \in Nat : Tells(other, at)' => other = ref
    BY DEF DatesNameRequests
  <2>1. CASE at = epoch + 1
    BY <1>a, <1>b1, <2>1
  <2>2. CASE at # epoch + 1
    <3>1. Tells(ref, at) /\ \A other : Tells(other, at)' => Tells(other, at)
      BY <1>b, <2>2
    <3>2. at <= epoch /\ \A other \in Nat : Tells(other, at) => other = ref
      BY <3>1 DEF OpensGuarded, DatesNameRequests
    <3> QED
      BY <1>a, <3>1, <3>2
  <2> QED
    BY <2>1, <2>2
<1>2. MailsDated'
  BY <1>a DEF OpensGuarded, MailsDated
<1>3. TasksDated'
  BY DEF OpensGuarded, TasksDated
<1>4. GuardOutlasts'
  BY <1>c DEF OpensGuarded, GuardOutlasts, Outlasts, Opens
<1>5. DoubtIsGuarded'
  <2>1. \A r, ref : Openable(ref, r)' => Openable(ref, r)
    BY DEF Openable
  <2>2. unresolved \subseteq Requests
    BY DEF Typed, StoresTyped
  <2> QED
    BY <1>c, <2>1, <2>2 DEF OpensGuarded, DoubtIsGuarded
<1>6. OneInSection'
  BY DEF OpensGuarded, OneInSection
<1>7. OneOpener'
  BY <1>c, Fields DEF OpensGuarded, OneOpener
<1>8. NotInDoubt'
  BY DEF OpensGuarded, NotInDoubt, At
<1> QED
  BY <1>1, <1>2, <1>3, <1>4, <1>5, <1>6, <1>7, <1>8 DEF OpensGuarded

\* A mail that arrives has no handle yet.
LEMMA MailKeepsGuarded ==
  ASSUME Typed, OpensGuarded, NEW m \in Requests, MailArrives(m)
  PROVE  OpensGuarded'
PROOF
<1> USE DEF Live, Mailed
<1>a. /\ UNCHANGED <<request, epoch, handle, guard, task, unresolved>>
      /\ \A r \in Requests \ {m} : mail'[r] = mail[r]
      /\ mail'[m].days = MailDays /\ mail'[m].epoch = epoch /\ mail[m].days = -1
      /\ epoch \in Nat
  BY Fields DEF MailArrives, Typed, StoresTyped, NoMail, Never
<1>b. /\ m \notin unresolved /\ \A r \in unresolved : r \in Requests /\ mail'[r] = mail[r]
      /\ \A h \in Handles : Live(h) => handle[h].link # m /\ handle[h].link \in Requests
      /\ \A t \in Tasks : task[t].pc \in Linked \cup {"pollHandle"} =>
           task[t].link # m /\ task[t].link \in Requests
      /\ \A t \in Tasks : task[t].pc \in {"openToken", "openGuard", "openConsume"} =>
           task[t].item \in Handles
  BY <1>a, Fields DEF OpensGuarded, MailsDated, TasksDated, Typed, StoresTyped, HandleSteps
<1>1. DatesNameRequests'
  BY <1>a DEF OpensGuarded, DatesNameRequests, Tells
<1>2. MailsDated'
  BY <1>a, <1>b, Fields DEF OpensGuarded, MailsDated
<1>3. TasksDated'
  BY <1>a, <1>b DEF OpensGuarded, TasksDated
<1>c. \A ref, at : Tells(ref, at)' <=> Tells(ref, at)
  BY <1>a DEF Tells
<1>d. \A t \in Tasks, r \in Requests : Opens(t, r)' => Opens(t, r) /\ r # m
  BY <1>a, <1>b DEF Opens
<1>e. \A ref \in Requests, r \in Requests \ {m} : Outlasts(ref, r) => Outlasts(ref, r)'
  BY <1>a DEF Outlasts
<1>4. GuardOutlasts'
  <2> SUFFICES ASSUME NEW ref \in Requests, NEW r \in Requests,
                      \/ r \in unresolved' /\ Tells(ref, mail[r].epoch)'
                      \/ \E t \in Tasks : Opens(t, r)' /\ task'[t].ref = ref
               PROVE  Outlasts(ref, r)'
    BY DEF GuardOutlasts
  <2>1. r # m /\ mail'[r] = mail[r]
    BY <1>a, <1>b, <1>d
  <2>2. Outlasts(ref, r)
    BY <1>a, <1>c, <1>d, <2>1 DEF OpensGuarded, GuardOutlasts
  <2> QED
    BY <1>e, <2>1, <2>2
<1>f. \A ref, r : r # m /\ r \in Requests => (Openable(ref, r)' => Openable(ref, r))
  BY <1>a DEF Openable
<1>5. DoubtIsGuarded'
  BY <1>a, <1>b, <1>c, <1>f DEF OpensGuarded, DoubtIsGuarded
<1>6. OneInSection'
  BY <1>a DEF OpensGuarded, OneInSection
<1>7. OneOpener'
  BY <1>a, <1>b, <1>c DEF OpensGuarded, OneOpener
<1>8. NotInDoubt'
  BY <1>a DEF OpensGuarded, NotInDoubt, At
<1> QED
  BY <1>1, <1>2, <1>3, <1>4, <1>5, <1>6, <1>7, <1>8 DEF OpensGuarded

\* Lifetimes run out together: a guard is never over before what it guards.
LEMMA DayKeepsGuarded ==
  ASSUME Typed, OpensGuarded, DayPasses
  PROVE  OpensGuarded'
PROOF
<1> USE DEF Live, Mailed
<1>a. UNCHANGED <<request, epoch, unresolved>> /\ epoch \in Nat
  BY Fields DEF DayPasses
<1>m. \A r \in Requests :
        /\ mail'[r].epoch = mail[r].epoch
        /\ mail'[r].days = Less(mail[r].days)
        /\ guard'[r] = Less(guard[r])
  BY DEF DayPasses, Typed, StoresTyped
<1>n. \A r \in Requests :
        /\ mail'[r].days <= mail[r].days
        /\ mail[r].days > 0 => mail'[r].days = mail[r].days - 1
        /\ mail[r].days <= 0 => mail'[r].days = mail[r].days
        /\ guard[r] > 0 => guard'[r] = guard[r] - 1
        /\ guard[r] = 0 => guard'[r] = 0
        /\ mail[r].days \in Nat => mail'[r].days \in Nat
  BY <1>m, Fields DEF Less
<1>h. \A h \in Handles :
        /\ handle'[h].days > 0 =>
             /\ handle[h].days > 1 /\ handle'[h].days = handle[h].days - 1
             /\ handle'[h].ref = handle[h].ref /\ handle'[h].epoch = handle[h].epoch
             /\ handle'[h].link = handle[h].link
        /\ handle'[h].days <= handle[h].days /\ handle'[h].days \in Nat
        /\ handle[h].days \in Nat
        /\ handle'[h].days > 0 \/ handle'[h].days = 0
  <2> TAKE h \in Handles
  <2>1. handle[h].days \in Nat
    BY Fields
  <2>2. CASE handle[h].days > 1
    <3>1. handle'[h] = [handle[h] EXCEPT !.days = handle[h].days - 1]
      BY <2>2 DEF DayPasses
    <3>2. handle[h] \in [ref : Nat, epoch : Nat, link : Nat, days : Nat]
      BY DEF Typed, StoresTyped
    <3> QED
      BY <2>1, <2>2, <3>1, <3>2
  <2>3. CASE ~ (handle[h].days > 1)
    <3>1. handle'[h] = NoHandle
      BY <2>3 DEF DayPasses
    <3> QED
      BY <2>1, <3>1 DEF NoHandle
  <2> QED
    BY <2>2, <2>3
<1>t. \A t \in Tasks :
        /\ task'[t].pc = task[t].pc /\ task'[t].ref = task[t].ref /\ task'[t].epoch = task[t].epoch
        /\ task'[t].link = task[t].link /\ task'[t].item = task[t].item
        /\ ~ task[t].old /\ (task[t].pc # "idle" => task'[t].old)
        /\ task[t].pc \in {"openToken", "openGuard", "openConsume"} => task[t].item \in Handles
  BY Fields DEF DayPasses, At, Typed, TasksTyped, TaskRecords, HandleSteps
<1>i. /\ "idle" \notin Section /\ "idle" \notin {"pollHandle", "pollMail"}
      /\ unresolved \subseteq Requests
      /\ HandleDays \in Nat /\ GuardDays \in Nat /\ HandleDays < GuardDays
      /\ \A r \in Requests : guard[r] \in Nat /\ mail[r].days \in Int
  BY Fields DEF Section, Linked, Sent, Typed, StoresTyped
<1>b. \A ref, at : Tells(ref, at)' => Tells(ref, at)
  BY <1>a, <1>h, <1>t DEF Tells
<1>1. DatesNameRequests'
  BY <1>a, <1>b DEF OpensGuarded, DatesNameRequests
<1>2. MailsDated'
  BY <1>a, <1>m, <1>n, <1>h, <1>i, Fields DEF OpensGuarded, MailsDated
<1>3. TasksDated'
  BY <1>m, <1>n, <1>h, <1>t, Fields DEF OpensGuarded, TasksDated
<1>c. ASSUME NEW ref \in Requests, NEW r \in Requests, Outlasts(ref, r)
      PROVE  Outlasts(ref, r)'
  <2>1. guard'[ref] >= mail'[r].days
    BY <1>c, <1>i, <1>n DEF Outlasts
  <2>2. \A h \in Handles : handle'[h].link = r /\ handle'[h].ref = ref => guard'[ref] >= handle'[h].days
    BY <1>c, <1>h, <1>i, <1>n DEF Outlasts
  <2>3. ASSUME NEW t \in Tasks, task'[t].ref = ref,
               \/ task'[t].pc = "pollHandle" /\ task'[t].link = r
               \/ task'[t].pc = "pollMail" /\ mail'[r].days > 0
        PROVE  task'[t].old /\ guard'[ref] >= HandleDays
    <3>1. guard[ref] >= HandleDays + 1
      BY <1>c, <1>i, <1>n, <1>t, <2>3 DEF Outlasts
    <3> QED
      BY <1>i, <1>n, <1>t, <2>3, <3>1
  <2> QED
    BY <1>i, <2>1, <2>2, <2>3 DEF Outlasts
<1>d. \A t \in Tasks, r \in Requests : Opens(t, r)' => Opens(t, r)
  BY <1>h, <1>t DEF Opens
<1>4. GuardOutlasts'
  <2> SUFFICES ASSUME NEW ref \in Requests, NEW r \in Requests,
                      \/ r \in unresolved' /\ Tells(ref, mail[r].epoch)'
                      \/ \E t \in Tasks : Opens(t, r)' /\ task'[t].ref = ref
               PROVE  Outlasts(ref, r)'
    BY DEF GuardOutlasts
  <2>1. Outlasts(ref, r)
    BY <1>a, <1>b, <1>d, <1>m, <1>t DEF OpensGuarded, GuardOutlasts
  <2> QED
    BY <1>c, <2>1
<1>e. \A ref, r \in Requests : Openable(ref, r)' => Openable(ref, r)
  BY <1>h, <1>i, <1>n, <1>t DEF Openable
<1>5. DoubtIsGuarded'
  BY <1>a, <1>b, <1>e, <1>i, <1>m, <1>t DEF OpensGuarded, DoubtIsGuarded
<1>6. OneInSection'
  <2> SUFFICES ASSUME NEW t \in Tasks, task'[t].pc \in Section
               PROVE  /\ guard'[task'[t].ref] >= GuardDays - (IF task'[t].old THEN 1 ELSE 0)
                      /\ \A u \in Tasks : task'[u].pc \in Section /\ task'[u].ref = task'[t].ref => u = t
    BY DEF OneInSection
  <2>1. task[t].ref \in Requests /\ guard[task[t].ref] >= GuardDays /\ task'[t].old
    BY <1>i, <1>t, Fields DEF OpensGuarded, OneInSection
  <2>2. guard'[task'[t].ref] >= GuardDays - 1
    BY <1>i, <1>n, <1>t, <2>1
  <2> QED
    BY <1>t, <2>1, <2>2 DEF OpensGuarded, OneInSection
<1>7. OneOpener'
  BY <1>b, <1>m, <1>t, Fields DEF OpensGuarded, OneOpener
<1>8. NotInDoubt'
  BY <1>a, <1>t DEF OpensGuarded, NotInDoubt, At
<1> QED
  BY <1>1, <1>2, <1>3, <1>4, <1>5, <1>6, <1>7, <1>8 DEF OpensGuarded

\* A context names the last request.
LEMMA ContextKeepsGuarded ==
  ASSUME Typed, OpensGuarded, NEW t \in Tasks, PollContext(t) \/ OpenContext(t)
  PROVE  OpensGuarded'
PROOF
<1> USE DEF Live, Mailed
<1>a. /\ UNCHANGED <<request, epoch, mail, handle, guard, unresolved>>
      /\ \A u \in Tasks \ {t} : task'[u] = task[u]
      /\ task'[t].pc \in {"pollGuard", "openToken"}
      /\ task'[t].ref = request /\ task'[t].epoch = epoch /\ task'[t].item = task[t].item
      /\ task'[t].pc = "openToken" => task[t].item \in Handles
      /\ unresolved \subseteq Requests
  BY DEF PollContext, OpenContext, Context, GoesWith, At, Typed, TasksTyped, TaskRecords, HandleSteps,
         StoresTyped
<1>s. /\ task'[t].pc \notin Section /\ task'[t].pc \notin Linked
      /\ task'[t].pc \notin {"pollHandle", "pollMail", "openGuard", "openConsume", "openSend"}
  BY <1>a DEF Section, Linked, Sent
<1>b. \A ref, at : Tells(ref, at)' => Tells(ref, at)
  BY <1>a DEF Tells
<1>1. DatesNameRequests'
  BY <1>a, <1>b DEF OpensGuarded, DatesNameRequests
<1>2. MailsDated'
  BY <1>a DEF OpensGuarded, MailsDated
<1>3. TasksDated'
  BY <1>a, <1>s, Fields DEF OpensGuarded, TasksDated, MailsDated
<1>c. \A ref, r \in Requests : Outlasts(ref, r) => Outlasts(ref, r)'
  BY <1>a, <1>s DEF Outlasts
<1>d. \A u \in Tasks, r \in Requests : Opens(u, r)' => Opens(u, r) /\ task'[u] = task[u]
  BY <1>a, <1>s DEF Opens
<1>4. GuardOutlasts'
  BY <1>a, <1>b, <1>c, <1>d DEF OpensGuarded, GuardOutlasts
<1>e. \A ref, r \in Requests : Openable(ref, r)' => Openable(ref, r)
  BY <1>a, <1>s DEF Openable
<1>5. DoubtIsGuarded'
  BY <1>a, <1>b, <1>e, <1>s DEF OpensGuarded, DoubtIsGuarded
<1>6. OneInSection'
  BY <1>a, <1>s DEF OpensGuarded, OneInSection
<1>7. OneOpener'
  BY <1>a, <1>b, <1>s DEF OpensGuarded, OneOpener
<1>8. NotInDoubt'
  BY <1>a, <1>s DEF OpensGuarded, NotInDoubt, At
<1> QED
  BY <1>1, <1>2, <1>3, <1>4, <1>5, <1>6, <1>7, <1>8 DEF OpensGuarded

\* A poll searches only when no open is guarded, and what it finds could be found
\* before.
LEMMA PollKeepsGuarded ==
  ASSUME Typed, OpensGuarded, NEW t \in Tasks, NEW m \in Requests,
         UNCHANGED <<request, epoch, mail, handle, guard, unresolved>>,
         \A u \in Tasks \ {t} : task'[u] = task[u],
         task'[t].ref = task[t].ref, task'[t].epoch = task[t].epoch, task'[t].old = task[t].old,
         \/ task[t].pc = "pollGuard" /\ task'[t].pc = "pollMail" /\ ~ GuardLive(task[t].ref)
         \/ /\ task[t].pc = "pollMail" /\ task'[t].pc = "pollHandle" /\ task'[t].link = m
            /\ Observable(t, m)
  PROVE  OpensGuarded'
PROOF
<1> USE DEF Live, Mailed
<1>s. /\ task'[t].pc \notin Section /\ task'[t].pc \notin Linked /\ task[t].pc \in Dated
      /\ task'[t].pc \notin {"openToken", "openGuard", "openConsume", "openSend"}
      /\ unresolved \subseteq Requests
      /\ task[t].ref \in Requests
  BY Fields DEF Section, Linked, Sent, Dated, Typed, StoresTyped
<1>b. \A ref, at : Tells(ref, at)' => Tells(ref, at)
  BY <1>s DEF Tells
<1>1. DatesNameRequests'
  BY <1>b DEF OpensGuarded, DatesNameRequests
<1>2. MailsDated'
  BY DEF OpensGuarded, MailsDated
<1>3. TasksDated'
  <2>1. task'[t].pc = "pollHandle" =>
          Mailed(task'[t].link) /\ task'[t].epoch <= mail[task'[t].link].epoch
    BY Fields DEF Observable
  <2> QED
    BY <1>s, <2>1 DEF OpensGuarded, TasksDated
<1>c. ASSUME NEW ref \in Requests, NEW r \in Requests, Outlasts(ref, r)
      PROVE  Outlasts(ref, r)'
  <2>1. ASSUME task'[t].ref = ref,
               \/ task'[t].pc = "pollHandle" /\ task'[t].link = r
               \/ task'[t].pc = "pollMail" /\ mail[r].days > 0
        PROVE  guard[ref] >= HandleDays + (IF task[t].old THEN 0 ELSE 1)
    <3>1. CASE task'[t].pc = "pollMail"
      <4>1. guard[ref] >= mail[r].days /\ ~ (guard[ref] > 0) /\ mail[r].days > 0
        BY <1>c, <2>1, <3>1 DEF Outlasts, GuardLive
      <4> QED
        BY <4>1, Fields
    <3>2. CASE task'[t].pc = "pollHandle"
      <4>1. task[t].pc = "pollMail" /\ r = m /\ mail[r].days > 0 /\ task[t].ref = ref
        BY <2>1, <3>2 DEF Observable
      <4> QED
        BY <1>c, <4>1 DEF Outlasts
    <3> QED
      BY <2>1, <3>1, <3>2
  <2> QED
    BY <1>c, <2>1 DEF Outlasts
<1>d. \A u \in Tasks, r \in Requests : Opens(u, r)' => Opens(u, r) /\ task'[u] = task[u]
  BY <1>s DEF Opens
<1>4. GuardOutlasts'
  BY <1>b, <1>c, <1>d DEF OpensGuarded, GuardOutlasts
<1>e. \A ref, r \in Requests : Openable(ref, r)' => Openable(ref, r)
  BY <1>s DEF Openable, Observable
<1>5. DoubtIsGuarded'
  BY <1>b, <1>e, <1>s DEF OpensGuarded, DoubtIsGuarded
<1>6. OneInSection'
  BY <1>s DEF OpensGuarded, OneInSection
<1>7. OneOpener'
  BY <1>b, <1>s DEF OpensGuarded, OneOpener
<1>8. NotInDoubt'
  BY <1>s DEF OpensGuarded, NotInDoubt, At
<1> QED
  BY <1>1, <1>2, <1>3, <1>4, <1>5, <1>6, <1>7, <1>8 DEF OpensGuarded

\* A handle takes over what its task knew.
LEMMA HandleKeepsGuarded ==
  ASSUME Typed, OpensGuarded, NEW t \in Tasks, PollHandle(t)
  PROVE  OpensGuarded'
PROOF
<1> USE DEF Live, Mailed
<1>h. PICK h \in Handles :
        /\ handle[h] = NoHandle /\ \A u \in Tasks : task[u].item # h
        /\ handle' = [handle EXCEPT ![h] =
                        [ref |-> task[t].ref, epoch |-> task[t].epoch,
                         link |-> task[t].link, days |-> HandleDays]]
  BY DEF PollHandle
<1>a. /\ UNCHANGED <<request, epoch, mail, guard, unresolved>>
      /\ \A u \in Tasks \ {t} : task'[u] = task[u]
      /\ task[t].pc = "pollHandle" /\ task'[t].pc = "idle"
      /\ unresolved \subseteq Requests
  BY DEF PollHandle, Goes, Rest, At, Typed, TasksTyped, TaskRecords, StoresTyped
<1>g. /\ handle'[h].ref = task[t].ref /\ handle'[h].epoch = task[t].epoch
      /\ handle'[h].link = task[t].link /\ handle'[h].days = HandleDays
      /\ \A g \in Handles \ {h} : handle'[g] = handle[g]
      /\ \A u \in Tasks : task[u].pc \in {"openToken", "openGuard", "openConsume"} =>
           task[u].item \in Handles \ {h}
  BY <1>h, Fields DEF Typed, StoresTyped, HandleSteps
<1>s. /\ task'[t].pc \notin Section /\ task'[t].pc \notin Linked /\ task'[t].pc \notin Dated
      /\ task[t].pc \in Dated
      /\ task'[t].pc \notin {"pollHandle", "pollMail", "openToken", "openGuard", "openConsume",
                             "openSend"}
  BY <1>a DEF Section, Linked, Sent, Dated
<1>b. \A ref, at : Tells(ref, at)' => Tells(ref, at)
  BY <1>a, <1>g, <1>s DEF Tells
<1>1. DatesNameRequests'
  BY <1>a, <1>b DEF OpensGuarded, DatesNameRequests
<1>2. MailsDated'
  BY <1>a, <1>g, Fields DEF OpensGuarded, MailsDated, TasksDated
<1>3. TasksDated'
  BY <1>a, <1>g, <1>s DEF OpensGuarded, TasksDated
<1>c. ASSUME NEW ref \in Requests, NEW r \in Requests, Outlasts(ref, r)
      PROVE  Outlasts(ref, r)'
  <2>1. task[t].link = r /\ task[t].ref = ref => guard[ref] >= HandleDays
    BY <1>a, <1>c, Fields DEF Outlasts
  <2> QED
    BY <1>a, <1>c, <1>g, <1>s, <2>1 DEF Outlasts
<1>d. \A u \in Tasks, r \in Requests : Opens(u, r)' => Opens(u, r) /\ task'[u] = task[u]
  BY <1>a, <1>g, <1>s DEF Opens
<1>4. GuardOutlasts'
  BY <1>a, <1>b, <1>c, <1>d DEF OpensGuarded, GuardOutlasts
<1>e. \A ref, r \in Requests : Openable(ref, r)' => Openable(ref, r)
  BY <1>a, <1>g, <1>s DEF Openable
<1>5. DoubtIsGuarded'
  BY <1>a, <1>b, <1>e, <1>s DEF OpensGuarded, DoubtIsGuarded
<1>6. OneInSection'
  BY <1>a, <1>s DEF OpensGuarded, OneInSection
<1>7. OneOpener'
  BY <1>a, <1>b, <1>s DEF OpensGuarded, OneOpener
<1>8. NotInDoubt'
  BY <1>a, <1>s DEF OpensGuarded, NotInDoubt, At
<1> QED
  BY <1>1, <1>2, <1>3, <1>4, <1>5, <1>6, <1>7, <1>8 DEF OpensGuarded

\* The handle an open begins with is of the request its context names.
LEMMA TokenKeepsGuarded ==
  ASSUME Typed, OpensGuarded, NEW t \in Tasks, OpenToken(t)
  PROVE  OpensGuarded'
PROOF
<1> USE DEF Live, Mailed
<1>a. /\ UNCHANGED <<request, epoch, mail, handle, guard, unresolved>>
      /\ \A u \in Tasks \ {t} : task'[u] = task[u]
      /\ task[t].pc = "openToken" /\ task'[t].pc = "openGuard"
      /\ task'[t].ref = task[t].ref /\ task'[t].epoch = task[t].epoch
      /\ task'[t].item = task[t].item
      /\ handle[task[t].item].ref = task[t].ref /\ handle[task[t].item].epoch = task[t].epoch
      /\ unresolved \subseteq Requests
  BY DEF OpenToken, Goes, At, Typed, TasksTyped, TaskRecords, StoresTyped
<1>s. /\ task'[t].pc \notin Section /\ task'[t].pc \notin Linked /\ task[t].pc \in Dated
      /\ task'[t].pc \notin {"pollHandle", "pollMail", "openToken", "openConsume", "openSend"}
  BY <1>a DEF Section, Linked, Sent, Dated
<1>b. \A ref, at : Tells(ref, at)' => Tells(ref, at)
  BY <1>a, <1>s DEF Tells
<1>1. DatesNameRequests'
  BY <1>a, <1>b DEF OpensGuarded, DatesNameRequests
<1>2. MailsDated'
  BY <1>a DEF OpensGuarded, MailsDated
<1>3. TasksDated'
  BY <1>a, <1>s DEF OpensGuarded, TasksDated
<1>c. \A ref, r \in Requests : Outlasts(ref, r) => Outlasts(ref, r)'
  BY <1>a, <1>s DEF Outlasts
<1>d. \A u \in Tasks, r \in Requests : Opens(u, r)' => Opens(u, r) /\ task'[u] = task[u]
  BY <1>a, <1>s DEF Opens
<1>4. GuardOutlasts'
  BY <1>a, <1>b, <1>c, <1>d DEF OpensGuarded, GuardOutlasts
<1>e. \A ref, r \in Requests : Openable(ref, r)' => Openable(ref, r)
  BY <1>a, <1>s DEF Openable
<1>5. DoubtIsGuarded'
  BY <1>a, <1>b, <1>e, <1>s DEF OpensGuarded, DoubtIsGuarded
<1>6. OneInSection'
  BY <1>a, <1>s DEF OpensGuarded, OneInSection
<1>7. OneOpener'
  BY <1>a, <1>b, <1>s DEF OpensGuarded, OneOpener
<1>8. NotInDoubt'
  BY <1>a, <1>s DEF OpensGuarded, NotInDoubt, At
<1> QED
  BY <1>1, <1>2, <1>3, <1>4, <1>5, <1>6, <1>7, <1>8 DEF OpensGuarded

\* The guard is set when none was: the open before it is answered, or what it left
\* in doubt can be opened no more.
LEMMA GuardKeepsGuarded ==
  ASSUME Typed, OpensGuarded, NEW t \in Tasks, OpenGuard(t)
  PROVE  OpensGuarded'
PROOF
<1> USE DEF Live, Mailed
<1> DEFINE own == task[t].ref
<1>a. /\ UNCHANGED <<request, epoch, mail, handle, unresolved>>
      /\ \A u \in Tasks \ {t} : task'[u] = task[u]
      /\ task[t].pc = "openGuard" /\ task'[t].pc = "openConsume"
      /\ task'[t].ref = own /\ task'[t].epoch = task[t].epoch
      /\ task'[t].item = task[t].item /\ task'[t].old = task[t].old
      /\ unresolved \subseteq Requests
  BY DEF OpenGuard, Goes, At, Typed, TasksTyped, TaskRecords, StoresTyped
<1>s. /\ task'[t].pc \notin Linked /\ task[t].pc \in Dated /\ task[t].pc \notin Section
      /\ task'[t].pc \notin {"pollHandle", "pollMail", "openToken", "openGuard", "openSend"}
      /\ task'[t].pc \in Section
  BY <1>a DEF Section, Linked, Sent, Dated
<1>g. /\ own \in Requests /\ guard[own] = 0 /\ guard'[own] = GuardDays
      /\ \A r \in Requests \ {own} : guard'[r] = guard[r]
  <2>1. own \in Requests /\ guard[own] \in Nat
    BY <1>s, Fields
  <2> QED
    BY <2>1 DEF OpenGuard, GuardLive, Typed, StoresTyped
<1>b. \A ref, at : Tells(ref, at)' => Tells(ref, at)
  BY <1>a, <1>s DEF Tells
<1>1. DatesNameRequests'
  BY <1>a, <1>b DEF OpensGuarded, DatesNameRequests
<1>2. MailsDated'
  BY <1>a DEF OpensGuarded, MailsDated
<1>3. TasksDated'
  BY <1>a, <1>s DEF OpensGuarded, TasksDated
<1>c. ASSUME NEW ref \in Requests, NEW r \in Requests, ref # own, Outlasts(ref, r)
      PROVE  Outlasts(ref, r)'
  BY <1>a, <1>c, <1>g, <1>s DEF Outlasts
<1>d. ASSUME NEW ref \in Requests, NEW r \in Requests, ref = own
      PROVE  Outlasts(ref, r)'
  <2>1. guard'[own] >= mail[r].days /\ \A h \in Handles : guard'[own] >= handle[h].days
    BY <1>g, Fields DEF OpensGuarded, MailsDated
  <2>2. guard'[own] >= HandleDays + 1 /\ guard'[own] >= HandleDays + 0
    BY <1>g, Fields
  <2> QED
    BY <1>a, <1>d, <2>1, <2>2 DEF Outlasts
<1>e. \A u \in Tasks \ {t} : \A r \in Requests : Opens(u, r)' => Opens(u, r)
  BY <1>a, <1>s DEF Opens
<1>4. GuardOutlasts'
  <2> SUFFICES ASSUME NEW ref \in Requests, NEW r \in Requests,
                      \/ r \in unresolved' /\ Tells(ref, mail[r].epoch)'
                      \/ \E u \in Tasks : Opens(u, r)' /\ task'[u].ref = ref
               PROVE  Outlasts(ref, r)'
    BY DEF GuardOutlasts
  <2>1. CASE ref = own
    BY <1>d, <2>1
  <2>2. CASE ref # own
    <3>1. \/ r \in unresolved /\ Tells(ref, mail[r].epoch)
          \/ \E u \in Tasks : Opens(u, r) /\ task[u].ref = ref
      BY <1>a, <1>b, <1>e, <2>2
    <3>2. Outlasts(ref, r)
      BY <3>1 DEF OpensGuarded, GuardOutlasts
    <3> QED
      BY <1>c, <2>2, <3>2
  <2> QED
    BY <2>1, <2>2
<1>f. \A ref, r \in Requests : Openable(ref, r)' => Openable(ref, r)
  BY <1>a, <1>s DEF Openable
<1>h. \A r \in unresolved : Tells(own, mail[r].epoch) => ~ Openable(own, r)
  <2> SUFFICES ASSUME NEW r \in unresolved, Tells(own, mail[r].epoch)
               PROVE  ~ Openable(own, r)
    OBVIOUS
  <2>1. r \in Requests /\ Outlasts(own, r)
    BY <1>a, <1>g DEF OpensGuarded, GuardOutlasts
  <2>2. ~ (mail[r].days > 0)
    BY <1>g, <2>1, Fields DEF Outlasts
  <2>3. \A h \in Handles : handle[h].link = r /\ handle[h].ref = own => ~ Live(h)
    BY <1>g, <2>1, Fields DEF Outlasts
  <2>4. \A u \in Tasks : ~ (task[u].pc = "pollHandle" /\ task[u].link = r /\ task[u].ref = own)
    BY <1>g, <2>1, Fields DEF Outlasts
  <2> QED
    BY <2>2, <2>3, <2>4 DEF Openable
<1>5. DoubtIsGuarded'
  BY <1>a, <1>b, <1>f, <1>g, <1>h DEF OpensGuarded, DoubtIsGuarded
<1>6. OneInSection'
  <2>1. \A u \in Tasks \ {t} : ~ (task[u].pc \in Section /\ task[u].ref = own)
    BY <1>g, Fields DEF OpensGuarded, OneInSection
  <2>2. \A u \in Tasks : task[u].pc \in Section => task[u].ref \in Requests
    BY Fields
  <2>3. guard'[own] >= GuardDays - (IF task[t].old THEN 1 ELSE 0)
    BY <1>g, Fields
  <2> QED
    BY <1>a, <1>g, <2>1, <2>2, <2>3 DEF OpensGuarded, OneInSection
<1>7. OneOpener'
  BY <1>a, <1>b, <1>s DEF OpensGuarded, OneOpener
<1>8. NotInDoubt'
  BY <1>a, <1>s DEF OpensGuarded, NotInDoubt, At
<1> QED
  BY <1>1, <1>2, <1>3, <1>4, <1>5, <1>6, <1>7, <1>8 DEF OpensGuarded

\* The handle is spent: its link is in nobody else's hands, and not in doubt.
LEMMA ConsumeKeepsGuarded ==
  ASSUME Typed, OpensGuarded, NEW t \in Tasks, OpenConsume(t), Live(task[t].item)
  PROVE  OpensGuarded'
PROOF
<1> USE DEF Live, Mailed
<1> DEFINE own == task[t].ref
           h == task[t].item
           m == handle[h].link
<1>a. /\ UNCHANGED <<request, epoch, mail, guard, unresolved>>
      /\ \A u \in Tasks \ {t} : task'[u] = task[u]
      /\ task[t].pc = "openConsume" /\ task'[t].pc = "openSend"
      /\ task'[t].ref = own /\ task'[t].link = m /\ task'[t].old = task[t].old
      /\ unresolved \subseteq Requests
      /\ h \in Handles
  BY Fields DEF OpenConsume, At, Typed, TasksTyped, TaskRecords, StoresTyped, HandleSteps
<1>h. /\ handle'[h].days = 0 /\ handle'[h].link = 0
      /\ \A g \in Handles \ {h} : handle'[g] = handle[g]
      /\ 0 \notin Requests
  BY <1>a DEF OpenConsume, NoHandle, Typed, StoresTyped, Requests
<1>s. /\ task'[t].pc \in Linked /\ task[t].pc \in Dated /\ task[t].pc \in Section
      /\ task[t].pc \notin Linked /\ task[t].pc \notin Sent
      /\ task'[t].pc \in Section /\ task'[t].pc \notin Dated
      /\ task'[t].pc \notin {"pollHandle", "pollMail", "openToken", "openGuard", "openConsume"}
      /\ Linked \subseteq Section
  BY <1>a DEF Section, Linked, Sent, Dated
<1>m. /\ m \in Requests /\ own \in Requests /\ Mailed(m)
      /\ handle[h].ref = own /\ Tells(own, mail[m].epoch)
      /\ \A ref \in Requests : Tells(ref, mail[m].epoch) => ref = own
  <2>1. m \in Requests /\ own \in Requests
    BY <1>a, <1>s, Fields
  <2>2. Mailed(m) /\ handle[h].epoch <= mail[m].epoch /\ mail[m].epoch <= task[t].epoch
        /\ handle[h].ref = own /\ handle[h].epoch = task[t].epoch
    BY <1>a, <2>1 DEF OpensGuarded, MailsDated, TasksDated
  <2>3. handle[h].epoch = mail[m].epoch /\ mail[m].epoch \in Nat
    BY <1>a, <2>1, <2>2, Fields
  <2>4. Tells(own, mail[m].epoch)
    BY <1>a, <2>2, <2>3 DEF Tells
  <2>5. \A ref \in Nat : Tells(ref, mail[m].epoch) => ref = own
    BY <2>1, <2>3, <2>4, Fields DEF OpensGuarded, DatesNameRequests
  <2> QED
    BY <2>1, <2>2, <2>4, <2>5, Fields
<1>n. m \notin unresolved
  <2>1. Openable(own, m)
    BY <1>a, <1>m DEF Openable
  <2> QED
    BY <1>m, <1>s, <2>1 DEF OpensGuarded, DoubtIsGuarded
<1>b. \A ref, at : Tells(ref, at)' => Tells(ref, at)
  BY <1>a, <1>h, <1>s DEF Tells
<1>1. DatesNameRequests'
  BY <1>a, <1>b DEF OpensGuarded, DatesNameRequests
<1>2. MailsDated'
  BY <1>a, <1>h, Fields DEF OpensGuarded, MailsDated
<1>3. TasksDated'
  BY <1>a, <1>h, <1>m, <1>s, Fields DEF OpensGuarded, TasksDated, HandleSteps
<1>c. \A ref, r \in Requests : Outlasts(ref, r) => Outlasts(ref, r)'
  BY <1>a, <1>h, <1>s DEF Outlasts
<1>d. ASSUME NEW u \in Tasks, NEW r \in Requests, Opens(u, r)'
      PROVE  Opens(u, r) /\ task'[u].ref = task[u].ref
  <2>1. CASE u = t
    <3>1. r = m
      BY <1>a, <1>d, <1>s, <2>1 DEF Opens
    <3> QED
      BY <1>a, <2>1, <3>1 DEF Opens
  <2>2. CASE u # t
    <3>1. task'[u] = task[u]
      BY <1>a, <2>2
    <3>2. CASE task[u].pc \in Linked
      BY <1>d, <3>1, <3>2 DEF Opens, Linked, Sent
    <3>3. CASE task[u].pc \notin Linked
      <4>1. task[u].pc = "openConsume" /\ handle'[task[u].item].days > 0
            /\ handle'[task[u].item].link = r
        BY <1>d, <3>1, <3>3 DEF Opens
      <4>2. task[u].item \in Handles \ {h}
        BY <1>h, <4>1, Fields DEF HandleSteps
      <4> QED
        BY <1>h, <3>1, <4>1, <4>2 DEF Opens
    <3> QED
      BY <3>2, <3>3
  <2> QED
    BY <2>1, <2>2
<1>4. GuardOutlasts'
  BY <1>a, <1>b, <1>c, <1>d DEF OpensGuarded, GuardOutlasts
<1>e. \A ref, r \in Requests : Openable(ref, r)' => Openable(ref, r)
  BY <1>a, <1>h, <1>s DEF Openable
<1>5. DoubtIsGuarded'
  BY <1>a, <1>b, <1>e, <1>s DEF OpensGuarded, DoubtIsGuarded
<1>6. OneInSection'
  BY <1>a, <1>s DEF OpensGuarded, OneInSection
<1>7. OneOpener'
  <2>1. \A u \in Tasks \ {t} : ~ (task[u].pc \in Linked /\ task[u].link = m)
    <3> SUFFICES ASSUME NEW u \in Tasks \ {t}, task[u].pc \in Linked, task[u].link = m
                 PROVE  FALSE
      OBVIOUS
    <3>1. task[u].ref = own
      BY <1>m DEF OpensGuarded, OneOpener
    <3> QED
      BY <1>s, <3>1 DEF OpensGuarded, OneInSection
  <2> QED
    BY <1>a, <1>b, <1>m, <1>s, <2>1 DEF OpensGuarded, OneOpener
<1>8. NotInDoubt'
  BY <1>a, <1>n DEF OpensGuarded, NotInDoubt, At
<1> QED
  BY <1>1, <1>2, <1>3, <1>4, <1>5, <1>6, <1>7, <1>8 DEF OpensGuarded

\* The link leaves the process: from here on it is in doubt, behind its guard.
LEMMA SendKeepsGuarded ==
  ASSUME Typed, OpensGuarded, NEW t \in Tasks, OpenSend(t)
  PROVE  OpensGuarded'
PROOF
<1> USE DEF Live, Mailed
<1> DEFINE own == task[t].ref
           m == task[t].link
<1>a. /\ UNCHANGED <<request, epoch, mail, handle, guard>>
      /\ unresolved' = unresolved \cup {m}
      /\ \A u \in Tasks \ {t} : task'[u] = task[u]
      /\ task[t].pc = "openSend" /\ task'[t].pc \in {"openTab", "openAnswer"}
      /\ task'[t].ref = own /\ task'[t].link = m /\ task'[t].old = task[t].old
      /\ unresolved \subseteq Requests
  BY DEF OpenSend, Goes, At, Typed, TasksTyped, TaskRecords, StoresTyped
<1>s. /\ task'[t].pc \in Linked /\ task'[t].pc \in Section /\ task'[t].pc \in Sent
      /\ task[t].pc \in Linked /\ task[t].pc \in Section /\ task[t].pc \notin Sent
      /\ task[t].pc \notin Dated /\ task'[t].pc \notin Dated
      /\ task'[t].pc \notin {"pollHandle", "pollMail", "openToken", "openGuard", "openConsume",
                             "openSend"}
  BY <1>a DEF Section, Linked, Sent, Dated
<1>m. /\ m \in Requests /\ own \in Requests /\ Mailed(m)
      /\ \A ref \in Requests : Tells(ref, mail[m].epoch) => ref = own
      /\ \A u \in Tasks : task[u].pc \in Linked /\ task[u].link = m => u = t
      /\ \A u \in Tasks : task[u].pc \in Section /\ task[u].ref = own => u = t
  BY <1>s, Fields DEF OpensGuarded, TasksDated, OneOpener, OneInSection
<1>b. \A ref, at : Tells(ref, at)' => Tells(ref, at)
  BY <1>a, <1>s DEF Tells
<1>1. DatesNameRequests'
  BY <1>a, <1>b DEF OpensGuarded, DatesNameRequests
<1>2. MailsDated'
  BY <1>a, <1>m DEF OpensGuarded, MailsDated
<1>3. TasksDated'
  BY <1>a, <1>m, <1>s DEF OpensGuarded, TasksDated
<1>c. \A ref, r \in Requests : Outlasts(ref, r) => Outlasts(ref, r)'
  BY <1>a, <1>s DEF Outlasts
<1>d. \A u \in Tasks, r \in Requests : Opens(u, r)' => Opens(u, r) /\ task'[u].ref = task[u].ref
  BY <1>a, <1>s DEF Opens
<1>4. GuardOutlasts'
  <2> SUFFICES ASSUME NEW ref \in Requests, NEW r \in Requests,
                      \/ r \in unresolved' /\ Tells(ref, mail[r].epoch)'
                      \/ \E u \in Tasks : Opens(u, r)' /\ task'[u].ref = ref
               PROVE  Outlasts(ref, r)'
    BY DEF GuardOutlasts
  <2>1. CASE r = m /\ Tells(ref, mail[r].epoch)
    <3>1. ref = own /\ Opens(t, r)
      BY <1>m, <1>s, <2>1 DEF Opens
    <3> QED
      BY <1>c, <3>1 DEF OpensGuarded, GuardOutlasts
  <2>2. CASE ~ (r = m /\ Tells(ref, mail[r].epoch))
    <3>1. \/ r \in unresolved /\ Tells(ref, mail[r].epoch)
          \/ \E u \in Tasks : Opens(u, r) /\ task[u].ref = ref
      BY <1>a, <1>b, <1>d, <2>2
    <3> QED
      BY <1>c, <3>1 DEF OpensGuarded, GuardOutlasts
  <2> QED
    BY <2>1, <2>2
<1>e. \A ref, r \in Requests : Openable(ref, r)' => Openable(ref, r)
  BY <1>a, <1>s DEF Openable
<1>5. DoubtIsGuarded'
  <2> SUFFICES ASSUME NEW r \in unresolved', NEW ref \in Requests,
                      Tells(ref, mail[r].epoch)', Openable(ref, r)',
                      NEW u \in Tasks, task'[u].pc \in Section, task'[u].ref = ref
               PROVE  task'[u].pc \in Sent /\ task'[u].link = r
    BY DEF DoubtIsGuarded
  <2>1. /\ r \in Requests /\ Tells(ref, mail[r].epoch) /\ Openable(ref, r)
        /\ task[u].pc \in Section /\ task[u].ref = ref
    BY <1>a, <1>b, <1>e, <1>m, <1>s
  <2>2. CASE r = m
    <3>1. u = t
      BY <1>m, <2>1, <2>2
    <3> QED
      BY <1>a, <1>s, <2>2, <3>1
  <2>3. CASE r # m
    <3>1. task[u].pc \in Sent /\ task[u].link = r
      BY <1>a, <2>1, <2>3 DEF OpensGuarded, DoubtIsGuarded
    <3> QED
      BY <1>a, <1>s, <3>1
  <2> QED
    BY <2>2, <2>3
<1>6. OneInSection'
  BY <1>a, <1>s DEF OpensGuarded, OneInSection
<1>7. OneOpener'
  BY <1>a, <1>b, <1>s DEF OpensGuarded, OneOpener
<1>8. NotInDoubt'
  <2>1. \A u \in Tasks : task[u].pc = "openSend" /\ task[u].link = m => u = t
    BY <1>m DEF Linked
  <2> QED
    BY <1>a, <1>s, <2>1 DEF OpensGuarded, NotInDoubt, At
<1> QED
  BY <1>1, <1>2, <1>3, <1>4, <1>5, <1>6, <1>7, <1>8 DEF OpensGuarded

\* The guard is released only when nothing of its request is both in doubt and
\* still to be opened.
LEMMA UnguardKeepsGuarded ==
  ASSUME Typed, OpensGuarded, NEW t \in Tasks, OpenUnguard(t)
  PROVE  OpensGuarded'
PROOF
<1> USE DEF Live, Mailed
<1> DEFINE own == task[t].ref
<1>a. /\ UNCHANGED <<request, epoch, mail, handle, unresolved>>
      /\ \A u \in Tasks \ {t} : task'[u] = task[u]
      /\ task[t].pc = "unguard" /\ task'[t].pc = "idle"
      /\ unresolved \subseteq Requests
  BY DEF OpenUnguard, Goes, Rest, At, Typed, TasksTyped, TaskRecords, StoresTyped
<1>s. /\ task[t].pc \in Section /\ task[t].pc \notin Linked /\ task[t].pc \notin Sent
      /\ task'[t].pc \notin Section /\ task'[t].pc \notin Linked /\ task'[t].pc \notin Dated
      /\ task'[t].pc \notin {"pollHandle", "pollMail", "openToken", "openGuard", "openConsume",
                             "openSend"}
      /\ Linked \subseteq Section /\ "openConsume" \in Section
  BY <1>a DEF Section, Linked, Sent, Dated
<1>g. /\ own \in Requests /\ guard'[own] = 0
      /\ \A r \in Requests \ {own} : guard'[r] = guard[r]
      /\ \A u \in Tasks : task[u].pc \in Section /\ task[u].ref = own => u = t
  <2>1. own \in Requests
    BY <1>s, Fields
  <2> QED
    BY <1>s, <2>1 DEF OpenUnguard, Typed, StoresTyped, OpensGuarded, OneInSection
<1>b. \A ref, at : Tells(ref, at)' => Tells(ref, at)
  BY <1>a, <1>s DEF Tells
<1>1. DatesNameRequests'
  BY <1>a, <1>b DEF OpensGuarded, DatesNameRequests
<1>2. MailsDated'
  BY <1>a DEF OpensGuarded, MailsDated
<1>3. TasksDated'
  BY <1>a, <1>s DEF OpensGuarded, TasksDated
<1>c. ASSUME NEW ref \in Requests, NEW r \in Requests, ref # own, Outlasts(ref, r)
      PROVE  Outlasts(ref, r)'
  BY <1>a, <1>c, <1>g, <1>s DEF Outlasts
<1>d. \A u \in Tasks, r \in Requests : Opens(u, r)' => u # t /\ Opens(u, r)
  BY <1>a, <1>s DEF Opens
<1>o. ASSUME NEW u \in Tasks, NEW r \in Requests, Opens(u, r)
      PROVE  task[u].pc \in Section
  BY <1>o, <1>s DEF Opens
<1>h. ASSUME NEW ref \in Requests, ref = own, NEW r \in unresolved, Tells(ref, mail[r].epoch)
      PROVE  Outlasts(ref, r)'
  <2>1. ~ Openable(ref, r)
    BY <1>h, <1>s DEF OpensGuarded, DoubtIsGuarded
  <2>2. guard'[ref] >= mail[r].days
    BY <1>a, <1>g, <1>h, <2>1, Fields DEF Openable
  <2>3. \A g \in Handles : handle[g].link = r /\ handle[g].ref = ref => guard'[ref] >= handle[g].days
    BY <1>g, <1>h, <2>1, Fields DEF Openable
  <2>4. \A u \in Tasks : task'[u].ref = ref =>
          ~ \/ task'[u].pc = "pollHandle" /\ task'[u].link = r
            \/ task'[u].pc = "pollMail" /\ mail[r].days > 0
    BY <1>a, <1>s, <2>1 DEF Openable
  <2> QED
    BY <1>a, <2>2, <2>3, <2>4 DEF Outlasts
<1>4. GuardOutlasts'
  <2> SUFFICES ASSUME NEW ref \in Requests, NEW r \in Requests,
                      \/ r \in unresolved' /\ Tells(ref, mail[r].epoch)'
                      \/ \E u \in Tasks : Opens(u, r)' /\ task'[u].ref = ref
               PROVE  Outlasts(ref, r)'
    BY DEF GuardOutlasts
  <2>1. \/ r \in unresolved /\ Tells(ref, mail[r].epoch)
        \/ \E u \in Tasks \ {t} : Opens(u, r) /\ task[u].ref = ref
    BY <1>a, <1>b, <1>d
  <2>2. CASE ref = own
    <3>1. ~ \E u \in Tasks \ {t} : Opens(u, r) /\ task[u].ref = ref
      BY <1>g, <1>o, <2>2
    <3> QED
      BY <1>h, <2>1, <2>2, <3>1
  <2>3. CASE ref # own
    <3>1. Outlasts(ref, r)
      BY <2>1 DEF OpensGuarded, GuardOutlasts
    <3> QED
      BY <1>c, <2>3, <3>1
  <2> QED
    BY <2>2, <2>3
<1>e. \A ref, r \in Requests : Openable(ref, r)' => Openable(ref, r)
  BY <1>a, <1>s DEF Openable
<1>5. DoubtIsGuarded'
  BY <1>a, <1>b, <1>e, <1>s DEF OpensGuarded, DoubtIsGuarded
<1>6. OneInSection'
  <2>1. \A u \in Tasks \ {t} : task[u].pc \in Section =>
          task[u].ref \in Requests \ {own} /\ guard'[task[u].ref] = guard[task[u].ref]
    BY <1>g, Fields
  <2> QED
    BY <1>a, <1>s, <2>1 DEF OpensGuarded, OneInSection
<1>7. OneOpener'
  BY <1>a, <1>b, <1>s DEF OpensGuarded, OneOpener
<1>8. NotInDoubt'
  BY <1>a, <1>s DEF OpensGuarded, NotInDoubt, At
<1> QED
  BY <1>1, <1>2, <1>3, <1>4, <1>5, <1>6, <1>7, <1>8 DEF OpensGuarded

\* An open that fails stays in doubt, and its guard stays.
LEMMA FailureKeepsGuarded ==
  ASSUME Typed, OpensGuarded, NEW t \in Tasks, OpenTabFails(t)
  PROVE  OpensGuarded'
PROOF
<1> USE DEF Live, Mailed
<1> DEFINE own == task[t].ref
           m == task[t].link
<1>a. /\ UNCHANGED <<request, epoch, mail, handle, guard>>
      /\ unresolved' = unresolved \cup {m}
      /\ \A u \in Tasks \ {t} : task'[u] = task[u]
      /\ task[t].pc \in {"openTab", "openSession", "openAssess"}
      /\ task'[t].pc \in {"human", "flow"}
      /\ unresolved \subseteq Requests
  BY DEF OpenTabFails, At, Typed, TasksTyped, TaskRecords, StoresTyped
<1>s. /\ task[t].pc \in Linked /\ task[t].pc \in Section
      /\ task'[t].pc \notin Section /\ task'[t].pc \notin Linked /\ task'[t].pc \notin Dated
      /\ task'[t].pc \notin {"pollHandle", "pollMail", "openToken", "openGuard", "openConsume",
                             "openSend"}
  BY <1>a DEF Section, Linked, Sent, Dated
<1>m. /\ m \in Requests /\ own \in Requests /\ Mailed(m)
      /\ \A ref \in Requests : Tells(ref, mail[m].epoch) => ref = own
      /\ \A u \in Tasks : task[u].pc \in Linked /\ task[u].link = m => u = t
      /\ \A u \in Tasks : task[u].pc \in Section /\ task[u].ref = own => u = t
  BY <1>s, Fields DEF OpensGuarded, TasksDated, OneOpener, OneInSection
<1>b. \A ref, at : Tells(ref, at)' => Tells(ref, at)
  BY <1>a, <1>s DEF Tells
<1>1. DatesNameRequests'
  BY <1>a, <1>b DEF OpensGuarded, DatesNameRequests
<1>2. MailsDated'
  BY <1>a, <1>m DEF OpensGuarded, MailsDated
<1>3. TasksDated'
  BY <1>a, <1>s DEF OpensGuarded, TasksDated
<1>c. \A ref, r \in Requests : Outlasts(ref, r) => Outlasts(ref, r)'
  BY <1>a, <1>s DEF Outlasts
<1>d. \A u \in Tasks, r \in Requests : Opens(u, r)' => Opens(u, r) /\ task'[u].ref = task[u].ref
  BY <1>a, <1>s DEF Opens
<1>4. GuardOutlasts'
  <2> SUFFICES ASSUME NEW ref \in Requests, NEW r \in Requests,
                      \/ r \in unresolved' /\ Tells(ref, mail[r].epoch)'
                      \/ \E u \in Tasks : Opens(u, r)' /\ task'[u].ref = ref
               PROVE  Outlasts(ref, r)'
    BY DEF GuardOutlasts
  <2>1. CASE r = m /\ Tells(ref, mail[r].epoch)
    <3>1. ref = own /\ Opens(t, r)
      BY <1>m, <1>s, <2>1 DEF Opens
    <3> QED
      BY <1>c, <3>1 DEF OpensGuarded, GuardOutlasts
  <2>2. CASE ~ (r = m /\ Tells(ref, mail[r].epoch))
    <3>1. \/ r \in unresolved /\ Tells(ref, mail[r].epoch)
          \/ \E u \in Tasks : Opens(u, r) /\ task[u].ref = ref
      BY <1>a, <1>b, <1>d, <2>2
    <3> QED
      BY <1>c, <3>1 DEF OpensGuarded, GuardOutlasts
  <2> QED
    BY <2>1, <2>2
<1>e. \A ref, r \in Requests : Openable(ref, r)' => Openable(ref, r)
  BY <1>a, <1>s DEF Openable
<1>5. DoubtIsGuarded'
  <2> SUFFICES ASSUME NEW r \in unresolved', NEW ref \in Requests,
                      Tells(ref, mail[r].epoch)', Openable(ref, r)',
                      NEW u \in Tasks, task'[u].pc \in Section, task'[u].ref = ref
               PROVE  task'[u].pc \in Sent /\ task'[u].link = r
    BY DEF DoubtIsGuarded
  <2>1. /\ r \in Requests /\ Tells(ref, mail[r].epoch) /\ Openable(ref, r)
        /\ u # t /\ task'[u] = task[u]
    BY <1>a, <1>b, <1>e, <1>m, <1>s
  <2>2. r # m
    BY <1>m, <2>1
  <2> QED
    BY <1>a, <2>1, <2>2 DEF OpensGuarded, DoubtIsGuarded
<1>6. OneInSection'
  BY <1>a, <1>s DEF OpensGuarded, OneInSection
<1>7. OneOpener'
  BY <1>a, <1>b, <1>s DEF OpensGuarded, OneOpener
<1>8. NotInDoubt'
  <2>1. \A u \in Tasks : task[u].pc = "openSend" /\ task[u].link = m => u = t
    BY <1>m DEF Linked
  <2> QED
    BY <1>a, <1>s, <2>1 DEF OpensGuarded, NotInDoubt, At
<1> QED
  BY <1>1, <1>2, <1>3, <1>4, <1>5, <1>6, <1>7, <1>8 DEF OpensGuarded

\* The steps that take a task to a place where it neither polls nor opens.
LEMMA LeavesPolling ==
  ASSUME TasksTyped, NEW t \in Tasks,
         \/ \E pc : pc \notin Dated \cup Section /\ Goes(t, pc)
         \/ \E pc, item, last : pc \notin Dated \cup Section /\ Begins(t, pc, item, last)
         \/ \E pc, ref, at : pc \notin Dated \cup Section /\ GoesWith(t, pc, ref, at)
         \/ \E pc, last : /\ pc \notin Dated \cup Section
                          /\ task' = [task EXCEPT ![t].pc = pc, ![t].last = last],
         NEW u \in Tasks, task'[u].pc \in Dated \cup Section
  PROVE  task'[u] = task[u]
PROOF
<1>1. task[t] \in TaskRecords /\ "idle" \notin Dated \cup Section
  BY DEF TasksTyped, Dated, Section, Linked, Sent
<1> DEFINE Goal == task'[u] = task[u]
<1>2. ASSUME NEW pc, pc \notin Dated \cup Section, Goes(t, pc)
      PROVE  Goal
  BY <1>1, <1>2 DEF Goes, Rest, TasksTyped, TaskRecords
<1>3. ASSUME NEW pc, NEW item, NEW last, pc \notin Dated \cup Section, Begins(t, pc, item, last)
      PROVE  Goal
  BY <1>3 DEF Begins, Rest, TasksTyped
<1>4. ASSUME NEW pc, NEW ref, NEW at, pc \notin Dated \cup Section, GoesWith(t, pc, ref, at)
      PROVE  Goal
  BY <1>1, <1>4 DEF GoesWith, TasksTyped, TaskRecords
<1>5. ASSUME NEW pc, NEW last, pc \notin Dated \cup Section,
             task' = [task EXCEPT ![t].pc = pc, ![t].last = last]
      PROVE  Goal
  BY <1>1, <1>5 DEF TasksTyped, TaskRecords
<1> QED
  BY <1>2, <1>3, <1>4, <1>5

LEMMA OtherStepsKeepGuarded ==
  ASSUME Typed, OpensGuarded, NEW t \in Tasks,
         \/ PollBegin(t) \/ (\E h \in Handles : OpenBegin(t, h)) \/ PollDefers(t)
         \/ ResumeBegin(t) \/ Resume(t) \/ ClickIntent(t) \/ ClickReserve(t) \/ ClickMark(t)
         \/ ClickSend(t) \/ ClickAnswer(t) \/ ClickRecord(t) \/ FlowExpires(t)
         \/ RecordsUncertain(t) \/ DropsFlow(t) \/ DropsSession(t) \/ QueuesHuman(t) \/ Aborts(t)
         \/ \E s \in Sessions :
              ClickBegin(t, s) \/ Closes(t, s) \/ Expires(t, s) \/ Revalidates(t, s)
  PROVE  OpensGuarded'
PROOF
<1>a. TasksTyped /\ task[t].last \notin Dated \cup Section
  BY DEF Typed, TasksTyped, TaskRecords, Lasts, Dated, Section, Linked, Sent
<1>b. /\ {"idle", "pollContext", "openContext", "resume", "flow", "uncertain", "click", "session",
          "clickReserve", "clickMark", "clickSend", "clickAnswer", "clickRecord", "human"}
           \cap (Dated \cup Section) = {}
  BY DEF Dated, Section, Linked, Sent
<1>c. UNCHANGED <<request, epoch, mail, handle, guard, unresolved>>
  BY DEF PollBegin, OpenBegin, PollDefers, ResumeBegin, Resume, ClickIntent, ClickReserve,
         ClickMark, ClickSend, ClickAnswer, ClickRecord, FlowExpires, RecordsUncertain, DropsFlow,
         DropsSession, QueuesHuman, Aborts, ClickBegin, Closes, Expires, Revalidates, SessionEnds
<1>d. \/ \E pc : pc \notin Dated \cup Section /\ Goes(t, pc)
      \/ \E pc, item, last : pc \notin Dated \cup Section /\ Begins(t, pc, item, last)
      \/ \E pc, ref, at : pc \notin Dated \cup Section /\ GoesWith(t, pc, ref, at)
      \/ \E pc, last : /\ pc \notin Dated \cup Section
                       /\ task' = [task EXCEPT ![t].pc = pc, ![t].last = last]
  <2>1. CASE \/ PollBegin(t) \/ (\E h \in Handles : OpenBegin(t, h)) \/ ResumeBegin(t)
             \/ FlowExpires(t) \/ (\E s \in Sessions : ClickBegin(t, s))
    BY <1>b, <2>1 DEF PollBegin, OpenBegin, ResumeBegin, FlowExpires, ClickBegin
  <2>2. CASE \E s \in Sessions : Closes(t, s) \/ Expires(t, s) \/ Revalidates(t, s)
    BY <1>b, <2>2 DEF Closes, Expires, Revalidates, SessionEnds
  <2>3. CASE \/ PollDefers(t) \/ ClickIntent(t) \/ ClickMark(t) \/ ClickSend(t) \/ ClickAnswer(t)
             \/ ClickRecord(t) \/ RecordsUncertain(t) \/ DropsSession(t) \/ QueuesHuman(t)
             \/ Aborts(t)
    BY <1>b, <2>3 DEF PollDefers, ClickIntent, ClickMark, ClickSend, ClickAnswer, ClickRecord,
                      RecordsUncertain, DropsSession, QueuesHuman, Aborts
  <2>4. CASE DropsFlow(t)
    BY <1>a, <2>4 DEF DropsFlow
  <2>5. CASE ClickReserve(t)
    BY <1>b, <2>5 DEF ClickReserve
  <2>6. CASE Resume(t)
    BY <1>b, <2>6 DEF Resume
  <2> QED
    BY <2>1, <2>2, <2>3, <2>4, <2>5, <2>6
<1>e. \A u \in Tasks : task'[u].pc \in Dated \cup Section => task'[u] = task[u]
  BY <1>a, <1>d, LeavesPolling
<1> QED
  BY <1>c, <1>e, OthersKeepGuarded

LEMMA OpeningKeepsGuarded ==
  ASSUME Typed, OpensGuarded, NEW t \in Tasks,
         \/ OpenAnswer(t) \/ OpenRecord(t) \/ OpenFlow(t) \/ OpenSession(t) \/ OpenAssess(t)
         \/ OpenConsume(t)
  PROVE  OpensGuarded'
PROOF
<1>a. TasksTyped /\ task[t] \in TaskRecords /\ "unguard" \in Section
  BY DEF Typed, TasksTyped, Section
<1>1. CASE OpenAnswer(t)
  <2>1. UNCHANGED <<request, epoch, mail, handle, guard, unresolved>>
    BY <1>1 DEF OpenAnswer
  <2>2. CASE Goes(t, "human")
    <3>1. \A u \in Tasks : task'[u].pc \in Dated \cup Section => task'[u] = task[u]
      BY <1>a, <2>2, LeavesPolling DEF Dated, Section, Linked, Sent
    <3> QED
      BY <2>1, <3>1, OthersKeepGuarded
  <2>3. CASE Goes(t, "openRecord")
    <3>1. /\ \A u \in Tasks \ {t} : task'[u] = task[u]
          /\ task[t].pc = "openAnswer" /\ task'[t].pc = "openRecord" /\ task'[t].ref = task[t].ref
          /\ task'[t].old = task[t].old /\ task'[t].link = task[t].link
      BY <1>1, <1>a, <2>3 DEF OpenAnswer, At, Goes, TasksTyped, TaskRecords
    <3> QED
      BY <2>1, <3>1, SectionKeepsGuarded DEF Section, Linked, Sent
  <2> QED
    BY <1>1, <2>2, <2>3 DEF OpenAnswer
<1>2. CASE OpenRecord(t)
  <2>1. UNCHANGED <<request, epoch, mail, handle, guard>> /\ task[t].pc = "openRecord"
    BY <1>2 DEF OpenRecord, At
  <2>2. CASE Goes(t, "idle") /\ UNCHANGED unresolved
    <3>1. \A u \in Tasks : task'[u].pc \in Dated \cup Section => task'[u] = task[u]
      BY <1>a, <2>2, LeavesPolling DEF Dated, Section, Linked, Sent
    <3> QED
      BY <2>1, <2>2, <3>1, OthersKeepGuarded
  <2>3. CASE Goes(t, "unguard") /\ unresolved' = unresolved \ {task[t].link}
    <3>1. /\ \A u \in Tasks \ {t} : task'[u] = task[u]
          /\ task'[t].pc = "unguard" /\ task'[t].ref = task[t].ref /\ task'[t].old = task[t].old
      BY <1>a, <2>3 DEF Goes, TasksTyped, TaskRecords
    <3> QED
      BY <2>1, <2>3, <3>1, SectionKeepsGuarded DEF Section, Linked, Sent
  <2> QED
    BY <1>2, <2>2, <2>3 DEF OpenRecord
<1>3. CASE OpenFlow(t)
  <2>1. /\ UNCHANGED <<request, epoch, mail, handle, guard, unresolved>>
        /\ \A u \in Tasks \ {t} : task'[u] = task[u]
        /\ task[t].pc = "openTab" /\ task'[t].pc = "openSession" /\ task'[t].ref = task[t].ref
        /\ task'[t].old = task[t].old /\ task'[t].link = task[t].link
    BY <1>3, <1>a DEF OpenFlow, At, Goes, TasksTyped, TaskRecords
  <2> QED
    BY <2>1, SectionKeepsGuarded DEF Section, Linked, Sent
<1>4. CASE OpenSession(t)
  <2>1. /\ UNCHANGED <<request, epoch, mail, handle, guard>>
        /\ unresolved' = unresolved \ {task[t].link}
        /\ \A u \in Tasks \ {t} : task'[u] = task[u]
        /\ task[t].pc = "openSession" /\ task'[t].pc = "openAssess" /\ task'[t].ref = task[t].ref
        /\ task'[t].old = task[t].old /\ task'[t].link = task[t].link
    <3>1. PICK s \in Sessions : task' = [task EXCEPT ![t].pc = "openAssess", ![t].item = s]
      BY <1>4 DEF OpenSession
    <3>2. /\ UNCHANGED <<request, epoch, mail, handle, guard>>
          /\ unresolved' = unresolved \ {task[t].link} /\ task[t].pc = "openSession"
      BY <1>4 DEF OpenSession, At
    <3> QED
      BY <1>a, <3>1, <3>2 DEF TasksTyped, TaskRecords
  <2> QED
    BY <2>1, SectionKeepsGuarded DEF Section, Linked, Sent
<1>5. CASE OpenAssess(t)
  <2>1. /\ UNCHANGED <<request, epoch, mail, handle, guard, unresolved>>
        /\ \A u \in Tasks \ {t} : task'[u] = task[u]
        /\ task[t].pc = "openAssess" /\ task'[t].pc = "unguard" /\ task'[t].ref = task[t].ref
        /\ task'[t].old = task[t].old
    BY <1>5, <1>a DEF OpenAssess, At, Goes, TasksTyped, TaskRecords
  <2> QED
    BY <2>1, SectionKeepsGuarded DEF Section, Linked, Sent
<1>6. CASE OpenConsume(t)
  <2>1. CASE Live(task[t].item)
    BY <1>6, <2>1, ConsumeKeepsGuarded
  <2>2. CASE ~ Live(task[t].item)
    <3>1. /\ UNCHANGED <<request, epoch, mail, handle, guard, unresolved>>
          /\ \A u \in Tasks \ {t} : task'[u] = task[u]
          /\ task[t].pc = "openConsume" /\ task'[t].pc = "unguard" /\ task'[t].ref = task[t].ref
          /\ task'[t].old = task[t].old
      BY <1>6, <1>a, <2>2 DEF OpenConsume, Live, At, Goes, TasksTyped, TaskRecords
    <3> QED
      BY <3>1, SectionKeepsGuarded DEF Section, Linked, Sent
  <2> QED
    BY <2>1, <2>2
<1> QED
  BY <1>1, <1>2, <1>3, <1>4, <1>5, <1>6

LEMMA PollingKeepsGuarded ==
  ASSUME Typed, OpensGuarded, NEW t \in Tasks,
         PollGuard(t) \/ \E r \in Requests : PollFinds(t, r)
  PROVE  OpensGuarded'
PROOF
<1>a. TasksTyped /\ task[t] \in TaskRecords
  BY DEF Typed, TasksTyped
<1>1. CASE PollGuard(t)
  <2>1. /\ UNCHANGED <<request, epoch, mail, handle, guard, unresolved>>
        /\ \A u \in Tasks \ {t} : task'[u] = task[u]
        /\ task'[t].ref = task[t].ref /\ task'[t].epoch = task[t].epoch
        /\ task'[t].old = task[t].old
        /\ task[t].pc = "pollGuard" /\ task'[t].pc = "pollMail" /\ ~ GuardLive(task[t].ref)
    BY <1>1, <1>a DEF PollGuard, At, Goes, TasksTyped, TaskRecords
  <2>2. task[t].ref \in Requests
    BY <2>1, Fields DEF Dated
  <2> QED
    BY <2>1, <2>2, PollKeepsGuarded
<1>2. CASE \E r \in Requests : PollFinds(t, r)
  <2>1. PICK r \in Requests : PollFinds(t, r)
    BY <1>2
  <2>2. UNCHANGED <<request, epoch, mail, handle, guard, unresolved>>
    BY <2>1 DEF PollFinds
  <2>3. CASE Goes(t, "idle")
    <3>1. \A u \in Tasks : task'[u].pc \in Dated \cup Section => task'[u] = task[u]
      BY <1>a, <2>3, LeavesPolling DEF Dated, Section, Linked, Sent
    <3> QED
      BY <2>2, <3>1, OthersKeepGuarded
  <2>4. CASE task' = [task EXCEPT ![t].pc = "pollHandle", ![t].link = r]
    <3>1. /\ \A u \in Tasks \ {t} : task'[u] = task[u]
          /\ task'[t].ref = task[t].ref /\ task'[t].epoch = task[t].epoch
          /\ task'[t].old = task[t].old /\ task'[t].link = r
          /\ task[t].pc = "pollMail" /\ task'[t].pc = "pollHandle" /\ Observable(t, r)
      BY <1>a, <2>1, <2>4 DEF PollFinds, At, TasksTyped, TaskRecords
    <3> QED
      BY <2>2, <3>1, PollKeepsGuarded
  <2> QED
    BY <2>1, <2>3, <2>4 DEF PollFinds
<1> QED
  BY <1>1, <1>2

LEMMA GuardedStep ==
  ASSUME Typed, OpensGuarded, [VerificationNext]_verificationVars
  PROVE  OpensGuarded'
PROOF
<1>1. CASE \/ RequestReserved \/ DedupeLapses \/ Relisted \/ FlowLapses
           \/ UNCHANGED verificationVars
  <2>1. UNCHANGED <<request, epoch, mail, handle, guard, unresolved, task>>
    BY <1>1 DEF RequestReserved, DedupeLapses, Relisted, FlowLapses, mailVars, verificationVars
  <2> QED
    BY <2>1, OthersKeepGuarded
<1>2. CASE RequestRecorded
  <2>1. /\ UNCHANGED <<mail, handle, guard, task, unresolved>>
        /\ epoch' = epoch + 1 /\ request' \in Nat
    BY <1>2, Fields DEF RequestRecorded
  <2> QED
    BY <2>1, EntriesKeepGuarded
<1>3. CASE Reconciled
  <2>1. UNCHANGED <<request, mail, handle, guard, task, unresolved>>
    BY <1>3 DEF Reconciled
  <2>2. CASE epoch' = epoch
    BY <2>1, <2>2, OthersKeepGuarded
  <2>3. CASE epoch' = epoch + 1
    BY <2>1, <2>3, Fields, EntriesKeepGuarded
  <2> QED
    BY <1>3, <2>2, <2>3 DEF Reconciled
<1>4. CASE \E r \in Requests : MailArrives(r)
  BY <1>4, MailKeepsGuarded
<1>5. CASE GatewayRestarts
  <2>1. \A t \in Tasks : task'[t].pc \notin Dated \cup Section
    BY <1>5 DEF GatewayRestarts, Rest, Dated, Section, Linked, Sent
  <2>2. UNCHANGED <<request, epoch, mail, handle, guard, unresolved>>
    BY <1>5 DEF GatewayRestarts
  <2> QED
    BY <2>1, <2>2, OthersKeepGuarded
<1>6. CASE DayPasses
  BY <1>6, DayKeepsGuarded
<1>7. ASSUME NEW t \in Tasks, TaskStep(t)
      PROVE  OpensGuarded'
  BY <1>7, ContextKeepsGuarded, PollingKeepsGuarded, HandleKeepsGuarded, TokenKeepsGuarded,
     GuardKeepsGuarded, OpeningKeepsGuarded, SendKeepsGuarded, UnguardKeepsGuarded,
     FailureKeepsGuarded, OtherStepsKeepGuarded DEF TaskStep
<1> QED
  BY <1>1, <1>2, <1>3, <1>4, <1>5, <1>6, <1>7 DEF VerificationNext

LEMMA GuardedInit ==
  ASSUME VerificationInit
  PROVE  OpensGuarded
PROOF
<1>1. /\ \A t \in Tasks : task[t].pc = "idle"
      /\ \A h \in Handles : handle[h].days = 0
      /\ \A r \in Requests : mail[r].days = -1 /\ mail[r].epoch = 0
      /\ unresolved = {} /\ request = 0 /\ epoch = 0
  BY DEF VerificationInit, MailInit, Rest, NoHandle, NoMail, Never
<1>2. \A t \in Tasks :
        /\ task[t].pc \notin Dated /\ task[t].pc \notin Section /\ task[t].pc \notin Linked
        /\ task[t].pc \notin {"pollHandle", "pollMail", "openToken", "openGuard", "openConsume",
                              "openSend"}
  BY <1>1 DEF Dated, Section, Linked, Sent
<1>3. \A ref, at \in Nat : Tells(ref, at) => ref = 0 /\ at = 0
  BY <1>1, <1>2 DEF Tells, Live
<1>4. HandleDays \in Nat /\ MailDays \in Nat
  BY VerificationAssumption
<1>5. DatesNameRequests /\ MailsDated /\ TasksDated
  BY <1>1, <1>2, <1>3, <1>4 DEF DatesNameRequests, MailsDated, TasksDated, Live
<1>6. GuardOutlasts /\ DoubtIsGuarded /\ OneInSection /\ OneOpener /\ NotInDoubt
  BY <1>1, <1>2 DEF GuardOutlasts, DoubtIsGuarded, OneInSection, OneOpener, NotInDoubt, Opens, At
<1> QED
  BY <1>5, <1>6 DEF OpensGuarded

\* Whatever handles, polls, crashes, failed records and resumed tabs there are,
\* nothing opens the link of a mail while an earlier open of it is in doubt: for
\* any number of tasks, handles and requests, and any lifetimes in which the open
\* guard outlives a handle and lasts as long as a mail is searched for.
THEOREM NeverReopenedBlindly == VerificationSpec => NoBlindReopen
PROOF
<1>1. VerificationInit => VerificationTypeOK /\ OpensGuarded
  BY VerificationInitTyped, GuardedInit
<1>2. VerificationTypeOK /\ OpensGuarded /\ [VerificationNext]_verificationVars =>
        (VerificationTypeOK /\ OpensGuarded)'
  BY VerificationTypeStep, GuardedStep DEF VerificationTypeOK, Typed
<1>3. VerificationTypeOK /\ OpensGuarded /\ [VerificationNext]_verificationVars =>
        [\A t \in Tasks :
           At(t, "openSend") /\ task'[t].pc \in {"openTab", "openAnswer"} =>
             task[t].link \notin unresolved]_verificationVars
  BY DEF OpensGuarded, NotInDoubt
<1> QED
  BY <1>1, <1>2, <1>3, PTL DEF VerificationSpec, NoBlindReopen

===============================================================================
