------------------------------ MODULE DropFiling ------------------------------
(* California DROP and the GPC preference: what a person has done or seen in a *)
(* portal or a browser, recorded by tool calls that each need an approval.     *)
(* The dialog shows the latest proof; the tool compares it with the proof it   *)
(* reads and writes the ledger some awaits later.  The life of a binding       *)
(* (answers, expiry) is in Approvals: here the operator allows or refuses.     *)
(* The proof of a record is its serial number.                                 *)
EXTENDS CaseLedger

CONSTANTS
  Calls,            \* tool call identifiers of the host
  ProcessingStart,  \* processing_starts_at
  CycleTicks,       \* broker_access_cycle_days
  OrdinaryTicks,    \* ordinary_processing_days
  MaxRecords        \* bound: records of one kind

ASSUME DropAssumption ==
  /\ {ProcessingStart, MaxRecords} \subseteq Nat
  /\ {CycleTicks, OrdinaryTicks} \subseteq Nat \ {0}

VARIABLES
  filing,      \* the case ca_drop
  preference,  \* the proof of the recorded GPC observation
  call         \* per tool call, what the operator was shown and allowed

dropVars == <<filing, preference, call>>

Statuses == {"pending", "deleted", "needs_manual_check"}
Kinds == {"filed", "gpc"} \cup Statuses
NoFiling == [state |-> "new", status |-> "none", proof |-> 0, at |-> Never,
             deadline |-> Never, recheck |-> Never]
AtRest == [pc |-> "idle"]

DropInit ==
  /\ filing = NoFiling /\ preference = 0
  /\ call = [c \in Calls |-> AtRest]

-----------------------------------------------------------------------------
(* calculateDropSchedule                                                     *)

Earlier(a, b) == IF a < b THEN a ELSE b
OrdinaryDeadline(filed) ==
  (IF filed < ProcessingStart THEN ProcessingStart ELSE filed) + OrdinaryTicks
FirstStatusCheck(filed) ==
  IF filed < ProcessingStart THEN ProcessingStart
  ELSE Earlier(filed + CycleTicks, OrdinaryDeadline(filed))

\* When a person should look again after a status seen now.
NextStatusCheck(status) ==
  IF status = "deleted" THEN now + CycleTicks
  ELSE IF now < ProcessingStart THEN ProcessingStart
  ELSE Earlier(now + CycleTicks, filing.deadline)

-----------------------------------------------------------------------------
(* The dialogs                                                               *)

\* The proof the hook shows and the tool compares; a filing replaces none.
Revision(kind) ==
  CASE kind = "gpc" -> preference [] kind \in Statuses -> filing.proof [] kind = "filed" -> 0

\* dropCaseBindingContext finds a filing, gpcCurrentProofReference any proof or none.
Ask(c, kind) ==
  /\ call[c] = AtRest
  /\ kind \in Statuses => filing.proof > 0
  /\ call' = [call EXCEPT ![c] = [pc |-> "asked", kind |-> kind, shown |-> Revision(kind)]]
  /\ UNCHANGED <<now, filing, preference>>

\* The tool reads again, compares and takes the binding out of the table.
Clear(c) ==
  /\ call[c].pc = "asked" /\ call[c].shown = Revision(call[c].kind)
  /\ call' = [call EXCEPT ![c].pc = "cleared"]
  /\ UNCHANGED <<now, filing, preference>>

\* Denied, expired or bound to something that has changed; or a ledger that
\* cannot be written.
Refuse(c) ==
  /\ call[c].pc \in {"asked", "cleared"}
  /\ call' = [call EXCEPT ![c] = AtRest]
  /\ UNCHANGED <<now, filing, preference>>

-----------------------------------------------------------------------------
(* The ledger                                                                *)

\* Fault: a filing a person has to review may be recorded anew.
FileableAgain == filing.state \in {"new", "action_selected", "request_rejected", "blocked",
                                   "human_task_queued"}

Fileable == filing.state \in {"new", "action_selected", "request_rejected", "blocked"}

\* recordDropFiled, or its refusal of a second filing.
RecordFiled(c) ==
  /\ call[c].pc = "cleared" /\ call[c].kind = "filed"
  /\ filing.proof < MaxRecords
  /\ filing' = IF ~Fileable THEN filing ELSE
       [state |-> IF now < ProcessingStart THEN "submitted" ELSE "awaiting_processing",
        status |-> "filed", proof |-> filing.proof + 1, at |-> now,
        deadline |-> OrdinaryDeadline(now), recheck |-> FirstStatusCheck(now)]
  /\ call' = [call EXCEPT ![c] = AtRest]
  /\ UNCHANGED <<now, preference>>

\* Fault: the deadline itself still counts as time left.
TargetAfterDeadline(status) ==
  IF status = "needs_manual_check" \/ (status = "pending" /\ now > filing.deadline)
    THEN "human_task_queued"
  ELSE IF now >= ProcessingStart THEN "awaiting_processing" ELSE "submitted"

\* Where a status leads: a person takes over from a doubt, or from a request
\* that is pending when its ordinary deadline has come.
StatusTarget(status) ==
  IF status = "needs_manual_check" \/ (status = "pending" /\ now >= filing.deadline)
    THEN "human_task_queued"
  ELSE IF now >= ProcessingStart THEN "awaiting_processing" ELSE "submitted"

Observable(status) ==
  /\ filing.state \in {"submitted", "awaiting_processing", "human_task_queued"}
  /\ status = "deleted" => now >= ProcessingStart
  /\ StatusTarget(status) \in {filing.state} \cup Transitions[filing.state]

\* recordDropStatus, or its refusal.  Nothing is compared with the proof shown.
RecordStatus(c) ==
  LET status == call[c].kind IN
  /\ call[c].pc = "cleared" /\ status \in Statuses
  /\ filing.proof < MaxRecords
  /\ filing' = IF ~Observable(status) THEN filing ELSE
       [filing EXCEPT !.state = StatusTarget(status), !.status = status,
                      !.proof = @ + 1, !.at = now,
                      !.recheck = IF StatusTarget(status) = "human_task_queued" THEN Never
                                  ELSE NextStatusCheck(status)]
  /\ call' = [call EXCEPT ![c] = AtRest]
  /\ UNCHANGED <<now, preference>>

\* preferenceStore.register: replaces whatever is recorded.
RecordPreference(c) ==
  /\ call[c].pc = "cleared" /\ call[c].kind = "gpc"
  /\ preference < MaxRecords /\ preference' = preference + 1
  /\ call' = [call EXCEPT ![c] = AtRest]
  /\ UNCHANGED <<now, filing>>

GatewayRestart ==
  /\ call' = [c \in Calls |-> AtRest]
  /\ UNCHANGED <<now, filing, preference>>

DropNext ==
  \/ \E c \in Calls, kind \in Kinds : Ask(c, kind)
  \/ \E c \in Calls : Clear(c) \/ Refuse(c)
  \/ \E c \in Calls : RecordFiled(c) \/ RecordStatus(c) \/ RecordPreference(c)
  \/ GatewayRestart
  \/ ClockTicks /\ UNCHANGED dropVars

DropSpec == ClockInit /\ DropInit /\ [][DropNext]_<<now, dropVars>>

-----------------------------------------------------------------------------
(* Properties *)

\* Whatever statuses were recorded when, and by which overlapping calls: a filing
\* no person holds is looked at again, not before brokers process, later than the
\* last look, and not after the ordinary deadline unless DROP claimed deletion.
FilingWatched ==
  filing.state \in InFlight =>
    /\ filing.recheck > filing.at /\ filing.recheck >= ProcessingStart
    /\ filing.status # "deleted" => filing.recheck <= filing.deadline
    /\ filing.state = "submitted" <=> filing.at < ProcessingStart

\* The deadline a person was promised at the filing is the one that stands:
\* approvals of a second filing, given before the first was recorded, come too late.
DeadlineStands ==
  [][filing.deadline # Never => filing'.deadline = filing.deadline]_dropVars

===============================================================================
