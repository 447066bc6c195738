------------------------ MODULE MCRemovalSubmission ---------------------------
(* Small instances of RemovalSubmission for TLC.                               *)
EXTENDS RemovalSubmission, TLC

Interchangeable == Permutations(Runs)

\* Once a flag is lost the safety properties promise nothing more.
NothingLost == lost = {}

\* A recorded first absence differs from a verification only in dates and in the
\* absence clock, which no guard of a submission reads.
NoAbsenceClock == brokerCase.absentAt = Never

\* Nor does any guard then read the dates and scope of the case; its outcome is
\* read in action_selected alone and its channel while it is flagged, and both
\* are written on the way there.  States that differ elsewhere behave alike.
Read ==
  [state |-> brokerCase.state,
   refused |-> brokerCase.state = "action_selected" /\ brokerCase.outcome = "human_not_started",
   channel |-> IF brokerCase.state \in Flagged THEN brokerCase.channel ELSE "none"]
View == <<Read, dedupe, scopeMark, run, session, review, attempts, doubt, lost>>

===============================================================================
