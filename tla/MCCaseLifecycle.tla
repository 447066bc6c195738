-------------------------- MODULE MCCaseLifecycle -----------------------------
(* Small instances of CaseLifecycle and DropFiling for TLC.  The two ways to   *)
(* drive the case ledger share the clock: a behaviour plays one of them, the   *)
(* other stays where it starts.                                                *)
EXTENDS CaseLifecycle, DropFiling, TLC

VARIABLE side    \* "life" or "drop": the module that is played

lifeVars == <<brokerCase, scan, captured, sent, absences>>

PartsInit ==
  /\ Init /\ DropInit
  /\ side \in {"life", "drop"}

PartsNext ==
  \/ side = "life" /\ Next /\ UNCHANGED <<side, dropVars>>
  \/ side = "drop" /\ DropNext /\ UNCHANGED <<side, lifeVars>>

PartsSpec == PartsInit /\ [][PartsNext]_<<now, side, lifeVars, dropVars>>

Interchangeable == Permutations(Rescans) \cup Permutations(Calls)

===============================================================================
