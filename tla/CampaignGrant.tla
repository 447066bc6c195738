---------------------------- MODULE CampaignGrant ----------------------------
(* The finite standing grant of lib/campaigns.mjs: one encrypted record that   *)
(* every provider effect of a campaign must be charged to.  Each operation of  *)
(* the ledger is one atomic store.update, hence one action.  The identifiers   *)
(* and digests an operation compares are abstracted by its caller: here only   *)
(* the status, the budget and the expiry remain.                               *)
EXTENDS Clock

CONSTANTS
  GrantEnd,     \* the tick at which the grant expires (expiresAt)
  MaxEffects    \* maxEffects: how many effect units the operator approved

ASSUME GrantAssumption == GrantEnd \in Nat /\ MaxEffects \in Nat \ {0}

VARIABLE grant   \* the stored campaign record

GrantStatus == {"active", "completed", "revoked"}

GrantTypeOK == grant \in [status : GrantStatus, used : 0 .. MaxEffects]

\* start: the record as registered after the operator's approval.
GrantInit == grant = [status |-> "active", used |-> 0]

\* validateStored refuses an active record past its expiry, so every operation
\* on it throws, the revocation included.
Readable == grant.status = "active" => now < GrantEnd

\* consume: charge n units and close the grant with the last one.
Consume(n) ==
  /\ Readable
  /\ grant.status = "active"
  /\ grant.used + n <= MaxEffects
  /\ grant' = [status |-> IF grant.used + n = MaxEffects THEN "completed" ELSE "active",
               used   |-> grant.used + n]

\* revoke: closes an active grant and overwrites a completed one.
RevokeGrant ==
  /\ Readable
  /\ grant' = [grant EXCEPT !.status = "revoked"]

=============================================================================
