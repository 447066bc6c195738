----------------------------- MODULE RemovalClaim -----------------------------
(* What a broker may rely on, and the person with it: the requests of one case *)
(* are numbered, one follows another only when the outcome of the former is    *)
(* decided, and none is sent that was not claimed on the record first.  The    *)
(* tools, lanes, stores and crashes that bring this about are left out:        *)
(* RemovalSubmission implements this module.                                   *)
EXTENDS Naturals

VARIABLES
  phase,     \* of the last request: "none", "claimed", "open", or "void"
  request    \* how many requests were claimed

claimVars == <<phase, request>>

Init == phase = "none" /\ request = 0

\* A new request is put on the record.
Claim ==
  /\ phase = "none"
  /\ phase' = "claimed" /\ request' = request + 1

\* From now on the broker may have received it.
Open ==
  /\ phase = "claimed"
  /\ phase' = "open" /\ UNCHANGED request

\* The outcome is on the record: sent, or provably not sent.
Decide ==
  /\ phase \in {"claimed", "open"}
  /\ phase' = "none" /\ UNCHANGED request

\* A claim was taken off the record undecided; nothing is promised from here on.
Forfeit == phase' = "void" /\ request' = 0

Next == Claim \/ Open \/ Decide \/ Forfeit

Spec == Init /\ [][Next]_claimVars

===============================================================================
