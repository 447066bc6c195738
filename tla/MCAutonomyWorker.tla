------------------------- MODULE MCAutonomyWorker -----------------------------
(* Small instances of AutonomyWorker for TLC.                                  *)
EXTENDS AutonomyWorker, TLC

Interchangeable == Permutations(Turns) \cup Permutations(Calls) \cup Permutations(Commands)

\* WorkerRaces compares states without what no guard reads.
RacesView == <<now, worker, leases, grant, drift, up, crashes, turn, recovery, call,
               wake, exposed, approvals, observed, credited>>

===============================================================================
