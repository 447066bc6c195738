------------------------- MODULE MCStoreTransactions --------------------------
(* Small instances of StoreTransactions for TLC.                               *)
EXTENDS StoreTransactions, TLC

Interchangeable == Permutations(Procs)

\* After a rename of a live lock two processes may hold it.
NoMisfire == ~misfired

===============================================================================
