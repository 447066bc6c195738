--------------------------- MODULE MCEvidenceVault ----------------------------
(* Small instances of EvidenceVault for TLC.                                   *)
EXTENDS EvidenceVault

\* Three calls cannot put, and then read or export, two records: which of the two
\* is read and exported makes no difference, and the other one only has to come
\* in the way of the first.
OneRecordRead ==
  RefOf(tx.export) # RefOf(NoTx.export) => tx.kind = "put" /\ tx.retention = NoTx.retention

===============================================================================
