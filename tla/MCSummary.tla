---------------------------- MODULE MCSummary ----------------------------
(* Summary for TLC: one receipt at a time is enough for the classes of rows. *)
EXTENDS Summary, FiniteSets

OneReceipt == Cardinality(log) <= 1

=============================================================================
