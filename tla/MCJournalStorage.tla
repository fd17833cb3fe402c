-------------------------- MODULE MCJournalStorage --------------------------
(* Small instances of JournalStorage for TLC. *)
EXTENDS JournalStorage

CONSTANTS r1, r2

\* Two payloads tell a record from the one that replaced it.
TwoRecords == {r1, r2}
=============================================================================
