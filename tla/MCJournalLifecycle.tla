------------------------- MODULE MCJournalLifecycle -------------------------
(* Small instances of JournalLifecycle for TLC. *)
EXTENDS JournalLifecycle, TLC

Symmetry == Permutations(Proc)

\* Who opens the journal waits for Create, or not.
Mixed ==
  { [faults |-> {"io"}, budget |-> 2, patient |-> TRUE],
    [faults |-> {"io", "open", "power"}, budget |-> 2, patient |-> TRUE],
    [faults |-> {"io", "remove", "power"}, budget |-> 2, patient |-> TRUE],
    [faults |-> {"kill", "power"}, budget |-> 2, patient |-> TRUE],
    [faults |-> {"io", "kill"}, budget |-> 1, patient |-> FALSE] }

\* Nobody waits, and nothing fails.
Impatient == {[faults |-> {}, budget |-> 0, patient |-> FALSE]}
=============================================================================
