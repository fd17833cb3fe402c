------------------------ MODULE MCPostgreSQLAdapter ------------------------
(* Small instances of PostgreSQLAdapter for TLC. *)
EXTENDS PostgreSQLAdapter

CONSTANTS a, b

\* One operation with kills and errors, with losses of power, or with commands
\* that outlive a killed or timed out client; two operations whose calls
\* interleave; and a transactions directory that was never written.
OneOrTwo ==
  { [faults |-> {"io", "kill", "exit"}, budget |-> 2, ops |-> {a}, rooted |-> TRUE],
    [faults |-> {"power", "exit"}, budget |-> 2, ops |-> {a}, rooted |-> TRUE],
    [faults |-> {"late", "kill"}, budget |-> 2, ops |-> {a}, rooted |-> TRUE],
    [faults |-> {"kill"}, budget |-> 1, ops |-> {a, b}, rooted |-> TRUE],
    [faults |-> {"power"}, budget |-> 1, ops |-> {a, b}, rooted |-> FALSE] }
=============================================================================
