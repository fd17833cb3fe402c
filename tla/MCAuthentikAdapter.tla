------------------------- MODULE MCAuthentikAdapter -------------------------
(* Small instances of AuthentikAdapter for TLC. *)
EXTENDS AuthentikAdapter

CONSTANTS a, b

\* One operation with kills and errors, where containers end or not, or with
\* losses of power, of which the directory of the transactions may be the victim;
\* two operations whose calls interleave.
OneOrTwo ==
  { [faults |-> {"io", "kill"}, budget |-> 2, ops |-> {a}, rooted |-> TRUE],
    [faults |-> {"kill", "exit"}, budget |-> 2, ops |-> {a}, rooted |-> TRUE],
    [faults |-> {"power"}, budget |-> 2, ops |-> {a}, rooted |-> TRUE],
    [faults |-> {"power"}, budget |-> 1, ops |-> {a}, rooted |-> FALSE],
    [faults |-> {}, budget |-> 0, ops |-> {a, b}, rooted |-> TRUE] }
=============================================================================
