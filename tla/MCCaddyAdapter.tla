--------------------------- MODULE MCCaddyAdapter ---------------------------
(* Small instances of CaddyAdapter for TLC. *)
EXTENDS CaddyAdapter, TLC

CONSTANTS a, b, c0, c1, c2

OneCandidate == (a :> {c1}) @@ (b :> {})
TwoCandidates == (a :> {c1}) @@ (b :> {c2})

\* Every fault together; kills and errors, or losses of power, with one
\* operation that may be rolled back; kills, or losses of power, with two.
Mixed ==
  [faults : {{"io", "kill", "power", "late"}, {"io", "kill"}, {"power"}},
   candidates : {OneCandidate}] \cup
  [faults : {{"kill"}, {"power"}}, candidates : {TwoCandidates}]

OnlyKilled == {[faults |-> {"kill"}, candidates |-> OneCandidate]}

Distinct == (c0 :> 0) @@ (c1 :> 1) @@ (c2 :> 2)
=============================================================================
