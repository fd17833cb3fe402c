----------------------------- MODULE MCStackPlan -----------------------------
(* Small instances of StackPlan for TLC. *)
EXTENDS StackPlan

Entry == [id : Id, dependsOn : SUBSET Id]

\* Every list of up to two entries over all IDs: repeated IDs, unknown and
\* own dependencies included, and the empty manifest.
AnyShortManifest == UNION {[1 .. n -> Entry] : n \in 0 .. 2}

\* Every dependency graph on all IDs without self-loops, listed ascending.
EveryGraph ==
  {m \in [1 .. Cardinality(Id) -> Entry] :
     \A i \in DOMAIN m : m[i].id = i /\ i \notin m[i].dependsOn}

EveryManifest == AnyShortManifest \cup EveryGraph
=============================================================================
