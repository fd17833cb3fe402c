----------------------------- MODULE DurableLog -----------------------------
(***************************************************************************)
(* What the journal's storage promises the state machine above it.         *)
(*                                                                         *)
(* There is one sequence of records.  A running handle extends it by one   *)
(* record at a time and acknowledges a record only once it is there to     *)
(* stay.  When the handle stops, records nobody was told about may vanish, *)
(* but the acknowledged ones never do and their order never changes.       *)
(* pkg/journal/storage.go and replay.go implement this with a log file, a  *)
(* head file and a directory: see JournalStorage.                          *)
(***************************************************************************)
EXTENDS Naturals, Sequences

CONSTANT Record             \* the records a caller may append

VARIABLES
  stored,     \* the records replay would find now
  acked,      \* the longest history a caller was told is durable
  serving     \* a handle is open on the journal

abstractVars == <<stored, acked, serving>>

Init ==
  /\ stored = << >>
  /\ acked = << >>
  /\ serving = FALSE

\* appendRecord has written its frame; nobody has been told yet.
Write(r) ==
  /\ serving
  /\ stored' = Append(stored, r)
  /\ UNCHANGED <<acked, serving>>

\* appendRecord returns: every record so far is now promised.
Acknowledge ==
  /\ serving
  /\ acked' = stored
  /\ UNCHANGED <<stored, serving>>

\* Open succeeds.
Serve ==
  /\ ~serving
  /\ serving' = TRUE
  /\ UNCHANGED <<stored, acked>>

\* Close, a failed Open, a crash or a power loss: the handle is gone, and
\* with it possibly records that were never acknowledged.
Stop ==
  /\ serving' = FALSE
  /\ \E k \in Len(acked) .. Len(stored) : stored' = SubSeq(stored, 1, k)
  /\ UNCHANGED acked

Next ==
  \/ \E r \in Record : Write(r)
  \/ Acknowledge
  \/ Serve
  \/ Stop

Spec == Init /\ [][Next]_abstractVars
=============================================================================
