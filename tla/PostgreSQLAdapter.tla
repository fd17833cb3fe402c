------------------------- MODULE PostgreSQLAdapter -------------------------
(***************************************************************************)
(* internal/adapters/postgresql: one PostgreSQL container is replaced by a *)
(* candidate on the same data directory.  The previous container is        *)
(* stopped and kept under the operation's rollback name; a rollback stops  *)
(* and removes the candidate, renames the previous one back and starts it  *)
(* if it was running.                                                      *)
(***************************************************************************)
EXTENDS ContainerAdapter

Server == "postgresql"
ASSUME PostgreSQLAssumption == Role = {Server}

P == Primary(Server)
R(op) == Rollback(Server, op)

\* A container of the previous generation, running or not, or none; a server
\* that runs has initialised its directory.
Init ==
  \E c \in {None} \cup [generation : {Initial}, running : BOOLEAN],
     d \in {"empty", "initialized"} :
    /\ c # None /\ c.running => d = "initialized"
    /\ InitWith([r \in Role |-> c], d)

Preflight(op) == Prepare(op, IF Absent(P) THEN None ELSE containers[P].generation)

Stage(op) == StageTransaction(op)
ReconcileStage(op) == ReconcileTransaction(op)
RollbackStage(op) == RemoveTransaction(op)

-----------------------------------------------------------------------------
(* The forward calls. *)

\* validRollbackPosition: the previous container rests under its rollback name.
RollbackPosition(op) ==
  IF Previous(op) = None THEN Absent(R(op)) ELSE Stopped(R(op), Previous(op))

StopPrevious(op) ==
  /\ Mutate(op, StopCommand(P))
  /\ Holds(P, Previous(op)) /\ Running(P) /\ Absent(R(op))

\* Faulty variant: a server that still runs is renamed.
PreservePreviousRunning(op) ==
  /\ Mutate(op, RenameCommand(P, R(op)))
  /\ Holds(P, Previous(op)) /\ Absent(R(op))

PreservePrevious(op) ==
  /\ Mutate(op, RenameCommand(P, R(op)))
  /\ Stopped(P, Previous(op)) /\ Absent(R(op))

CreateCandidate(op) ==
  /\ Mutate(op, CreateCommand(P, op))
  /\ Absent(P) /\ RollbackPosition(op)

StartCandidate(op) ==
  /\ Mutate(op, StartCommand(P))
  /\ Stopped(P, op) /\ RollbackPosition(op)

-----------------------------------------------------------------------------
(* The rollback calls, and the state in which each of them has something to *)
(* do.                                                                      *)

CandidateRuns(op) == Holds(P, op) /\ Running(P) /\ RollbackPosition(op)
CandidateRests(op) == Stopped(P, op) /\ RollbackPosition(op)
PreviousAside(op) == Absent(P) /\ Previous(op) # None /\ Stopped(R(op), Previous(op))
PreviousRests(op) ==
  /\ Stopped(P, Previous(op)) /\ Absent(R(op))
  /\ tx.final[op].running[Server]

StopCandidate(op) == Mutate(op, StopCommand(P)) /\ CandidateRuns(op)

\* Faulty variant: whatever stands stopped under the primary name is removed.
RemoveCandidateUnchecked(op) ==
  /\ Mutate(op, RemoveCommand(P, op))
  /\ ~Absent(P) /\ ~Running(P)

RemoveCandidate(op) == Mutate(op, RemoveCommand(P, op)) /\ CandidateRests(op)
RestorePrevious(op) == Mutate(op, RenameCommand(R(op), P)) /\ PreviousAside(op)
RestartPrevious(op) == Mutate(op, StartCommand(P)) /\ PreviousRests(op)

RollbackCall(op) ==
  StopCandidate(op) \/ RemoveCandidate(op) \/ RestorePrevious(op) \/ RestartPrevious(op)

-----------------------------------------------------------------------------
(* Observe and Verify. *)

\* classifyRecord and recordPower.
State(op, n) ==
  CASE Absent(n) -> "absent"
    [] Holds(n, op) -> "candidate"
    [] Previous(op) # None /\ Holds(n, Previous(op)) /\ Previous(op) # op -> "previous"
    [] OTHER -> "other"

Observe(op) == [primary |-> State(op, P), primaryRunning |-> Running(P),
                rollback |-> State(op, R(op)), rollbackRunning |-> Running(R(op))]

\* Verify, without the probes of the server behind a running container.
Verify(op, desired) ==
  /\ Loadable(op) /\ Bound(op)
  /\ CASE desired = "candidate" -> Holds(P, op) /\ Running(P) /\ RollbackPosition(op)
       [] Previous(op) = None   -> Absent(P) /\ Absent(R(op))
       [] OTHER -> /\ Holds(P, Previous(op)) /\ Absent(R(op))
                   /\ Running(P) = tx.final[op].running[Server]

-----------------------------------------------------------------------------
ForwardCall(op) ==
  /\ op \notin undoing
  /\ \/ Preflight(op) \/ Stage(op)
     \/ StopPrevious(op) \/ PreservePrevious(op) \/ CreateCandidate(op) \/ StartCandidate(op)

Call(op) == ForwardCall(op) \/ RollbackCall(op) \/ ReconcileStage(op) \/ RollbackStage(op)

Next ==
  \/ Open \/ Close
  \/ \E op \in env.ops : Call(op) \/ Undo(op)
  \/ StageStep \/ RunCommand
  \/ EnvironmentStep

\* A call that began goes on, a controller that rolls back opens the adapter
\* again and makes the rollback call that is accepted, and initdb ends.
Fairness ==
  /\ WF_vars(StageStep \/ RunCommand)
  /\ WF_vars(undoing # {} /\ Open)
  /\ \A op \in Op : SF_vars(op \in undoing /\ RollbackCall(op))
  /\ WF_vars(InitializeData)

Spec == Init /\ [][Next]_vars /\ Fairness

-----------------------------------------------------------------------------
(* Properties; the ones both adapters have are stated in ContainerAdapter. *)

\* Never do two PostgreSQL servers run on one data directory: not with calls
\* of two operations in any order, and for one operation not even when two
\* commands outlive their clients.  (Three may: a rename, a create and a start
\* left behind by timeouts undo what a rollback has restored.)
OneServerOnData ==
  ~Late \/ (Alone /\ env.budget <= 2) =>
    \A m, n \in Names : Running(m) /\ Running(n) => m = n

\* After a crash between any two calls the observation selects the next one:
\* no name holds a third container, and a transaction whose previous state is
\* not restored yet has exactly one rollback call that it accepts.  (Where
\* syncs fail and power is lost too, a transaction that was removed may come
\* back beside containers of a later one; where its directory was never
\* written, a loss of power takes it while they are half changed.)
ObservationDecides ==
  Alone /\ ~Late /\ FilesLast /\ Ready =>
    \A op \in env.ops : Loadable(op) /\ Bound(op) =>
      /\ "other" \notin {Observe(op).primary, Observe(op).rollback}
      /\ \/ Verify(op, "previous")
         \/ LET accepted == << CandidateRuns(op), CandidateRests(op),
                               PreviousAside(op), PreviousRests(op) >>
            IN  Cardinality({k \in DOMAIN accepted : accepted[k]}) = 1

\* A rollback ends in the previous state, from wherever the operation had got
\* to, through kills, errors, exits or losses of power, if the files last and no
\* command outlives its client; only a data directory left half initialised
\* stops it.
RollbackEnds ==
  \A op \in Op :
    Alone /\ ~Late /\ FilesLast /\ op \in undoing ~>
      \/ Verify(op, "previous")
      \/ tx.final[op] = None
      \/ data = "partial"
=============================================================================
