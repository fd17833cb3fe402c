-------------------------- MODULE AuthentikAdapter --------------------------
(***************************************************************************)
(* internal/adapters/authentik: a server and a worker container, replaced  *)
(* together.  Every call is about one role, and its guard looks at the     *)
(* primary and the rollback name of both: the worker stops first and       *)
(* starts last, the server is created, restored and started first.         *)
(*                                                                         *)
(* The health probe of a running server before its worker is started       *)
(* changes nothing; one that fails is a call that refuses.                 *)
(***************************************************************************)
EXTENDS ContainerAdapter

ASSUME AuthentikAssumption == Role = {"server", "worker"}

S == Primary("server")
W == Primary("worker")

\* No pair, or the previous pair with its worker running only beside its
\* server.  The directories of Authentik are bound by identity alone.
Init ==
  \E pair \in [Role -> {None} \cup [generation : {Initial}, running : BOOLEAN]] :
    /\ pair["server"] = None <=> pair["worker"] = None
    /\ pair["worker"] # None /\ pair["worker"].running => pair["server"].running
    /\ InitWith(pair, "initialized")

\* managedFromPair: both containers of one generation, or none.
Preflight(op) ==
  \/ Absent(S) /\ Absent(W) /\ Prepare(op, None)
  \/ /\ ~Absent(S) /\ Holds(W, containers[S].generation)
     /\ Running(W) => Running(S)
     /\ Prepare(op, containers[S].generation)

Stage(op) == StageTransaction(op)
ReconcileStage(op) == ReconcileTransaction(op)
RollbackStage(op) == RemoveTransaction(op)

-----------------------------------------------------------------------------
(* What the guards ask of the four names. *)

NoRollbacks(op) == \A r \in Role : Absent(Rollback(r, op))
Both(g) == Holds(S, g) /\ Holds(W, g)
Aside(r, op) == Stopped(Rollback(r, op), Previous(op))

\* validPreviousRollbacks
PreviousRollbacks(op) ==
  \A r \in Role : IF Previous(op) = None THEN Absent(Rollback(r, op)) ELSE Aside(r, op)

\* The server is back under its name, the worker is not: half of
\* PreservePrevious, or half of RestorePrevious.
ServerOnly(op) ==
  /\ Stopped(S, Previous(op)) /\ Absent(Rollback("server", op))
  /\ Absent(W) /\ Aside("worker", op)

-----------------------------------------------------------------------------
(* The forward calls. *)

\* Faulty variant: the server does not wait for its worker.
StopPreviousAnyOrder(op, r) ==
  /\ Mutate(op, StopCommand(Primary(r)))
  /\ NoRollbacks(op) /\ Both(Previous(op)) /\ Running(Primary(r))

StopPrevious(op, r) ==
  /\ Mutate(op, StopCommand(Primary(r)))
  /\ NoRollbacks(op) /\ Both(Previous(op)) /\ Running(Primary(r))
  /\ r = "server" => ~Running(W)

\* Faulty variant: a role is preserved whatever became of the other.
PreservePreviousAnyOrder(op, r) ==
  /\ Mutate(op, RenameCommand(Primary(r), Rollback(r, op)))
  /\ Stopped(Primary(r), Previous(op)) /\ Absent(Rollback(r, op))

PreservePrevious(op, r) ==
  /\ Mutate(op, RenameCommand(Primary(r), Rollback(r, op)))
  /\ IF r = "worker"
     THEN Stopped(S, Previous(op)) /\ Stopped(W, Previous(op)) /\ NoRollbacks(op)
     ELSE ServerOnly(op)

CreateCandidate(op, r) ==
  /\ Mutate(op, CreateCommand(Primary(r), op))
  /\ PreviousRollbacks(op) /\ Absent(W)
  /\ IF r = "server" THEN Absent(S) ELSE Stopped(S, op)

StartCandidate(op, r) ==
  /\ Mutate(op, StartCommand(Primary(r)))
  /\ PreviousRollbacks(op) /\ Both(op) /\ ~Running(Primary(r)) /\ ~Running(W)
  /\ r = "worker" => Running(S)

-----------------------------------------------------------------------------
(* The rollback calls, each with the state in which it has something to do. *)

CandidateRuns(op, r) ==
  /\ PreviousRollbacks(op) /\ Both(op) /\ Running(Primary(r))
  /\ r = "server" => ~Running(W)

\* Faulty variant: a candidate goes only as one of a pair.
CandidateRestsPaired(op, r) ==
  /\ PreviousRollbacks(op) /\ Stopped(Primary(r), op)
  /\ r = "worker" => Stopped(S, op)
  /\ r = "server" => Stopped(W, op)

CandidateRests(op, r) ==
  /\ PreviousRollbacks(op) /\ Stopped(Primary(r), op)
  /\ IF r = "worker" THEN Stopped(S, op) ELSE Absent(W)

PreviousAside(op, r) ==
  IF r = "server"
  THEN Absent(S) /\ Absent(W) /\ Aside("server", op) /\ Aside("worker", op)
  ELSE ServerOnly(op)

PreviousRests(op, r) ==
  /\ NoRollbacks(op) /\ Both(Previous(op)) /\ ~Running(Primary(r))
  /\ tx.final[op].running[r]
  /\ r = "worker" => Running(S)

StopCandidate(op, r) == Mutate(op, StopCommand(Primary(r))) /\ CandidateRuns(op, r)

RemoveCandidate(op, r) ==
  Mutate(op, RemoveCommand(Primary(r), op)) /\ CandidateRests(op, r)

RestorePrevious(op, r) ==
  Mutate(op, RenameCommand(Rollback(r, op), Primary(r))) /\ PreviousAside(op, r)

RestartPrevious(op, r) == Mutate(op, StartCommand(Primary(r))) /\ PreviousRests(op, r)

RollbackCall(op) ==
  \E r \in Role :
    \/ StopCandidate(op, r) \/ RemoveCandidate(op, r)
    \/ RestorePrevious(op, r) \/ RestartPrevious(op, r)

-----------------------------------------------------------------------------
(* Observe and Verify. *)

\* classify
State(op, n) ==
  CASE Absent(n) -> "absent"
    [] Holds(n, op) -> "candidate"
    [] Previous(op) # None /\ Holds(n, Previous(op)) -> "previous"
    [] OTHER -> "other"

Observe(op) ==
  [r \in Role |-> [primary |-> State(op, Primary(r)), rollback |-> State(op, Rollback(r, op))]]

\* VerifyRole, without the probes of a running role.
VerifyRole(op, r, desired) ==
  /\ Loadable(op) /\ Bound(op)
  /\ IF desired = "candidate"
     THEN PreviousRollbacks(op) /\ Holds(Primary(r), op) /\ Running(Primary(r))
     ELSE /\ Holds(Primary(r), Previous(op)) /\ Absent(Rollback(r, op))
          /\ Running(Primary(r)) = tx.final[op].running[r]

\* Of both roles together, and of a first installation that was undone.
Verify(op, desired) ==
  \/ \A r \in Role : VerifyRole(op, r, desired)
  \/ /\ desired = "previous" /\ Loadable(op) /\ Bound(op) /\ Previous(op) = None
     /\ Absent(S) /\ Absent(W) /\ NoRollbacks(op)

-----------------------------------------------------------------------------
ForwardCall(op) ==
  /\ op \notin undoing
  /\ \/ Preflight(op) \/ Stage(op)
     \/ \E r \in Role : \/ StopPrevious(op, r) \/ PreservePrevious(op, r)
                       \/ CreateCandidate(op, r) \/ StartCandidate(op, r)

Call(op) == ForwardCall(op) \/ RollbackCall(op) \/ ReconcileStage(op) \/ RollbackStage(op)

Next ==
  \/ Open \/ Close
  \/ \E op \in env.ops : Call(op) \/ Undo(op)
  \/ StageStep \/ RunCommand
  \/ EnvironmentStep

\* A call that began goes on, and a controller that rolls back opens the
\* adapter again and makes the rollback call that is accepted.
Fairness ==
  /\ WF_vars(StageStep \/ RunCommand)
  /\ WF_vars(undoing # {} /\ Open)
  /\ \A op \in Op : SF_vars(op \in undoing /\ RollbackCall(op))

Spec == Init /\ [][Next]_vars /\ Fairness

-----------------------------------------------------------------------------
(* Properties; the ones both adapters have are stated in ContainerAdapter. *)

\* Where no container ends by itself and docker has executed a command, or never
\* will, by the time its client is gone, a worker runs only beside a running
\* server of its own generation: through every prefix of the calls, errors, and
\* kills between and inside them.  (A stop of the server that outlives a killed
\* adapter breaks it: the next one finds the server running and starts the
\* worker beside it.)
WorkerNeedsServer ==
  env.faults \subseteq {"io", "kill"} =>
    \A n \in Names : n[1] = "worker" /\ Running(n) =>
      Running(S) /\ containers[S].generation = containers[n].generation

\* Containers of two generations never run at the same time, whichever
\* operation's calls were made and whatever failed between them, where no
\* command outlives its client.
OneGenerationRuns ==
  ~Late =>
    \A m, n \in Names : Running(m) /\ Running(n) =>
      containers[m].generation = containers[n].generation

\* After a crash between any two calls the observation of the four names
\* selects the next one: none of them holds a third generation, and a pair
\* that is not the previous one yet has exactly one rollback call that is
\* accepted, for exactly one role.  (With the same restriction on faults as
\* for one container.)
PairDecides ==
  Alone /\ ~Late /\ FilesLast /\ Ready =>
    \A op \in env.ops : Loadable(op) =>
      /\ \A r \in Role : "other" \notin {Observe(op)[r].primary, Observe(op)[r].rollback}
      /\ \/ Verify(op, "previous")
         \/ Cardinality({k \in {"stop", "remove", "restore", "restart"} \X Role :
              CASE k[1] = "stop"    -> CandidateRuns(op, k[2])
                [] k[1] = "remove"  -> CandidateRests(op, k[2])
                [] k[1] = "restore" -> PreviousAside(op, k[2])
                [] k[1] = "restart" -> PreviousRests(op, k[2])}) = 1

\* A rollback of the pair ends in the previous state, from whichever half of
\* whichever call the operation had got to, through kills, errors, exits or
\* losses of power, if the files last and no command outlives its client.
PairRollbackEnds ==
  \A op \in Op :
    Alone /\ ~Late /\ FilesLast /\ op \in undoing ~>
      Verify(op, "previous") \/ tx.final[op] = None
=============================================================================
