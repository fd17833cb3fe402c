----------------------- MODULE PostgreSQLAdapterProofs -----------------------
(***************************************************************************)
(* Proofs about PostgreSQLAdapter, for any operations and every            *)
(* environment.                                                            *)
(***************************************************************************)
EXTENDS PostgreSQLAdapter, ContainerAdapterProofs, FiniteSetTheorems

-----------------------------------------------------------------------------
(* The inductive invariant for servers, in named parts. *)

\* The docker commands of the calls of one operation.
CommandOf(op) ==
  { StopCommand(P), StartCommand(P), CreateCommand(P, op), RemoveCommand(P, op),
    RenameCommand(P, R(op)), RenameCommand(R(op), P) }

TypeOK ==
  /\ env \in [faults : SUBSET FaultKinds, budget : Nat, ops : SUBSET Op, rooted : BOOLEAN]
  /\ IsFiniteSet(env.ops) /\ faultsLeft \in 0 .. env.budget
  /\ ContainersOK
  /\ At("command") => call.op \in env.ops /\ call.value \in CommandOf(call.op)
  /\ pending \subseteq UNION {CommandOf(op) : op \in env.ops}
  /\ ~Late => pending = {}

\* Where no command outlives its client, the state a call looked at is, but for
\* containers that have stopped, the state its command meets; what rests under a
\* rollback name is never started.
GuardInv ==
  ~Late =>
    /\ \A op \in Op : ~Running(R(op))
    /\ At("command") =>
         /\ call.value = CreateCommand(P, call.op) => Absent(P)
         /\ call.value = RemoveCommand(P, call.op) => Stopped(P, call.op)
         /\ call.value = RenameCommand(P, R(call.op)) => ~Running(P)

\* The commands docker may still execute.
Flight == pending \cup (IF At("command") THEN {call.value} ELSE {})

\* What keeps a second server away while the previous one runs, by a late rename,
\* under its rollback name: a start meets nothing, or no create comes before it.
OneServer(op, flight) ==
  Running(R(op)) =>
    /\ ~Running(P)
    /\ ~Absent(P) => StartCommand(P) \notin flight
    /\ CreateCommand(P, op) \in flight => StartCommand(P) \notin flight

\* Two commands may come late.  As long as both are still to come, the command of
\* the call in progress meets what the call looked at.
LateInv ==
  Alone /\ env.budget <= 2 =>
    /\ IsFiniteSet(pending) /\ Cardinality(pending) + faultsLeft <= 2
    /\ \A op \in env.ops :
         /\ \A o \in Op \ {op} : Absent(R(o))
         /\ OneServer(op, Flight)
         /\ At("command") /\ Cardinality(pending) + faultsLeft = 2 /\ Running(P) =>
              call.value \notin {StartCommand(P), CreateCommand(P, op), RenameCommand(P, R(op))}

-----------------------------------------------------------------------------
(* Names, commands and calls. *)

\* One primary name, and a rollback name for each operation.
LEMMA NamesFacts ==
  /\ P \in Names
  /\ \A op \in Op : R(op) \in Names /\ R(op) # P
  /\ \A n \in Names : n = P \/ \E op \in Op : n = R(op)
  /\ \A op, o \in Op : R(op) = R(o) => op = o
  /\ P[1] = Server /\ \A op \in Op : R(op)[1] = Server
  BY PostgreSQLAssumption, ContainerAssumption
     DEF P, R, Names, Primary, Rollback, ContainerAssumption, PostgreSQLAssumption

\* The commands differ.
LEMMA CommandFacts ==
  ASSUME NEW op \in Op, NEW o \in Op
  PROVE  /\ StopCommand(P).kind = "stop" /\ StartCommand(P).kind = "start"
         /\ CreateCommand(P, op).kind = "create"
         /\ RemoveCommand(P, op).kind = "rm"
         /\ RenameCommand(P, R(op)).kind = "rename" /\ RenameCommand(P, R(op)).name = P
         /\ RenameCommand(R(op), P).kind = "rename" /\ RenameCommand(R(op), P).name = R(op)
         /\ CreateCommand(P, op) = CreateCommand(P, o) => op = o
         /\ RemoveCommand(P, op).name = P /\ RemoveCommand(P, op).generation = op
         /\ RenameCommand(P, R(op)) # RenameCommand(R(o), P)
  BY NamesFacts
     DEF StopCommand, StartCommand, CreateCommand, RemoveCommand, RenameCommand, Command

Mutation(op) ==
  \/ /\ op \notin undoing
     /\ StopPrevious(op) \/ PreservePrevious(op) \/ CreateCandidate(op) \/ StartCandidate(op)
  \/ RollbackCall(op)

\* A call that is accepted has found the containers as its guard wants them, and
\* hands its command over.
LEMMA MutationEffect ==
  ASSUME NEW op \in Op, Mutation(op)
  PROVE  /\ UNCHANGED <<env, faultsLeft, containers, pending, data, tx, txDisk, dirty>>
         /\ Ready /\ Loadable(op)
         /\ call'.name = "command" /\ call'.op = op
         /\ \/ call'.value = StopCommand(P)
            \/ call'.value = StartCommand(P) /\ ~Running(P)
            \/ call'.value = CreateCommand(P, op) /\ Absent(P)
            \/ call'.value = RemoveCommand(P, op) /\ Stopped(P, op)
            \/ call'.value = RenameCommand(P, R(op)) /\ ~Running(P)
            \/ call'.value = RenameCommand(R(op), P)
         /\ ~Running(R(op))
  BY DEF Mutation, RollbackCall, StopPrevious, PreservePrevious, CreateCandidate, StartCandidate,
         StopCandidate, RemoveCandidate, RestorePrevious, RestartPrevious, CandidateRuns,
         CandidateRests, PreviousAside, PreviousRests, RollbackPosition, Stopped, Running,
         Mutate, Goto, control, stages, engine

\* A call of an operation is quiet or hands a command over.
LEMMA CallCases ==
  ASSUME ContainersOK, NEW op \in Op, Call(op)
  PROVE  Quiet \/ Mutation(op)
<1>1. ASSUME Preflight(op)
      PROVE  Quiet
  <2>1. (IF Absent(P) THEN None ELSE containers[P].generation) \in Generation \cup {None}
    BY Presence, NamesFacts
  <2>2. QED
    BY <1>1, <2>1 DEF Preflight, Quiet
<1>2. QED
  BY <1>1 DEF Call, ForwardCall, Stage, ReconcileStage, RollbackStage, Mutation, Quiet

\* The steps of the specification.
LEMMA StepCases ==
  ASSUME TypeOK, [Next]_vars
  PROVE  \/ Quiet
         \/ \E op \in env.ops : Mutation(op)
         \/ RunCommand \/ (\E c \in pending : LateCommand(c))
         \/ CommandTimeout \/ Kill \/ PowerLoss \/ (\E n \in Names : Exit(n))
         \/ UNCHANGED vars
<1>1. env.ops \subseteq Op
  BY DEF TypeOK
<1>2. ASSUME NEW op \in env.ops, Call(op) \/ Undo(op)
      PROVE  Quiet \/ Mutation(op)
  BY <1>1, <1>2, CallCases DEF TypeOK, Quiet
<1>3. QED
  BY <1>2 DEF Next, EnvironmentStep, Quiet

-----------------------------------------------------------------------------
(* Types. *)

\* Whatever a command meets, containers stay containers.
LEMMA ExecuteType ==
  ASSUME ContainersOK, NEW op \in Op, NEW c \in CommandOf(op), Execute(c)
  PROVE  ContainersOK'
<1>1. CASE c = StopCommand(P) \/ c = StartCommand(P)
  BY <1>1, PowerEffect, NamesFacts DEF StopCommand, StartCommand
<1>2. CASE c = CreateCommand(P, op)
  BY <1>2, CreateEffect, NamesFacts DEF Generation
<1>3. CASE c = RemoveCommand(P, op)
  BY <1>3, RemoveEffect, NamesFacts
<1>4. CASE c = RenameCommand(P, R(op)) \/ c = RenameCommand(R(op), P)
  BY <1>4, RenameEffect, NamesFacts
<1>5. QED
  BY <1>1, <1>2, <1>3, <1>4 DEF CommandOf

\* Every step keeps the types, and only commands of operations are in flight.
LEMMA TypeStep == TypeOK /\ [Next]_vars => TypeOK'
<1> SUFFICES ASSUME TypeOK, [Next]_vars
             PROVE  TypeOK'
  OBVIOUS
<1>e. env.ops \subseteq Op
  BY DEF TypeOK
<1>f. ASSUME NEW kind, Fault(kind)
      PROVE  env' = env /\ faultsLeft' \in 0 .. env.budget
  BY <1>f DEF Fault, TypeOK
<1>x. ASSUME At("command"), Execute(call.value)
      PROVE  ContainersOK'
  BY <1>x, <1>e, ExecuteType DEF TypeOK
<1>1. CASE Quiet
  <2>1. Fault("io") \/ faultsLeft' = faultsLeft
    BY <1>1 DEF Quiet, Open, Close, StageStep, WriteStage, SyncStageFile, RenameStage, SyncStages,
                InitializeData, CallFails, Undo, StageTransaction, ReconcileTransaction,
                RemoveTransaction, Prepare, control
  <2>2. env' = env /\ faultsLeft' \in 0 .. env.budget
    BY <1>1, <1>f, <2>1, QuietEffect DEF TypeOK
  <2>3. QED
    BY <1>1, <2>2, QuietEffect DEF TypeOK, At, Late, ContainersOK
<1>2. ASSUME NEW op \in env.ops, Mutation(op)
      PROVE  TypeOK'
  <2>1. UNCHANGED <<env, faultsLeft, containers, pending>>
    BY <1>2, <1>e, MutationEffect
  <2>2. call'.op = op /\ call'.value \in CommandOf(op)
    BY <1>2, <1>e, MutationEffect DEF CommandOf
  <2>3. QED
    BY <2>1, <2>2 DEF TypeOK, At, Late, ContainersOK
<1>3. CASE RunCommand
  <2>1. ContainersOK'
    BY <1>3, <1>x DEF RunCommand
  <2>2. QED
    BY <1>3, <2>1 DEF RunCommand, TypeOK, At, Late, Return, Idle, control
<1>4. ASSUME NEW c \in pending, LateCommand(c)
      PROVE  TypeOK'
  <2>1. PICK op \in env.ops : c \in CommandOf(op)
    BY <1>4 DEF TypeOK
  <2>2. ContainersOK'
    BY <1>4, <1>e, <2>1, ExecuteType DEF LateCommand, TypeOK
  <2>3. QED
    BY <1>4, <2>2 DEF LateCommand, TypeOK, At, Late, control
<1>5. CASE CommandTimeout
  <2>1. env' = env /\ faultsLeft' \in 0 .. env.budget /\ Late
    BY <1>5, <1>f DEF CommandTimeout, Fault, Late
  <2>2. pending' \subseteq UNION {CommandOf(op) : op \in env.ops}
    BY <1>5 DEF CommandTimeout, TypeOK
  <2>3. QED
    BY <1>5, <2>1, <2>2 DEF CommandTimeout, TypeOK, ContainersOK, At, Late, Return, Idle
<1>6. CASE Kill
  <2>1. ContainersOK'
    BY <1>6, <1>x DEF Kill, TypeOK, ContainersOK, engine
  <2>2. env' = env /\ faultsLeft' \in 0 .. env.budget
    BY <1>6, <1>f DEF Kill
  <2>3. (pending \subseteq UNION {CommandOf(op) : op \in env.ops})' /\ (~Late => pending = {})'
    BY <1>6, <2>2 DEF Kill, TypeOK, Late, engine
  <2>4. QED
    BY <1>6, <2>1, <2>2, <2>3 DEF Kill, TypeOK, At, Return, Idle
<1>7. CASE PowerLoss
  <2>1. env' = env /\ faultsLeft' \in 0 .. env.budget
    BY <1>7, <1>f DEF PowerLoss
  <2>2. QED
    BY <1>7, <2>1, PowerLossEffect DEF PowerLoss, TypeOK, At, Late, Return, Idle
<1>8. ASSUME NEW n \in Names, Exit(n)
      PROVE  TypeOK'
  <2>1. env' = env /\ faultsLeft' \in 0 .. env.budget
    BY <1>8, <1>f DEF Exit
  <2>2. QED
    BY <1>8, <2>1, ExitEffect DEF Exit, TypeOK, At, Late
<1>9. CASE UNCHANGED vars
  BY <1>9 DEF vars, TypeOK, ContainersOK, At, Late
<1>10. QED
  BY <1>1, <1>2, <1>3, <1>4, <1>5, <1>6, <1>7, <1>8, <1>9, StepCases

-----------------------------------------------------------------------------
(* Where no command outlives its client. *)

\* A command that meets what its call looked at starts nothing under a rollback name.
LEMMA GuardedExecute ==
  ASSUME TypeOK, GuardInv, ~Late, At("command"), Execute(call.value), NEW op \in Op
  PROVE  ~Running(R(op))'
<1>1. PICK o \in Op : call.op = o
  BY DEF TypeOK
<1>2. call.value \in CommandOf(o) /\ ContainersOK
  BY <1>1 DEF TypeOK
<1>3. ~Running(R(op)) /\ ~Running(R(o))
  BY DEF GuardInv
<1>4. SUFFICES \/ containers'[R(op)] \in {containers[R(op)], None}
               \/ ~Running(P) /\ containers'[R(op)] = containers[P]
  BY <1>3 DEF Running, Absent
<1>5. CASE call.value = StopCommand(P) \/ call.value = StartCommand(P)
  BY <1>2, <1>5, PowerEffect, NamesFacts DEF StopCommand, StartCommand
<1>6. CASE call.value = CreateCommand(P, o)
  <2>1. o \in Generation
    BY DEF Generation
  <2>2. \A n \in Names \ {P} : containers'[n] = containers[n]
    BY <1>2, <1>6, <2>1, CreateEffect, NamesFacts
  <2>3. QED
    BY <2>2, NamesFacts
<1>7. CASE call.value = RemoveCommand(P, o)
  BY <1>2, <1>7, RemoveEffect, NamesFacts
<1>8. CASE call.value = RenameCommand(P, R(o))
  <2>1. ~Running(P)
    BY <1>1, <1>8 DEF GuardInv
  <2>2. QED
    BY <1>2, <1>8, <2>1, RenameEffect, NamesFacts
<1>9. CASE call.value = RenameCommand(R(o), P)
  BY <1>2, <1>9, RenameEffect, NamesFacts
<1>10. QED
  BY <1>2, <1>5, <1>6, <1>7, <1>8, <1>9 DEF CommandOf

\* No call, exit, kill or loss of power comes between a look and its command that
\* could turn the command against another container.
LEMMA GuardStep == TypeOK /\ GuardInv /\ [Next]_vars => GuardInv'
<1> SUFFICES ASSUME TypeOK, GuardInv, [Next]_vars, ~Late'
             PROVE  GuardInv'
  BY DEF GuardInv
<1>e. env.ops \subseteq Op /\ ContainersOK
  BY DEF TypeOK
\* A step after which no command is in flight.
<1>i. ASSUME ~At("command")', \A op \in Op : ~Running(R(op))'
      PROVE  GuardInv'
  BY <1>i DEF GuardInv
<1>1. CASE Quiet
  BY <1>1, QuietEffect DEF GuardInv, At, Late, Running, Absent, Stopped, Holds
<1>2. ASSUME NEW op \in env.ops, Mutation(op)
      PROVE  GuardInv'
  <2>1. UNCHANGED <<env, containers>> /\ call'.op = op
    BY <1>2, <1>e, MutationEffect
  <2>2. \A o \in Op : ~Running(R(o))'
    BY <2>1 DEF GuardInv, Late, Running, Absent
  <2>3. /\ call'.value = CreateCommand(P, op) => Absent(P)
        /\ call'.value = RemoveCommand(P, op) => Stopped(P, op)
        /\ call'.value = RenameCommand(P, R(op)) => ~Running(P)
    BY <1>2, <1>e, MutationEffect, CommandFacts
  <2>4. QED
    BY <2>1, <2>2, <2>3 DEF GuardInv, Running, Absent, Stopped, Holds
<1>3. CASE RunCommand
  <2>1. ~Late /\ ~At("command")'
    BY <1>3 DEF RunCommand, Late, At, Return, Idle, control
  <2>2. QED
    BY <1>3, <1>i, <2>1, GuardedExecute DEF RunCommand
<1>4. ASSUME NEW c \in pending, LateCommand(c)
      PROVE  GuardInv'
  BY <1>4 DEF LateCommand, TypeOK, Late, control
<1>5. CASE CommandTimeout
  BY <1>5 DEF CommandTimeout, Fault, Late
<1>6. CASE Kill
  <2>1. ~Late /\ ~At("command")'
    BY <1>6 DEF Kill, Fault, Late, At, Return, Idle
  <2>2. \A op \in Op : ~Running(R(op))'
    BY <1>6, <2>1, GuardedExecute DEF Kill, GuardInv, Running, Absent, engine
  <2>3. QED
    BY <1>i, <2>1, <2>2
<1>7. CASE PowerLoss
  <2>1. ~At("command")'
    BY <1>7 DEF PowerLoss, At, Return, Idle
  <2>2. ASSUME NEW n \in Names
        PROVE  ~Running(n)'
    <3>1. CASE Absent(n)
      BY <1>7, <1>e, <3>1, PowerLossEffect DEF Running, Absent
    <3>2. CASE ~Absent(n)
      <4>1. containers'[n].running = FALSE
        BY <1>7, <1>e, <3>2, PowerLossEffect
      <4>2. QED
        BY <4>1 DEF Running
    <3>3. QED
      BY <3>1, <3>2
  <2>3. QED
    BY <1>i, <2>1, <2>2, NamesFacts
<1>8. ASSUME NEW n \in Names, Exit(n)
      PROVE  GuardInv'
  <2>1. env' = env /\ call' = call
    BY <1>8, <1>e, ExitEffect
  <2>2. \A m \in Names : /\ Absent(m)' <=> Absent(m)
                         /\ Running(m)' => Running(m)
                         /\ \A g : Holds(m, g) => Holds(m, g)'
    BY <1>8, <1>e, ExitEffect DEF Absent, Running, Holds
  <2>3. QED
    BY <2>1, <2>2, NamesFacts DEF GuardInv, At, Late, Stopped
<1>9. CASE UNCHANGED vars
  BY <1>9 DEF vars, GuardInv, At, Late, Running, Absent, Stopped, Holds
<1>10. QED
  BY <1>1, <1>2, <1>3, <1>4, <1>5, <1>6, <1>7, <1>8, <1>9, StepCases

-----------------------------------------------------------------------------
(* Where commands outlive their clients. *)

\* Three commands are more than two.
LEMMA ThreeInFlight ==
  ASSUME NEW S, IsFiniteSet(S), NEW x, NEW y, NEW z, x # y, x # z, y # z
  PROVE  /\ {x, y} \subseteq S => Cardinality(S) >= 2
         /\ {x, y, z} \subseteq S => Cardinality(S) >= 3
<1>1. IsFiniteSet({x}) /\ Cardinality({x}) = 1
  BY FS_Singleton
<1>2. IsFiniteSet({x, y}) /\ Cardinality({x, y}) = 2
  <2>1. {x, y} = {x} \cup {y}
    OBVIOUS
  <2>2. QED
    BY <1>1, <2>1, FS_AddElement
<1>3. IsFiniteSet({x, y, z}) /\ Cardinality({x, y, z}) = 3
  <2>1. {x, y, z} = {x, y} \cup {z}
    OBVIOUS
  <2>2. QED
    BY <1>2, <2>1, FS_AddElement
<1>4. Cardinality(S) \in Nat
  BY FS_CardinalityType
<1>5. ASSUME {x, y} \subseteq S
      PROVE  Cardinality(S) >= 2
  <2>1. Cardinality({x, y}) <= Cardinality(S)
    BY <1>5, FS_Subset
  <2>2. QED
    BY <1>2, <1>4, <2>1
<1>6. ASSUME {x, y, z} \subseteq S
      PROVE  Cardinality(S) >= 3
  <2>1. Cardinality({x, y, z}) <= Cardinality(S)
    BY <1>6, FS_Subset
  <2>2. QED
    BY <1>3, <1>4, <2>1
<1>7. QED
  BY <1>5, <1>6

\* A rename never moves a running server aside while a create and a start are both
\* still to come.
LEMMA RenameComesAlone ==
  ASSUME TypeOK, LateInv, Alone, env.budget <= 2, NEW op \in env.ops,
         RenameCommand(P, R(op)) \in Flight, CreateCommand(P, op) \in Flight,
         StartCommand(P) \in Flight
  PROVE  ~Running(P)
<1> DEFINE r == RenameCommand(P, R(op))
           c == CreateCommand(P, op)
           s == StartCommand(P)
<1>1. op \in Op /\ r # c /\ r # s /\ c # s
  BY CommandFacts DEF TypeOK
<1>2. /\ IsFiniteSet(pending) /\ Cardinality(pending) \in Nat /\ faultsLeft \in Nat
      /\ Cardinality(pending) + faultsLeft <= 2
  BY FS_CardinalityType DEF LateInv, TypeOK
<1>3. ~({r, c, s} \subseteq pending)
  <2>1. {r, c, s} \subseteq pending => Cardinality(pending) >= 3
    BY <1>1, <1>2, ThreeInFlight
  <2>2. QED
    BY <1>2, <2>1
<1>4. At("command") /\ call.value \in {r, c, s}
  BY <1>3 DEF Flight
<1>5. {r, c} \subseteq pending \/ {r, s} \subseteq pending \/ {c, s} \subseteq pending
  BY <1>1, <1>4 DEF Flight
<1>6. Cardinality(pending) >= 2
  BY <1>1, <1>2, <1>5, ThreeInFlight
<1>7. Cardinality(pending) + faultsLeft = 2
  BY <1>2, <1>6
<1>8. QED
  BY <1>4, <1>7 DEF LateInv

\* Whatever is executed late or in time leaves one server.
LEMMA OneServerExecute ==
  ASSUME ContainersOK, NEW op \in Op, NEW flight, NEW c \in CommandOf(op), c \in flight,
         Execute(c), OneServer(op, flight),
         RenameCommand(P, R(op)) \in flight /\ CreateCommand(P, op) \in flight
           /\ StartCommand(P) \in flight => ~Running(P),
         \A o \in Op \ {op} : Absent(R(o))
  PROVE  OneServer(op, flight)' /\ \A o \in Op \ {op} : Absent(R(o))'
<1>1. CASE c = StopCommand(P)
  <2>1. /\ \A n \in Names \ {P} : containers'[n] = containers[n]
        /\ Absent(P) => containers'[P] = None
        /\ ~Absent(P) => containers'[P].running = FALSE
    BY <1>1, PowerEffect, NamesFacts DEF StopCommand
  <2>2. QED
    BY <2>1, NamesFacts DEF OneServer, Running, Absent
<1>2. CASE c = StartCommand(P)
  <2>1. /\ \A n \in Names \ {P} : containers'[n] = containers[n]
        /\ Absent(P) => containers'[P] = None
    BY <1>2, PowerEffect, NamesFacts DEF StartCommand
  <2>2. QED
    BY <1>2, <2>1, NamesFacts DEF OneServer, Running, Absent
<1>3. CASE c = CreateCommand(P, op)
  <2>0. op \in Generation
    BY DEF Generation
  <2>1. /\ \A n \in Names \ {P} : containers'[n] = containers[n]
        /\ Absent(P) => containers'[P] = [generation |-> op, running |-> FALSE]
        /\ ~Absent(P) => containers'[P] = containers[P]
    BY <1>3, <2>0, CreateEffect, NamesFacts
  <2>2. Absent(P) => containers'[P].running = FALSE
    BY <2>1
  <2>3. QED
    BY <1>3, <2>1, <2>2, NamesFacts DEF OneServer, Running, Absent
<1>4. CASE c = RemoveCommand(P, op)
  <2>1. /\ \A n \in Names \ {P} : containers'[n] = containers[n]
        /\ containers'[P] \in {containers[P], None}
    BY <1>4, RemoveEffect, NamesFacts
  <2>2. QED
    BY <2>1, NamesFacts DEF OneServer, Running, Absent
<1>5. CASE c = RenameCommand(P, R(op))
  <2>1. /\ \A n \in Names \ {P, R(op)} : containers'[n] = containers[n]
        /\ IF ~Absent(P) /\ Absent(R(op))
           THEN containers'[R(op)] = containers[P] /\ containers'[P] = None
           ELSE containers'[R(op)] = containers[R(op)] /\ containers'[P] = containers[P]
    BY <1>5, RenameEffect, NamesFacts
  <2>2. \A o \in Op \ {op} : Absent(R(o))'
    BY <2>1, NamesFacts DEF Absent
  <2>3. CASE ~Absent(P) /\ Absent(R(op))
    <3>1. Running(R(op))' => Running(P)
      BY <2>1, <2>3 DEF Running, Absent
    <3>2. Absent(P)'
      BY <2>1, <2>3 DEF Absent
    <3>3. QED
      BY <1>5, <2>2, <3>1, <3>2 DEF OneServer, Running
  <2>4. CASE ~(~Absent(P) /\ Absent(R(op)))
    BY <2>1, <2>2, <2>4 DEF OneServer, Running, Absent
  <2>5. QED
    BY <2>3, <2>4
<1>6. CASE c = RenameCommand(R(op), P)
  <2>1. /\ \A n \in Names \ {P, R(op)} : containers'[n] = containers[n]
        /\ IF ~Absent(R(op)) /\ Absent(P)
           THEN containers'[P] = containers[R(op)] /\ containers'[R(op)] = None
           ELSE containers'[R(op)] = containers[R(op)] /\ containers'[P] = containers[P]
    BY <1>6, RenameEffect, NamesFacts
  <2>2. \A o \in Op \ {op} : Absent(R(o))'
    BY <2>1, NamesFacts DEF Absent
  <2>3. QED
    BY <2>1, <2>2 DEF OneServer, Running, Absent
<1>7. QED
  BY <1>1, <1>2, <1>3, <1>4, <1>5, <1>6 DEF CommandOf

\* Through two late commands, one server runs.
LEMMA LateStep == TypeOK /\ LateInv /\ [Next]_vars => LateInv'
<1> SUFFICES ASSUME TypeOK, LateInv, [Next]_vars, Alone', env'.budget <= 2
             PROVE  LateInv'
  BY DEF LateInv
<1>e. env' = env
  BY DEF Next, Call, ForwardCall, RollbackCall, Preflight, Stage, ReconcileStage, RollbackStage,
         StopPrevious, PreservePrevious, CreateCandidate, StartCandidate, StopCandidate,
         RemoveCandidate, RestorePrevious, RestartPrevious, Mutate, RunCommand, EnvironmentStep,
         Open, Close, StageStep, WriteStage, SyncStageFile, RenameStage, SyncStages, Prepare,
         InitializeData, LateCommand, CallFails, CommandTimeout, Kill, PowerLoss, Exit, Fault,
         Undo, StageTransaction, ReconcileTransaction, RemoveTransaction, control, vars
<1>a. Alone /\ env.budget <= 2
  BY <1>e DEF Alone
<1>o. PICK op \in Op : env.ops = {op}
  <2>1. PICK x : env.ops = {x}
    BY <1>a, FS_Singleton DEF Alone, TypeOK
  <2>2. QED
    BY <2>1 DEF TypeOK
<1>t. /\ ContainersOK /\ faultsLeft \in Nat
      /\ pending \subseteq CommandOf(op)
      /\ At("command") => call.value \in CommandOf(op)
  BY <1>o DEF TypeOK
<1>i. /\ IsFiniteSet(pending) /\ Cardinality(pending) \in Nat
      /\ Cardinality(pending) + faultsLeft <= 2
      /\ \A o \in Op \ {op} : Absent(R(o))
      /\ OneServer(op, Flight)
      /\ At("command") /\ Cardinality(pending) + faultsLeft = 2 /\ Running(P) =>
           call.value \notin {StartCommand(P), CreateCommand(P, op), RenameCommand(P, R(op))}
  BY <1>a, <1>o, FS_CardinalityType DEF LateInv
\* Fewer commands in flight can do less.
<1>m. ASSUME NEW flight, OneServer(op, flight)', Flight' \subseteq flight
      PROVE  OneServer(op, Flight)'
  BY <1>m DEF OneServer
<1>g. ASSUME IsFiniteSet(pending)', (Cardinality(pending) + faultsLeft <= 2)',
             \A o \in Op \ {op} : Absent(R(o))',
             OneServer(op, Flight)',
             (At("command") /\ Cardinality(pending) + faultsLeft = 2 /\ Running(P) =>
               call.value \notin {StartCommand(P), CreateCommand(P, op), RenameCommand(P, R(op))})'
      PROVE  LateInv'
  BY <1>e, <1>o, <1>g DEF LateInv
<1>f. ASSUME NEW kind, Fault(kind)
      PROVE  faultsLeft' = faultsLeft - 1 /\ faultsLeft' \in Nat
  BY <1>f, <1>t DEF Fault
\* A command that was in flight is executed.
<1>x. ASSUME NEW c \in CommandOf(op), c \in Flight, Execute(c), Flight' \subseteq Flight
      PROVE  OneServer(op, Flight)' /\ \A o \in Op \ {op} : Absent(R(o))'
  <2>1. PICK flight : flight = Flight
    OBVIOUS
  <2>2. RenameCommand(P, R(op)) \in flight /\ CreateCommand(P, op) \in flight
          /\ StartCommand(P) \in flight => ~Running(P)
    BY <1>a, <1>o, <2>1, RenameComesAlone
  <2>3. OneServer(op, flight)' /\ \A o \in Op \ {op} : Absent(R(o))'
    BY <1>x, <1>i, <1>t, <2>1, <2>2, OneServerExecute
  <2>4. QED
    BY <1>m, <1>x, <2>1, <2>3
<1>1. CASE Quiet
  <2>1. /\ UNCHANGED <<containers, pending>> /\ (call' = call \/ ~At("command")')
        /\ faultsLeft' = faultsLeft \/ faultsLeft' = faultsLeft - 1
    BY <1>1, QuietEffect DEF At
  <2>2. Flight' \subseteq Flight
    BY <2>1 DEF Flight, At
  <2>3. OneServer(op, Flight)' /\ \A o \in Op \ {op} : Absent(R(o))'
    BY <1>i, <2>1, <2>2 DEF OneServer, Running, Absent
  <2>4. IsFiniteSet(pending)' /\ (Cardinality(pending) + faultsLeft <= 2)'
    BY <1>i, <1>t, <2>1
  <2>5. (At("command") /\ Cardinality(pending) + faultsLeft = 2 /\ Running(P) =>
          call.value \notin {StartCommand(P), CreateCommand(P, op), RenameCommand(P, R(op))})'
    BY <1>i, <1>t, <2>1 DEF At, Running, Absent
  <2>6. QED
    BY <1>g, <2>3, <2>4, <2>5
<1>2. ASSUME Mutation(op)
      PROVE  LateInv'
  <2>1. UNCHANGED <<faultsLeft, containers, pending>> /\ ~Running(R(op))
    BY <1>2, MutationEffect
  <2>2. call'.value \in {StartCommand(P), CreateCommand(P, op), RenameCommand(P, R(op))} =>
          ~Running(P)
    BY <1>2, MutationEffect, CommandFacts DEF Running
  <2>3. OneServer(op, Flight)' /\ \A o \in Op \ {op} : Absent(R(o))'
    BY <1>i, <2>1 DEF OneServer, Running, Absent
  <2>4. QED
    BY <1>g, <1>i, <2>1, <2>2, <2>3 DEF Running, Absent
<1>3. CASE RunCommand
  <2>1. At("command") /\ Execute(call.value) /\ ~At("command")' /\ UNCHANGED <<faultsLeft, pending>>
    BY <1>3 DEF RunCommand, At, Return, Idle, control
  <2>2. call.value \in Flight /\ Flight' \subseteq Flight
    BY <2>1 DEF Flight
  <2>3. OneServer(op, Flight)' /\ \A o \in Op \ {op} : Absent(R(o))'
    BY <1>x, <1>t, <2>1, <2>2
  <2>4. QED
    BY <1>g, <1>i, <2>1, <2>3
<1>4. ASSUME NEW c \in pending, LateCommand(c)
      PROVE  LateInv'
  <2>1. Execute(c) /\ pending' = pending \ {c} /\ UNCHANGED <<faultsLeft, call>>
    BY <1>4 DEF LateCommand, control
  <2>2. c \in Flight /\ Flight' \subseteq Flight
    BY <2>1 DEF Flight, At
  <2>3. OneServer(op, Flight)' /\ \A o \in Op \ {op} : Absent(R(o))'
    BY <1>x, <1>t, <2>1, <2>2
  <2>4. IsFiniteSet(pending)' /\ Cardinality(pending)' = Cardinality(pending) - 1
    BY <1>i, <2>1, FS_RemoveElement
  <2>5. (Cardinality(pending) + faultsLeft <= 1)'
    BY <1>i, <1>t, <2>1, <2>4
  <2>6. (Cardinality(pending) + faultsLeft <= 2)' /\ (Cardinality(pending) + faultsLeft # 2)'
    BY <1>i, <1>t, <2>1, <2>4
  <2>7. QED
    BY <1>g, <2>3, <2>4, <2>6
<1>5. CASE CommandTimeout
  <2>1. /\ At("command") /\ ~At("command")' /\ pending' = pending \cup {call.value}
        /\ containers' = containers
    BY <1>5 DEF CommandTimeout, At, Return, Idle
  <2>2. Flight' \subseteq Flight
    BY <2>1 DEF Flight
  <2>3. IsFiniteSet(pending)' /\ Cardinality(pending)' \in {Cardinality(pending), Cardinality(pending) + 1}
    BY <1>i, <2>1, FS_AddElement
  <2>4. faultsLeft' = faultsLeft - 1
    BY <1>5, <1>f DEF CommandTimeout
  <2>5. (Cardinality(pending) + faultsLeft <= 2)'
    BY <1>i, <1>t, <2>3, <2>4
  <2>6. OneServer(op, Flight)' /\ \A o \in Op \ {op} : Absent(R(o))'
    BY <1>i, <2>1, <2>2 DEF OneServer, Running, Absent
  <2>7. QED
    BY <1>g, <2>1, <2>3, <2>5, <2>6
<1>6. CASE Kill
  <2>1. ~At("command")' /\ faultsLeft' = faultsLeft - 1
    BY <1>6, <1>f DEF Kill, At, Return, Idle
  <2>2. CASE UNCHANGED engine
    <3>1. Flight' \subseteq Flight /\ containers' = containers /\ pending' = pending
      BY <2>1, <2>2 DEF Flight, engine
    <3>2. OneServer(op, Flight)' /\ \A o \in Op \ {op} : Absent(R(o))'
      BY <1>i, <3>1 DEF OneServer, Running, Absent
    <3>3. QED
      BY <1>g, <1>i, <1>t, <2>1, <3>1, <3>2
  <2>3. CASE At("command") /\ Execute(call.value) /\ UNCHANGED pending
    <3>1. call.value \in Flight /\ Flight' \subseteq Flight
      BY <2>1, <2>3 DEF Flight
    <3>2. OneServer(op, Flight)' /\ \A o \in Op \ {op} : Absent(R(o))'
      BY <1>x, <1>t, <2>3, <3>1
    <3>3. QED
      BY <1>g, <1>i, <1>t, <2>1, <2>3, <3>2
  <2>4. CASE At("command") /\ pending' = pending \cup {call.value} /\ UNCHANGED <<containers, data>>
    <3>1. Flight' \subseteq Flight
      BY <2>1, <2>4 DEF Flight
    <3>2. IsFiniteSet(pending)' /\ Cardinality(pending)' \in {Cardinality(pending), Cardinality(pending) + 1}
      BY <1>i, <2>4, FS_AddElement
    <3>3. (Cardinality(pending) + faultsLeft <= 2)'
      BY <1>i, <1>t, <2>1, <3>2
    <3>4. OneServer(op, Flight)' /\ \A o \in Op \ {op} : Absent(R(o))'
      BY <1>i, <2>4, <3>1 DEF OneServer, Running, Absent
    <3>5. QED
      BY <1>g, <2>1, <3>2, <3>3, <3>4
  <2>5. QED
    BY <1>6, <2>2, <2>3, <2>4 DEF Kill
<1>7. CASE PowerLoss
  <2>1. ~At("command")' /\ pending' = {} /\ faultsLeft' = faultsLeft - 1
    BY <1>7, <1>f DEF PowerLoss, At, Return, Idle
  <2>2. ASSUME NEW n \in Names
        PROVE  ~Running(n)' /\ (Absent(n) => Absent(n)')
    <3>1. Absent(n) => containers'[n] = None
      BY <1>7, <1>t, PowerLossEffect
    <3>2. ~Absent(n) => containers'[n].running = FALSE
      BY <1>7, <1>t, PowerLossEffect
    <3>3. QED
      BY <3>1, <3>2 DEF Running, Absent
  <2>3. OneServer(op, Flight)' /\ \A o \in Op \ {op} : Absent(R(o))'
    BY <1>i, <2>2, NamesFacts DEF OneServer
  <2>4. IsFiniteSet(pending)' /\ (Cardinality(pending) + faultsLeft <= 2)'
    BY <1>i, <1>t, <2>1, FS_EmptySet
  <2>5. QED
    BY <1>g, <2>1, <2>3, <2>4
<1>8. ASSUME NEW n \in Names, Exit(n)
      PROVE  LateInv'
  <2>1. call' = call /\ pending' = pending /\ faultsLeft' = faultsLeft - 1
    BY <1>8, <1>t, <1>f, ExitEffect DEF Exit
  <2>2. \A m \in Names : /\ Absent(m)' <=> Absent(m)
                         /\ Running(m)' => Running(m)
    BY <1>8, <1>t, ExitEffect DEF Absent, Running
  <2>3. OneServer(op, Flight)' /\ \A o \in Op \ {op} : Absent(R(o))'
    <3>1. Flight' = Flight
      BY <2>1 DEF Flight, At
    <3>2. QED
      BY <1>i, <2>2, <3>1, NamesFacts DEF OneServer
  <2>4. IsFiniteSet(pending)' /\ (Cardinality(pending) + faultsLeft <= 2)'
        /\ (Cardinality(pending) + faultsLeft # 2)'
    BY <1>i, <1>t, <2>1
  <2>5. QED
    BY <1>g, <2>3, <2>4
<1>9. CASE UNCHANGED vars
  <2>1. UNCHANGED <<faultsLeft, containers, pending, call>>
    BY <1>9 DEF vars
  <2>2. Flight' = Flight
    BY <2>1 DEF Flight, At
  <2>3. OneServer(op, Flight)' /\ \A o \in Op \ {op} : Absent(R(o))'
    BY <1>i, <2>1, <2>2 DEF OneServer, Running, Absent
  <2>4. QED
    BY <1>g, <1>i, <2>1, <2>3 DEF At, Running, Absent
<1>10. QED
  BY <1>o, <1>1, <1>2, <1>3, <1>4, <1>5, <1>6, <1>7, <1>8, <1>9, StepCases

-----------------------------------------------------------------------------
(* What goes away. *)

\* A command that meets what its call looked at ends no container but the candidate
\* it was sent to remove.
LEMMA ExecuteKeeps ==
  ASSUME TypeOK, GuardInv, ~Late, At("command"), Execute(call.value),
         NEW n \in Names, NEW g, Holds(n, g)
  PROVE  \/ \E m \in Names : Holds(m, g)'
         \/ call.value = RemoveCommand(P, g)
<1>1. PICK o \in Op : call.op = o
  BY DEF TypeOK
<1>2. call.value \in CommandOf(o) /\ ContainersOK
  BY <1>1 DEF TypeOK
<1>3. CASE call.value = StopCommand(P) \/ call.value = StartCommand(P)
  <2>1. \A m \in Names \ {P} : containers'[m] = containers[m]
    BY <1>2, <1>3, PowerEffect, NamesFacts DEF StopCommand, StartCommand
  <2>2. ~Absent(P) => containers'[P] \in Container
                      /\ containers'[P].generation = containers[P].generation
    BY <1>2, <1>3, PowerEffect, NamesFacts DEF StopCommand, StartCommand
  <2>3. Holds(n, g)'
    BY <2>1, <2>2, NothingAssumption DEF Holds, Absent
  <2>4. QED
    BY <2>3
<1>4. CASE call.value = CreateCommand(P, o)
  <2>1. o \in Generation
    BY DEF Generation
  <2>2. \A m \in Names \ {P} : containers'[m] = containers[m]
    BY <1>2, <1>4, <2>1, CreateEffect, NamesFacts
  <2>3. ~Absent(P) => containers'[P] = containers[P]
    BY <1>2, <1>4, <2>1, CreateEffect, NamesFacts
  <2>4. Holds(n, g)'
    BY <2>2, <2>3 DEF Holds, Absent
  <2>5. QED
    BY <2>4
<1>5. CASE call.value = RemoveCommand(P, o)
  <2>1. CASE n = P
    <3>1. Stopped(P, o)
      BY <1>1, <1>5 DEF GuardInv
    <3>2. g = o
      BY <2>1, <3>1 DEF Stopped, Holds
    <3>3. QED
      BY <1>5, <3>2
  <2>2. CASE n # P
    <3>1. containers'[n] = containers[n]
      BY <1>2, <1>5, <2>2, RemoveEffect, NamesFacts
    <3>2. Holds(n, g)'
      BY <3>1 DEF Holds, Absent
    <3>3. QED
      BY <3>2
  <2>3. QED
    BY <2>1, <2>2
<1>6. CASE call.value = RenameCommand(P, R(o))
  <2>1. containers'[n] = containers[n] \/ containers'[P] = containers[n]
        \/ containers'[R(o)] = containers[n]
    BY <1>2, <1>6, RenameEffect, NamesFacts DEF Holds
  <2>2. PICK m \in Names : containers'[m] = containers[n]
    BY <2>1, NamesFacts
  <2>3. Holds(m, g)'
    BY <2>2 DEF Holds, Absent
  <2>4. QED
    BY <2>3
<1>7. CASE call.value = RenameCommand(R(o), P)
  <2>1. containers'[n] = containers[n] \/ containers'[P] = containers[n]
        \/ containers'[R(o)] = containers[n]
    BY <1>2, <1>7, RenameEffect, NamesFacts DEF Holds
  <2>2. PICK m \in Names : containers'[m] = containers[n]
    BY <2>1, NamesFacts
  <2>3. Holds(m, g)'
    BY <2>2 DEF Holds, Absent
  <2>4. QED
    BY <2>3
<1>8. QED
  BY <1>2, <1>3, <1>4, <1>5, <1>6, <1>7 DEF CommandOf

\* So does every step.
LEMMA StepKeeps ==
  ASSUME TypeOK, GuardInv, [Next]_vars, ~Late, NEW n \in Names, NEW g, Holds(n, g)
  PROVE  \/ \E m \in Names : Holds(m, g)'
         \/ At("command") /\ call.value = RemoveCommand(P, g)
<1>e. ContainersOK /\ env.ops \subseteq Op /\ pending = {}
  BY DEF TypeOK
<1>1. CASE containers' = containers
  BY <1>1 DEF Holds, Absent
<1>2. CASE RunCommand \/ Kill
  BY <1>1, <1>2, ExecuteKeeps DEF RunCommand, Kill, engine
<1>3. CASE PowerLoss
  BY <1>3, <1>e, PowerLossEffect, NothingAssumption DEF Holds, Absent
<1>4. ASSUME NEW m \in Names, Exit(m)
      PROVE  Holds(n, g)'
  BY <1>4, <1>e, ExitEffect DEF Holds, Absent
<1>5. CASE Quiet
  BY <1>1, <1>5, QuietEffect
<1>6. ASSUME NEW op \in env.ops, Mutation(op)
      PROVE  containers' = containers
  BY <1>6, <1>e, MutationEffect
<1>7. QED
  BY <1>e, <1>1, <1>2, <1>3, <1>4, <1>5, <1>6, StepCases DEF CommandTimeout, vars

-----------------------------------------------------------------------------
(* The theorems. *)

\* The invariants hold of what an earlier operation left.
LEMMA InitInvariants == Init => TypeOK /\ GuardInv /\ LateInv
<1> SUFFICES ASSUME Init
             PROVE  TypeOK /\ GuardInv /\ LateInv
  OBVIOUS
<1>1. PICK c \in {None} \cup [generation : {Initial}, running : BOOLEAN],
           d \in {"empty", "initialized"} : InitWith([r \in Role |-> c], d)
  BY DEF Init
<1>2. c \in Container \cup {None}
  BY DEF Container, Generation
<1>3. containers = [n \in Names |-> IF n[2] = None THEN [r \in Role |-> c][n[1]] ELSE None]
  BY <1>1 DEF InitWith
<1>4. ContainersOK
  <2>1. \A n \in Names : n[1] \in Role
    BY DEF Names
  <2>2. QED
    BY <1>2, <1>3, <2>1 DEF ContainersOK
<1>5. env \in Environments /\ faultsLeft = env.budget /\ call = Idle /\ pending = {}
  BY <1>1 DEF InitWith
<1>6. ~At("command")
  BY <1>5 DEF At, Idle
<1>7. TypeOK
  BY <1>4, <1>5, <1>6, ContainerAssumption DEF TypeOK, ContainerAssumption
<1>8. \A op \in Op : Absent(R(op))
  BY <1>3, NamesFacts, ContainerAssumption DEF R, Rollback, Absent, ContainerAssumption
<1>9. GuardInv
  BY <1>6, <1>8 DEF GuardInv, Running
<1>10. LateInv
  <2>1. IsFiniteSet(pending) /\ Cardinality(pending) = 0
    BY <1>5, FS_EmptySet
  <2>2. env.budget \in Nat /\ env.ops \subseteq Op
    BY <1>7 DEF TypeOK
  <2>3. \A op \in env.ops : OneServer(op, Flight)
    BY <1>8, <2>2 DEF OneServer, Running
  <2>4. QED
    BY <1>5, <1>6, <1>8, <2>1, <2>2, <2>3 DEF LateInv
<1>11. QED
  BY <1>7, <1>9, <1>10

\* Commands in flight stay those of a call, and meet what it looked at.
THEOREM AdapterInvariant == Spec => [](TypeOK /\ GuardInv /\ LateInv)
<1>1. TypeOK /\ GuardInv /\ LateInv /\ [Next]_vars => TypeOK' /\ GuardInv' /\ LateInv'
  BY TypeStep, GuardStep, LateStep
<1>2. QED
  BY <1>1, InitInvariants, PTL DEF Spec

\* Two servers never run on one data directory, whatever is called, killed or cut
\* off, where no command outlives its client; nor, with one operation, where at most
\* two do (actions.go, one command by name).
THEOREM OneServerTheorem == Spec => []OneServerOnData
<1>1. TypeOK /\ GuardInv /\ LateInv => OneServerOnData
  <2> SUFFICES ASSUME TypeOK, GuardInv, LateInv, ~Late \/ (Alone /\ env.budget <= 2),
                      NEW m \in Names, NEW n \in Names, Running(m), Running(n)
               PROVE  m = n
    BY DEF OneServerOnData
  <2>1. CASE ~Late
    BY <2>1, NamesFacts DEF GuardInv
  <2>2. CASE Alone /\ env.budget <= 2
    <3>1. PICK x : env.ops = {x}
      BY <2>2, FS_Singleton DEF Alone, TypeOK
    <3>2. x \in Op
      BY <3>1 DEF TypeOK
    <3>3. /\ \A o \in Op \ {x} : ~Running(R(o))
          /\ Running(R(x)) => ~Running(P)
      BY <2>2, <3>1 DEF LateInv, OneServer, Running
    <3>4. QED
      BY <3>2, <3>3, NamesFacts
  <2>3. QED
    BY <2>1, <2>2
<1>2. QED
  BY <1>1, AdapterInvariant, PTL

\* Where no command outlives its client, RemoveCandidate removes the candidate of its
\* operation, and nothing else removes anything: no rename lands on a container, no
\* create replaces one.
THEOREM RemovesOnlyItsCandidateTheorem == Spec => RemovesOnlyItsCandidate
<1>1. TypeOK /\ GuardInv /\ [Next]_vars =>
        [\A r \in Role, g \in Generation : ~Late => ~RemovesAnother(r, g)]_vars
  <2> SUFFICES ASSUME TypeOK, GuardInv, [Next]_vars, NEW r \in Role, NEW g \in Generation,
                      ~Late, RemovesAnother(r, g)
               PROVE  FALSE
    OBVIOUS
  <2>1. r = Server /\ \A n \in Names : n[1] = Server
    BY PostgreSQLAssumption DEF Names
  <2>2. PICK n \in Names : Holds(n, g)
    BY DEF RemovesAnother
  <2>3. ~\E m \in Names : Holds(m, g)'
    BY <2>1 DEF RemovesAnother, Holds, Absent
  <2>4. At("command") /\ call.value = RemoveCommand(P, g)
    BY <2>2, <2>3, StepKeeps
  <2>5. RemoveCommand(P, g).kind = "rm" /\ RemoveCommand(P, g).name[1] = Server
        /\ RemoveCommand(P, g).generation = g
    BY NamesFacts DEF RemoveCommand, Command
  <2>6. QED
    BY <2>1, <2>4, <2>5 DEF RemovesAnother
<1>2. QED
  BY <1>1, AdapterInvariant, PTL DEF Spec, RemovesOnlyItsCandidate

-----------------------------------------------------------------------------
(* The transaction covers what was touched. *)

\* The steps of the adapter are those ContainerAdapterProofs is about.
LEMMA StepIsAdapterStep ==
  ASSUME TypeOK, [Next]_vars
  PROVE  CommandsOK /\ AdapterStep
<1>1. env.ops \subseteq Op
  BY DEF TypeOK
<1>2. ASSUME NEW op
      PROVE  CommandOf(op) = RoleCommand(Server, op)
  BY DEF CommandOf, RoleCommand, P, R
<1>3. ASSUME NEW op \in env.ops, Mutation(op)
      PROVE  \E c \in RoleCommand(Server, op) : Mutate(op, c)
  <2>1. \E c \in CommandOf(op) : Mutate(op, c)
    BY <1>3 DEF Mutation, RollbackCall, StopPrevious, PreservePrevious, CreateCandidate,
                StartCandidate, StopCandidate, RemoveCandidate, RestorePrevious, RestartPrevious,
                CommandOf
  <2>2. QED
    BY <1>2, <2>1
<1>4. CommandsOK
  BY <1>1, <1>2, PostgreSQLAssumption DEF TypeOK, CommandsOK
<1>5. QED
  BY <1>3, <1>4, StepCases, PostgreSQLAssumption DEF AdapterStep

\* Whatever an operation changed, on every disk a loss of power may leave there is a
\* transaction that says what was there before (transaction.go, stageTransaction): for
\* one sort of fault, commands that end with their client and a transactions directory
\* whose own entry is on the disk, which open_linux.go does not see to.
THEOREM CoveredTheorem == Spec => []Covered
<1> DEFINE Inv == TypeOK /\ StageTypeOK /\ StageInv /\ StrayInv
<1>1. Init => Inv
  <2> SUFFICES ASSUME Init
               PROVE  Inv
    OBVIOUS
  <2>1. PICK c \in {None} \cup [generation : {Initial}, running : BOOLEAN],
             d \in {"empty", "initialized"} : InitWith([r \in Role |-> c], d)
    BY DEF Init
  <2>2. c = None \/ c.generation = Initial
    OBVIOUS
  <2>3. StageTypeOK /\ StageInv /\ StrayInv
    BY <2>1, <2>2, InitStage
  <2>4. QED
    BY <2>3, InitInvariants
<1>2. Inv /\ [Next]_vars => Inv'
  <2> SUFFICES ASSUME TypeOK, StageTypeOK, StageInv, StrayInv, [Next]_vars
               PROVE  Inv'
    OBVIOUS
  <2>1. CommandsOK /\ AdapterStep
    BY StepIsAdapterStep
  <2>2. QED
    BY <2>1, TypeStep, StageTypeStep, StrayStep, StageStepKeeps
<1>3. Inv => Covered
  BY StageCovers
<1>4. QED
  BY <1>1, <1>2, <1>3, PTL DEF Spec

-----------------------------------------------------------------------------
(* What a crash left is always one step of a rollback. *)

\* RollbackPosition, by the transaction t.
Rest(op, t) == IF t.previous = None THEN Absent(R(op)) ELSE Stopped(R(op), t.previous)

\* The containers are where an operation that began as t says may have brought them.
Fits(op, t) ==
  \/ Rest(op, t) /\ (Absent(P) \/ Holds(P, op))
  \/ /\ t.previous # None /\ Holds(P, t.previous) /\ Absent(R(op))
     /\ Running(P) => t.running[Server]

\* A command in flight meets what its call looked at.
Meets(op, t, c) ==
  /\ c = RenameCommand(P, R(op)) => Stopped(P, t.previous) /\ Absent(R(op))
  /\ c = CreateCommand(P, op) => Absent(P) /\ Rest(op, t)
  /\ c = StartCommand(P) =>
       \/ Stopped(P, op) /\ Rest(op, t)
       \/ Stopped(P, t.previous) /\ Absent(R(op)) /\ t.running[Server]
  /\ c = RemoveCommand(P, op) => Stopped(P, op) /\ Rest(op, t)
  /\ c = RenameCommand(R(op), P) => Absent(P) /\ t.previous # None /\ Stopped(R(op), t.previous)

DecideInv ==
  Alone /\ ~Late /\ FilesLast =>
    \A op \in env.ops, t \in Transaction :
      /\ OnDisk(op, t) => Fits(op, t)
      /\ At("command") /\ tx.final[op] = t => Meets(op, t, call.value)

\* Where containers at most stop, everything stays where it was.
LEMMA StopsFit ==
  ASSUME NEW op \in Op, NEW t, NEW c, AtMostStop
  PROVE  (Fits(op, t) => Fits(op, t)') /\ (Meets(op, t, c) => Meets(op, t, c)')
<1>1. \A n \in {P, R(op)} : /\ Absent(n)' <=> Absent(n)
                            /\ Running(n)' => Running(n)
                            /\ \A g : (Holds(n, g)' <=> Holds(n, g)) /\ (Stopped(n, g) => Stopped(n, g)')
  BY NamesFacts, StopsKeep
<1>3. Rest(op, t) => Rest(op, t)'
  BY <1>1 DEF Rest
<1>4. QED
  BY <1>1, <1>3 DEF Fits, Meets

\* The command of an operation takes it from one place it may be in to another.
LEMMA ExecuteFits ==
  ASSUME ContainersOK, NEW op \in Op, NEW t \in Transaction, NEW c \in CommandOf(op), Execute(c),
         Fits(op, t), Meets(op, t, c)
  PROVE  Fits(op, t)'
<1>0. P \in Names /\ R(op) \in Names /\ R(op) # P /\ op \in Generation
  BY NamesFacts DEF Generation
<1>s. ASSUME NEW n \in Names, NEW m \in Names, containers'[n] = containers[m]
      PROVE  /\ Absent(n)' <=> Absent(m)
             /\ \A g : Stopped(n, g)' <=> Stopped(m, g)
  BY <1>s, SameContainer
<1>r. ASSUME containers'[R(op)] = containers[R(op)], Rest(op, t)
      PROVE  Rest(op, t)'
  BY <1>0, <1>r, <1>s DEF Rest
<1>1. CASE c = StopCommand(P)
  BY <1>0, <1>1, StopStops, StopsFit
<1>2. CASE c = StartCommand(P)
  <2>1. /\ \A m \in Names \ {P} : containers'[m] = containers[m]
        /\ ~Absent(P) => /\ containers'[P] \in Container
                         /\ containers'[P].generation = containers[P].generation
    BY <1>0, <1>2, PowerEffect DEF StartCommand
  <2>2. ~Absent(P)
    BY <1>2 DEF Meets, Stopped, Holds
  <2>3. \A g : Holds(P, g) => Holds(P, g)'
    BY <2>1, <2>2, NothingAssumption DEF Holds, Absent
  <2>4. containers'[R(op)] = containers[R(op)]
    BY <1>0, <2>1
  <2>5. CASE Stopped(P, op) /\ Rest(op, t)
    BY <1>r, <2>3, <2>4, <2>5 DEF Fits, Stopped
  <2>6. CASE Stopped(P, t.previous) /\ Absent(R(op)) /\ t.running[Server]
    <3>1. t.previous # None
      BY <1>0, <2>6, HoldsSome DEF Stopped
    <3>2. Absent(R(op))'
      BY <1>0, <1>s, <2>4, <2>6
    <3>3. QED
      BY <2>3, <2>6, <3>1, <3>2 DEF Fits, Stopped
  <2>7. QED
    BY <1>2, <2>5, <2>6 DEF Meets
<1>3. CASE c = CreateCommand(P, op)
  <2>0. Absent(P) /\ Rest(op, t)
    BY <1>3 DEF Meets
  <2>1. /\ \A m \in Names \ {P} : containers'[m] = containers[m]
        /\ Absent(P) => containers'[P] = [generation |-> op, running |-> FALSE]
    BY <1>0, <1>3, CreateEffect
  <2>2. [generation |-> op, running |-> FALSE] \in Container
    BY <1>0 DEF Container
  <2>3. Holds(P, op)'
    BY <2>0, <2>1, <2>2, NothingAssumption DEF Holds, Absent
  <2>4. QED
    BY <1>0, <1>r, <2>0, <2>1, <2>3 DEF Fits
<1>4. CASE c = RemoveCommand(P, op)
  <2>0. Stopped(P, op) /\ Rest(op, t)
    BY <1>4 DEF Meets
  <2>1. /\ \A m \in Names \ {P} : containers'[m] = containers[m]
        /\ containers'[P] = IF Running(P) THEN containers[P] ELSE None
    BY <1>0, <1>4, RemoveEffect
  <2>2. Absent(P)'
    BY <2>0, <2>1 DEF Absent, Stopped
  <2>3. QED
    BY <1>0, <1>r, <2>0, <2>1, <2>2 DEF Fits
<1>5. CASE c = RenameCommand(P, R(op))
  <2>0. Stopped(P, t.previous) /\ Absent(R(op)) /\ ~Absent(P)
    BY <1>5 DEF Meets, Stopped, Holds
  <2>1. containers'[R(op)] = containers[P] /\ containers'[P] = None
    BY <1>0, <1>5, <2>0, RenameEffect
  <2>2. t.previous # None
    BY <1>0, <2>0, HoldsSome DEF Stopped
  <2>3. Stopped(R(op), t.previous)' /\ Absent(P)'
    BY <1>0, <1>s, <2>0, <2>1 DEF Absent
  <2>4. QED
    BY <2>2, <2>3 DEF Fits, Rest
<1>6. CASE c = RenameCommand(R(op), P)
  <2>0. Absent(P) /\ t.previous # None /\ Stopped(R(op), t.previous) /\ ~Absent(R(op))
    BY <1>6 DEF Meets, Stopped, Holds
  <2>1. containers'[P] = containers[R(op)] /\ containers'[R(op)] = None
    BY <1>0, <1>6, <2>0, RenameEffect
  <2>2. Stopped(P, t.previous)' /\ Absent(R(op))'
    BY <1>0, <1>s, <2>0, <2>1 DEF Absent
  <2>3. QED
    BY <2>0, <2>2 DEF Fits, Stopped
<1>7. QED
  BY <1>1, <1>2, <1>3, <1>4, <1>5, <1>6 DEF CommandOf

\* A call looks before it hands its command over.
LEMMA MutationMeets ==
  ASSUME NEW op \in Op, Mutation(op)
  PROVE  Meets(op, tx.final[op], call'.value)
<1> DEFINE t == tx.final[op]
<1>1. \/ call'.value = StopCommand(P)
      \/ call'.value = StartCommand(P) /\ \/ Stopped(P, op) /\ RollbackPosition(op)
                                          \/ Stopped(P, t.previous) /\ Absent(R(op)) /\ t.running[Server]
      \/ call'.value = CreateCommand(P, op) /\ Absent(P) /\ RollbackPosition(op)
      \/ call'.value = RemoveCommand(P, op) /\ Stopped(P, op) /\ RollbackPosition(op)
      \/ call'.value = RenameCommand(P, R(op)) /\ Stopped(P, t.previous) /\ Absent(R(op))
      \/ call'.value = RenameCommand(R(op), P) /\ Absent(P) /\ t.previous # None /\ Stopped(R(op), t.previous)
  BY DEF Mutation, RollbackCall, StopPrevious, PreservePrevious, CreateCandidate, StartCandidate,
         StopCandidate, RemoveCandidate, RestorePrevious, RestartPrevious,
         CandidateRests, PreviousAside, PreviousRests, Mutate, Goto, Previous
<1>2. RollbackPosition(op) <=> Rest(op, t)
  BY DEF RollbackPosition, Rest, Previous
<1>3. QED
  BY <1>1, <1>2, CommandFacts DEF Meets

\* What was prepared and is still so fits.
LEMMA PreflightFits ==
  ASSUME NEW op \in Op, NEW t, PreflightState(op, t)
  PROVE  Fits(op, t)
<1>1. /\ Absent(R(op))
      /\ IF t.previous = None THEN Absent(P) ELSE Holds(P, t.previous) /\ Running(P) = t.running[Server]
  BY PostgreSQLAssumption DEF PreflightState, P, R
<1>2. QED
  BY <1>1 DEF Fits, Rest

LEMMA DecideStep ==
  ASSUME TypeOK, StageTypeOK, StageInv, DecideInv, [Next]_vars
  PROVE  DecideInv'
<1>0. CommandsOK /\ AdapterStep /\ ContainersOK /\ env.ops \subseteq Op
  BY StepIsAdapterStep DEF TypeOK
<1>e. env' = env
  BY <1>0, QuietEffect DEF AdapterStep, Mutate, RunCommand, LateCommand, CommandTimeout, Kill, PowerLoss,
     Exit, Fault, vars, control
<1> SUFFICES ASSUME Alone, ~Late, FilesLast, NEW op \in env.ops, NEW t \in Transaction
             PROVE  /\ OnDisk(op, t)' => Fits(op, t)'
                    /\ At("command")' /\ tx'.final[op] = t => Meets(op, t, call.value)'
  BY <1>e DEF DecideInv, Alone, Late, FilesLast, OnlyPowerIsLost
<1>o. op \in Op /\ env.ops = {op} /\ pending = {}
  <2>1. PICK z : env.ops = {z}
    BY FS_Singleton DEF Alone, TypeOK
  <2>2. QED
    BY <1>0, <2>1 DEF TypeOK
<1>d. /\ OnDisk(op, t) => Fits(op, t)
      /\ At("command") /\ tx.final[op] = t => Meets(op, t, call.value)
  BY DEF DecideInv
\* Nothing is on the disk that does not fit.
<1>f. ASSUME OnDisk(op, t)'
      PROVE  Fits(op, t) /\ (OnDisk(op, t) \/ Quiet)
  BY <1>0, <1>d, <1>f, <1>o, OnDiskStep, PreflightFits
\* Where containers at most stop.
<1>s. ASSUME AtMostStop, At("command")' => call' = call /\ tx' = tx
      PROVE  /\ OnDisk(op, t)' => Fits(op, t)'
             /\ At("command")' /\ tx'.final[op] = t => Meets(op, t, call.value)'
  <2>1. OnDisk(op, t)' => Fits(op, t)'
    BY <1>f, <1>o, <1>s, StopsFit
  <2>2. ASSUME At("command")', tx'.final[op] = t
        PROVE  Meets(op, t, call.value)'
    <3>1. PICK c : c = call.value
      OBVIOUS
    <3>2. Meets(op, t, c) /\ call'.value = c
      BY <1>d, <1>s, <2>2, <3>1 DEF At
    <3>3. Meets(op, t, c)'
      BY <1>o, <1>s, <3>2, StopsFit
    <3>4. QED
      BY <3>2, <3>3
  <2>3. QED
    BY <2>1, <2>2
<1>u. ASSUME containers' = containers, At("command")' => call' = call /\ tx' = tx
      PROVE  /\ OnDisk(op, t)' => Fits(op, t)'
             /\ At("command")' /\ tx'.final[op] = t => Meets(op, t, call.value)'
  BY <1>s, <1>u DEF AtMostStop, Absent, Running
\* A command is executed, and its call ends.
<1>x. ASSUME At("command"), Execute(call.value), call' = Idle, UNCHANGED <<tx, txDisk>>
      PROVE  /\ OnDisk(op, t)' => Fits(op, t)'
             /\ At("command")' /\ tx'.final[op] = t => Meets(op, t, call.value)'
  <2>1. PICK c : c = call.value
    OBVIOUS
  <2>2. c \in CommandOf(op) /\ call.op = op
    BY <1>o, <1>x, <2>1 DEF TypeOK
  <2>3. txDisk = {tx} /\ Loadable(op)
    BY <1>x, <2>2 DEF StageInv, At
  <2>4. ASSUME OnDisk(op, t)'
        PROVE  Fits(op, t)'
    <3>1. tx.final[op] = t
      BY <1>x, <2>3, <2>4, NothingAssumption DEF OnDisk, At, Idle, Loadable
    <3>2. Fits(op, t) /\ Meets(op, t, c)
      BY <1>d, <1>f, <1>x, <2>1, <2>4, <3>1
    <3>3. QED
      BY <1>0, <1>o, <1>x, <2>1, <2>2, <3>2, ExecuteFits
  <2>5. QED
    BY <1>x, <2>4 DEF At, Idle
<1>1. CASE Quiet
  BY <1>1, <1>u, QuietEffect, QuietCommand DEF At
<1>2. ASSUME NEW o \in env.ops, Mutation(o)
      PROVE  /\ OnDisk(op, t)' => Fits(op, t)'
             /\ At("command")' /\ tx'.final[op] = t => Meets(op, t, call.value)'
  <2>1. Mutation(op)
    BY <1>2, <1>o
  <2>2. UNCHANGED <<containers, tx>>
    BY <1>o, <2>1, MutationEffect
  <2>3. OnDisk(op, t)' => Fits(op, t)'
    BY <1>f, <2>2 DEF Fits, Rest, Absent, Running, Holds, Stopped
  <2>4. PICK c : c = call'.value
    OBVIOUS
  <2>5. tx'.final[op] = t => Meets(op, t, c)
    BY <1>o, <2>1, <2>2, <2>4, MutationMeets
  <2>6. Meets(op, t, c) => Meets(op, t, c)'
    BY <1>o, <2>2, StopsFit DEF AtMostStop, Absent, Running
  <2>7. QED
    BY <2>3, <2>4, <2>5, <2>6
<1>3. CASE RunCommand
  BY <1>3, <1>x DEF RunCommand, Return, stages
<1>4. ASSUME NEW c \in pending, LateCommand(c)
      PROVE  FALSE
  BY <1>4, <1>o
<1>5. CASE CommandTimeout
  BY <1>5 DEF CommandTimeout, Fault, Late
<1>6. CASE Kill
  <2>1. call' = Idle /\ UNCHANGED <<tx, txDisk>>
    BY <1>6 DEF Kill, Return, stages
  <2>2. CASE containers' = containers
    BY <1>u, <2>1, <2>2 DEF At, Idle
  <2>3. QED
    BY <1>6, <1>x, <2>1, <2>2 DEF Kill, engine
<1>7. CASE PowerLoss
  <2>1. AtMostStop
    BY <1>0, <1>7, PowerLossStops
  <2>2. ~At("command")'
    BY <1>7 DEF PowerLoss, Return, At, Idle
  <2>3. QED
    BY <1>s, <2>1, <2>2
<1>8. ASSUME NEW m \in Names, Exit(m)
      PROVE  /\ OnDisk(op, t)' => Fits(op, t)'
             /\ At("command")' /\ tx'.final[op] = t => Meets(op, t, call.value)'
  <2>1. AtMostStop
    BY <1>0, <1>8, ExitStops
  <2>2. call' = call /\ tx' = tx
    BY <1>8 DEF Exit, stages
  <2>3. QED
    BY <1>s, <2>1, <2>2
<1>9. CASE UNCHANGED vars
  BY <1>9, <1>u DEF vars
<1>10. QED
  BY <1>1, <1>2, <1>3, <1>4, <1>5, <1>6, <1>7, <1>8, <1>9, StepCases

\* The invariant: containers fit the transaction on the disk, and a command in flight
\* meets what its call looked at.
LEMMA DecideInvariant == Spec => [](TypeOK /\ StageTypeOK /\ StageInv /\ StrayInv /\ DecideInv)
<1> DEFINE Inv == TypeOK /\ StageTypeOK /\ StageInv /\ StrayInv /\ DecideInv
<1>1. Init => Inv
  <2> SUFFICES ASSUME Init
               PROVE  Inv
    OBVIOUS
  <2>1. PICK c \in {None} \cup [generation : {Initial}, running : BOOLEAN],
             d \in {"empty", "initialized"} : InitWith([r \in Role |-> c], d)
    BY DEF Init
  <2>2. c = None \/ c.generation = Initial
    OBVIOUS
  <2>3. StageTypeOK /\ StageInv /\ StrayInv
    BY <2>1, <2>2, InitStage
  <2>4. ~At("command") /\ ~At("writeStage")
    BY <2>1 DEF InitWith, At, Idle
  <2>5. ASSUME NEW op \in env.ops, NEW t \in Transaction
        PROVE  ~OnDisk(op, t)
    <3>1. op \in Op /\ t # None
      BY <2>1, ContainerAssumption, NothingAssumption DEF InitWith, ContainerAssumption
    <3>2. \A s \in txDisk : s.final[op] = None /\ s.stage[op] = None
      BY <2>1, <3>1 DEF InitWith, NoFiles
    <3>3. QED
      BY <2>4, <3>1, <3>2 DEF OnDisk
  <2>6. DecideInv
    BY <2>4, <2>5 DEF DecideInv
  <2>7. QED
    BY <2>3, <2>6, InitInvariants
<1>2. Inv /\ [Next]_vars => Inv'
  <2> SUFFICES ASSUME TypeOK, StageTypeOK, StageInv, StrayInv, DecideInv, [Next]_vars
               PROVE  Inv'
    OBVIOUS
  <2>1. CommandsOK /\ AdapterStep
    BY StepIsAdapterStep
  <2>2. QED
    BY <2>1, TypeStep, StageTypeStep, StrayStep, StageStepKeeps, DecideStep
<1>3. QED
  BY <1>1, <1>2, PTL DEF Spec

\* After a crash between any two calls the observation selects the next one: either
\* the previous state is back, or exactly one rollback call is accepted (Observe,
\* Verify and the guards of the rollback calls in actions.go).  One operation, and the
\* conditions of the theorem before this one.
THEOREM ObservationTheorem == Spec => []ObservationDecides
<1> DEFINE Inv == TypeOK /\ StageTypeOK /\ StageInv /\ StrayInv /\ DecideInv
<1>1. Inv => ObservationDecides
  <2> SUFFICES ASSUME TypeOK, StageTypeOK, StageInv, DecideInv, Alone, ~Late, FilesLast, Ready,
                      NEW op \in env.ops, Loadable(op), Bound(op)
               PROVE  /\ "other" \notin {Observe(op).primary, Observe(op).rollback}
                      /\ \/ Verify(op, "previous")
                         \/ LET accepted == << CandidateRuns(op), CandidateRests(op),
                                               PreviousAside(op), PreviousRests(op) >>
                            IN  Cardinality({k \in DOMAIN accepted : accepted[k]}) = 1
    BY DEF ObservationDecides
  <2> DEFINE t == tx.final[op]
             a == << CandidateRuns(op), CandidateRests(op), PreviousAside(op), PreviousRests(op) >>
  <2>0. op \in Op /\ ContainersOK /\ P \in Names /\ R(op) \in Names
    BY NamesFacts DEF TypeOK
  <2>1. t \in Transaction /\ OnDisk(op, t)
    BY DEF Loadable, OnDisk, StageTypeOK
  <2>2. Fits(op, t)
    BY <2>1 DEF DecideInv
  <2>3. Previous(op) = t.previous /\ t.previous # op
    <3>1. Covers(tx)
      BY DEF StageInv, StageTypeOK
    <3>2. QED
      BY <2>0, <2>1, <3>1 DEF Covers, Previous
  <2>4. \A n \in {P, R(op)} : ~Holds(n, None) /\ (\A g : Holds(n, g) => ~Absent(n))
                              /\ \A g, h : Holds(n, g) /\ Holds(n, h) => g = h
    BY <2>0, HoldsSome DEF Holds
  <2>5. /\ RollbackPosition(op) <=> Rest(op, t)
        /\ Rest(op, t) => IF t.previous = None THEN Absent(R(op)) ELSE Holds(R(op), t.previous)
    BY <2>3 DEF RollbackPosition, Rest, Stopped
  <2>6. "other" \notin {Observe(op).primary, Observe(op).rollback}
    <3>1. State(op, P) # "other"
      BY <2>2, <2>3, <2>4 DEF State, Fits
    <3>2. State(op, R(op)) # "other"
      BY <2>2, <2>3, <2>4, <2>5 DEF State, Fits
    <3>3. Observe(op).primary = State(op, P) /\ Observe(op).rollback = State(op, R(op))
      BY DEF Observe
    <3>4. QED
      BY <3>1, <3>2, <3>3
  \* One of the four, and no other.
  <2>7. ASSUME NEW i \in 1 .. 4, \A k \in 1 .. 4 : a[k] <=> k = i
        PROVE  Cardinality({k \in DOMAIN a : a[k]}) = 1
    <3>1. DOMAIN a = 1 .. 4
      OBVIOUS
    <3>2. {k \in DOMAIN a : a[k]} = {i}
      BY <2>7, <3>1
    <3> HIDE DEF a
    <3>3. Cardinality({i}) = 1
      BY FS_Singleton
    <3>4. QED
      BY <3>2, <3>3
  <2>8. /\ a[1] <=> Holds(P, op) /\ Running(P) /\ Rest(op, t)
        /\ a[2] <=> Holds(P, op) /\ ~Running(P) /\ Rest(op, t)
        /\ a[3] <=> Absent(P) /\ t.previous # None /\ Stopped(R(op), t.previous)
        /\ a[4] <=> Holds(P, t.previous) /\ ~Running(P) /\ Absent(R(op)) /\ t.running[Server]
    BY <2>3, <2>5 DEF CandidateRuns, CandidateRests, PreviousAside, PreviousRests, Stopped
  <2>9. \A k \in 1 .. 4 : k = 1 \/ k = 2 \/ k = 3 \/ k = 4
    OBVIOUS
  <2> HIDE DEF a, t
  <2>10. CASE Holds(P, op) /\ Rest(op, t)
    <3>1. ~a[3] /\ ~a[4]
      BY <2>3, <2>4, <2>8, <2>10
    <3>2. CASE Running(P)
      <4>1. \A k \in 1 .. 4 : a[k] <=> k = 1
        BY <2>8, <2>9, <2>10, <3>1, <3>2
      <4>2. QED
        BY <2>6, <2>7, <4>1 DEF a
    <3>3. CASE ~Running(P)
      <4>1. \A k \in 1 .. 4 : a[k] <=> k = 2
        BY <2>8, <2>9, <2>10, <3>1, <3>3
      <4>2. QED
        BY <2>6, <2>7, <4>1 DEF a
    <3>4. QED
      BY <3>2, <3>3
  <2>11. CASE Absent(P) /\ Rest(op, t)
    <3>1. CASE t.previous = None
      <4>1. Verify(op, "previous")
        BY <2>3, <2>5, <2>11, <3>1 DEF Verify
      <4>2. QED
        BY <2>6, <4>1
    <3>2. CASE t.previous # None
      <4>1. ~a[1] /\ ~a[2] /\ a[3] /\ ~a[4]
        BY <2>4, <2>8, <2>11, <3>2 DEF Rest
      <4>2. \A k \in 1 .. 4 : a[k] <=> k = 3
        BY <2>9, <4>1
      <4>3. QED
        BY <2>6, <2>7, <4>2 DEF a
    <3>3. QED
      BY <3>1, <3>2
  <2>12. CASE /\ t.previous # None /\ Holds(P, t.previous) /\ Absent(R(op))
              /\ Running(P) => t.running[Server]
    <3>0. t.running[Server] \in BOOLEAN
      BY <2>1, PostgreSQLAssumption DEF Transaction
    <3>1. CASE ~Running(P) /\ t.running[Server]
      <4>1. ~a[1] /\ ~a[2] /\ ~a[3] /\ a[4]
        BY <2>3, <2>4, <2>8, <2>12, <3>1
      <4>2. \A k \in 1 .. 4 : a[k] <=> k = 4
        BY <2>9, <4>1
      <4>3. QED
        BY <2>6, <2>7, <4>2 DEF a
    <3>2. CASE ~(~Running(P) /\ t.running[Server])
      <4>a. Running(P) \in BOOLEAN
        BY DEF Running, Absent
      <4>b. Running(P) <=> t.running[Server]
        BY <2>12, <3>2
      <4>1. Running(P) = t.running[Server]
        BY <3>0, <4>a, <4>b, Zenon
      <4>2. Verify(op, "previous")
        BY <2>3, <2>12, <4>1 DEF Verify, t
      <4>3. QED
        BY <2>6, <4>2
    <3>3. QED
      BY <3>1, <3>2
  <2>13. QED
    BY <2>2, <2>10, <2>11, <2>12 DEF Fits
<1>2. QED
  BY <1>1, DecideInvariant, PTL

-----------------------------------------------------------------------------
(* A rollback call brings the containers nearer to the previous state. *)

\* The rollback calls that remain: stop and remove the candidate, rename the previous
\* container back, start it if it ran.
Distance(op) ==
  CASE Holds(P, op) -> IF Running(P) THEN 4 ELSE 3
    [] Absent(P)    -> IF Previous(op) = None THEN 0 ELSE 2
    [] OTHER        -> IF tx.final[op].running[Server] /\ ~Running(P) THEN 1 ELSE 0

\* The command in flight, if there is one, is that of a rollback call.
Backward(op) ==
  At("command") =>
    \/ call.value = StopCommand(P) /\ Holds(P, op)
    \/ call.value = RemoveCommand(P, op)
    \/ call.value = RenameCommand(R(op), P)
    \/ call.value = StartCommand(P) /\ ~Holds(P, op)

\* Once a rollback was decided and no forward command is left in flight, only a container
\* that ends by itself takes the containers further away from the previous state, and a
\* command that does anything brings them nearer.
RollbackNears ==
  [][Alone /\ ~Late /\ FilesLast =>
       \A op \in env.ops :
         op \in undoing /\ Loadable(op) /\ tx'.final[op] = tx.final[op] /\ Backward(op) =>
           /\ Backward(op)'
           /\ \/ Distance(op)' <= Distance(op)
              \/ PowerLoss \/ \E n \in Names : Exit(n)
           /\ RunCommand /\ ~(call.value.kind = "stop" /\ ~Running(P)) =>
                Distance(op)' < Distance(op)]_vars

\* It is over when the distance is zero.
ZeroIsPrevious ==
  Alone /\ ~Late /\ FilesLast /\ Ready =>
    \A op \in env.ops : Loadable(op) /\ Bound(op) => (Distance(op) = 0 <=> Verify(op, "previous"))

\* Where the containers and a command in flight are.
LEMMA PlaceFacts ==
  ASSUME TypeOK, StageTypeOK, StageInv, DecideInv, Alone, ~Late, FilesLast,
         NEW op \in env.ops, Loadable(op), NEW t, t = tx.final[op]
  PROVE  /\ op \in Op /\ env.ops = {op} /\ pending = {} /\ ContainersOK
         /\ t \in Transaction /\ t.previous # op /\ Previous(op) = t.previous
         /\ t.running[Server] \in BOOLEAN
         /\ Fits(op, t)
         /\ At("command") => call.value \in CommandOf(op) /\ Meets(op, t, call.value)
<1>1. op \in Op /\ env.ops = {op} /\ pending = {} /\ ContainersOK
  <2>1. PICK z : env.ops = {z}
    BY FS_Singleton DEF Alone, TypeOK
  <2>2. QED
    BY <2>1 DEF TypeOK
<1>2. t \in Transaction /\ OnDisk(op, t)
  BY DEF Loadable, OnDisk, StageTypeOK
<1>3. t.previous # op
  <2>1. Covers(tx)
    BY DEF StageInv, StageTypeOK
  <2>2. QED
    BY <1>1, <1>2, <2>1 DEF Covers
<1>4. t.running[Server] \in BOOLEAN
  BY <1>2, PostgreSQLAssumption DEF Transaction
<1>5. At("command") => call.value \in CommandOf(op)
  BY <1>1 DEF TypeOK
<1>6. QED
  BY <1>1, <1>2, <1>3, <1>4, <1>5 DEF DecideInv, Previous

\* The command of a rollback call.
Undoes(op, c) ==
  \/ c = StopCommand(P) /\ Holds(P, op)
  \/ c = RemoveCommand(P, op)
  \/ c = RenameCommand(R(op), P)
  \/ c = StartCommand(P) /\ ~Holds(P, op)

LEMMA ExecuteNears ==
  ASSUME ContainersOK, NEW op \in Op, NEW t \in Transaction, t.previous # op,
         tx.final[op] = t, tx'.final[op] = t,
         NEW c, Execute(c), Meets(op, t, c), Undoes(op, c)
  PROVE  /\ Distance(op)' <= Distance(op)
         /\ ~(c.kind = "stop" /\ ~Running(P)) => Distance(op)' < Distance(op)
<1>0. P \in Names /\ R(op) \in Names /\ R(op) # P
  BY NamesFacts
<1>1. CASE c = StopCommand(P) /\ Holds(P, op)
  <2>1. ~Absent(P) => /\ containers'[P] \in Container
                      /\ containers'[P].generation = containers[P].generation
                      /\ containers'[P].running = FALSE
    BY <1>0, <1>1, PowerEffect DEF StopCommand
  <2>2. Holds(P, op)' /\ ~Running(P)'
    BY <1>1, <2>1, NothingAssumption DEF Holds, Running, Absent
  <2>3. Distance(op)' = 3
    BY <2>2 DEF Distance, Holds
  <2>4. Distance(op) = IF Running(P) THEN 4 ELSE 3
    BY <1>1 DEF Distance, Holds
  <2>5. QED
    BY <1>1, <2>3, <2>4, CommandFacts
<1>2. CASE c = RemoveCommand(P, op)
  <2>1. Stopped(P, op)
    BY <1>2 DEF Meets
  <2>2. containers'[P] = None
    BY <1>0, <1>2, <2>1, RemoveEffect DEF Stopped
  <2>3. Distance(op)' \in {0, 2}
    BY <2>2 DEF Distance, Absent, Holds
  <2>4. Distance(op) = 3
    BY <2>1 DEF Distance, Stopped, Holds
  <2>5. QED
    BY <2>3, <2>4
<1>3. CASE c = RenameCommand(R(op), P)
  <2>1. Absent(P) /\ t.previous # None /\ Stopped(R(op), t.previous) /\ ~Absent(R(op))
    BY <1>3 DEF Meets, Stopped, Holds
  <2>2. containers'[P] = containers[R(op)]
    BY <1>0, <1>3, <2>1, RenameEffect
  <2>3. Stopped(P, t.previous)'
    BY <1>0, <2>1, <2>2, SameContainer
  <2>4. ~Absent(P)' /\ ~Holds(P, op)'
    BY <2>3 DEF Stopped, Holds
  <2>5. Distance(op)' \in {0, 1}
    BY <2>4 DEF Distance
  <2>6. Distance(op) = 2
    BY <2>1 DEF Distance, Holds, Previous
  <2>7. QED
    BY <2>5, <2>6
<1>4. CASE c = StartCommand(P) /\ ~Holds(P, op)
  <2>1. Stopped(P, t.previous) /\ t.running[Server] /\ ~Absent(P)
    BY <1>4, CommandFacts DEF Meets, Stopped, Holds
  <2>2. /\ containers'[P] \in Container
        /\ containers'[P].generation = containers[P].generation
        /\ containers'[P].running = TRUE
    BY <1>0, <1>4, <2>1, PowerEffect DEF StartCommand
  <2>3. ~Absent(P)' /\ ~Holds(P, op)' /\ Running(P)'
    BY <1>4, <2>1, <2>2, NothingAssumption DEF Holds, Running, Absent
  <2>4. Distance(op)' = 0
    BY <2>3 DEF Distance
  <2>5. Distance(op) = 1
    BY <1>4, <2>1 DEF Distance, Stopped
  <2>6. QED
    BY <2>4, <2>5
<1>5. QED
  BY <1>1, <1>2, <1>3, <1>4 DEF Undoes

\* Where no container changes, or only the power of one that stops, the command in flight
\* remains one of a rollback.
LEMMA StopsUndo ==
  ASSUME NEW op \in Op, AtMostStop, call' = call \/ call'.name # "command", Backward(op)
  PROVE  Backward(op)'
<1>1. Holds(P, op)' <=> Holds(P, op)
  BY NamesFacts, StopsKeep
<1>2. CASE call' = call
  <2>1. PICK c : c = call.value
    OBVIOUS
  <2>2. c = call'.value
    BY <1>2, <2>1
  <2>3. QED
    BY <1>1, <1>2, <2>1, <2>2 DEF Backward, At
<1>3. CASE call'.name # "command"
  BY <1>3 DEF Backward, At
<1>4. QED
  BY <1>2, <1>3

LEMMA NearStep ==
  ASSUME TypeOK, StageTypeOK, StageInv, DecideInv, [Next]_vars, Alone, ~Late, FilesLast,
         NEW op \in env.ops, op \in undoing, Loadable(op), tx'.final[op] = tx.final[op], Backward(op)
  PROVE  /\ Backward(op)'
         /\ \/ Distance(op)' <= Distance(op)
            \/ PowerLoss \/ \E n \in Names : Exit(n)
         /\ RunCommand /\ ~(call.value.kind = "stop" /\ ~Running(P)) =>
              Distance(op)' < Distance(op)
<1>0. PICK t : t = tx.final[op]
  OBVIOUS
<1>p. /\ op \in Op /\ env.ops = {op} /\ pending = {} /\ ContainersOK
      /\ t \in Transaction /\ t.previous # op /\ Previous(op) = t.previous
      /\ At("command") => call.value \in CommandOf(op) /\ Meets(op, t, call.value)
  BY <1>0, PlaceFacts
<1>d. Distance(op) \in 0 .. 4
  BY DEF Distance
<1>s. ASSUME containers' = containers
      PROVE  AtMostStop /\ Distance(op)' <= Distance(op)
  <2>1. AtMostStop
    BY <1>s DEF AtMostStop, Absent, Running
  <2>2. Distance(op)' = Distance(op)
    BY <1>s DEF Distance, Holds, Absent, Running, Previous
  <2>3. QED
    BY <1>d, <2>1, <2>2
\* A command is executed, and its call ends.
<1>x. ASSUME At("command"), Execute(call.value), call' = Idle
      PROVE  /\ Backward(op)' /\ Distance(op)' <= Distance(op)
             /\ ~(call.value.kind = "stop" /\ ~Running(P)) => Distance(op)' < Distance(op)
  <2>1. PICK c : c = call.value
    OBVIOUS
  <2>2. Undoes(op, c) /\ Meets(op, t, c)
    BY <1>p, <1>x, <2>1 DEF Backward, Undoes
  <2>3. /\ Distance(op)' <= Distance(op)
        /\ ~(c.kind = "stop" /\ ~Running(P)) => Distance(op)' < Distance(op)
    BY <1>0, <1>p, <1>x, <2>1, <2>2, ExecuteNears
  <2>4. Backward(op)'
    BY <1>x DEF Backward, At, Idle
  <2>5. QED
    BY <2>1, <2>3, <2>4
<1>r. RunCommand => At("command") /\ Execute(call.value) /\ call' = Idle
  BY DEF RunCommand, Return
<1>1. CASE RunCommand
  BY <1>1, <1>r, <1>x
<1>2. CASE ~RunCommand
  <2>1. CASE Quiet
    <3>1. containers' = containers /\ (call' = call \/ call'.name # "command")
      BY <2>1, QuietEffect
    <3>2. QED
      BY <1>2, <1>p, <1>s, <3>1, StopsUndo
  <2>2. ASSUME NEW o \in env.ops, Mutation(o)
        PROVE  Backward(op)' /\ Distance(op)' <= Distance(op)
    <3>1. Mutation(op)
      BY <1>p, <2>2
    <3>2. RollbackCall(op)
      BY <3>1 DEF Mutation
    <3>3. containers' = containers
      BY <1>p, <3>1, MutationEffect
    <3>4. \/ call'.value = StopCommand(P) /\ Holds(P, op)
          \/ call'.value = RemoveCommand(P, op)
          \/ call'.value = RenameCommand(R(op), P)
          \/ call'.value = StartCommand(P) /\ ~Holds(P, op)
      BY <1>p, <3>2 DEF RollbackCall, StopCandidate, RemoveCandidate, RestorePrevious, RestartPrevious,
            CandidateRuns, PreviousRests, Mutate, Goto, Stopped, Holds
    <3>5. Holds(P, op)' <=> Holds(P, op)
      BY <3>3 DEF Holds, Absent
    <3>6. PICK c : c = call'.value
      OBVIOUS
    <3>7. Backward(op)'
      BY <3>4, <3>5, <3>6 DEF Backward
    <3>8. QED
      BY <1>s, <3>3, <3>7
  <2>3. ASSUME NEW c \in pending, LateCommand(c)
        PROVE  FALSE
    BY <1>p, <2>3
  <2>4. CASE CommandTimeout
    BY <2>4 DEF CommandTimeout, Fault, Late
  <2>5. CASE Kill
    <3>1. call' = Idle
      BY <2>5 DEF Kill, Return
    <3>2. CASE containers' = containers
      BY <1>2, <1>p, <1>s, <3>1, <3>2, StopsUndo DEF Idle
    <3>3. CASE At("command") /\ Execute(call.value)
      BY <1>2, <1>x, <3>1, <3>3
    <3>4. QED
      BY <2>5, <3>2, <3>3 DEF Kill, engine
  <2>6. CASE PowerLoss
    <3>1. Backward(op)'
      BY <2>6 DEF PowerLoss, Return, Backward, At, Idle
    <3>2. QED
      BY <1>2, <2>6, <3>1
  <2>7. ASSUME NEW n \in Names, Exit(n)
        PROVE  Backward(op)'
    <3>1. AtMostStop /\ call' = call
      BY <1>p, <2>7, ExitStops, ExitEffect
    <3>2. QED
      BY <1>p, <3>1, StopsUndo
  <2>8. CASE UNCHANGED vars
    <3>1. containers' = containers /\ call' = call
      BY <2>8 DEF vars
    <3>2. QED
      BY <1>2, <1>p, <1>s, <3>1, StopsUndo
  <2>9. QED
    BY <1>2, <2>1, <2>2, <2>3, <2>4, <2>5, <2>6, <2>7, <2>8, StepCases
<1>3. QED
  BY <1>1, <1>2

\* What a rollback does until the previous state is back: the safety part of
\* RollbackEnds, under the conditions of RollbackEnds.
THEOREM RollbackNearsTheorem == Spec => RollbackNears /\ []ZeroIsPrevious
<1> DEFINE Inv == TypeOK /\ StageTypeOK /\ StageInv /\ StrayInv /\ DecideInv
<1>1. Inv /\ [Next]_vars =>
        [Alone /\ ~Late /\ FilesLast =>
           \A op \in env.ops :
             op \in undoing /\ Loadable(op) /\ tx'.final[op] = tx.final[op] /\ Backward(op) =>
               /\ Backward(op)'
               /\ \/ Distance(op)' <= Distance(op)
                  \/ PowerLoss \/ \E n \in Names : Exit(n)
               /\ RunCommand /\ ~(call.value.kind = "stop" /\ ~Running(P)) =>
                    Distance(op)' < Distance(op)]_vars
  BY NearStep
<1>2. Inv => ZeroIsPrevious
  <2> SUFFICES ASSUME TypeOK, StageTypeOK, StageInv, DecideInv, Alone, ~Late, FilesLast, Ready,
                      NEW op \in env.ops, Loadable(op), Bound(op)
               PROVE  Distance(op) = 0 <=> Verify(op, "previous")
    BY DEF ZeroIsPrevious
  <2>0. PICK t : t = tx.final[op]
    OBVIOUS
  <2>1. /\ op \in Op /\ ContainersOK /\ t.previous # op /\ Previous(op) = t.previous
        /\ t.running[Server] \in BOOLEAN /\ Fits(op, t)
    BY <2>0, PlaceFacts
  <2>2. Running(P) \in BOOLEAN /\ P \in Names /\ ~Holds(P, None)
    BY <2>1, NamesFacts, HoldsSome DEF Running, Absent
  <2>3. CASE Holds(P, op)
    <3>1. Distance(op) \in {3, 4}
      BY <2>3 DEF Distance, Holds
    <3>2. ~Verify(op, "previous")
      BY <2>1, <2>3 DEF Verify, Holds
    <3>3. QED
      BY <3>1, <3>2
  <2>4. CASE Absent(P)
    <3>1. Distance(op) = IF t.previous = None THEN 0 ELSE 2
      BY <2>1, <2>4 DEF Distance, Holds
    <3>2. Verify(op, "previous") <=> t.previous = None
      BY <2>1, <2>4 DEF Verify, Fits, Rest, Holds
    <3>3. QED
      BY <3>1, <3>2
  <2>5. CASE ~Holds(P, op) /\ ~Absent(P)
    <3>1. /\ t.previous # None /\ Holds(P, t.previous) /\ Absent(R(op))
          /\ Running(P) => t.running[Server]
      BY <2>1, <2>5 DEF Fits
    <3>2. Distance(op) = 0 <=> ~(t.running[Server] /\ ~Running(P))
      BY <2>0, <2>5 DEF Distance
    <3>3. Verify(op, "previous") <=> (Running(P) <=> t.running[Server])
      BY <2>0, <2>1, <2>2, <3>1 DEF Verify
    <3>4. QED
      BY <3>1, <3>2, <3>3
  <2>6. QED
    BY <2>3, <2>4, <2>5
<1>3. QED
  BY <1>1, <1>2, DecideInvariant, PTL DEF Spec, RollbackNears
=============================================================================
