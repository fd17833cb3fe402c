----------------------- MODULE AuthentikAdapterProofs -----------------------
(***************************************************************************)
(* Proofs about AuthentikAdapter, for any operations and every             *)
(* environment.                                                            *)
(***************************************************************************)
EXTENDS AuthentikAdapter, ContainerAdapterProofs

-----------------------------------------------------------------------------
(* The inductive invariant, in named parts. *)

\* Both containers stand under their names and are of one generation.
Paired == ~Absent(S) /\ ~Absent(W) /\ containers[S].generation = containers[W].generation

\* Where no command outlives its client, the state a call looked at is, but for
\* containers that have stopped, the state its command meets.
GuardInv ==
  ~Late =>
    /\ \A r \in Role, op \in Op : ~Running(Rollback(r, op))
    /\ Running(S) /\ Running(W) => Paired
    /\ At("command") => \A r \in Role :
         /\ call.value = StartCommand(Primary(r)) => Paired
         /\ call.value = RemoveCommand(Primary(r), call.op) => Stopped(Primary(r), call.op)
         /\ call.value = RenameCommand(Primary(r), Rollback(r, call.op)) => ~Running(Primary(r))

\* Where no container ends by itself, what a worker needs is there when it is
\* started, and the worker is gone when the server is stopped.
WorkerInv ==
  env.faults \subseteq {"io", "kill"} =>
    /\ Running(W) => Running(S)
    /\ At("command") => /\ call.value = StartCommand(W) => Running(S)
                        /\ call.value = StopCommand(S) => ~Running(W)

-----------------------------------------------------------------------------
(* Names, commands and calls. *)

\* Two primary names, and two rollback names for each operation.
LEMMA NamesFacts ==
  /\ S \in Names /\ W \in Names /\ S # W /\ S = Primary("server") /\ W = Primary("worker")
  /\ \A r \in Role : Primary(r) \in {S, W} /\ Primary(r) \in Names /\ r \in {"server", "worker"}
  /\ \A n \in Names : n = S \/ n = W \/ \E r \in Role, op \in Op : n = Rollback(r, op)
  /\ \A n \in Names : n[1] = "worker" => n = W \/ \E r \in Role, op \in Op : n = Rollback(r, op)
  /\ "server" \in Role /\ "worker" \in Role
  BY AuthentikAssumption, ContainerAssumption
     DEF S, W, Names, Primary, Rollback, ContainerAssumption, AuthentikAssumption

\* The commands differ.
LEMMA CommandFacts ==
  ASSUME NEW r \in Role, NEW q \in Role, NEW op \in Op
  PROVE  /\ StopCommand(Primary(r)).kind = "stop" /\ StartCommand(Primary(r)).kind = "start"
         /\ CreateCommand(Primary(r), op).kind = "create"
         /\ RemoveCommand(Primary(r), op).kind = "rm"
         /\ RenameCommand(Primary(r), Rollback(r, op)).kind = "rename"
         /\ RenameCommand(Rollback(r, op), Primary(r)).kind = "rename"
         /\ StopCommand(Primary(r)) = StopCommand(Primary(q)) => r = q
         /\ StartCommand(Primary(r)) = StartCommand(Primary(q)) => r = q
         /\ RemoveCommand(Primary(r), op) = RemoveCommand(Primary(q), op) => r = q
         /\ RenameCommand(Primary(r), Rollback(r, op)) = RenameCommand(Primary(q), Rollback(q, op)) => r = q
         /\ RenameCommand(Primary(r), Rollback(r, op)) # RenameCommand(Rollback(q, op), Primary(q))
<1>1. Primary(r) = Primary(q) => r = q
  BY DEF Primary
<1>2. Primary(r) # Rollback(q, op)
  BY RoleNames
<1>3. QED
  BY <1>1, <1>2
     DEF StopCommand, StartCommand, CreateCommand, RemoveCommand, RenameCommand, Command

Mutation(op, r) ==
  \/ /\ op \notin undoing
     /\ \/ StopPrevious(op, r) \/ PreservePrevious(op, r)
        \/ CreateCandidate(op, r) \/ StartCandidate(op, r)
  \/ StopCandidate(op, r) \/ RemoveCandidate(op, r) \/ RestorePrevious(op, r) \/ RestartPrevious(op, r)

\* A call that is accepted has found the four names as its guard wants them, and
\* hands its command over.
LEMMA MutationEffect ==
  ASSUME NEW op \in Op, NEW r \in Role, Mutation(op, r)
  PROVE  \E c \in RoleCommand(r, op) :
           /\ Mutate(op, c)
           /\ \/ c = StopCommand(Primary(r)) /\ (r = "server" => ~Running(W))
              \/ c = StartCommand(Primary(r)) /\ Paired /\ (r = "worker" => Running(S))
              \/ c = CreateCommand(Primary(r), op)
              \/ c = RemoveCommand(Primary(r), op) /\ Stopped(Primary(r), op)
              \/ c = RenameCommand(Primary(r), Rollback(r, op)) /\ ~Running(Primary(r))
              \/ c = RenameCommand(Rollback(r, op), Primary(r))
<1> USE DEF RoleCommand
<1>1. CASE StopPrevious(op, r)
  BY <1>1 DEF StopPrevious
<1>2. CASE PreservePrevious(op, r)
  <2>1. ~Running(Primary(r))
    BY <1>2, NamesFacts DEF PreservePrevious, ServerOnly, Stopped
  <2>2. QED
    BY <1>2, <2>1 DEF PreservePrevious
<1>3. CASE CreateCandidate(op, r)
  BY <1>3 DEF CreateCandidate
<1>4. CASE StartCandidate(op, r)
  BY <1>4 DEF StartCandidate, Both, Paired, Holds
<1>5. CASE StopCandidate(op, r)
  BY <1>5 DEF StopCandidate, CandidateRuns
<1>6. CASE RemoveCandidate(op, r)
  BY <1>6 DEF RemoveCandidate, CandidateRests
<1>7. CASE RestorePrevious(op, r)
  BY <1>7 DEF RestorePrevious
<1>8. CASE RestartPrevious(op, r)
  BY <1>8 DEF RestartPrevious, PreviousRests, Both, Paired, Holds
<1>9. QED
  BY <1>1, <1>2, <1>3, <1>4, <1>5, <1>6, <1>7, <1>8 DEF Mutation

\* The steps of the specification.
LEMMA StepCases ==
  ASSUME CommandsOK, [Next]_vars
  PROVE  \/ Quiet
         \/ \E op \in env.ops, r \in Role : Mutation(op, r)
         \/ RunCommand \/ (\E c \in pending : LateCommand(c))
         \/ CommandTimeout \/ Kill \/ PowerLoss \/ (\E n \in Names : Exit(n))
         \/ UNCHANGED vars
<1>1. env.ops \subseteq Op /\ ContainersOK
  BY CommandsFacts
<1>2. ASSUME NEW op \in env.ops, Preflight(op)
      PROVE  Quiet
  <2>1. ~Absent(S) => containers[S].generation \in Generation
    BY <1>1, Presence, NamesFacts
  <2>2. QED
    BY <1>1, <1>2, <2>1 DEF Preflight, Quiet
<1>3. ASSUME NEW op \in env.ops, Call(op) \/ Undo(op)
      PROVE  Quiet \/ \E r \in Role : Mutation(op, r)
  BY <1>1, <1>2, <1>3 DEF Call, ForwardCall, Stage, ReconcileStage, RollbackStage, RollbackCall,
                          Mutation, Quiet
<1>4. QED
  BY <1>3 DEF Next, EnvironmentStep, Quiet

\* The steps of the adapter are those ContainerAdapterProofs is about.
LEMMA StepIsAdapterStep ==
  ASSUME CommandsOK, [Next]_vars
  PROVE  AdapterStep
<1>1. ASSUME NEW op \in env.ops, NEW r \in Role, Mutation(op, r)
      PROVE  \E c \in RoleCommand(r, op) : Mutate(op, c)
  BY <1>1, MutationEffect, CommandsFacts
<1>2. QED
  BY <1>1, StepCases DEF AdapterStep

-----------------------------------------------------------------------------
(* One generation runs. *)

\* A command that meets what its call looked at: where it puts containers, and which
\* of them it leaves running.
LEMMA GuardedExecute ==
  ASSUME CommandsOK, GuardInv, ~Late, At("command"), Execute(call.value)
  PROVE  \E r \in Role :
           /\ \A n \in Names : n # Primary(r) /\ (Running(n) \/ Running(n)') => containers'[n] = containers[n]
           /\ \/ containers'[Primary(r)] \in {containers[Primary(r)], None}
              \/ ~Running(Primary(r))'
              \/ /\ call.value = StartCommand(Primary(r)) /\ Paired
                 /\ containers'[Primary(r)] \in Container
                 /\ containers'[Primary(r)].generation = containers[Primary(r)].generation
           /\ containers'[Primary(r)] # containers[Primary(r)] /\ Running(Primary(r)) =>
                call.value = StopCommand(Primary(r))
<1>1. PICK op \in Op : call.op = op
  BY CommandsFacts DEF CommandsOK
<1>2. PICK r \in Role : call.value \in RoleCommand(r, op)
  BY <1>1 DEF CommandsOK
<1>3. ContainersOK
  BY CommandsFacts
<1> DEFINE p == Primary(r)
           b == Rollback(r, op)
<1>n. p \in Names /\ b \in Names /\ p # b
  BY RoleNames
<1>g. /\ call.value = StartCommand(p) => Paired
      /\ call.value = RemoveCommand(p, op) => Stopped(p, op)
      /\ call.value = RenameCommand(p, b) => ~Running(p)
      /\ ~Running(b) /\ op \in Generation
  BY <1>1 DEF GuardInv, Generation
<1>c. call.value \in { StopCommand(p), StartCommand(p), CreateCommand(p, op), RemoveCommand(p, op),
                       RenameCommand(p, b), RenameCommand(b, p) }
  BY <1>2 DEF RoleCommand
<1>s. SUFFICES /\ \A n \in Names : n # p /\ (Running(n) \/ Running(n)') => containers'[n] = containers[n]
               /\ \/ containers'[p] \in {containers[p], None}
                  \/ ~Running(p)'
                  \/ /\ call.value = StartCommand(p) /\ Paired
                     /\ containers'[p] \in Container
                     /\ containers'[p].generation = containers[p].generation
               /\ containers'[p] # containers[p] /\ Running(p) => call.value = StopCommand(p)
  OBVIOUS
<1> HIDE DEF p, b
<1>4. CASE call.value = StopCommand(p)
  <2>1. /\ \A m \in Names \ {p} : containers'[m] = containers[m]
        /\ Absent(p) => containers'[p] = None
        /\ ~Absent(p) => containers'[p].running = ("stop" = "start")
    BY <1>3, <1>4, <1>n, PowerEffect DEF StopCommand
  <2>2. ~Running(p)'
    BY <2>1 DEF Running, Absent
  <2>3. QED
    BY <1>4, <2>1, <2>2
<1>5. CASE call.value = StartCommand(p)
  <2>1. /\ \A m \in Names \ {p} : containers'[m] = containers[m]
        /\ Absent(p) => containers'[p] = None
        /\ ~Absent(p) => /\ containers'[p] \in Container
                         /\ containers'[p].generation = containers[p].generation
                         /\ containers'[p].running = ("start" = "start")
    BY <1>3, <1>5, <1>n, PowerEffect DEF StartCommand
  <2>2. Running(p) => containers'[p] = containers[p]
    <3>1. SUFFICES ASSUME Running(p)
                   PROVE  containers'[p] = containers[p]
      OBVIOUS
    <3>2. ~Absent(p) /\ containers[p] \in Container /\ containers[p].running = TRUE
      BY <1>3, <1>n, <3>1, Presence DEF Running, Container
    <3>3. QED
      BY <2>1, <3>2 DEF Container
  <2>3. QED
    BY <1>5, <1>g, <2>1, <2>2
<1>6. CASE call.value = CreateCommand(p, op)
  <2>1. /\ \A m \in Names \ {p} : containers'[m] = containers[m]
        /\ Absent(p) => containers'[p] = [generation |-> op, running |-> FALSE]
        /\ ~Absent(p) => containers'[p] = containers[p]
    BY <1>3, <1>6, <1>n, <1>g, CreateEffect
  <2>2. Absent(p) => containers'[p].running = FALSE
    BY <2>1
  <2>3. QED
    BY <2>1, <2>2 DEF Running, Absent
<1>7. CASE call.value = RemoveCommand(p, op)
  <2>1. /\ \A m \in Names \ {p} : containers'[m] = containers[m]
        /\ containers'[p] = IF Running(p) THEN containers[p] ELSE None
    BY <1>3, <1>7, <1>n, RemoveEffect
  <2>2. QED
    BY <2>1
<1>8. CASE call.value = RenameCommand(p, b)
  <2>1. /\ \A m \in Names \ {p, b} : containers'[m] = containers[m]
        /\ containers'[p] \in {containers[p], None}
        /\ containers'[b] \in {containers[p], containers[b]}
    BY <1>3, <1>8, <1>n, RenameEffect
  <2>2. ~Running(b)' /\ ~Running(p)
    BY <1>g, <1>8, <2>1 DEF Running, Absent
  <2>3. QED
    BY <1>g, <2>1, <2>2
<1>9. CASE call.value = RenameCommand(b, p)
  <2>1. /\ \A m \in Names \ {p, b} : containers'[m] = containers[m]
        /\ ~Absent(p) => containers'[p] = containers[p]
        /\ containers'[p] \in {containers[p], containers[b]}
        /\ containers'[b] \in {None, containers[b]}
    BY <1>3, <1>9, <1>n, RenameEffect
  <2>2. ~Running(b)' /\ (containers'[p] = containers[p] \/ ~Running(p)')
    BY <1>g, <2>1 DEF Running, Absent
  <2>3. QED
    BY <1>g, <2>1, <2>2 DEF Running
<1>10. QED
  BY <1>c, <1>4, <1>5, <1>6, <1>7, <1>8, <1>9

\* So it leaves one generation running.
LEMMA ExecuteOneGeneration ==
  ASSUME CommandsOK, GuardInv, ~Late, At("command"), Execute(call.value)
  PROVE  /\ \A r \in Role, op \in Op : ~Running(Rollback(r, op))'
         /\ Running(S)' /\ Running(W)' => Paired'
<1>1. PICK r \in Role :
           /\ \A n \in Names : n # Primary(r) /\ (Running(n) \/ Running(n)') => containers'[n] = containers[n]
           /\ \/ containers'[Primary(r)] \in {containers[Primary(r)], None}
              \/ ~Running(Primary(r))'
              \/ /\ call.value = StartCommand(Primary(r)) /\ Paired
                 /\ containers'[Primary(r)] \in Container
                 /\ containers'[Primary(r)].generation = containers[Primary(r)].generation
  BY GuardedExecute
<1>2. ASSUME NEW q \in Role, NEW op \in Op
      PROVE  ~Running(Rollback(q, op))'
  <2>1. Rollback(q, op) \in Names /\ Rollback(q, op) # Primary(r)
    BY RoleNames
  <2>2. ~Running(Rollback(q, op))
    BY DEF GuardInv
  <2>3. QED
    BY <1>1, <2>1, <2>2 DEF Running, Absent
<1>3. ASSUME Running(S)', Running(W)'
      PROVE  Paired'
  <2>1. containers'[S] # None /\ containers'[W] # None
    BY <1>3 DEF Running, Absent
  <2>2. CASE containers'[Primary(r)] = containers[Primary(r)]
    <3>1. containers'[S] = containers[S] /\ containers'[W] = containers[W]
      BY <1>1, <1>3, <2>2, NamesFacts
    <3>2. Running(S) /\ Running(W)
      BY <1>3, <3>1 DEF Running, Absent
    <3>3. QED
      BY <3>1, <3>2 DEF GuardInv, Paired, Absent
  <2>3. CASE /\ Paired /\ containers'[Primary(r)] \in Container
             /\ containers'[Primary(r)].generation = containers[Primary(r)].generation
    <3>1. /\ containers'[S].generation = containers[S].generation
          /\ containers'[W].generation = containers[W].generation
      BY <1>1, <1>3, <2>3, NamesFacts
    <3>2. QED
      BY <2>1, <2>3, <3>1 DEF Paired, Absent
  <2>4. QED
    BY <1>1, <1>3, <2>1, <2>2, <2>3, NamesFacts
<1>4. QED
  BY <1>2, <1>3

\* No call, exit, kill or loss of power comes between a look and its command that
\* could turn the command against another container.
LEMMA GuardStep == CommandsOK /\ GuardInv /\ [Next]_vars => GuardInv'
<1> SUFFICES ASSUME CommandsOK, GuardInv, [Next]_vars, ~Late'
             PROVE  GuardInv'
  BY DEF GuardInv
<1>e. env.ops \subseteq Op /\ ContainersOK
  BY CommandsFacts
\* A step after which no command is in flight.
<1>i. ASSUME ~At("command")', \A r \in Role, op \in Op : ~Running(Rollback(r, op))',
             Running(S)' /\ Running(W)' => Paired'
      PROVE  GuardInv'
  BY <1>i DEF GuardInv
<1>1. CASE Quiet
  <2>1. UNCHANGED <<env, containers>> /\ (call' = call \/ call'.name # "command")
    BY <1>1, QuietEffect
  <2>2. QED
    BY <2>1 DEF GuardInv, At, Late, Running, Absent, Stopped, Holds, Paired, S, W
<1>2. ASSUME NEW op \in env.ops, NEW r \in Role, Mutation(op, r)
      PROVE  GuardInv'
  <2>1. PICK c \in RoleCommand(r, op) :
           /\ Mutate(op, c)
           /\ \/ c = StopCommand(Primary(r))
              \/ c = StartCommand(Primary(r)) /\ Paired
              \/ c = CreateCommand(Primary(r), op)
              \/ c = RemoveCommand(Primary(r), op) /\ Stopped(Primary(r), op)
              \/ c = RenameCommand(Primary(r), Rollback(r, op)) /\ ~Running(Primary(r))
              \/ c = RenameCommand(Rollback(r, op), Primary(r))
    BY <1>2, <1>e, MutationEffect
  <2>2. UNCHANGED <<env, containers>> /\ call'.op = op /\ call'.value = c /\ op \in Op
    BY <2>1, <1>e DEF Mutate, Goto, control, engine
  <2>3. ASSUME NEW q \in Role
        PROVE  /\ c = StartCommand(Primary(q)) => Paired
               /\ c = RemoveCommand(Primary(q), op) => Stopped(Primary(q), op)
               /\ c = RenameCommand(Primary(q), Rollback(q, op)) => ~Running(Primary(q))
    <3>1. /\ c = StartCommand(Primary(q)) => c.kind = "start"
          /\ c = RemoveCommand(Primary(q), op) => c.kind = "rm"
          /\ c = RenameCommand(Primary(q), Rollback(q, op)) => c.kind = "rename"
      BY <2>2, CommandFacts
    <3>2. QED
      BY <2>1, <2>2, <3>1, CommandFacts
  <2>4. Paired' <=> Paired
    BY <2>2 DEF Paired, Absent, S, W
  <2>5. \A n, g : (Running(n)' <=> Running(n)) /\ (Stopped(n, g)' <=> Stopped(n, g))
    BY <2>2 DEF Running, Absent, Stopped, Holds
  <2>6. ~Late /\ \A q \in Role, o \in Op : ~Running(Rollback(q, o))
    BY <2>2 DEF Late, GuardInv
  <2>7. QED
    BY <2>2, <2>3, <2>4, <2>5, <2>6 DEF GuardInv, S, W
<1>3. CASE RunCommand
  <2>1. ~Late /\ ~At("command")'
    BY <1>3 DEF RunCommand, Late, At, Return, Idle, control
  <2>2. QED
    BY <1>3, <1>i, <2>1, ExecuteOneGeneration DEF RunCommand
<1>4. ASSUME NEW c \in pending, LateCommand(c)
      PROVE  GuardInv'
  BY <1>4 DEF LateCommand, CommandsOK, Late, control
<1>5. CASE CommandTimeout
  BY <1>5 DEF CommandTimeout, Fault, Late
<1>6. CASE Kill
  <2>1. ~Late /\ ~At("command")'
    BY <1>6 DEF Kill, Fault, Late, At, Return, Idle
  <2>2. CASE containers' = containers
    BY <1>i, <2>1, <2>2 DEF GuardInv, Running, Absent, Paired, S, W
  <2>3. QED
    BY <1>6, <1>i, <2>1, <2>2, ExecuteOneGeneration DEF Kill, engine
<1>7. CASE PowerLoss
  <2>1. ~At("command")'
    BY <1>7 DEF PowerLoss, At, Return, Idle
  <2>2. ASSUME NEW n \in Names
        PROVE  ~Running(n)'
    <3>1. Absent(n) => containers'[n] = None
      BY <1>7, <1>e, PowerLossEffect
    <3>2. ~Absent(n) => containers'[n].running = FALSE
      BY <1>7, <1>e, PowerLossEffect
    <3>3. QED
      BY <3>1, <3>2 DEF Running, Absent
  <2>3. QED
    BY <1>i, <2>1, <2>2, NamesFacts, RoleNames
<1>8. ASSUME NEW n \in Names, Exit(n)
      PROVE  GuardInv'
  <2>1. env' = env /\ call' = call
    BY <1>8, <1>e, ExitEffect
  <2>2. \A m \in Names : /\ Absent(m)' <=> Absent(m)
                         /\ Running(m)' => Running(m)
                         /\ containers'[m].generation = containers[m].generation
    BY <1>8, <1>e, ExitEffect DEF Absent, Running
  <2>3. Paired => Paired'
    BY <2>2, NamesFacts DEF Paired
  <2>4. \A r \in Role : \A g : Stopped(Primary(r), g) => Stopped(Primary(r), g)'
    BY <2>2, NamesFacts DEF Stopped, Holds
  <2>5. QED
    BY <2>1, <2>2, <2>3, <2>4, NamesFacts, RoleNames DEF GuardInv, At, Late
<1>9. CASE UNCHANGED vars
  BY <1>9 DEF vars, GuardInv, At, Late, Running, Absent, Stopped, Holds, Paired, S, W
<1>10. QED
  BY <1>1, <1>2, <1>3, <1>4, <1>5, <1>6, <1>7, <1>8, <1>9, StepCases

-----------------------------------------------------------------------------
(* The worker beside its server. *)

\* A command does not take the server from under a running worker.
LEMMA ExecuteWorker ==
  ASSUME CommandsOK, GuardInv, WorkerInv, env.faults \subseteq {"io", "kill"},
         At("command"), Execute(call.value), Running(W)'
  PROVE  Running(S)'
<1>1. ~Late
  BY DEF Late
<1>2. PICK r \in Role :
           /\ \A n \in Names : n # Primary(r) /\ (Running(n) \/ Running(n)') => containers'[n] = containers[n]
           /\ \/ containers'[Primary(r)] \in {containers[Primary(r)], None}
              \/ ~Running(Primary(r))'
              \/ call.value = StartCommand(Primary(r))
           /\ containers'[Primary(r)] # containers[Primary(r)] /\ Running(Primary(r)) =>
                call.value = StopCommand(Primary(r))
  BY <1>1, GuardedExecute
<1>3. /\ Running(W) => Running(S)
      /\ call.value = StartCommand(W) => Running(S)
      /\ call.value = StopCommand(S) => ~Running(W)
  BY DEF WorkerInv
<1>4. CASE r = "server"
  <2>1. containers'[W] = containers[W]
    BY <1>2, <1>4, NamesFacts
  <2>2. Running(W)
    BY <2>1 DEF Running, Absent
  <2>3. containers'[S] = containers[S]
    BY <1>2, <1>3, <1>4, <2>2, NamesFacts
  <2>4. QED
    BY <1>3, <2>2, <2>3 DEF Running, Absent
<1>5. CASE r = "worker"
  <2>1. Running(S)
    <3>1. CASE containers'[W] = containers[W]
      BY <1>3, <3>1 DEF Running, Absent
    <3>2. CASE call.value = StartCommand(W)
      BY <1>3, <3>2
    <3>3. containers'[W] # None
      BY DEF Running, Absent
    <3>4. QED
      BY <1>2, <1>5, <3>1, <3>2, <3>3, NamesFacts
  <2>2. containers'[S] = containers[S]
    BY <1>2, <1>5, <2>1, NamesFacts
  <2>3. QED
    BY <2>1, <2>2 DEF Running, Absent
<1>6. QED
  BY <1>4, <1>5, NamesFacts

\* Neither does any other step, where no container ends by itself.
LEMMA WorkerStep == CommandsOK /\ GuardInv /\ WorkerInv /\ [Next]_vars => WorkerInv'
<1> SUFFICES ASSUME CommandsOK, GuardInv, WorkerInv, [Next]_vars, env'.faults \subseteq {"io", "kill"}
             PROVE  WorkerInv'
  BY DEF WorkerInv
<1>e. env' = env /\ env.ops \subseteq Op /\ ContainersOK
  BY QuietEffect, StepIsAdapterStep, CommandsFacts
     DEF AdapterStep, Mutate, RunCommand, LateCommand, CommandTimeout, Kill, PowerLoss, Exit, Fault,
         vars, control
<1>f. /\ env.faults \subseteq {"io", "kill"} /\ pending = {}
      /\ Running(W) => Running(S)
      /\ At("command") => /\ call.value = StartCommand(W) => Running(S)
                          /\ call.value = StopCommand(S) => ~Running(W)
  BY <1>e DEF WorkerInv, CommandsOK, Late
<1>u. containers' = containers => (Running(S)' <=> Running(S)) /\ (Running(W)' <=> Running(W))
  BY DEF Running, Absent, S, W
<1>1. CASE Quiet \/ UNCHANGED vars
  <2>1. containers' = containers /\ (call' = call \/ call'.name # "command")
    BY <1>1, QuietEffect DEF vars
  <2>2. QED
    BY <1>f, <1>u, <2>1 DEF WorkerInv, At, S, W
<1>2. ASSUME NEW op \in env.ops, NEW r \in Role, Mutation(op, r)
      PROVE  WorkerInv'
  <2>1. PICK c \in RoleCommand(r, op) :
           /\ Mutate(op, c)
           /\ \/ c = StopCommand(Primary(r)) /\ (r = "server" => ~Running(W))
              \/ c = StartCommand(Primary(r)) /\ (r = "worker" => Running(S))
              \/ c = CreateCommand(Primary(r), op)
              \/ c = RemoveCommand(Primary(r), op)
              \/ c = RenameCommand(Primary(r), Rollback(r, op))
              \/ c = RenameCommand(Rollback(r, op), Primary(r))
    BY <1>2, <1>e, MutationEffect
  <2>2. containers' = containers /\ call'.value = c /\ op \in Op
    BY <2>1, <1>e DEF Mutate, Goto, engine
  <2>3. c = StartCommand(W) => Running(S)
    BY <2>1, <2>2, CommandFacts, NamesFacts
  <2>4. c = StopCommand(S) => ~Running(W)
    BY <2>1, <2>2, CommandFacts, NamesFacts
  <2>5. QED
    BY <1>f, <1>u, <2>2, <2>3, <2>4 DEF WorkerInv, S, W
<1>3. CASE RunCommand \/ Kill
  <2>1. ~At("command")'
    BY <1>3 DEF RunCommand, Kill, At, Return, Idle
  <2>2. Running(W)' => Running(S)'
    BY <1>3, <1>f, <1>u, ExecuteWorker DEF RunCommand, Kill, engine
  <2>3. QED
    BY <2>1, <2>2 DEF WorkerInv
<1>4. CASE CommandTimeout \/ PowerLoss \/ \E n \in Names : Exit(n)
  BY <1>4, <1>f DEF CommandTimeout, PowerLoss, Exit, Fault
<1>5. QED
  BY <1>f, <1>1, <1>2, <1>3, <1>4, StepCases

-----------------------------------------------------------------------------
(* What goes away. *)

\* A command that meets what its call looked at ends no container but the candidate
\* it was sent to remove, and moves one only between the names of its role.
LEMMA ExecuteKeeps ==
  ASSUME CommandsOK, GuardInv, ~Late, At("command"), Execute(call.value),
         NEW n \in Names, NEW g, Holds(n, g)
  PROVE  \/ \E m \in Names : m[1] = n[1] /\ Holds(m, g)'
         \/ call.value = RemoveCommand(Primary(n[1]), g)
<1>1. PICK op \in Op : call.op = op
  BY CommandsFacts DEF CommandsOK
<1>2. PICK r \in Role : call.value \in RoleCommand(r, op)
  BY <1>1 DEF CommandsOK
<1>3. ContainersOK
  BY CommandsFacts
<1> DEFINE p == Primary(r)
           b == Rollback(r, op)
<1>n. p \in Names /\ b \in Names /\ p # b
  BY RoleNames
<1>k. p[1] = r /\ b[1] = r /\ op \in Generation
  BY DEF Primary, Rollback, Generation
<1>g. call.value = RemoveCommand(p, op) => Stopped(p, op)
  BY <1>1 DEF GuardInv
<1>c. call.value \in { StopCommand(p), StartCommand(p), CreateCommand(p, op), RemoveCommand(p, op),
                       RenameCommand(p, b), RenameCommand(b, p) }
  BY <1>2 DEF RoleCommand
<1>h. ASSUME NEW m \in Names, m[1] = n[1], containers'[m] # None, containers'[m].generation = g
      PROVE  \E k \in Names : k[1] = n[1] /\ Holds(k, g)'
  BY <1>h DEF Holds, Absent
<1>p. p = Primary(n[1]) \/ n # p
  BY <1>k
<1> HIDE DEF p, b
<1>4. CASE call.value \in {StopCommand(p), StartCommand(p)}
  <2>1. PICK kind \in {"stop", "start"} : call.value = Command(kind, p, None, None)
    BY <1>4 DEF StopCommand, StartCommand
  <2>2. /\ \A m \in Names \ {p} : containers'[m] = containers[m]
        /\ ~Absent(p) => containers'[p] \in Container
                         /\ containers'[p].generation = containers[p].generation
    BY <1>3, <1>n, <2>1, PowerEffect
  <2>3. containers'[n] # None /\ containers'[n].generation = g
    BY <2>2, NothingAssumption DEF Holds, Absent
  <2>4. QED
    BY <1>h, <2>3
<1>5. CASE call.value = CreateCommand(p, op)
  <2>1. /\ \A m \in Names \ {p} : containers'[m] = containers[m]
        /\ ~Absent(p) => containers'[p] = containers[p]
    BY <1>3, <1>5, <1>n, <1>k, CreateEffect
  <2>2. containers'[n] # None /\ containers'[n].generation = g
    BY <2>1 DEF Holds, Absent
  <2>3. QED
    BY <1>h, <2>2
<1>6. CASE call.value = RemoveCommand(p, op)
  <2>1. \A m \in Names \ {p} : containers'[m] = containers[m]
    BY <1>3, <1>6, <1>n, RemoveEffect
  <2>2. CASE n = p
    BY <1>6, <1>g, <1>p, <2>2 DEF Stopped, Holds
  <2>3. CASE n # p
    BY <1>h, <2>1, <2>3 DEF Holds, Absent
  <2>4. QED
    BY <2>2, <2>3
<1>7. CASE call.value = RenameCommand(p, b) \/ call.value = RenameCommand(b, p)
  <2>1. /\ \A m \in Names \ {p, b} : containers'[m] = containers[m]
        /\ n \in {p, b} => containers'[p] = containers[n] \/ containers'[b] = containers[n]
    BY <1>3, <1>7, <1>n, RenameEffect DEF Holds
  <2>2. PICK m \in Names : m[1] = n[1] /\ containers'[m] = containers[n]
    BY <1>k, <1>n, <2>1
  <2>3. QED
    BY <1>h, <2>2 DEF Holds, Absent
<1>8. QED
  BY <1>c, <1>4, <1>5, <1>6, <1>7

\* So does every step.
LEMMA StepKeeps ==
  ASSUME CommandsOK, GuardInv, [Next]_vars, ~Late, NEW n \in Names, NEW g, Holds(n, g)
  PROVE  \/ \E m \in Names : m[1] = n[1] /\ Holds(m, g)'
         \/ At("command") /\ call.value = RemoveCommand(Primary(n[1]), g)
<1>e. ContainersOK /\ env.ops \subseteq Op /\ pending = {}
  BY CommandsFacts DEF CommandsOK
<1>1. CASE containers' = containers
  BY <1>1 DEF Holds, Absent
<1>2. CASE RunCommand \/ Kill
  BY <1>1, <1>2, ExecuteKeeps DEF RunCommand, Kill, engine
<1>3. CASE PowerLoss
  BY <1>3, <1>e, PowerLossEffect, NothingAssumption DEF Holds, Absent
<1>4. ASSUME NEW m \in Names, Exit(m)
      PROVE  Holds(n, g)'
  BY <1>4, <1>e, ExitEffect DEF Holds, Absent
<1>5. CASE Quiet
  BY <1>1, <1>5, QuietEffect
<1>6. ASSUME NEW op \in env.ops, NEW r \in Role, Mutation(op, r)
      PROVE  containers' = containers
  BY <1>6, <1>e, MutationEffect DEF Mutate, engine
<1>7. QED
  BY <1>e, <1>1, <1>2, <1>3, <1>4, <1>5, <1>6, StepCases DEF CommandTimeout, vars

-----------------------------------------------------------------------------
(* The theorems. *)

\* What an earlier operation left is a pair at rest or one that runs as a pair.
LEMMA InitInvariants == Init => CommandsOK /\ GuardInv /\ WorkerInv
<1> SUFFICES ASSUME Init
             PROVE  CommandsOK /\ GuardInv /\ WorkerInv
  OBVIOUS
<1>1. PICK pair \in [Role -> {None} \cup [generation : {Initial}, running : BOOLEAN]] :
        /\ pair["server"] = None <=> pair["worker"] = None
        /\ pair["worker"] # None /\ pair["worker"].running => pair["server"].running
        /\ InitWith(pair, "initialized")
  BY DEF Init
<1>2. containers = [n \in Names |-> IF n[2] = None THEN pair[n[1]] ELSE None]
  BY <1>1 DEF InitWith
<1>3. containers[S] = pair["server"] /\ containers[W] = pair["worker"]
  BY <1>2, NamesFacts DEF S, W, Primary
<1>4. \A op \in Op, r \in Role : Absent(Rollback(r, op))
  BY <1>2, RoleNames, ContainerAssumption DEF Absent, Rollback, ContainerAssumption
<1>5. ContainersOK
  <2>1. \A n \in Names : n[1] \in Role
    BY DEF Names
  <2>2. \A r \in Role : pair[r] \in Container \cup {None}
    BY <1>1 DEF Container, Generation
  <2>3. QED
    BY <1>2, <2>1, <2>2 DEF ContainersOK
<1>6. env \in Environments /\ call = Idle /\ pending = {}
  BY <1>1 DEF InitWith
<1>7. ~At("command")
  BY <1>6 DEF At, Idle
<1>8. CommandsOK
  BY <1>5, <1>6, <1>7, ContainerAssumption DEF CommandsOK, ContainerAssumption
<1>9. \A r \in Role : pair[r] = None \/ pair[r].generation = Initial
  BY <1>1
<1>10. GuardInv
  BY <1>3, <1>4, <1>7, <1>9, NamesFacts DEF GuardInv, Paired, Running, Absent
<1>11. WorkerInv
  BY <1>1, <1>3, <1>7 DEF WorkerInv, Running, Absent
<1>12. QED
  BY <1>8, <1>10, <1>11

\* Commands in flight stay those of a call, and meet what it looked at.
THEOREM PairInvariant == Spec => [](CommandsOK /\ GuardInv /\ WorkerInv)
<1>1. CommandsOK /\ [Next]_vars => CommandsOK'
  BY CommandsStep, StepIsAdapterStep
<1>2. QED
  BY <1>1, InitInvariants, GuardStep, WorkerStep, PTL DEF Spec

\* Containers of two generations never run at the same time, with the calls of any
\* operations in any order (pair.go, the guards look at all four names), where no
\* command outlives its client.
THEOREM OneGenerationTheorem == Spec => []OneGenerationRuns
<1>1. CommandsOK /\ GuardInv => OneGenerationRuns
  <2> SUFFICES ASSUME GuardInv, ~Late, NEW m \in Names, NEW n \in Names, Running(m), Running(n)
               PROVE  containers[m].generation = containers[n].generation
    BY DEF OneGenerationRuns
  <2>1. m \in {S, W} /\ n \in {S, W}
    BY NamesFacts DEF GuardInv
  <2>2. QED
    BY <2>1 DEF GuardInv, Paired
<1>2. QED
  BY <1>1, PairInvariant, PTL

\* The worker runs only beside the server of its generation: the order of the calls
\* stops it first and starts it last, and no error or kill comes between, as long as
\* what a killed client sent takes effect before the next call or never.
THEOREM WorkerTheorem == Spec => []WorkerNeedsServer
<1>1. GuardInv /\ WorkerInv => WorkerNeedsServer
  <2> SUFFICES ASSUME GuardInv, WorkerInv, env.faults \subseteq {"io", "kill"},
                      NEW n \in Names, n[1] = "worker", Running(n)
               PROVE  Running(S) /\ containers[S].generation = containers[n].generation
    BY DEF WorkerNeedsServer
  <2>1. ~Late
    BY DEF Late
  <2>2. n = W
    BY <2>1, NamesFacts DEF GuardInv
  <2>3. QED
    BY <2>1, <2>2 DEF GuardInv, WorkerInv, Paired
<1>2. QED
  BY <1>1, PairInvariant, PTL

\* Where no command outlives its client, RemoveCandidate removes the candidate of its
\* operation and role, and nothing else removes anything.
THEOREM PairRemovesOnlyItsCandidate == Spec => RemovesOnlyItsCandidate
<1>1. CommandsOK /\ GuardInv /\ [Next]_vars =>
        [\A r \in Role, g \in Generation : ~Late => ~RemovesAnother(r, g)]_vars
  <2> SUFFICES ASSUME CommandsOK, GuardInv, [Next]_vars, NEW r \in Role, NEW g \in Generation,
                      ~Late, RemovesAnother(r, g)
               PROVE  FALSE
    OBVIOUS
  <2>1. PICK n \in Names : n[1] = r /\ Holds(n, g)
    BY DEF RemovesAnother
  <2>2. ~\E m \in Names : m[1] = n[1] /\ Holds(m, g)'
    BY <2>1 DEF RemovesAnother, Holds, Absent
  <2>3. At("command") /\ call.value = RemoveCommand(Primary(n[1]), g)
    BY <2>1, <2>2, StepKeeps
  <2>4. call.value.kind = "rm" /\ call.value.name[1] = r /\ call.value.generation = g
    BY <2>1, <2>3 DEF RemoveCommand, Command, Primary
  <2>5. QED
    BY <2>3, <2>4 DEF RemovesAnother
<1>2. QED
  BY <1>1, PairInvariant, PTL DEF Spec, RemovesOnlyItsCandidate

\* Whatever an operation changed of the pair, on every disk a loss of power may leave
\* there is a transaction that says what was there before: for one sort of fault,
\* commands that end with their client and a transactions directory whose own entry is
\* on the disk, which open_linux.go does not see to.
THEOREM PairCovered == Spec => []Covered
<1> DEFINE Inv == CommandsOK /\ StageTypeOK /\ StageInv /\ StrayInv
<1>1. Init => Inv
  <2> SUFFICES ASSUME Init
               PROVE  Inv
    OBVIOUS
  <2>1. PICK pair \in [Role -> {None} \cup [generation : {Initial}, running : BOOLEAN]] :
          InitWith(pair, "initialized")
    BY DEF Init
  <2>2. \A r \in Role : pair[r] = None \/ pair[r].generation = Initial
    OBVIOUS
  <2>3. StageTypeOK /\ StageInv /\ StrayInv
    BY <2>1, <2>2, InitStage
  <2>4. QED
    BY <2>3, InitInvariants
<1>2. Inv /\ [Next]_vars => Inv'
  BY StepIsAdapterStep, CommandsStep, StageTypeStep, StrayStep, StageStepKeeps
<1>3. Inv => Covered
  BY StageCovers
<1>4. QED
  BY <1>1, <1>2, <1>3, PTL DEF Spec

-----------------------------------------------------------------------------
(* What a crash left is always one step of a rollback of the pair. *)

\* PreviousRollbacks, by the transaction t.
Rest(op, t) ==
  \A r \in Role : IF t.previous = None THEN Absent(Rollback(r, op))
                  ELSE Stopped(Rollback(r, op), t.previous)

\* The server comes first, and rests as long as it is alone.
Candidates(op) == (Absent(S) /\ Absent(W)) \/ (Stopped(S, op) /\ Absent(W)) \/ Both(op)

Home(op, t) ==
  /\ t.previous # None /\ NoRollbacks(op) /\ Both(t.previous)
  /\ \A r \in Role : Running(Primary(r)) => t.running[r]

\* ServerOnly, by the transaction t.
Half(op, t) ==
  /\ t.previous # None
  /\ Stopped(S, t.previous) /\ Absent(Rollback("server", op))
  /\ Absent(W) /\ Stopped(Rollback("worker", op), t.previous)

\* No worker ran without its server when the transaction was prepared.
WellRun(t) == t.running["worker"] => t.running["server"]

\* The containers are where an operation that began as t says may have brought them.
Fits(op, t) ==
  WellRun(t) /\ (Home(op, t) \/ Half(op, t) \/ (Rest(op, t) /\ Candidates(op)))

\* A command in flight meets what its call looked at.
Meets(op, t, c) ==
  /\ c = RenameCommand(W, Rollback("worker", op)) =>
       Stopped(S, t.previous) /\ Stopped(W, t.previous) /\ NoRollbacks(op)
  /\ c = RenameCommand(S, Rollback("server", op)) => Half(op, t)
  /\ c = CreateCommand(S, op) => Rest(op, t) /\ Absent(S) /\ Absent(W)
  /\ c = CreateCommand(W, op) => Rest(op, t) /\ Stopped(S, op) /\ Absent(W)
  /\ \A r \in Role : c = StartCommand(Primary(r)) =>
       (Rest(op, t) /\ Both(op)) \/ (Home(op, t) /\ t.running[r])
  /\ c = RemoveCommand(W, op) => Rest(op, t) /\ Stopped(S, op) /\ Stopped(W, op)
  /\ c = RemoveCommand(S, op) => Rest(op, t) /\ Stopped(S, op) /\ Absent(W)
  /\ c = RenameCommand(Rollback("server", op), S) =>
       t.previous # None /\ Rest(op, t) /\ Absent(S) /\ Absent(W)
  /\ c = RenameCommand(Rollback("worker", op), W) => Half(op, t)

PreparedInv == \A op \in Op : prepared[op] \in Transaction => WellRun(prepared[op])

DecideInv ==
  Alone /\ ~Late /\ FilesLast =>
    \A op \in env.ops, t \in Transaction :
      /\ OnDisk(op, t) => Fits(op, t)
      /\ At("command") /\ tx.final[op] = t => Meets(op, t, call.value)

\* Where containers at most stop, everything stays where it was.
LEMMA StopsFit ==
  ASSUME NEW op \in Op, NEW t, NEW c, AtMostStop
  PROVE  (Fits(op, t) => Fits(op, t)') /\ (Meets(op, t, c) => Meets(op, t, c)')
<1>1. \A r \in Role : \A n \in {Primary(r), Rollback(r, op)} :
        /\ Absent(n)' <=> Absent(n)
        /\ Running(n)' => Running(n)
        /\ \A g : (Holds(n, g)' <=> Holds(n, g)) /\ (Stopped(n, g) => Stopped(n, g)')
  BY RoleNames, StopsKeep
<1>2. \A r \in Role : /\ Absent(Primary(r))' <=> Absent(Primary(r))
                      /\ Running(Primary(r))' => Running(Primary(r))
                      /\ \A g : /\ Holds(Primary(r), g)' <=> Holds(Primary(r), g)
                                /\ Stopped(Primary(r), g) => Stopped(Primary(r), g)'
  BY <1>1
<1>3. \A n \in {S, W} : /\ Absent(n)' <=> Absent(n)
                        /\ \A g : (Holds(n, g)' <=> Holds(n, g)) /\ (Stopped(n, g) => Stopped(n, g)')
  BY <1>2, NamesFacts
<1>4. \A r \in Role : /\ Absent(Rollback(r, op))' <=> Absent(Rollback(r, op))
                      /\ \A g : Stopped(Rollback(r, op), g) => Stopped(Rollback(r, op), g)'
  BY <1>1
<1>5. (Rest(op, t) => Rest(op, t)') /\ (NoRollbacks(op) => NoRollbacks(op)')
  BY <1>4 DEF Rest, NoRollbacks
<1>6. \A g : Both(g)' <=> Both(g)
  BY <1>3 DEF Both
<1>7. Home(op, t) => Home(op, t)'
  BY <1>2, <1>5, <1>6 DEF Home
<1>8. Half(op, t) => Half(op, t)'
  BY <1>3, <1>4, NamesFacts DEF Half
<1>9. Candidates(op) => Candidates(op)'
  BY <1>3, <1>6 DEF Candidates
<1>10. Fits(op, t) => Fits(op, t)'
  BY <1>5, <1>7, <1>8, <1>9 DEF Fits
<1>11. Meets(op, t, c) => Meets(op, t, c)'
  BY <1>3, <1>5, <1>6, <1>7, <1>8 DEF Meets
<1>12. QED
  BY <1>10, <1>11

\* What was prepared and is still so fits.
LEMMA PreflightFits ==
  ASSUME NEW op \in Op, NEW t, WellRun(t), PreflightState(op, t)
  PROVE  Fits(op, t)
<1>1. /\ NoRollbacks(op)
      /\ \A r \in Role : IF t.previous = None THEN Absent(Primary(r))
                         ELSE Holds(Primary(r), t.previous) /\ Running(Primary(r)) = t.running[r]
  BY DEF PreflightState, NoRollbacks
<1>2. CASE t.previous = None
  BY <1>1, <1>2, NamesFacts DEF Fits, Rest, Candidates, NoRollbacks
<1>3. CASE t.previous # None
  BY <1>1, <1>3, NamesFacts DEF Fits, Home, Both
<1>4. QED
  BY <1>2, <1>3

\* Preflight refuses a worker that runs without its server.
LEMMA PreparedStep ==
  ASSUME StageTypeOK, PreparedInv, [Next]_vars, env.ops \subseteq Op
  PROVE  PreparedInv'
<1> USE DEF control, stages, engine
<1>0. \A op \in Op : prepared[op] \in Transaction => WellRun(prepared[op])
  BY DEF PreparedInv
<1>u. CASE prepared' = prepared
  BY <1>0, <1>u DEF PreparedInv
<1>n. CASE prepared' = [op \in Op |-> None]
  BY <1>n, NothingAssumption DEF PreparedInv
<1>1. ASSUME NEW op \in env.ops, Preflight(op)
      PROVE  PreparedInv'
  <2>0. Running(W) => Running(S)
    BY <1>1 DEF Preflight, Running
  <2>1. PICK previous : Prepare(op, previous)
    BY <1>1 DEF Preflight
  <2> DEFINE t == [previous |-> previous, running |-> [r \in Role |-> Running(Primary(r))], data |-> data]
  <2>2. prepared' = [prepared EXCEPT ![op] = t]
    BY <2>1 DEF Prepare
  <2>3. (t.running["worker"] <=> Running(W)) /\ (t.running["server"] <=> Running(S))
    BY NamesFacts
  <2>4. WellRun(t)
    BY <1>1, <2>0, <2>3 DEF WellRun, Preflight, Running
  <2> HIDE DEF t
  <2>5. QED
    BY <1>0, <2>2, <2>4 DEF PreparedInv, StageTypeOK
<1>2. ASSUME NEW op \in env.ops, Call(op) \/ Undo(op), ~Preflight(op)
      PROVE  prepared' = prepared
  BY <1>2 DEF Call, ForwardCall, RollbackCall, Stage, ReconcileStage, RollbackStage, StageTransaction,
              ReconcileTransaction, RemoveTransaction, StopPrevious, PreservePrevious, CreateCandidate,
              StartCandidate, StopCandidate, RemoveCandidate, RestorePrevious, RestartPrevious, Mutate, Undo
<1>3. CASE StageStep \/ RunCommand \/ Open
  BY <1>3, <1>u DEF StageStep, WriteStage, SyncStageFile, RenameStage, SyncStages, RunCommand, Open
<1>4. CASE Close \/ Kill \/ PowerLoss
  BY <1>4, <1>n DEF Close, Kill, PowerLoss
<1>5. CASE InitializeData \/ CallFails \/ CommandTimeout
  BY <1>5, <1>u DEF InitializeData, CallFails, CommandTimeout
<1>6. ASSUME NEW c, LateCommand(c)
      PROVE  prepared' = prepared
  BY <1>6 DEF LateCommand
<1>7. ASSUME NEW n, Exit(n)
      PROVE  prepared' = prepared
  BY <1>7 DEF Exit
<1>8. CASE UNCHANGED vars
  BY <1>8, <1>u DEF vars
<1>9. QED
  BY <1>u, <1>1, <1>2, <1>3, <1>4, <1>5, <1>6, <1>7, <1>8 DEF Next, EnvironmentStep

\* The directories of Authentik are bound by identity alone: none is ever half written.
Whole == data = "initialized"

LEMMA WholeStep ==
  ASSUME Whole, AdapterStep
  PROVE  Whole'
<1> USE DEF control, stages, engine
<1>x. ASSUME NEW c, Execute(c)
      PROVE  Whole'
  BY <1>x DEF Execute, DataAfter, Whole
<1>1. CASE Quiet
  BY <1>1 DEF Quiet, Whole, Open, Close, StageStep, WriteStage, SyncStageFile, RenameStage, SyncStages,
              InitializeData, CallFails, Undo, StageTransaction, ReconcileTransaction, RemoveTransaction, Prepare
<1>2. ASSUME NEW op, NEW c, Mutate(op, c)
      PROVE  Whole'
  BY <1>2 DEF Mutate, Whole
<1>3. CASE RunCommand
  BY <1>3, <1>x DEF RunCommand
<1>4. ASSUME NEW c, LateCommand(c)
      PROVE  Whole'
  BY <1>4, <1>x DEF LateCommand
<1>5. CASE CommandTimeout \/ PowerLoss
  BY <1>5 DEF CommandTimeout, PowerLoss, Whole
<1>6. CASE Kill
  BY <1>6, <1>x DEF Kill, Whole
<1>7. ASSUME NEW n, Exit(n)
      PROVE  Whole'
  BY <1>7 DEF Exit, Whole
<1>8. QED
  BY <1>1, <1>2, <1>3, <1>4, <1>5, <1>6, <1>7 DEF AdapterStep, vars, Whole

\* The four names of an operation.
LEMMA FourNames ==
  ASSUME NEW op \in Op
  PROVE  /\ S \in Names /\ W \in Names /\ Rollback("server", op) \in Names /\ Rollback("worker", op) \in Names
         /\ S # W /\ Rollback("server", op) # Rollback("worker", op)
         /\ \A n \in {Rollback("server", op), Rollback("worker", op)} : n # S /\ n # W
         /\ NoRollbacks(op) <=> Absent(Rollback("server", op)) /\ Absent(Rollback("worker", op))
         /\ \A t : Rest(op, t) <=>
              IF t.previous = None
              THEN Absent(Rollback("server", op)) /\ Absent(Rollback("worker", op))
              ELSE Stopped(Rollback("server", op), t.previous) /\ Stopped(Rollback("worker", op), t.previous)
<1>1. Role = {"server", "worker"}
  BY AuthentikAssumption
<1>2. \A r \in Role, q \in Role : Rollback(r, op) \in Names /\ Primary(q) # Rollback(r, op)
  BY RoleNames
<1>3. Rollback("server", op) # Rollback("worker", op)
  BY DEF Rollback
<1>4. NoRollbacks(op) <=> Absent(Rollback("server", op)) /\ Absent(Rollback("worker", op))
  BY <1>1 DEF NoRollbacks
<1>5. ASSUME NEW t
      PROVE  Rest(op, t) <=>
               IF t.previous = None
               THEN Absent(Rollback("server", op)) /\ Absent(Rollback("worker", op))
               ELSE Stopped(Rollback("server", op), t.previous) /\ Stopped(Rollback("worker", op), t.previous)
  BY <1>1 DEF Rest
<1>6. QED
  BY <1>1, <1>2, <1>3, <1>4, <1>5, NamesFacts

\* The same after a step.
LEMMA FourNamesNext ==
  ASSUME NEW op \in Op
  PROVE  /\ NoRollbacks(op)' <=> Absent(Rollback("server", op))' /\ Absent(Rollback("worker", op))'
         /\ \A t : Rest(op, t)' <=>
              IF t.previous = None
              THEN Absent(Rollback("server", op))' /\ Absent(Rollback("worker", op))'
              ELSE Stopped(Rollback("server", op), t.previous)' /\ Stopped(Rollback("worker", op), t.previous)'
<1>1. Role = {"server", "worker"}
  BY AuthentikAssumption
<1>2. NoRollbacks(op)' <=> Absent(Rollback("server", op))' /\ Absent(Rollback("worker", op))'
  BY <1>1 DEF NoRollbacks
<1>3. ASSUME NEW t
      PROVE  Rest(op, t)' <=>
               IF t.previous = None
               THEN Absent(Rollback("server", op))' /\ Absent(Rollback("worker", op))'
               ELSE Stopped(Rollback("server", op), t.previous)' /\ Stopped(Rollback("worker", op), t.previous)'
  BY <1>1 DEF Rest
<1>4. QED
  BY <1>2, <1>3

\* The command of an operation takes the pair from one place it may be in to another.
LEMMA ExecuteFits ==
  ASSUME ContainersOK, NEW op \in Op, NEW t \in Transaction, NEW r \in Role, NEW c \in RoleCommand(r, op),
         Execute(c), Fits(op, t), Meets(op, t, c)
  PROVE  Fits(op, t)'
<1> DEFINE x == Rollback("server", op)
           y == Rollback("worker", op)
           g == t.previous
<1>0. /\ S \in Names /\ W \in Names /\ x \in Names /\ y \in Names
      /\ S # W /\ x # y /\ x # S /\ x # W /\ y # S /\ y # W /\ op \in Generation
  BY FourNames DEF Generation
<1>a. /\ NoRollbacks(op) <=> Absent(x) /\ Absent(y)
      /\ Rest(op, t) <=> IF g = None THEN Absent(x) /\ Absent(y) ELSE Stopped(x, g) /\ Stopped(y, g)
  BY FourNames
<1>b. /\ NoRollbacks(op)' <=> Absent(x)' /\ Absent(y)'
      /\ Rest(op, t)' <=> IF g = None THEN Absent(x)' /\ Absent(y)' ELSE Stopped(x, g)' /\ Stopped(y, g)'
  BY FourNamesNext
<1>c. /\ Half(op, t) <=> g # None /\ Stopped(S, g) /\ Absent(x) /\ Absent(W) /\ Stopped(y, g)
      /\ Half(op, t)' <=> g # None /\ Stopped(S, g)' /\ Absent(x)' /\ Absent(W)' /\ Stopped(y, g)'
  BY DEF Half
<1>w. WellRun(t)
  BY DEF Fits
<1>p. (r = "server" /\ Primary(r) = S /\ Rollback(r, op) = x) \/ (r = "worker" /\ Primary(r) = W /\ Rollback(r, op) = y)
  BY AuthentikAssumption DEF S, W
<1> HIDE DEF x, y, g
\* What a name holds is decided by what is under it.
<1>s. ASSUME NEW n \in Names, NEW m \in Names, containers'[n] = containers[m]
      PROVE  /\ Absent(n)' <=> Absent(m)
             /\ Running(n)' <=> Running(m)
             /\ \A h : (Holds(n, h)' <=> Holds(m, h)) /\ (Stopped(n, h)' <=> Stopped(m, h))
  BY <1>s, SameContainer
<1>r. ASSUME containers'[x] = containers[x], containers'[y] = containers[y]
      PROVE  (Rest(op, t)' <=> Rest(op, t)) /\ (NoRollbacks(op)' <=> NoRollbacks(op))
  <2>1. (Absent(x)' <=> Absent(x)) /\ (Stopped(x, g)' <=> Stopped(x, g))
    BY <1>0, <1>r, <1>s
  <2>2. (Absent(y)' <=> Absent(y)) /\ (Stopped(y, g)' <=> Stopped(y, g))
    BY <1>0, <1>r, <1>s
  <2>3. QED
    BY <1>a, <1>b, <2>1, <2>2
<1>n. ASSUME NEW n \in Names, Stopped(n, g)
      PROVE  g # None /\ ~Absent(n) /\ ~Running(n)
  BY <1>n, HoldsSome DEF Stopped, Holds
<1>1. CASE c = StopCommand(Primary(r))
  BY <1>0, <1>1, <1>p, StopStops, StopsFit
<1>2. CASE c = StartCommand(Primary(r))
  <2>0. Primary(r) \in {S, W} /\ Primary(r) \in Names
    BY <1>0, <1>p
  <2>1. /\ \A m \in Names \ {Primary(r)} : containers'[m] = containers[m]
        /\ ~Absent(Primary(r)) => /\ containers'[Primary(r)] \in Container
                                  /\ containers'[Primary(r)].generation = containers[Primary(r)].generation
    BY <1>2, <2>0, PowerEffect DEF StartCommand
  <2>2. containers'[x] = containers[x] /\ containers'[y] = containers[y]
    BY <1>0, <2>0, <2>1
  <2>3. \A n \in {S, W} : \A h : Holds(n, h) => Holds(n, h)'
    <3>1. \A h : Holds(Primary(r), h) => Holds(Primary(r), h)'
      BY <2>1, NothingAssumption DEF Holds, Absent
    <3>2. \A n \in Names \ {Primary(r)} : \A h : Holds(n, h) => Holds(n, h)'
      BY <2>1 DEF Holds, Absent
    <3>3. QED
      BY <1>0, <3>1, <3>2
  <2>4. \A h : Both(h) => Both(h)'
    BY <2>3 DEF Both
  <2>5. CASE Rest(op, t) /\ Both(op)
    BY <1>r, <1>w, <2>2, <2>4, <2>5 DEF Fits, Candidates
  <2>6. CASE Home(op, t) /\ t.running[r]
    <3>1. \A q \in Role : Running(Primary(q))' => t.running[q]
      <4>1. ASSUME NEW q \in Role, q # r, Running(Primary(q))'
            PROVE  t.running[q]
        <5>1. Primary(q) \in Names \ {Primary(r)}
          BY <4>1, RoleNames, NamesFacts DEF Primary
        <5>2. Running(Primary(q))
          BY <1>s, <2>1, <4>1, <5>1
        <5>3. QED
          BY <2>6, <5>2 DEF Home
      <4>2. QED
        BY <2>6, <4>1
    <3>2. g # None /\ NoRollbacks(op)' /\ Both(g)'
      BY <1>r, <2>2, <2>4, <2>6 DEF Home, g
    <3>3. QED
      BY <1>w, <3>1, <3>2 DEF Fits, Home, g
  <2>7. QED
    BY <1>2, <2>5, <2>6 DEF Meets
<1>3. CASE c = CreateCommand(Primary(r), op)
  <2>0. Primary(r) \in {S, W} /\ Primary(r) \in Names /\ Absent(Primary(r)) /\ Rest(op, t)
    BY <1>0, <1>3, <1>p DEF Meets
  <2>1. /\ \A m \in Names \ {Primary(r)} : containers'[m] = containers[m]
        /\ containers'[Primary(r)] = [generation |-> op, running |-> FALSE]
    BY <1>0, <1>3, <2>0, CreateEffect
  <2>2. [generation |-> op, running |-> FALSE] \in Container
    BY <1>0 DEF Container
  <2>3. Stopped(Primary(r), op)'
    <3>1. ~Absent(Primary(r))'
      BY <2>1, <2>2, NothingAssumption DEF Absent
    <3>2. containers'[Primary(r)].generation = op /\ ~containers'[Primary(r)].running
      BY <2>1
    <3>3. QED
      BY <3>1, <3>2 DEF Stopped, Holds, Running
  <2>4. Rest(op, t)'
    BY <1>0, <1>r, <2>0, <2>1
  <2>5. CASE r = "server"
    <3>1. Absent(W) /\ Primary(r) = S /\ containers'[W] = containers[W]
      BY <1>0, <1>3, <1>p, <2>1, <2>5 DEF Meets
    <3>2. Absent(W)'
      BY <1>0, <1>s, <3>1
    <3>3. QED
      BY <1>w, <2>3, <2>4, <3>1, <3>2 DEF Fits, Candidates
  <2>6. CASE r = "worker"
    <3>1. Stopped(S, op) /\ Primary(r) = W /\ containers'[S] = containers[S]
      BY <1>0, <1>3, <1>p, <2>1, <2>6 DEF Meets
    <3>2. Both(op)'
      BY <1>0, <1>s, <2>3, <3>1 DEF Both, Stopped
    <3>3. QED
      BY <1>w, <2>4, <3>2 DEF Fits, Candidates
  <2>7. QED
    BY <1>p, <2>5, <2>6
<1>4. CASE c = RemoveCommand(Primary(r), op)
  <2>0. Primary(r) \in {S, W} /\ Primary(r) \in Names /\ Stopped(Primary(r), op) /\ Rest(op, t) /\ Stopped(S, op)
    BY <1>0, <1>4, <1>p DEF Meets
  <2>1. /\ \A m \in Names \ {Primary(r)} : containers'[m] = containers[m]
        /\ containers'[Primary(r)] = IF Running(Primary(r)) THEN containers[Primary(r)] ELSE None
    BY <1>0, <1>4, <2>0, RemoveEffect
  <2>2. Absent(Primary(r))'
    BY <2>0, <2>1 DEF Absent, Stopped
  <2>3. Rest(op, t)'
    BY <1>0, <1>r, <2>0, <2>1
  <2>4. CASE r = "server"
    <3>1. Absent(W) /\ Primary(r) = S /\ containers'[W] = containers[W]
      BY <1>0, <1>4, <1>p, <2>1, <2>4 DEF Meets
    <3>2. Absent(W)'
      BY <1>0, <1>s, <3>1
    <3>3. QED
      BY <1>w, <2>2, <2>3, <3>1, <3>2 DEF Fits, Candidates
  <2>5. CASE r = "worker"
    <3>1. Primary(r) = W /\ containers'[S] = containers[S]
      BY <1>0, <1>p, <2>1, <2>5
    <3>2. Stopped(S, op)'
      BY <1>0, <1>s, <2>0, <3>1
    <3>3. QED
      BY <1>w, <2>2, <2>3, <3>1, <3>2 DEF Fits, Candidates
  <2>6. QED
    BY <1>p, <2>4, <2>5
<1>5. CASE c = RenameCommand(Primary(r), Rollback(r, op))
  <2>1. CASE r = "worker"
    <3>0. Stopped(S, g) /\ Stopped(W, g) /\ Absent(x) /\ Absent(y) /\ c = RenameCommand(W, y)
      BY <1>5, <1>a, <1>p, <2>1 DEF Meets, x, y, g
    <3>1. /\ containers'[y] = containers[W] /\ containers'[W] = None
          /\ containers'[S] = containers[S] /\ containers'[x] = containers[x]
      BY <1>0, <1>n, <3>0, RenameEffect
    <3>2. Stopped(y, g)' /\ Stopped(S, g)' /\ Absent(x)'
      BY <1>0, <1>s, <3>0, <3>1
    <3>3. Absent(W)' /\ g # None
      BY <1>0, <1>n, <3>0, <3>1 DEF Absent
    <3>4. Half(op, t)'
      BY <1>c, <3>2, <3>3
    <3>5. QED
      BY <1>w, <3>4 DEF Fits
  <2>2. CASE r = "server"
    <3>0. Half(op, t) /\ c = RenameCommand(S, x)
      BY <1>5, <1>p, <2>2 DEF Meets, x
    <3>1. /\ containers'[x] = containers[S] /\ containers'[S] = None
          /\ containers'[W] = containers[W] /\ containers'[y] = containers[y]
      BY <1>0, <1>c, <1>n, <3>0, RenameEffect
    <3>2. Stopped(x, g)' /\ Stopped(y, g)' /\ Absent(W)' /\ g # None
      BY <1>0, <1>c, <1>s, <3>0, <3>1
    <3>3. Absent(S)'
      BY <3>1 DEF Absent
    <3>4. Rest(op, t)'
      BY <1>b, <3>2
    <3>5. QED
      BY <1>w, <3>2, <3>3, <3>4 DEF Fits, Candidates
  <2>3. QED
    BY <1>p, <2>1, <2>2
<1>6. CASE c = RenameCommand(Rollback(r, op), Primary(r))
  <2>1. CASE r = "server"
    <3>0. g # None /\ Stopped(x, g) /\ Stopped(y, g) /\ Absent(S) /\ Absent(W) /\ c = RenameCommand(x, S)
      BY <1>6, <1>a, <1>p, <2>1 DEF Meets, x, g
    <3>1. /\ containers'[S] = containers[x] /\ containers'[x] = None
          /\ containers'[W] = containers[W] /\ containers'[y] = containers[y]
      BY <1>0, <1>n, <3>0, RenameEffect
    <3>2. Stopped(S, g)' /\ Stopped(y, g)' /\ Absent(W)'
      BY <1>0, <1>s, <3>0, <3>1
    <3>3. Absent(x)'
      BY <3>1 DEF Absent
    <3>4. Half(op, t)'
      BY <1>c, <3>0, <3>2, <3>3
    <3>5. QED
      BY <1>w, <3>4 DEF Fits
  <2>2. CASE r = "worker"
    <3>0. Half(op, t) /\ c = RenameCommand(y, W)
      BY <1>6, <1>p, <2>2 DEF Meets, y
    <3>1. /\ containers'[W] = containers[y] /\ containers'[y] = None
          /\ containers'[S] = containers[S] /\ containers'[x] = containers[x]
      BY <1>0, <1>c, <1>n, <3>0, RenameEffect
    <3>2. Stopped(S, g)' /\ Stopped(W, g)' /\ Absent(x)' /\ g # None
      BY <1>0, <1>c, <1>s, <3>0, <3>1
    <3>3. Absent(y)' /\ NoRollbacks(op)'
      BY <1>b, <3>1, <3>2 DEF Absent
    <3>4. Both(g)' /\ \A q \in Role : ~Running(Primary(q))'
      BY <3>2, NamesFacts DEF Both, Stopped
    <3>5. QED
      BY <1>w, <3>2, <3>3, <3>4 DEF Fits, Home, g
  <2>3. QED
    BY <1>p, <2>1, <2>2
<1>7. QED
  BY <1>1, <1>2, <1>3, <1>4, <1>5, <1>6 DEF RoleCommand

\* A call looks before it hands its command over.
LEMMA MutationMeets ==
  ASSUME NEW op \in Op, NEW r \in Role, Mutation(op, r), Fits(op, tx.final[op]), ContainersOK,
         tx.final[op].previous # op
  PROVE  Meets(op, tx.final[op], call'.value)
<1> DEFINE t == tx.final[op]
           x == Rollback("server", op)
           y == Rollback("worker", op)
           c == call'.value
<1>0. /\ S \in Names /\ W \in Names /\ x \in Names /\ y \in Names
      /\ S # W /\ x # y /\ x # S /\ x # W /\ y # S /\ y # W
  BY FourNames
<1>p. (r = "server" /\ Primary(r) = S /\ Rollback(r, op) = x) \/ (r = "worker" /\ Primary(r) = W /\ Rollback(r, op) = y)
  BY AuthentikAssumption DEF S, W
<1>q. \A q \in Role : (q = "server" /\ Primary(q) = S) \/ (q = "worker" /\ Primary(q) = W)
  BY AuthentikAssumption DEF S, W
<1>e. /\ Previous(op) = t.previous /\ (PreviousRollbacks(op) <=> Rest(op, t))
      /\ Aside("server", op) <=> Stopped(x, t.previous)
      /\ Aside("worker", op) <=> Stopped(y, t.previous)
  BY DEF Previous, PreviousRollbacks, Aside, Rest
\* A command is told by its kind and its name.
<1>k. \A n, m : /\ StopCommand(n).kind = "stop"
                /\ StartCommand(n).kind = "start" /\ StartCommand(n).name = n
                /\ CreateCommand(n, op).kind = "create" /\ CreateCommand(n, op).name = n
                /\ RemoveCommand(n, op).kind = "rm" /\ RemoveCommand(n, op).name = n
                /\ RenameCommand(n, m).kind = "rename" /\ RenameCommand(n, m).name = n
  BY DEF StopCommand, StartCommand, CreateCommand, RemoveCommand, RenameCommand, Command
<1>c. \A d : Mutate(op, d) => c = d
  BY DEF Mutate, Goto
<1>o. \A g : Stopped(S, g) => g # None
  BY <1>0, HoldsSome DEF Stopped
<1> HIDE DEF x, y, t, c
<1>h. ServerOnly(op) => Half(op, t)
  BY <1>e, <1>o DEF ServerOnly, Half, x, y
<1>1. CASE StopPrevious(op, r) \/ StopCandidate(op, r)
  <2>1. c.kind = "stop"
    BY <1>1, <1>c, <1>k DEF StopPrevious, StopCandidate
  <2>2. QED
    BY <1>k, <2>1 DEF Meets, c
<1>2. CASE PreservePrevious(op, r)
  <2>1. c = RenameCommand(Primary(r), Rollback(r, op)) /\ c.kind = "rename" /\ c.name = Primary(r)
    BY <1>2, <1>c, <1>k DEF PreservePrevious
  <2>2. CASE r = "worker"
    BY <1>0, <1>2, <1>e, <1>k, <1>p, <2>1, <2>2 DEF PreservePrevious, Meets, c, x, y, t
  <2>3. CASE r = "server"
    BY <1>0, <1>2, <1>h, <1>k, <1>p, <2>1, <2>3 DEF PreservePrevious, Meets, c, x, y, t
  <2>4. QED
    BY <1>p, <2>2, <2>3
<1>3. CASE CreateCandidate(op, r)
  <2>1. c.kind = "create" /\ c.name = Primary(r)
    BY <1>3, <1>c, <1>k DEF CreateCandidate
  <2>2. QED
    BY <1>0, <1>3, <1>e, <1>k, <1>p, <2>1 DEF CreateCandidate, Meets, c, t
<1>4. CASE StartCandidate(op, r)
  <2>1. c.kind = "start" /\ Rest(op, t) /\ Both(op)
    BY <1>4, <1>c, <1>e, <1>k DEF StartCandidate
  <2>2. QED
    BY <1>k, <2>1 DEF Meets, c, t
<1>5. CASE RemoveCandidate(op, r)
  <2>1. c.kind = "rm" /\ c.name = Primary(r)
    BY <1>5, <1>c, <1>k DEF RemoveCandidate
  <2>2. QED
    BY <1>0, <1>5, <1>e, <1>k, <1>p, <2>1 DEF RemoveCandidate, CandidateRests, Meets, c, t
<1>6. CASE RestorePrevious(op, r)
  <2>1. c.kind = "rename" /\ c.name = Rollback(r, op)
    BY <1>6, <1>c, <1>k DEF RestorePrevious
  <2>2. CASE r = "worker"
    BY <1>0, <1>6, <1>h, <1>k, <1>p, <2>1, <2>2 DEF RestorePrevious, PreviousAside, Meets, c, x, y, t
  <2>3. CASE r = "server"
    <3>1. Absent(S) /\ Absent(W) /\ Stopped(x, t.previous) /\ Stopped(y, t.previous)
      BY <1>6, <1>e, <2>3 DEF RestorePrevious, PreviousAside
    <3>2. t.previous # None
      BY <1>0, <3>1, HoldsSome DEF Stopped
    <3>3. Rest(op, t)
      BY <3>1, <3>2, FourNames DEF x, y
    <3>4. QED
      BY <1>0, <1>k, <1>p, <2>1, <2>3, <3>1, <3>2, <3>3 DEF Meets, c, x, y, t
  <2>4. QED
    BY <1>p, <2>2, <2>3
<1>7. CASE RestartPrevious(op, r)
  <2>1. c = StartCommand(Primary(r)) /\ c.kind = "start" /\ c.name = Primary(r)
    BY <1>7, <1>c, <1>k DEF RestartPrevious
  <2>2. NoRollbacks(op) /\ Both(t.previous) /\ t.running[r]
    BY <1>7, <1>e DEF RestartPrevious, PreviousRests, t
  <2>3. ~Half(op, t) /\ ~(Rest(op, t) /\ Candidates(op))
    <3>1. t.previous # None /\ ~Absent(W) /\ ~Absent(S) /\ ~Holds(S, op)
      BY <1>0, <2>2, HoldsSome DEF Both, Holds, t
    <3>2. QED
      BY <3>1 DEF Half, Candidates, Both, Stopped
  <2>4. Home(op, t)
    BY <2>3 DEF Fits, t
  <2>5. \A q \in Role : c = StartCommand(Primary(q)) => q = r
    BY <1>0, <1>k, <1>p, <1>q, <2>1
  <2>6. QED
    BY <1>k, <2>1, <2>2, <2>4, <2>5 DEF Meets, c, t
<1>8. QED
  BY <1>1, <1>2, <1>3, <1>4, <1>5, <1>6, <1>7 DEF Mutation

LEMMA DecideStep ==
  ASSUME CommandsOK, StageTypeOK, StageInv, PreparedInv, DecideInv, [Next]_vars
  PROVE  DecideInv'
<1>0. AdapterStep /\ ContainersOK /\ env.ops \subseteq Op
  BY StepIsAdapterStep, CommandsFacts
<1>e. env' = env
  BY <1>0, QuietEffect DEF AdapterStep, Mutate, RunCommand, LateCommand, CommandTimeout, Kill, PowerLoss,
     Exit, Fault, vars, control
<1> SUFFICES ASSUME Alone, ~Late, FilesLast, NEW op \in env.ops, NEW t \in Transaction
             PROVE  /\ OnDisk(op, t)' => Fits(op, t)'
                    /\ At("command")' /\ tx'.final[op] = t => Meets(op, t, call.value)'
  BY <1>e DEF DecideInv, Alone, Late, FilesLast, OnlyPowerIsLost
<1>o. op \in Op /\ env.ops = {op} /\ pending = {}
  <2>1. IsFiniteSet(env.ops) /\ Cardinality(env.ops) = 1
    BY DEF Alone, CommandsOK
  <2>2. PICK z : env.ops = {z}
    BY <2>1, FS_Singleton
  <2>3. QED
    BY <1>0, <2>2 DEF CommandsOK
<1>d. /\ OnDisk(op, t) => Fits(op, t)
      /\ At("command") /\ tx.final[op] = t => Meets(op, t, call.value)
  BY DEF DecideInv
\* Nothing is on the disk that does not fit.
<1>f. ASSUME OnDisk(op, t)'
      PROVE  Fits(op, t) /\ (OnDisk(op, t) \/ Quiet)
  <2>1. prepared[op] = t => WellRun(t)
    BY <1>o DEF PreparedInv
  <2>2. OnDisk(op, t) \/ (Quiet /\ prepared[op] = t /\ PreflightState(op, t))
    BY <1>0, <1>f, <1>o, OnDiskStep
  <2>3. PreflightState(op, t) /\ WellRun(t) => Fits(op, t)
    BY <1>o, PreflightFits
  <2>4. QED
    BY <1>d, <2>1, <2>2, <2>3
\* Where containers at most stop.
<1>s. ASSUME AtMostStop, At("command")' => call' = call /\ tx' = tx
      PROVE  /\ OnDisk(op, t)' => Fits(op, t)'
             /\ At("command")' /\ tx'.final[op] = t => Meets(op, t, call.value)'
  <2>1. OnDisk(op, t)' => Fits(op, t)'
    BY <1>f, <1>o, <1>s, StopsFit
  <2>2. ASSUME At("command")', tx'.final[op] = t
        PROVE  Meets(op, t, call.value)'
    <3>1. PICK c : c = call.value
      OBVIOUS
    <3>2. Meets(op, t, c) /\ call'.value = c
      BY <1>d, <1>s, <2>2, <3>1 DEF At
    <3>3. Meets(op, t, c)'
      BY <1>o, <1>s, <3>2, StopsFit
    <3>4. QED
      BY <3>2, <3>3
  <2>3. QED
    BY <2>1, <2>2
<1>u. ASSUME containers' = containers, At("command")' => call' = call /\ tx' = tx
      PROVE  /\ OnDisk(op, t)' => Fits(op, t)'
             /\ At("command")' /\ tx'.final[op] = t => Meets(op, t, call.value)'
  BY <1>s, <1>u DEF AtMostStop, Absent, Running
\* A command is executed, and its call ends.
<1>x. ASSUME At("command"), Execute(call.value), call' = Idle, UNCHANGED <<tx, txDisk>>
      PROVE  /\ OnDisk(op, t)' => Fits(op, t)'
             /\ At("command")' /\ tx'.final[op] = t => Meets(op, t, call.value)'
  <2>1. PICK c : c = call.value
    OBVIOUS
  <2>2. PICK r \in Role : c \in RoleCommand(r, op) /\ call.op = op
    BY <1>o, <1>x, <2>1 DEF CommandsOK
  <2>3. txDisk = {tx} /\ Loadable(op)
    BY <1>x, <2>2 DEF StageInv, At
  <2>4. ASSUME OnDisk(op, t)'
        PROVE  Fits(op, t)'
    <3>1. tx.final[op] = t
      BY <1>x, <2>3, <2>4, NothingAssumption DEF OnDisk, At, Idle, Loadable
    <3>2. Fits(op, t) /\ Meets(op, t, c)
      BY <1>d, <1>f, <1>x, <2>1, <2>4, <3>1
    <3>3. QED
      BY <1>0, <1>o, <1>x, <2>1, <2>2, <3>2, ExecuteFits
  <2>5. QED
    BY <1>x, <2>4 DEF At, Idle
<1>1. CASE Quiet
  BY <1>1, <1>u, QuietEffect, QuietCommand DEF At
<1>2. ASSUME NEW o \in env.ops, NEW r \in Role, Mutation(o, r)
      PROVE  /\ OnDisk(op, t)' => Fits(op, t)'
             /\ At("command")' /\ tx'.final[op] = t => Meets(op, t, call.value)'
  <2>1. Mutation(op, r)
    BY <1>2, <1>o
  <2>2. PICK d : Mutate(op, d)
    BY <1>o, <2>1, MutationEffect
  <2>3. UNCHANGED <<containers, tx, txDisk>> /\ Loadable(op) /\ call'.name = "command"
    BY <2>2 DEF Mutate, Goto, stages, engine
  <2>4. AtMostStop
    BY <2>3 DEF AtMostStop, Absent, Running
  <2>5. OnDisk(op, t)' => Fits(op, t)'
    BY <1>f, <1>o, <2>4, StopsFit
  <2>6. PICK c : c = call'.value
    OBVIOUS
  <2>7. ASSUME tx'.final[op] = t
        PROVE  Meets(op, t, c)'
    <3>1. tx.final[op] = t /\ Fits(op, t)
      BY <1>d, <2>3, <2>7 DEF OnDisk, StageTypeOK
    <3>2. t.previous # op
      BY <1>o, <3>1 DEF StageInv, StageTypeOK, Covers
    <3>3. Meets(op, t, c)
      BY <1>0, <1>o, <2>1, <2>6, <3>1, <3>2, MutationMeets
    <3>4. QED
      BY <1>o, <2>4, <3>3, StopsFit
  <2>8. QED
    BY <2>5, <2>6, <2>7
<1>3. CASE RunCommand
  BY <1>3, <1>x DEF RunCommand, Return, stages
<1>4. ASSUME NEW c \in pending, LateCommand(c)
      PROVE  FALSE
  BY <1>4, <1>o
<1>5. CASE CommandTimeout
  BY <1>5 DEF CommandTimeout, Fault, Late
<1>6. CASE Kill
  <2>1. call' = Idle /\ UNCHANGED <<tx, txDisk>>
    BY <1>6 DEF Kill, Return, stages
  <2>2. CASE containers' = containers
    BY <1>u, <2>1, <2>2 DEF At, Idle
  <2>3. QED
    BY <1>6, <1>x, <2>1, <2>2 DEF Kill, engine
<1>7. CASE PowerLoss
  <2>1. AtMostStop
    BY <1>0, <1>7, PowerLossStops
  <2>2. ~At("command")'
    BY <1>7 DEF PowerLoss, Return, At, Idle
  <2>3. QED
    BY <1>s, <2>1, <2>2
<1>8. ASSUME NEW m \in Names, Exit(m)
      PROVE  /\ OnDisk(op, t)' => Fits(op, t)'
             /\ At("command")' /\ tx'.final[op] = t => Meets(op, t, call.value)'
  <2>1. AtMostStop
    BY <1>0, <1>8, ExitStops
  <2>2. call' = call /\ tx' = tx
    BY <1>8 DEF Exit, stages
  <2>3. QED
    BY <1>s, <2>1, <2>2
<1>9. CASE UNCHANGED vars
  BY <1>9, <1>u DEF vars
<1>10. QED
  BY <1>1, <1>2, <1>3, <1>4, <1>5, <1>6, <1>7, <1>8, <1>9, StepCases

\* The invariant: the pair fits the transaction on the disk, and a command in flight
\* meets what its call looked at.
LEMMA DecideInvariant ==
  Spec => [](CommandsOK /\ StageTypeOK /\ StageInv /\ StrayInv /\ PreparedInv /\ DecideInv /\ Whole)
<1> DEFINE Inv == CommandsOK /\ StageTypeOK /\ StageInv /\ StrayInv /\ PreparedInv /\ DecideInv /\ Whole
<1>1. Init => Inv
  <2> SUFFICES ASSUME Init
               PROVE  Inv
    OBVIOUS
  <2>1. PICK pair \in [Role -> {None} \cup [generation : {Initial}, running : BOOLEAN]] :
          InitWith(pair, "initialized")
    BY DEF Init
  <2>2. \A r \in Role : pair[r] = None \/ pair[r].generation = Initial
    OBVIOUS
  <2>3. StageTypeOK /\ StageInv /\ StrayInv
    BY <2>1, <2>2, InitStage
  <2>4. ~At("command") /\ ~At("writeStage")
    BY <2>1 DEF InitWith, At, Idle
  <2>5. ASSUME NEW op \in env.ops, NEW t \in Transaction
        PROVE  ~OnDisk(op, t)
    <3>1. op \in Op /\ t # None
      BY <2>1, ContainerAssumption, NothingAssumption DEF InitWith, ContainerAssumption
    <3>2. \A s \in txDisk : s.final[op] = None /\ s.stage[op] = None
      BY <2>1, <3>1 DEF InitWith, NoFiles
    <3>3. QED
      BY <2>4, <3>1, <3>2 DEF OnDisk
  <2>6. DecideInv
    BY <2>4, <2>5 DEF DecideInv
  <2>7. PreparedInv
    BY <2>1, NothingAssumption DEF InitWith, PreparedInv
  <2>8. QED
    BY <2>1, <2>3, <2>6, <2>7, InitInvariants DEF InitWith, Whole
<1>2. Inv /\ [Next]_vars => Inv'
  <2> SUFFICES ASSUME CommandsOK, StageTypeOK, StageInv, StrayInv, PreparedInv, DecideInv, Whole, [Next]_vars
               PROVE  Inv'
    OBVIOUS
  <2>1. AdapterStep /\ env.ops \subseteq Op
    BY StepIsAdapterStep, CommandsFacts
  <2>2. QED
    BY <2>1, CommandsStep, StageTypeStep, StrayStep, StageStepKeeps, PreparedStep, DecideStep, WholeStep
<1>3. QED
  BY <1>1, <1>2, PTL DEF Spec

\* After a crash between any two calls the observation of the four names selects the
\* next one: either the previous pair is back, or exactly one rollback call is
\* accepted, for exactly one role (Observe, VerifyRole and the guards of the rollback
\* calls in actions.go).
THEOREM PairTheorem == Spec => []PairDecides
<1> DEFINE Inv == CommandsOK /\ StageTypeOK /\ StageInv /\ StrayInv /\ PreparedInv /\ DecideInv /\ Whole
<1>1. Inv => PairDecides
  <2> DEFINE Accepted(op) ==
               {k \in {"stop", "remove", "restore", "restart"} \X Role :
                  CASE k[1] = "stop"    -> CandidateRuns(op, k[2])
                    [] k[1] = "remove"  -> CandidateRests(op, k[2])
                    [] k[1] = "restore" -> PreviousAside(op, k[2])
                    [] k[1] = "restart" -> PreviousRests(op, k[2])}
  <2> SUFFICES ASSUME CommandsOK, StageTypeOK, StageInv, DecideInv, Whole, Alone, ~Late, FilesLast,
                      Ready, NEW op \in env.ops, Loadable(op)
               PROVE  /\ \A r \in Role : "other" \notin {Observe(op)[r].primary, Observe(op)[r].rollback}
                      /\ Verify(op, "previous") \/ Cardinality(Accepted(op)) = 1
    BY DEF PairDecides
  <2> DEFINE t == tx.final[op]
             g == t.previous
             x == Rollback("server", op)
             y == Rollback("worker", op)
  <2>0. /\ op \in Op /\ ContainersOK
        /\ S \in Names /\ W \in Names /\ x \in Names /\ y \in Names
    BY CommandsFacts, FourNames
  <2>1. t \in Transaction /\ OnDisk(op, t)
    BY DEF Loadable, OnDisk, StageTypeOK
  <2>2. Fits(op, t)
    BY <2>1 DEF DecideInv
  <2>3. Previous(op) = g /\ g # op
    <3>1. Covers(tx)
      BY DEF StageInv, StageTypeOK
    <3>2. QED
      BY <2>0, <2>1, <3>1 DEF Covers, Previous
  <2>4. \A n \in {S, W, x, y} : /\ ~Holds(n, None) /\ (\A h : Holds(n, h) => ~Absent(n))
                                /\ \A h, k : Holds(n, h) /\ Holds(n, k) => h = k
    BY <2>0, HoldsSome DEF Holds
  <2>5. /\ PreviousRollbacks(op) <=> Rest(op, t)
        /\ Rest(op, t) <=> IF g = None THEN Absent(x) /\ Absent(y) ELSE Stopped(x, g) /\ Stopped(y, g)
        /\ NoRollbacks(op) <=> Absent(x) /\ Absent(y)
        /\ ServerOnly(op) <=> Stopped(S, g) /\ Absent(x) /\ Absent(W) /\ Stopped(y, g)
        /\ Aside("server", op) <=> Stopped(x, g)
        /\ Aside("worker", op) <=> Stopped(y, g)
    BY <2>0, <2>3, FourNames DEF PreviousRollbacks, Rest, Aside, ServerOnly
  <2>6. \A n, h : Stopped(n, h) <=> Holds(n, h) /\ ~Running(n)
    BY DEF Stopped
  <2>r. "server" \in Role /\ "worker" \in Role /\ \A r \in Role : r = "server" \/ r = "worker"
    BY NamesFacts
  <2> HIDE DEF t, g, x, y
  <2>v. \/ g # None /\ Absent(x) /\ Absent(y) /\ Both(g)
        \/ g # None /\ Stopped(S, g) /\ Absent(x) /\ Absent(W) /\ Stopped(y, g)
        \/ Rest(op, t) /\ Candidates(op)
    BY <2>2, <2>5 DEF Fits, Home, Half, g, x, y
  \* None of the four names holds a third generation.
  <2>7. \A r \in Role : "other" \notin {Observe(op)[r].primary, Observe(op)[r].rollback}
    <3>1. \A n \in {S, W, x, y} : Absent(n) \/ Holds(n, op) \/ (g # None /\ Holds(n, g))
      BY <2>5, <2>6, <2>v DEF Candidates, Both
    <3>2. \A n \in {S, W, x, y} : State(op, n) # "other"
      BY <2>3, <3>1 DEF State
    <3>3. \A r \in Role : Primary(r) \in {S, W} /\ Rollback(r, op) \in {x, y}
      BY <2>r, NamesFacts DEF x, y
    <3>4. \A r \in Role : Observe(op)[r].primary = State(op, Primary(r))
                          /\ Observe(op)[r].rollback = State(op, Rollback(r, op))
      BY DEF Observe
    <3>5. QED
      BY <3>2, <3>3, <3>4
  \* The guards of the eight rollback calls.
  <2>8. /\ CandidateRuns(op, "server") <=> Rest(op, t) /\ Both(op) /\ Running(S) /\ ~Running(W)
        /\ CandidateRuns(op, "worker") <=> Rest(op, t) /\ Both(op) /\ Running(W)
        /\ CandidateRests(op, "server") <=> Rest(op, t) /\ Stopped(S, op) /\ Absent(W)
        /\ CandidateRests(op, "worker") <=> Rest(op, t) /\ Stopped(W, op) /\ Stopped(S, op)
        /\ PreviousAside(op, "server") <=> Absent(S) /\ Absent(W) /\ Stopped(x, g) /\ Stopped(y, g)
        /\ PreviousAside(op, "worker") <=> Stopped(S, g) /\ Absent(x) /\ Absent(W) /\ Stopped(y, g)
        /\ PreviousRests(op, "server") <=> Absent(x) /\ Absent(y) /\ Both(g) /\ ~Running(S) /\ t.running["server"]
        /\ PreviousRests(op, "worker") <=> Absent(x) /\ Absent(y) /\ Both(g) /\ ~Running(W) /\ t.running["worker"]
                                           /\ Running(S)
    BY <2>3, <2>5, NamesFacts
       DEF CandidateRuns, CandidateRests, PreviousAside, PreviousRests, t
  \* Accepted is decided by the eight guards.
  <2>9. ASSUME NEW kind \in {"stop", "remove", "restore", "restart"}, NEW r \in {"server", "worker"}
        PROVE  <<kind, r>> \in Accepted(op) <=>
                 \/ kind = "stop" /\ CandidateRuns(op, r)
                 \/ kind = "remove" /\ CandidateRests(op, r)
                 \/ kind = "restore" /\ PreviousAside(op, r)
                 \/ kind = "restart" /\ PreviousRests(op, r)
    BY <2>r
  <2>10. \A k \in Accepted(op) : \E kind \in {"stop", "remove", "restore", "restart"}, r \in {"server", "worker"} :
           k = <<kind, r>>
    BY <2>r
  <2> HIDE DEF Accepted
  <2>11. ASSUME NEW kind \in {"stop", "remove", "restore", "restart"}, NEW r \in {"server", "worker"},
                <<kind, r>> \in Accepted(op),
                \A o \in {"stop", "remove", "restore", "restart"}, q \in {"server", "worker"} :
                  <<o, q>> \in Accepted(op) => o = kind /\ q = r
         PROVE  Cardinality(Accepted(op)) = 1
    <3>1. Accepted(op) = {<<kind, r>>}
      BY <2>10, <2>11
    <3>2. Cardinality({<<kind, r>>}) = 1
      BY FS_Singleton
    <3>3. QED
      BY <3>1, <3>2
  <2>12. CASE Rest(op, t) /\ Both(op)
    <3>0. ~Absent(S) /\ ~Absent(W) /\ ~Holds(S, g) /\ ~Holds(W, g)
      BY <2>3, <2>4, <2>12 DEF Both
    <3>1. CASE Running(W)
      <4>1. /\ ~CandidateRuns(op, "server") /\ CandidateRuns(op, "worker") /\ ~CandidateRests(op, "server") /\ ~CandidateRests(op, "worker")
            /\ ~PreviousAside(op, "server") /\ ~PreviousAside(op, "worker") /\ ~PreviousRests(op, "server") /\ ~PreviousRests(op, "worker")
        BY <2>6, <2>8, <2>12, <3>0, <3>1 DEF Both
      <4>2. QED
        BY <2>7, <2>9, <2>11, <4>1
    <3>2. CASE ~Running(W) /\ Running(S)
      <4>1. /\ CandidateRuns(op, "server") /\ ~CandidateRuns(op, "worker") /\ ~CandidateRests(op, "server") /\ ~CandidateRests(op, "worker")
            /\ ~PreviousAside(op, "server") /\ ~PreviousAside(op, "worker") /\ ~PreviousRests(op, "server") /\ ~PreviousRests(op, "worker")
        BY <2>6, <2>8, <2>12, <3>0, <3>2 DEF Both
      <4>2. QED
        BY <2>7, <2>9, <2>11, <4>1
    <3>3. CASE ~Running(W) /\ ~Running(S)
      <4>1. /\ ~CandidateRuns(op, "server") /\ ~CandidateRuns(op, "worker") /\ ~CandidateRests(op, "server") /\ CandidateRests(op, "worker")
            /\ ~PreviousAside(op, "server") /\ ~PreviousAside(op, "worker") /\ ~PreviousRests(op, "server") /\ ~PreviousRests(op, "worker")
        BY <2>6, <2>8, <2>12, <3>0, <3>3 DEF Both
      <4>2. QED
        BY <2>7, <2>9, <2>11, <4>1
    <3>4. QED
      BY <3>1, <3>2, <3>3
  <2>13. CASE Rest(op, t) /\ Stopped(S, op) /\ Absent(W)
    <3>0. ~Absent(S) /\ ~Holds(S, g) /\ \A h : ~Holds(W, h)
      BY <2>3, <2>4, <2>6, <2>13
    <3>1. /\ ~CandidateRuns(op, "server") /\ ~CandidateRuns(op, "worker") /\ CandidateRests(op, "server") /\ ~CandidateRests(op, "worker")
          /\ ~PreviousAside(op, "server") /\ ~PreviousAside(op, "worker") /\ ~PreviousRests(op, "server") /\ ~PreviousRests(op, "worker")
      BY <2>6, <2>8, <2>13, <3>0 DEF Both
    <3>2. QED
      BY <2>7, <2>9, <2>11, <3>1
  <2>14. CASE Rest(op, t) /\ Absent(S) /\ Absent(W) /\ g # None
    <3>0. \A h : ~Holds(S, h) /\ ~Holds(W, h)
      BY <2>4, <2>14
    <3>1. /\ ~CandidateRuns(op, "server") /\ ~CandidateRuns(op, "worker") /\ ~CandidateRests(op, "server") /\ ~CandidateRests(op, "worker")
          /\ PreviousAside(op, "server") /\ ~PreviousAside(op, "worker") /\ ~PreviousRests(op, "server") /\ ~PreviousRests(op, "worker")
      BY <2>5, <2>6, <2>8, <2>14, <3>0 DEF Both
    <3>2. QED
      BY <2>7, <2>9, <2>11, <3>1
  <2>15. CASE Rest(op, t) /\ Absent(S) /\ Absent(W) /\ g = None
    <3>1. Bound(op)
      BY DEF Bound, Whole
    <3>2. Verify(op, "previous")
      BY <2>3, <2>5, <2>15, <3>1 DEF Verify
    <3>3. QED
      BY <2>7, <3>2
  <2>16. CASE g # None /\ Stopped(S, g) /\ Absent(x) /\ Absent(W) /\ Stopped(y, g)
    <3>0. ~Absent(S) /\ ~Holds(S, op) /\ (\A h : ~Holds(W, h)) /\ ~Absent(y) /\ ~Rest(op, t)
      BY <2>3, <2>4, <2>5, <2>6, <2>16
    <3>1. /\ ~CandidateRuns(op, "server") /\ ~CandidateRuns(op, "worker") /\ ~CandidateRests(op, "server") /\ ~CandidateRests(op, "worker")
          /\ ~PreviousAside(op, "server") /\ PreviousAside(op, "worker") /\ ~PreviousRests(op, "server") /\ ~PreviousRests(op, "worker")
      BY <2>6, <2>8, <2>16, <3>0 DEF Both
    <3>2. QED
      BY <2>7, <2>9, <2>11, <3>1
  <2>17. CASE Home(op, t)
    <3>0. /\ g # None /\ Absent(x) /\ Absent(y) /\ Both(g) /\ ~Both(op) /\ ~Rest(op, t)
          /\ ~Absent(S) /\ ~Absent(W) /\ \A h : ~Stopped(x, h) /\ ~Stopped(y, h)
      BY <2>3, <2>4, <2>5, <2>6, <2>17 DEF Home, Both, g
    <3>w. /\ (Running(S) => t.running["server"]) /\ (Running(W) => t.running["worker"])
          /\ t.running["worker"] => t.running["server"]
      BY <2>2, <2>17, <2>r, NamesFacts DEF Home, Fits, WellRun
    <3>1. CASE ~Running(S) /\ t.running["server"]
      <4>1. /\ ~CandidateRuns(op, "server") /\ ~CandidateRuns(op, "worker") /\ ~CandidateRests(op, "server") /\ ~CandidateRests(op, "worker")
            /\ ~PreviousAside(op, "server") /\ ~PreviousAside(op, "worker") /\ PreviousRests(op, "server") /\ ~PreviousRests(op, "worker")
        BY <2>8, <3>0, <3>1
      <4>2. QED
        BY <2>7, <2>9, <2>11, <4>1
    <3>2. CASE Running(S) /\ ~Running(W) /\ t.running["worker"]
      <4>1. /\ ~CandidateRuns(op, "server") /\ ~CandidateRuns(op, "worker") /\ ~CandidateRests(op, "server") /\ ~CandidateRests(op, "worker")
            /\ ~PreviousAside(op, "server") /\ ~PreviousAside(op, "worker") /\ ~PreviousRests(op, "server") /\ PreviousRests(op, "worker")
        BY <2>8, <3>0, <3>2
      <4>2. QED
        BY <2>7, <2>9, <2>11, <4>1
    <3>3. CASE /\ Running(S) <=> t.running["server"]
               /\ Running(W) <=> t.running["worker"]
      <4>1. ASSUME NEW r \in Role
            PROVE  Running(Primary(r)) = t.running[r]
        <5>1. t.running[r] \in BOOLEAN
          BY <2>1 DEF Transaction
        <5>2. Running(Primary(r)) \in BOOLEAN
          BY DEF Running, Absent
        <5>3. Running(Primary(r)) <=> t.running[r]
          BY <2>r, <3>3, NamesFacts
        <5>4. QED
          BY <5>1, <5>2, <5>3, Zenon
      <4>2. \A r \in Role : Holds(Primary(r), g) /\ Absent(Rollback(r, op))
        BY <2>r, <3>0, NamesFacts DEF Both, x, y
      <4>3. Bound(op)
        BY DEF Bound, Whole
      <4>4. \A r \in Role : VerifyRole(op, r, "previous")
        BY <2>3, <4>1, <4>2, <4>3 DEF VerifyRole, t
      <4>5. QED
        BY <2>7, <4>4 DEF Verify
    <3>4. QED
      BY <3>w, <3>1, <3>2, <3>3
  <2>18. QED
    BY <2>2, <2>5, <2>v, <2>12, <2>13, <2>14, <2>15, <2>16, <2>17 DEF Fits, Candidates, Half, g, x, y
<1>2. QED
  BY <1>1, DecideInvariant, PTL

-----------------------------------------------------------------------------
(* A rollback call brings the pair nearer to the previous state. *)

\* What a stop, and what a start is worth.
Runs(n) == IF Running(n) THEN 1 ELSE 0
Waits(op, r) == IF tx.final[op].running[r] /\ ~Running(Primary(r)) THEN 1 ELSE 0

\* The rollback calls that remain: stop and remove both candidates, rename both
\* previous containers back, start those that ran.
Distance(op) ==
  CASE Both(op)                            -> 6 + Runs(S) + Runs(W)
    [] Holds(S, op) /\ Absent(W)           -> 5
    [] Absent(S) /\ Absent(W)              -> IF Previous(op) = None THEN 0 ELSE 4
    [] Holds(S, Previous(op)) /\ Absent(W) -> 3
    [] OTHER                               -> Waits(op, "server") + Waits(op, "worker")

\* The command of a rollback call.
Undoes(op, c) ==
  \E r \in Role :
    \/ c = StopCommand(Primary(r)) /\ Both(op)
    \/ c = RemoveCommand(Primary(r), op)
    \/ c = RenameCommand(Rollback(r, op), Primary(r))
    \/ c = StartCommand(Primary(r)) /\ ~Both(op) /\ ~Running(Primary(r))

\* The command in flight, if there is one, is that of a rollback call.
Backward(op) == At("command") => Undoes(op, call.value)

\* Once a rollback was decided and no forward command is left in flight, only a container
\* that ends by itself takes the pair further away from the previous state, and a
\* command that does anything brings it nearer.
RollbackNears ==
  [][Alone /\ ~Late /\ FilesLast =>
       \A op \in env.ops :
         op \in undoing /\ Loadable(op) /\ tx'.final[op] = tx.final[op] /\ Backward(op) =>
           /\ Backward(op)'
           /\ \/ Distance(op)' <= Distance(op)
              \/ PowerLoss \/ \E n \in Names : Exit(n)
           /\ RunCommand /\ ~(call.value.kind = "stop" /\ ~Running(call.value.name)) =>
                Distance(op)' < Distance(op)]_vars

\* It is over when the distance is zero.
ZeroIsPrevious ==
  Alone /\ ~Late /\ FilesLast /\ Ready =>
    \A op \in env.ops : Loadable(op) => (Distance(op) = 0 <=> Verify(op, "previous"))

\* The distance of each place the pair may be in.
LEMMA DistanceIs ==
  ASSUME ContainersOK, NEW op \in Op, Previous(op) # op
  PROVE  /\ Both(op) => Distance(op) = 6 + Runs(S) + Runs(W)
         /\ Holds(S, op) /\ Absent(W) => Distance(op) = 5
         /\ Absent(S) /\ Absent(W) => Distance(op) = IF Previous(op) = None THEN 0 ELSE 4
         /\ Holds(S, Previous(op)) /\ Absent(W) => Distance(op) = 3
         /\ Both(Previous(op)) => Distance(op) = Waits(op, "server") + Waits(op, "worker")
         /\ Distance(op) \in 0 .. 8
<1>1. \A n \in {S, W} : /\ \A g : Holds(n, g) => ~Absent(n)
                        /\ \A g, h : Holds(n, g) /\ Holds(n, h) => g = h
  BY DEF Holds
<1>2. Runs(S) \in 0 .. 1 /\ Runs(W) \in 0 .. 1
  BY DEF Runs
<1>3. Waits(op, "server") \in 0 .. 1 /\ Waits(op, "worker") \in 0 .. 1
  BY DEF Waits
<1>4. /\ Both(op) => Distance(op) = 6 + Runs(S) + Runs(W)
      /\ Holds(S, op) /\ Absent(W) => Distance(op) = 5
      /\ Absent(S) /\ Absent(W) => Distance(op) = IF Previous(op) = None THEN 0 ELSE 4
      /\ Holds(S, Previous(op)) /\ Absent(W) => Distance(op) = 3
      /\ Both(Previous(op)) => Distance(op) = Waits(op, "server") + Waits(op, "worker")
  BY <1>1 DEF Distance, Both
<1>5. \/ Distance(op) = 6 + Runs(S) + Runs(W)
      \/ Distance(op) \in {0, 3, 4, 5}
      \/ Distance(op) = Waits(op, "server") + Waits(op, "worker")
  BY DEF Distance
<1>6. QED
  BY <1>2, <1>3, <1>4, <1>5

\* The same after a step.
LEMMA DistanceNext ==
  ASSUME ContainersOK', NEW op \in Op, Previous(op)' # op
  PROVE  /\ Both(op)' => Distance(op)' = 6 + Runs(S)' + Runs(W)'
         /\ Holds(S, op)' /\ Absent(W)' => Distance(op)' = 5
         /\ Absent(S)' /\ Absent(W)' => Distance(op)' \in {0, 4}
         /\ Holds(S, Previous(op))' /\ Absent(W)' => Distance(op)' = 3
         /\ Both(Previous(op))' => Distance(op)' = Waits(op, "server")' + Waits(op, "worker")'
<1>1. \A n \in {S, W} : /\ \A g : Holds(n, g)' => ~Absent(n)'
                        /\ \A g, h : Holds(n, g)' /\ Holds(n, h)' => g = h
  BY DEF Holds
<1>2. QED
  BY <1>1 DEF Distance, Both

\* The command of a rollback call that is executed brings the pair nearer, except for a
\* stop of what has stopped by itself.
LEMMA ExecuteNears ==
  ASSUME ContainersOK, ContainersOK', NEW op \in Op, NEW t \in Transaction, t.previous # op,
         tx.final[op] = t, tx'.final[op] = t,
         NEW c, Execute(c), Meets(op, t, c), Undoes(op, c)
  PROVE  /\ Distance(op)' <= Distance(op)
         /\ ~(c.kind = "stop" /\ ~Running(c.name)) => Distance(op)' < Distance(op)
<1> DEFINE x == Rollback("server", op)
           y == Rollback("worker", op)
           g == t.previous
<1>0. /\ S \in Names /\ W \in Names /\ x \in Names /\ y \in Names
      /\ S # W /\ x # y /\ x # S /\ x # W /\ y # S /\ y # W
  BY FourNames
<1>g. Previous(op) = g /\ Previous(op)' = g /\ g # op
  BY DEF Previous
<1>a. Rest(op, t) <=> IF g = None THEN Absent(x) /\ Absent(y) ELSE Stopped(x, g) /\ Stopped(y, g)
  BY FourNames
<1>b. Half(op, t) <=> g # None /\ Stopped(S, g) /\ Absent(x) /\ Absent(W) /\ Stopped(y, g)
  BY DEF Half
<1>h. \A n : Stopped(n, g) => Holds(n, g) /\ ~Absent(n)
  BY DEF Stopped, Holds
<1>d. /\ Both(op) => Distance(op) = 6 + Runs(S) + Runs(W)
      /\ Holds(S, op) /\ Absent(W) => Distance(op) = 5
      /\ Absent(S) /\ Absent(W) => Distance(op) = IF g = None THEN 0 ELSE 4
      /\ Holds(S, g) /\ Absent(W) => Distance(op) = 3
      /\ Both(g) => Distance(op) = Waits(op, "server") + Waits(op, "worker")
  BY <1>g, DistanceIs
<1>e. /\ Both(op)' => Distance(op)' = 6 + Runs(S)' + Runs(W)'
      /\ Holds(S, op)' /\ Absent(W)' => Distance(op)' = 5
      /\ Absent(S)' /\ Absent(W)' => Distance(op)' \in {0, 4}
      /\ Holds(S, g)' /\ Absent(W)' => Distance(op)' = 3
      /\ Both(g)' => Distance(op)' = Waits(op, "server")' + Waits(op, "worker")'
  BY <1>g, DistanceNext DEF Both
<1>w. /\ Runs(S) \in 0 .. 1 /\ Runs(W) \in 0 .. 1
      /\ Waits(op, "server")' \in 0 .. 1 /\ Waits(op, "worker")' \in 0 .. 1
  BY DEF Runs, Waits
<1> HIDE DEF x, y, g
\* What a name holds is decided by what is under it.
<1>s. ASSUME NEW n \in Names, NEW m \in Names, containers'[n] = containers[m]
      PROVE  /\ Absent(n)' <=> Absent(m)
             /\ Running(n)' <=> Running(m)
             /\ \A h : (Holds(n, h)' <=> Holds(m, h)) /\ (Stopped(n, h)' <=> Stopped(m, h))
  BY <1>s, SameContainer
<1> SUFFICES ASSUME NEW r \in Role,
                    \/ c = StopCommand(Primary(r)) /\ Both(op)
                    \/ c = RemoveCommand(Primary(r), op)
                    \/ c = RenameCommand(Rollback(r, op), Primary(r))
                    \/ c = StartCommand(Primary(r)) /\ ~Both(op) /\ ~Running(Primary(r))
             PROVE  /\ Distance(op)' <= Distance(op)
                    /\ ~(c.kind = "stop" /\ ~Running(c.name)) => Distance(op)' < Distance(op)
  BY DEF Undoes
<1>p. (r = "server" /\ Primary(r) = S /\ Rollback(r, op) = x) \/ (r = "worker" /\ Primary(r) = W /\ Rollback(r, op) = y)
  BY AuthentikAssumption DEF S, W, x, y
<1>q. Primary(r) \in Names /\ Primary(r) \in {S, W}
  BY <1>0, <1>p
\* A start or a stop changes the power of one container only.
<1>k. ASSUME NEW kind \in {"stop", "start"}, c = Command(kind, Primary(r), None, None), ~Absent(Primary(r))
      PROVE  /\ \A n \in {S, W} : \A h : Holds(n, h) => Holds(n, h)'
             /\ Running(Primary(r))' <=> kind = "start"
             /\ \A n \in {S, W} \ {Primary(r)} : Running(n)' <=> Running(n)
  <2>1. /\ \A n \in Names \ {Primary(r)} : containers'[n] = containers[n]
        /\ containers'[Primary(r)] \in Container
        /\ containers'[Primary(r)].generation = containers[Primary(r)].generation
        /\ containers'[Primary(r)].running = (kind = "start")
    BY <1>k, <1>q, PowerEffect
  <2>2. ~Absent(Primary(r))'
    BY <2>1, NothingAssumption DEF Absent
  <2>3. Running(Primary(r))' <=> kind = "start"
    BY <2>1, <2>2 DEF Running
  <2>4. \A h : Holds(Primary(r), h) => Holds(Primary(r), h)'
    BY <2>1, <2>2 DEF Holds
  <2>5. \A n \in {S, W} \ {Primary(r)} : /\ Running(n)' <=> Running(n)
                                         /\ \A h : Holds(n, h) => Holds(n, h)'
    BY <1>0, <1>s, <2>1
  <2>6. QED
    BY <2>3, <2>4, <2>5
<1>1. CASE c = StopCommand(Primary(r)) /\ Both(op)
  <2>1. c = Command("stop", Primary(r), None, None) /\ ~Absent(Primary(r)) /\ c.kind = "stop" /\ c.name = Primary(r)
    BY <1>1, <1>q DEF StopCommand, Command, Both, Holds
  <2>2. /\ \A n \in {S, W} : \A h : Holds(n, h) => Holds(n, h)'
        /\ ~Running(Primary(r))'
        /\ \A n \in {S, W} \ {Primary(r)} : Running(n)' <=> Running(n)
    BY <1>k, <2>1
  <2>3. Both(op)'
    BY <1>1, <2>2 DEF Both
  <2>4. Distance(op) = 6 + Runs(S) + Runs(W) /\ Distance(op)' = 6 + Runs(S)' + Runs(W)'
    BY <1>1, <1>d, <1>e, <2>3
  <2>5. /\ Runs(Primary(r))' = 0
        /\ Running(Primary(r)) => Runs(Primary(r)) = 1
        /\ \A n \in {S, W} \ {Primary(r)} : Runs(n)' = Runs(n)
    BY <2>2 DEF Runs
  <2>6. QED
    BY <1>0, <1>p, <1>w, <2>1, <2>4, <2>5
<1>2. CASE c = RemoveCommand(Primary(r), op)
  <2>1. Stopped(Primary(r), op) /\ Stopped(S, op)
    BY <1>2, <1>p DEF Meets
  <2>2. /\ \A n \in Names \ {Primary(r)} : containers'[n] = containers[n]
        /\ containers'[Primary(r)] = None
    BY <1>2, <1>q, <2>1, RemoveEffect DEF Stopped
  <2>3. Absent(Primary(r))'
    BY <2>2 DEF Absent
  <2>4. CASE r = "worker"
    <3>1. Both(op) /\ Holds(S, op)' /\ Absent(W)'
      BY <1>0, <1>p, <1>s, <2>1, <2>2, <2>3, <2>4 DEF Both, Stopped
    <3>2. QED
      BY <1>d, <1>e, <1>w, <3>1
  <2>5. CASE r = "server"
    <3>1. Holds(S, op) /\ Absent(W) /\ Absent(S)' /\ Absent(W)'
      BY <1>0, <1>2, <1>p, <1>s, <2>1, <2>2, <2>3, <2>5 DEF Meets, Stopped
    <3>2. QED
      BY <1>d, <1>e, <3>1
  <2>6. QED
    BY <1>p, <2>4, <2>5
<1>3. CASE c = RenameCommand(Rollback(r, op), Primary(r))
  <2>1. CASE r = "server"
    <3>0. g # None /\ Stopped(x, g) /\ Absent(S) /\ Absent(W) /\ c = RenameCommand(x, S)
      BY <1>3, <1>a, <1>p, <2>1 DEF Meets, x, g
    <3>1. containers'[S] = containers[x] /\ containers'[W] = containers[W]
      BY <1>0, <1>h, <3>0, RenameEffect
    <3>2. Holds(S, g)' /\ Absent(W)'
      BY <1>0, <1>h, <1>s, <3>0, <3>1
    <3>3. QED
      BY <1>d, <1>e, <3>0, <3>2
  <2>2. CASE r = "worker"
    <3>0. Half(op, t) /\ c = RenameCommand(y, W)
      BY <1>3, <1>p, <2>2 DEF Meets, y
    <3>1. containers'[W] = containers[y] /\ containers'[S] = containers[S]
      BY <1>0, <1>b, <1>h, <3>0, RenameEffect
    <3>2. Holds(S, g)' /\ Holds(W, g)'
      BY <1>0, <1>b, <1>h, <1>s, <3>0, <3>1
    <3>3. Both(g)' /\ Holds(S, g) /\ Absent(W)
      BY <1>b, <1>h, <3>0, <3>2 DEF Both
    <3>4. QED
      BY <1>d, <1>e, <1>w, <3>3
  <2>3. QED
    BY <1>p, <2>1, <2>2
<1>4. CASE c = StartCommand(Primary(r)) /\ ~Both(op) /\ ~Running(Primary(r))
  <2>0. Home(op, t) /\ t.running[r]
    BY <1>4 DEF Meets
  <2>1. c = Command("start", Primary(r), None, None) /\ Both(g) /\ ~Absent(Primary(r))
    BY <1>4, <1>q, <2>0 DEF StartCommand, Home, Both, Holds, g
  <2>2. /\ \A n \in {S, W} : \A h : Holds(n, h) => Holds(n, h)'
        /\ Running(Primary(r))'
        /\ \A n \in {S, W} \ {Primary(r)} : Running(n)' <=> Running(n)
    BY <1>k, <2>1
  <2>3. Both(g)'
    BY <2>1, <2>2 DEF Both
  <2>4. /\ Distance(op) = Waits(op, "server") + Waits(op, "worker")
        /\ Distance(op)' = Waits(op, "server")' + Waits(op, "worker")'
    BY <1>d, <1>e, <2>1, <2>3
  <2>5. Waits(op, r) = 1 /\ Waits(op, r)' = 0
    BY <1>4, <2>0, <2>2 DEF Waits
  <2>6. ASSUME NEW q \in Role, q # r
        PROVE  Waits(op, q)' = Waits(op, q)
    <3>1. Primary(q) \in {S, W} \ {Primary(r)}
      BY <2>6, NamesFacts, AuthentikAssumption
    <3>2. QED
      BY <2>2, <3>1 DEF Waits
  <2>7. Role = {"server", "worker"}
    BY AuthentikAssumption
  <2>8. QED
    BY <1>p, <1>w, <2>4, <2>5, <2>6, <2>7
<1>5. QED
  BY <1>1, <1>2, <1>3, <1>4

\* Where no container changes, or only the power of one that stops, the command in flight
\* remains one of a rollback.
LEMMA StopsUndo ==
  ASSUME NEW op \in Op, AtMostStop, call' = call \/ call'.name # "command", Backward(op)
  PROVE  Backward(op)'
<1>1. Both(op)' <=> Both(op)
  BY NamesFacts, StopsKeep DEF Both
<1>2. \A r \in Role : Running(Primary(r))' => Running(Primary(r))
  BY NamesFacts, StopsKeep
<1>3. \A c : Undoes(op, c) => Undoes(op, c)'
  BY <1>1, <1>2 DEF Undoes
<1>4. CASE call' = call
  <2>1. PICK c : c = call.value
    OBVIOUS
  <2>2. c = call'.value
    BY <1>4, <2>1
  <2>3. QED
    BY <1>3, <1>4, <2>1, <2>2 DEF Backward, At
<1>5. CASE call'.name # "command"
  BY <1>5 DEF Backward, At
<1>6. QED
  BY <1>4, <1>5

\* Where the pair and a command in flight are.
LEMMA PlaceFacts ==
  ASSUME CommandsOK, StageTypeOK, StageInv, DecideInv, Alone, ~Late, FilesLast,
         NEW op \in env.ops, Loadable(op), NEW t, t = tx.final[op]
  PROVE  /\ op \in Op /\ env.ops = {op} /\ pending = {} /\ ContainersOK
         /\ t \in Transaction /\ t.previous # op /\ Previous(op) = t.previous
         /\ Fits(op, t)
         /\ At("command") => Meets(op, t, call.value)
                             /\ \E r \in Role : call.value \in RoleCommand(r, op)
<1>1. op \in Op /\ env.ops = {op} /\ pending = {} /\ ContainersOK
  <2>1. IsFiniteSet(env.ops) /\ Cardinality(env.ops) = 1
    BY DEF Alone, CommandsOK
  <2>2. PICK z : env.ops = {z}
    BY <2>1, FS_Singleton
  <2>3. QED
    BY <2>2 DEF CommandsOK
<1>2. t \in Transaction /\ OnDisk(op, t)
  BY DEF Loadable, OnDisk, StageTypeOK
<1>3. t.previous # op
  <2>1. Covers(tx)
    BY DEF StageInv, StageTypeOK
  <2>2. QED
    BY <1>1, <1>2, <2>1 DEF Covers
<1>4. At("command") => \E r \in Role : call.value \in RoleCommand(r, op)
  <2>1. At("command") => call.op = op
    BY <1>1 DEF CommandsOK
  <2>2. QED
    BY <2>1 DEF CommandsOK
<1>5. QED
  BY <1>1, <1>2, <1>3, <1>4 DEF DecideInv, Previous

LEMMA NearStep ==
  ASSUME CommandsOK, StageTypeOK, StageInv, DecideInv, [Next]_vars, Alone, ~Late, FilesLast,
         NEW op \in env.ops, op \in undoing, Loadable(op), tx'.final[op] = tx.final[op], Backward(op)
  PROVE  /\ Backward(op)'
         /\ \/ Distance(op)' <= Distance(op)
            \/ PowerLoss \/ \E n \in Names : Exit(n)
         /\ RunCommand /\ ~(call.value.kind = "stop" /\ ~Running(call.value.name)) =>
              Distance(op)' < Distance(op)
<1>0. PICK t : t = tx.final[op]
  OBVIOUS
<1>p. /\ op \in Op /\ env.ops = {op} /\ pending = {} /\ ContainersOK
      /\ t \in Transaction /\ t.previous # op /\ Previous(op) = t.previous
      /\ At("command") => Meets(op, t, call.value)
                          /\ \E r \in Role : call.value \in RoleCommand(r, op)
  BY <1>0, PlaceFacts
<1>c. ContainersOK'
  BY StepIsAdapterStep, CommandsStep DEF CommandsOK
<1>d. Distance(op) \in 0 .. 8
  BY <1>p, DistanceIs
<1>s. ASSUME containers' = containers
      PROVE  AtMostStop /\ Distance(op)' <= Distance(op)
  <2>1. AtMostStop
    BY <1>s DEF AtMostStop, Absent, Running
  <2>2. Distance(op)' = Distance(op)
    BY <1>s DEF Distance, Both, Holds, Absent, Running, Runs, Waits, Previous
  <2>3. QED
    BY <1>d, <2>1, <2>2
\* A command is executed, and its call ends.
<1>x. ASSUME At("command"), Execute(call.value), call' = Idle
      PROVE  /\ Backward(op)' /\ Distance(op)' <= Distance(op)
             /\ ~(call.value.kind = "stop" /\ ~Running(call.value.name)) => Distance(op)' < Distance(op)
  <2>1. PICK c : c = call.value
    OBVIOUS
  <2>2. Undoes(op, c) /\ Meets(op, t, c)
    BY <1>p, <1>x, <2>1 DEF Backward
  <2>3. /\ Distance(op)' <= Distance(op)
        /\ ~(c.kind = "stop" /\ ~Running(c.name)) => Distance(op)' < Distance(op)
    BY <1>0, <1>c, <1>p, <1>x, <2>1, <2>2, ExecuteNears
  <2>4. Backward(op)'
    BY <1>x DEF Backward, At, Idle
  <2>5. QED
    BY <2>1, <2>3, <2>4
<1>r. RunCommand => At("command") /\ Execute(call.value) /\ call' = Idle
  BY DEF RunCommand, Return
<1>1. CASE RunCommand
  BY <1>1, <1>r, <1>x
<1>2. CASE ~RunCommand
  <2>1. CASE Quiet
    <3>1. containers' = containers /\ (call' = call \/ call'.name # "command")
      BY <2>1, QuietEffect
    <3>2. QED
      BY <1>2, <1>p, <1>s, <3>1, StopsUndo
  <2>2. ASSUME NEW o \in env.ops, NEW r \in Role, Mutation(o, r)
        PROVE  Backward(op)' /\ Distance(op)' <= Distance(op)
    <3>1. Mutation(op, r)
      BY <1>p, <2>2
    <3>2. StopCandidate(op, r) \/ RemoveCandidate(op, r) \/ RestorePrevious(op, r) \/ RestartPrevious(op, r)
      BY <3>1 DEF Mutation
    <3>3. PICK d : Mutate(op, d)
      BY <1>p, <3>1, MutationEffect
    <3>4. containers' = containers
      BY <3>3 DEF Mutate, Goto, engine
    <3>5. \A c : Mutate(op, c) => call'.value = c
      BY DEF Mutate, Goto
    <3>6. PreviousRests(op, r) => ~Both(op) /\ ~Running(Primary(r))
      BY <1>p DEF PreviousRests, Both, Holds
    <3>7. PICK c : c = call'.value
      OBVIOUS
    <3>8. Undoes(op, c)
      BY <3>2, <3>5, <3>6, <3>7
         DEF StopCandidate, CandidateRuns, RemoveCandidate, RestorePrevious, RestartPrevious, Undoes
    <3>9. Undoes(op, c)'
      BY <3>4, <3>8 DEF Undoes, Both, Holds, Absent, Running
    <3>10. Backward(op)'
      BY <3>7, <3>9 DEF Backward
    <3>11. QED
      BY <1>s, <3>4, <3>10
  <2>3. ASSUME NEW c \in pending, LateCommand(c)
        PROVE  FALSE
    BY <1>p, <2>3
  <2>4. CASE CommandTimeout
    BY <2>4 DEF CommandTimeout, Fault, Late
  <2>5. CASE Kill
    <3>1. call' = Idle
      BY <2>5 DEF Kill, Return
    <3>2. CASE containers' = containers
      BY <1>2, <1>p, <1>s, <3>1, <3>2, StopsUndo DEF Idle
    <3>3. CASE At("command") /\ Execute(call.value)
      BY <1>2, <1>x, <3>1, <3>3
    <3>4. QED
      BY <2>5, <3>2, <3>3 DEF Kill, engine
  <2>6. CASE PowerLoss
    <3>1. Backward(op)'
      BY <2>6 DEF PowerLoss, Return, Backward, At, Idle
    <3>2. QED
      BY <1>2, <2>6, <3>1
  <2>7. ASSUME NEW n \in Names, Exit(n)
        PROVE  Backward(op)'
    <3>1. AtMostStop /\ call' = call
      BY <1>p, <2>7, ExitStops, ExitEffect
    <3>2. QED
      BY <1>p, <3>1, StopsUndo
  <2>8. CASE UNCHANGED vars
    <3>1. containers' = containers /\ call' = call
      BY <2>8 DEF vars
    <3>2. QED
      BY <1>2, <1>p, <1>s, <3>1, StopsUndo
  <2>9. QED
    BY <1>2, <2>1, <2>2, <2>3, <2>4, <2>5, <2>6, <2>7, <2>8, StepCases
<1>3. QED
  BY <1>1, <1>2

\* What a rollback of the pair does until the previous pair is back: the safety part of
\* PairRollbackEnds, under its conditions (the rollback actions of actions.go).
THEOREM RollbackNearsTheorem == Spec => RollbackNears /\ []ZeroIsPrevious
<1> DEFINE Inv == CommandsOK /\ StageTypeOK /\ StageInv /\ StrayInv /\ PreparedInv /\ DecideInv /\ Whole
<1>1. Inv /\ [Next]_vars =>
        [Alone /\ ~Late /\ FilesLast =>
           \A op \in env.ops :
             op \in undoing /\ Loadable(op) /\ tx'.final[op] = tx.final[op] /\ Backward(op) =>
               /\ Backward(op)'
               /\ \/ Distance(op)' <= Distance(op)
                  \/ PowerLoss \/ \E n \in Names : Exit(n)
               /\ RunCommand /\ ~(call.value.kind = "stop" /\ ~Running(call.value.name)) =>
                    Distance(op)' < Distance(op)]_vars
  BY NearStep
<1>2. Inv => ZeroIsPrevious
  <2> SUFFICES ASSUME CommandsOK, StageTypeOK, StageInv, DecideInv, Whole, Alone, ~Late, FilesLast,
                      NEW op \in env.ops, Loadable(op)
               PROVE  Distance(op) = 0 <=> Verify(op, "previous")
    BY DEF ZeroIsPrevious
  <2>0. PICK t : t = tx.final[op]
    OBVIOUS
  <2> DEFINE g == t.previous
  <2>1. /\ op \in Op /\ ContainersOK /\ t \in Transaction /\ g # op /\ Previous(op) = g /\ Fits(op, t)
    BY <2>0, PlaceFacts
  <2>2. Bound(op) /\ S \in Names /\ W \in Names
    BY NamesFacts DEF Bound, Whole
  <2>3. \A n \in {S, W} : /\ ~Holds(n, None) /\ (\A h : Holds(n, h) => ~Absent(n))
                          /\ \A h, k : Holds(n, h) /\ Holds(n, k) => h = k
    BY <2>1, <2>2, HoldsSome DEF Holds
  <2>4. \A r \in Role : (r = "server" /\ Primary(r) = S) \/ (r = "worker" /\ Primary(r) = W)
    BY AuthentikAssumption DEF S, W
  <2>5. "server" \in Role /\ "worker" \in Role /\ Primary("server") = S /\ Primary("worker") = W
    BY NamesFacts
  <2> HIDE DEF g
  <2>6. /\ Both(op) => Distance(op) = 6 + Runs(S) + Runs(W)
        /\ Holds(S, op) /\ Absent(W) => Distance(op) = 5
        /\ Absent(S) /\ Absent(W) => Distance(op) = IF g = None THEN 0 ELSE 4
        /\ Holds(S, g) /\ Absent(W) => Distance(op) = 3
        /\ Both(g) => Distance(op) = Waits(op, "server") + Waits(op, "worker")
    BY <2>1, DistanceIs
  \* A role is verified where its container is back under its name.
  <2>7. Verify(op, "previous") => \/ Both(g)
                                  \/ g = None /\ Absent(S) /\ Absent(W) /\ NoRollbacks(op)
    BY <2>1, <2>5 DEF Verify, VerifyRole, Both
  <2>8. CASE Rest(op, t) /\ Both(op)
    <3>1. Distance(op) # 0
      BY <2>6, <2>8 DEF Runs
    <3>2. ~Both(g) /\ ~Absent(S)
      BY <2>1, <2>3, <2>8 DEF Both
    <3>3. QED
      BY <2>7, <3>1, <3>2
  <2>9. CASE Rest(op, t) /\ Stopped(S, op) /\ Absent(W)
    <3>1. Holds(S, op) /\ ~Both(g) /\ ~Absent(S)
      BY <2>3, <2>9 DEF Both, Stopped
    <3>2. QED
      BY <2>6, <2>7, <2>9, <3>1
  <2>10. CASE Rest(op, t) /\ Absent(S) /\ Absent(W)
    <3>1. ~Both(g)
      BY <2>3, <2>10 DEF Both
    <3>2. g = None => NoRollbacks(op)
      BY <2>10 DEF Rest, NoRollbacks, g
    <3>3. Verify(op, "previous") <=> g = None
      BY <2>1, <2>2, <2>7, <2>10, <3>1, <3>2 DEF Verify
    <3>4. QED
      BY <2>6, <2>10, <3>3
  <2>11. CASE Half(op, t)
    <3>1. Holds(S, g) /\ Absent(W) /\ g # None
      BY <2>11 DEF Half, Stopped, g
    <3>2. ~Both(g)
      BY <2>3, <3>1 DEF Both
    <3>3. QED
      BY <2>6, <2>7, <3>1, <3>2
  <2>12. CASE Home(op, t)
    <3>1. /\ g # None /\ NoRollbacks(op) /\ Both(g)
          /\ \A r \in Role : Running(Primary(r)) => t.running[r]
      BY <2>12 DEF Home, g
    <3>2. Distance(op) = 0 <=> \A r \in Role : t.running[r] => Running(Primary(r))
      <4>1. Distance(op) = Waits(op, "server") + Waits(op, "worker")
        BY <2>6, <3>1
      <4>2. \A r \in Role : /\ Waits(op, r) \in 0 .. 1
                            /\ Waits(op, r) = 0 <=> (t.running[r] => Running(Primary(r)))
        BY <2>0 DEF Waits
      <4>3. Distance(op) = 0 <=> Waits(op, "server") = 0 /\ Waits(op, "worker") = 0
        BY <2>5, <4>1, <4>2
      <4>4. QED
        BY <2>4, <2>5, <4>2, <4>3
    <3>3. ASSUME NEW r \in Role
          PROVE  VerifyRole(op, r, "previous") <=> (t.running[r] => Running(Primary(r)))
      <4>1. Holds(Primary(r), g) /\ Absent(Rollback(r, op))
        BY <2>4, <3>1 DEF Both, NoRollbacks
      <4>2. t.running[r] \in BOOLEAN /\ Running(Primary(r)) \in BOOLEAN
        BY <2>1 DEF Transaction, Running, Absent
      <4>3. (Running(Primary(r)) = t.running[r]) <=> (Running(Primary(r)) <=> t.running[r])
        BY <4>2, Zenon
      <4>4. VerifyRole(op, r, "previous") <=> Running(Primary(r)) = t.running[r]
        BY <2>0, <2>1, <2>2, <4>1 DEF VerifyRole
      <4>5. QED
        BY <3>1, <4>3, <4>4
    <3>4. Verify(op, "previous") <=> \A r \in Role : VerifyRole(op, r, "previous")
      BY <2>1, <3>1 DEF Verify
    <3>5. QED
      BY <3>2, <3>3, <3>4
  <2>13. QED
    BY <2>1, <2>8, <2>9, <2>10, <2>11, <2>12 DEF Fits, Candidates
<1>3. QED
  BY <1>1, <1>2, DecideInvariant, PTL DEF Spec, RollbackNears
=============================================================================
