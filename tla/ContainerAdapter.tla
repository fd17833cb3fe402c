-------------------------- MODULE ContainerAdapter --------------------------
(***************************************************************************)
(* What the PostgreSQL and the Authentik adapter have in common: one       *)
(* container per role under a primary name, a rollback name per operation, *)
(* a transaction file that says what was there before, and calls that look *)
(* at all names and then run one docker command by name.                   *)
(*                                                                         *)
(* A managed specification carries the ID of the operation that staged it, *)
(* so the generation of a container is its operation, or Initial for what  *)
(* an earlier operation left.  The docker engine is outside the            *)
(* repository: its own records survive a loss of power, which stops every  *)
(* container (there is no restart policy).                                 *)
(*                                                                         *)
(* A call that refuses, or finds its work done, changes nothing and is     *)
(* left out.  The environment (which faults occur, which operations are    *)
(* asked for) is chosen once, so that a property can say under which       *)
(* faults it holds.                                                        *)
(***************************************************************************)
EXTENDS Naturals, FiniteSets

CONSTANTS
  Op,            \* operation IDs
  Role,          \* one container each
  Initial,       \* the generation an earlier operation left
  Environments,  \* which faults may happen, how often, to which operations
  None,          \* no file, no container, no generation
  Partial        \* a file with less than it should hold

FaultKinds == {"io", "kill", "power", "exit", "late"}

ASSUME ContainerAssumption ==
  /\ Initial \notin Op /\ None \notin Op \cup {Initial} /\ Role # {}
  /\ Environments \subseteq
       [faults : SUBSET FaultKinds, budget : Nat, ops : SUBSET Op, rooted : BOOLEAN]
  /\ \A e \in Environments : IsFiniteSet(e.ops)

VARIABLES
  env,         \* the environment of this behaviour
  faultsLeft,  \* faults that may still happen
  handle,      \* "open" while a process holds the adapter and its lock
  call,        \* the call in progress, or Idle
  prepared,    \* what Preflight returned for an operation and Stage may use
  tx,          \* transactions directory: <op>.json and .<op>.stage files
  txDisk,      \* the states of it a loss of power may leave
  dirty,       \* operations whose written file is not synced
  rooted,      \* a loss of power leaves the transactions directory in the state root
  containers,  \* the container under each name
  data,        \* the persistent directory, as readDataIdentity tells it apart
  pending,     \* commands docker may still execute for a client that left
  undoing      \* operations the controller has decided to roll back

vars == <<env, faultsLeft, handle, call, prepared, tx, txDisk, dirty, rooted, containers,
          data, pending, undoing>>
stages == <<tx, txDisk, dirty>>
engine == <<containers, data, pending>>
control == <<env, faultsLeft, undoing, rooted>>

Generation == Op \cup {Initial}
Primary(r) == <<r, None>>
Rollback(r, op) == <<r, op>>
Names == Role \X (Op \cup {None})

\* transactionMetadata: what Preflight saw.  The candidate is the operation's.
Transaction ==
  [previous : Generation \cup {None}, running : [Role -> BOOLEAN],
   data : {"empty", "initialized"}]

\* What docker holds under a name.
Container == [generation : Generation, running : BOOLEAN]

\* Nothing, and a torn file, are told apart from what they stand in for.
ASSUME NothingAssumption ==
  None \notin Container \cup Transaction /\ Partial \notin Transaction \cup {None}

Idle == [name |-> "idle", op |-> None, value |-> None]
Ready == handle = "open" /\ call = Idle
Goto(name, op, value) == call' = [name |-> name, op |-> op, value |-> value]
At(name) == call.name = name
Return == call' = Idle

\* What the disk may hold matters only where power may be lost.
ChangeStages(new) ==
  /\ tx' = new
  /\ txDisk' = IF "power" \in env.faults THEN txDisk \cup {new} ELSE {new}

NoFiles == [final |-> [op \in Op |-> None], stage |-> [op \in Op |-> None]]

\* Before the first operation: no process, no transaction, and any coherent
\* set of containers an earlier operation may have left.  ensurePrivateDirectory
\* does not sync the state root, so the transactions directory outlives a loss
\* of power only where the file system has written its entry by itself.
InitWith(initialContainers, initialData) ==
  /\ env \in Environments /\ faultsLeft = env.budget
  /\ handle = "closed" /\ call = Idle
  /\ prepared = [op \in Op |-> None]
  /\ tx = NoFiles /\ txDisk = {tx} /\ dirty = {} /\ rooted = env.rooted
  /\ containers = [n \in Names |-> IF n[2] = None THEN initialContainers[n[1]] ELSE None]
  /\ data = initialData /\ pending = {} /\ undoing = {}

-----------------------------------------------------------------------------
(* The docker engine. *)

Absent(n) == containers[n] = None
Holds(n, g) == ~Absent(n) /\ containers[n].generation = g
Running(n) == ~Absent(n) /\ containers[n].running
\* Faulty variant: the power of a container is not looked at.
StoppedOrNot(n, g) == Holds(n, g)

Stopped(n, g) == Holds(n, g) /\ ~Running(n)

Command(kind, n, to, g) == [kind |-> kind, name |-> n, to |-> to, generation |-> g]
StopCommand(n) == Command("stop", n, None, None)
StartCommand(n) == Command("start", n, None, None)
\* (The generation rm is meant for is not part of the command docker sees.)
RemoveCommand(n, g) == Command("rm", n, None, g)
RenameCommand(n, to) == Command("rename", n, to, None)
CreateCommand(n, g) == Command("create", n, None, g)

\* What docker refuses: a missing container, a name in use, rm while running.
Accepts(c) ==
  CASE c.kind = "create" -> Absent(c.name)
    [] c.kind = "rename" -> ~Absent(c.name) /\ Absent(c.to)
    [] c.kind = "rm"     -> ~Absent(c.name) /\ ~Running(c.name)
    [] OTHER             -> ~Absent(c.name)

After(c) ==
  CASE c.kind = "create" ->
         [containers EXCEPT ![c.name] = [generation |-> c.generation, running |-> FALSE]]
    [] c.kind = "rename" -> [containers EXCEPT ![c.to] = containers[c.name], ![c.name] = None]
    [] c.kind = "rm"     -> [containers EXCEPT ![c.name] = None]
    [] OTHER             -> [containers EXCEPT ![c.name].running = (c.kind = "start")]

\* The entrypoint fills an empty directory; initdb, when stopped in the middle
\* of it, may have cleaned up or not.
DataAfter(c) ==
  CASE c.kind = "start" /\ data = "empty"  -> {"partial"}
    [] c.kind = "stop" /\ data = "partial" -> {"partial", "empty"}
    [] OTHER                               -> {data}

Execute(c) ==
  IF Accepts(c)
  THEN containers' = After(c) /\ data' \in DataAfter(c)
  ELSE UNCHANGED <<containers, data>>

InitializeData ==
  /\ data = "partial" /\ \E n \in Names : Running(n)
  /\ data' = "initialized"
  /\ UNCHANGED <<control, handle, call, prepared, stages, containers, pending>>

\* The command of a client that left takes effect.
LateCommand(c) ==
  /\ c \in pending
  /\ Execute(c) /\ pending' = pending \ {c}
  /\ UNCHANGED <<control, handle, call, prepared, stages>>

-----------------------------------------------------------------------------
(* Open, Close, Preflight. *)

Open ==
  /\ handle = "closed"
  /\ handle' = "open"
  /\ UNCHANGED <<control, call, prepared, stages, engine>>

\* A prepared value belongs to the adapter that made it.
Close ==
  /\ Ready
  /\ handle' = "closed" /\ prepared' = [op \in Op |-> None]
  /\ UNCHANGED <<control, call, stages, engine>>

\* The containers found are what a rollback will restore.
Prepare(op, previous) ==
  /\ Ready /\ data # "partial"
  /\ \A r \in Role : Absent(Rollback(r, op))
  /\ prepared' = [prepared EXCEPT ![op] =
       [previous |-> previous, running |-> [r \in Role |-> Running(Primary(r))], data |-> data]]
  /\ UNCHANGED <<control, handle, call, stages, engine>>

-----------------------------------------------------------------------------
(* The transaction file. *)

\* A transaction loads when its file is whole and no stage file is beside it.
Loadable(op) == tx.final[op] \in Transaction /\ tx.stage[op] = None

\* The live state equals the one the transaction was prepared in.
PreflightState(op, t) ==
  /\ data = t.data
  /\ \A r \in Role :
       /\ Absent(Rollback(r, op))
       /\ IF t.previous = None THEN Absent(Primary(r))
          ELSE Holds(Primary(r), t.previous) /\ Running(Primary(r)) = t.running[r]

\* What is staged already is only synced.
StageTransaction(op) ==
  /\ Ready /\ prepared[op] # None
  /\ \/ /\ Loadable(op) /\ tx.final[op] = prepared[op]
        /\ Goto("syncStages", op, None)
        /\ UNCHANGED stages
     \/ /\ tx.final[op] = None /\ tx.stage[op] = None
        /\ PreflightState(op, prepared[op])
        /\ ChangeStages([tx EXCEPT !.stage[op] = Partial])
        /\ Goto("writeStage", op, prepared[op])
        /\ UNCHANGED dirty
  /\ UNCHANGED <<control, handle, prepared, engine>>

WriteStage ==
  /\ At("writeStage")
  /\ ChangeStages([tx EXCEPT !.stage[call.op] = call.value])
  /\ dirty' = IF "power" \in env.faults THEN dirty \cup {call.op} ELSE dirty
  /\ Goto("syncFile", call.op, None)
  /\ UNCHANGED <<control, handle, prepared, engine>>

\* Faulty variant: the file is left to the page cache.
SyncStageFileSkipped ==
  /\ At("syncFile")
  /\ Goto("renameStage", call.op, None)
  /\ UNCHANGED <<control, handle, prepared, stages, engine>>

SyncStageFile ==
  /\ At("syncFile")
  /\ dirty' = dirty \ {call.op}
  /\ Goto("renameStage", call.op, None)
  /\ UNCHANGED <<control, handle, prepared, tx, txDisk, engine>>

Promoted(op) == [tx EXCEPT !.final[op] = tx.stage[op], !.stage[op] = None]

RenameStage ==
  /\ At("renameStage")
  /\ ChangeStages(Promoted(call.op))
  /\ Goto("syncStages", call.op, None)
  /\ UNCHANGED <<control, handle, prepared, dirty, engine>>

\* The directory is synced, and the call returns.
SyncStages ==
  /\ At("syncStages")
  /\ txDisk' = {tx}
  /\ Return
  /\ UNCHANGED <<control, handle, prepared, tx, dirty, engine>>

\* A stage file that is complete to look at is promoted, and not synced first.
\* (A transaction that is there is reported as it is.)
ReconcileTransaction(op) ==
  /\ Ready /\ tx.final[op] = None /\ tx.stage[op] \in Transaction
  /\ ChangeStages(Promoted(op))
  /\ Goto("syncStages", op, None)
  /\ UNCHANGED <<control, handle, prepared, dirty, engine>>

\* Faulty variant: the containers are not looked at again.
RemoveTransactionAnyway(op) ==
  /\ Ready /\ Loadable(op)
  /\ ChangeStages([tx EXCEPT !.final[op] = None])
  /\ Goto("syncStages", op, None)
  /\ UNCHANGED <<control, handle, prepared, dirty, engine>>

\* The transaction is removed only from the state it was prepared in, what an
\* interrupted Stage left at any time.
RemoveTransaction(op) ==
  /\ Ready
  /\ \/ /\ Loadable(op) /\ PreflightState(op, tx.final[op])
        /\ ChangeStages([tx EXCEPT !.final[op] = None])
     \/ /\ tx.final[op] = None /\ tx.stage[op] # None
        /\ ChangeStages([tx EXCEPT !.stage[op] = None])
  /\ Goto("syncStages", op, None)
  /\ UNCHANGED <<control, handle, prepared, dirty, engine>>

-----------------------------------------------------------------------------
(* Mutations: look at every name, then run one command. *)

\* Faulty variant: the directory must still be as Preflight saw it.
BoundExactly(op) == data = tx.final[op].data

Previous(op) == tx.final[op].previous

\* validateBindings: the directory is readable and has lost nothing.
Bound(op) ==
  /\ data # "partial"
  /\ tx.final[op].data = "initialized" => data = "initialized"

Mutate(op, c) ==
  /\ Ready /\ Loadable(op) /\ Bound(op)
  /\ Goto("command", op, c)
  /\ UNCHANGED <<control, handle, prepared, stages, engine>>

RunCommand ==
  /\ At("command")
  /\ Execute(call.value)
  /\ Return
  /\ UNCHANGED <<control, handle, prepared, stages, pending>>

-----------------------------------------------------------------------------
(* The controller and the faults. *)

\* From here on only rollback calls are made for the operation, as the
\* journal allows after a failure.  (The rollback calls themselves need no
\* decision; it is recorded, where one operation runs, to say that it ends.)
Undo(op) ==
  /\ env.ops = {op} /\ op \notin undoing
  /\ undoing' = undoing \cup {op}
  /\ UNCHANGED <<env, faultsLeft, rooted, handle, call, prepared, stages, engine>>

\* A docker command may take effect after the client that sent it has gone.
Late == "late" \in env.faults

Fault(kind) ==
  /\ kind \in env.faults /\ faultsLeft > 0
  /\ faultsLeft' = faultsLeft - 1
  /\ UNCHANGED <<env, undoing>>

\* A write, sync, rename or command of the call fails; what was done stays.
CallFails ==
  /\ Fault("io") /\ call # Idle
  /\ Return
  /\ UNCHANGED <<rooted, handle, prepared, stages, engine>>

\* The deadline passes and the docker client is killed with its request sent.
CommandTimeout ==
  /\ Fault("late") /\ At("command")
  /\ pending' = pending \cup {call.value}
  /\ Return
  /\ UNCHANGED <<rooted, handle, prepared, stages, containers, data>>

\* The process dies, before or after docker executed its command; or docker
\* executes it later, for nothing ends the client with the adapter.
Kill ==
  /\ Fault("kill") /\ handle = "open"
  /\ handle' = "closed" /\ Return
  /\ prepared' = [op \in Op |-> None]
  /\ \/ UNCHANGED engine
     \/ At("command") /\ Execute(call.value) /\ UNCHANGED pending
     \/ /\ At("command") /\ Late
        /\ pending' = pending \cup {call.value}
        /\ UNCHANGED <<containers, data>>
  /\ UNCHANGED <<rooted, stages>>

\* A container ends by itself.
Exit(n) ==
  /\ Fault("exit") /\ Running(n)
  /\ containers' = [containers EXCEPT ![n].running = FALSE]
  /\ UNCHANGED <<rooted, handle, call, prepared, stages, data, pending>>

AfterPowerLoss(s, lost) ==
  LET Torn(files) == [op \in Op |-> IF op \in lost /\ files[op] # None THEN Partial ELSE files[op]]
  IN  [final |-> Torn(s.final), stage |-> Torn(s.stage)]

\* The transactions directory goes with its files where nothing had written it.
PowerLoss ==
  /\ Fault("power")
  /\ handle' = "closed" /\ Return
  /\ prepared' = [op \in Op |-> None]
  /\ \/ /\ \E s \in txDisk, lost \in SUBSET dirty : tx' = AfterPowerLoss(s, lost)
        /\ rooted' = TRUE
     \/ ~rooted /\ tx' = NoFiles /\ rooted' = FALSE
  /\ txDisk' = {tx'} /\ dirty' = {}
  /\ containers' = [n \in Names |-> IF Absent(n) THEN None
                                    ELSE [containers[n] EXCEPT !.running = FALSE]]
  /\ pending' = {}
  /\ UNCHANGED data

StageStep == WriteStage \/ SyncStageFile \/ RenameStage \/ SyncStages

EnvironmentStep ==
  \/ InitializeData
  \/ \E c \in pending : LateCommand(c)
  \/ CallFails \/ CommandTimeout \/ Kill \/ PowerLoss
  \/ \E n \in Names : Exit(n)

-----------------------------------------------------------------------------
(* What the adapters promise. *)

\* One operation at a time, as the journal has it.
Alone == Cardinality(env.ops) = 1
\* The transaction files are as the adapter thinks: kills and errors, or losses
\* of power, but not both, for ReconcileStage trusts what it sees; and where
\* power is lost, their directory was written before.
OnlyPowerIsLost == env.faults \subseteq {"power", "exit"} /\ env.rooted
FilesLast == "power" \notin env.faults \/ OnlyPowerIsLost

\* The step ends the last container of g in role r, by a command that is not
\* meant for it.
RemovesAnother(r, g) ==
  /\ \E n \in Names : n[1] = r /\ Holds(n, g)
  /\ \A n \in Names : n[1] = r /\ containers'[n] # None => containers'[n].generation # g
  /\ ~\E c \in (IF At("command") THEN {call.value} ELSE {}) \cup (pending \ pending') :
         c.kind = "rm" /\ c.name[1] = r /\ c.generation = g

\* Where no command outlives its client, no container goes away except the
\* candidate of the operation whose RemoveCandidate it was.  (One that does
\* outlive it removes by name whatever has come to stand there.)
RemovesOnlyItsCandidate ==
  [][\A r \in Role, g \in Generation : ~Late => ~RemovesAnother(r, g)]_vars

\* Whatever an operation changed, a transaction that loads says what was there
\* before: RollbackStage and a loss of power never take it away, if kills and
\* losses of power do not meet, no command outlives its client and the
\* transactions directory is one that a loss of power leaves.
Covered ==
  FilesLast /\ ~Late =>
    \A op \in Op, r \in Role :
      /\ ~Absent(Rollback(r, op)) => Loadable(op)
      /\ Alone /\ Holds(Primary(r), op) => Loadable(op)
=============================================================================
