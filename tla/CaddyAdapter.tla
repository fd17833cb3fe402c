---------------------------- MODULE CaddyAdapter ----------------------------
(***************************************************************************)
(* internal/adapters/caddy: one Caddyfile, the running Caddy behind its    *)
(* Admin API, and the private transactions directory that holds what a     *)
(* rollback needs.  A call of the adapter is a sequence of filesystem or   *)
(* process steps under one mutex; it can end in an error, in the death of  *)
(* the process, or in a loss of power between any two of them.             *)
(*                                                                         *)
(* A directory is a record of its entries.  Next to what every process     *)
(* sees (cfg, tx) stands the set of states the disk may hold (cfgDisk,     *)
(* txDisk): a change adds a state, an fsync of the directory leaves one.   *)
(* A call that refuses changes nothing and is left out.                    *)
(*                                                                         *)
(* Digests stand for the bytes they are taken of, and configurations are   *)
(* those that pass validateConfiguration, `caddy adapt' and `validate'.    *)
(* Two configurations may adapt to the same running JSON: they may differ  *)
(* in a comment.                                                           *)
(***************************************************************************)
EXTENDS Naturals

CONSTANTS
  Op,          \* operation IDs
  Config,      \* complete, valid Caddyfiles
  Initial,     \* the Caddyfile before the first operation
  Adapt,       \* running configuration of a Caddyfile
  Environments, \* which faults occur, and what each operation may ask for
  None,        \* no file, no directory, no value
  Partial      \* a file or a directory with less than it should hold

FaultKinds == {"io", "kill", "power", "late"}

ASSUME CaddyAssumption ==
  /\ Initial \in Config
  /\ DOMAIN Adapt = Config
  /\ Environments \subseteq [faults : SUBSET FaultKinds, candidates : [Op -> SUBSET Config]]
  /\ None # Partial /\ {None, Partial} \cap (Config \cup [previous : Config, candidate : Config]) = {}

VARIABLES
  env,       \* the environment of this behaviour
  handle,    \* "open" while a process holds the adapter and its lock
  call,      \* the call in progress, or Idle
  prepared,  \* what Preflight returned for an operation and Stage may use
  cfg,       \* the Caddyfile's directory: target and temporary files
  cfgDisk,   \* the states of it a loss of power may leave
  tx,        \* transactions: committed and temporary directories
  txDisk,    \* the states of it a loss of power may leave
  dirty,     \* operations whose staged files are complete but not synced
  runtime,   \* the configuration Caddy runs
  pending,   \* configurations Caddy may still load for a caller that left
  promised,  \* history: operations whose staging was reported a success
  undoing    \* operations the controller has decided to roll back

vars == <<env, handle, call, prepared, cfg, cfgDisk, tx, txDisk, dirty,
          runtime, pending, promised, undoing>>
control == <<env, undoing>>
files == <<cfg, cfgDisk>>
stages == <<tx, txDisk, dirty>>
caddy == <<runtime, pending>>

Transaction == [previous : Config, candidate : Config]
Idle == [name |-> "idle", op |-> None, value |-> None]
RuntimeOf(c) == IF c \in Config THEN Adapt[c] ELSE None

Init ==
  /\ env \in Environments
  /\ handle = "closed" /\ call = Idle
  /\ prepared = [op \in Op |-> None]
  /\ cfg = [target |-> Initial, temporary |-> [op \in Op |-> None]]
  /\ cfgDisk = {cfg}
  /\ tx = [final |-> [op \in Op |-> None], temporary |-> [op \in Op |-> None]]
  /\ txDisk = {tx} /\ dirty = {}
  /\ runtime = Adapt[Initial] /\ pending = {}
  /\ promised = {} /\ undoing = {}

\* The process holds adapter.lock, and no call holds the mutex.
Ready == handle = "open" /\ call = Idle
Goto(name, op, value) == call' = [name |-> name, op |-> op, value |-> value]
At(name) == call.name = name
Return == call' = Idle

\* A change of a directory is seen at once; the disk may have it or not.
\* (Where power is never lost, what the disk may hold has no effect.)
Unsynced(old, new) == IF "power" \in env.faults THEN old \cup {new} ELSE {new}
ChangeConfig(new) == cfg' = new /\ cfgDisk' = Unsynced(cfgDisk, new)
ChangeStages(new) == tx' = new /\ txDisk' = Unsynced(txDisk, new)

-----------------------------------------------------------------------------
(* Open, Close and Preflight. *)

Open ==
  /\ handle = "closed" /\ cfg.target \in Config
  /\ handle' = "open"
  /\ UNCHANGED <<control, call, prepared, files, stages, caddy, promised>>

\* A prepared value belongs to the adapter that made it.
Close ==
  /\ Ready
  /\ handle' = "closed" /\ prepared' = [op \in Op |-> None]
  /\ UNCHANGED <<control, call, files, stages, caddy, promised>>

\* The running configuration must be the one the current file stands for.
Preflight(op, candidate) ==
  /\ Ready /\ cfg.target \in Config
  /\ runtime = Adapt[cfg.target]
  /\ prepared' = [prepared EXCEPT ![op] = [previous |-> cfg.target, candidate |-> candidate]]
  /\ UNCHANGED <<control, handle, call, files, stages, caddy, promised>>

-----------------------------------------------------------------------------
(* Stage, ReconcileStage and RollbackStage. *)

Loadable(op) == tx.final[op] \in Transaction

\* Stage of what is staged already only syncs.  Otherwise the file must still
\* be the prepared one and no residue may be there; the inode, which may be
\* reused, decides nothing the content does not.
Stage(op) ==
  /\ Ready /\ prepared[op] # None
  /\ \/ /\ tx.final[op] = prepared[op]
        /\ Goto("syncStages", op, None)
        /\ UNCHANGED stages
     \/ /\ tx.final[op] = None /\ tx.temporary[op] = None
        /\ cfg.target = prepared[op].previous
        /\ ChangeStages([tx EXCEPT !.temporary[op] = Partial])
        /\ Goto("fillStage", op, prepared[op])
        /\ UNCHANGED dirty
  /\ UNCHANGED <<control, handle, prepared, files, caddy, promised>>

\* The last of the three files is written: the directory is complete to look
\* at, and may still be incomplete on disk.
FillStage ==
  /\ At("fillStage")
  /\ ChangeStages([tx EXCEPT !.temporary[call.op] = call.value])
  /\ dirty' = dirty \cup {call.op}
  /\ Goto("syncFiles", call.op, None)
  /\ UNCHANGED <<control, handle, prepared, files, caddy, promised>>

\* Faulty variant: the files are left to the page cache.
SyncStageFilesSkipped ==
  /\ At("syncFiles")
  /\ Goto("renameStage", call.op, None)
  /\ UNCHANGED <<control, handle, prepared, files, stages, caddy, promised>>

\* The files and the directory that holds them are synced.
SyncStageFiles ==
  /\ At("syncFiles")
  /\ dirty' = dirty \ {call.op}
  /\ Goto("renameStage", call.op, None)
  /\ UNCHANGED <<control, handle, prepared, files, tx, txDisk, caddy, promised>>

PromoteStage(op) ==
  ChangeStages([tx EXCEPT !.final[op] = tx.temporary[op], !.temporary[op] = None])

RenameStage ==
  /\ At("renameStage")
  /\ PromoteStage(call.op)
  /\ Goto("syncStages", call.op, None)
  /\ UNCHANGED <<control, handle, prepared, files, dirty, caddy, promised>>

\* The transactions directory is synced; then the caller is told.
SyncStages ==
  /\ At("syncStages")
  /\ txDisk' = {tx}
  /\ promised' = IF Loadable(call.op) THEN promised \cup {call.op} ELSE promised
  /\ Return
  /\ UNCHANGED <<control, handle, prepared, files, tx, dirty, caddy>>

\* An interrupted Stage is promoted if its directory is complete to look at.
ReconcileStage(op) ==
  /\ Ready
  /\ \/ Loadable(op) /\ UNCHANGED <<tx, txDisk>>
     \/ tx.final[op] = None /\ tx.temporary[op] \in Transaction /\ PromoteStage(op)
  /\ Goto("syncStages", op, None)
  /\ UNCHANGED <<control, handle, prepared, files, dirty, caddy, promised>>

\* Faulty variant: the running configuration is not looked at.
BaselineIgnoringRuntime(op) ==
  cfg.target = tx.final[op].previous /\ cfg.temporary[op] = None

\* Both live domains equal the baseline and no residue of Install is left.
Baseline(op) ==
  /\ cfg.target = tx.final[op].previous
  /\ runtime = Adapt[tx.final[op].previous]
  /\ cfg.temporary[op] = None

\* RemoveAll takes the files out one by one, then the directory.
RollbackStage(op) ==
  /\ Ready
  /\ \/ /\ Loadable(op) /\ Baseline(op)
        /\ ChangeStages([tx EXCEPT !.final[op] = Partial])
     \/ /\ tx.final[op] = None /\ tx.temporary[op] # None
        /\ ChangeStages([tx EXCEPT !.temporary[op] = Partial])
  /\ promised' = promised \ {op}
  /\ Goto("removeStage", op, None)
  /\ UNCHANGED <<control, handle, prepared, files, dirty, caddy>>

RemoveStage ==
  /\ At("removeStage")
  /\ ChangeStages(IF tx.final[call.op] = Partial
                  THEN [tx EXCEPT !.final[call.op] = None]
                  ELSE [tx EXCEPT !.temporary[call.op] = None])
  /\ Goto("syncStages", call.op, None)
  /\ UNCHANGED <<control, handle, prepared, files, dirty, caddy, promised>>

-----------------------------------------------------------------------------
(* Install and Restore: the file domain. *)

Classify(observed, previous, candidate) ==
  CASE observed = candidate -> "candidate"
    [] observed # candidate /\ observed = previous -> "previous"
    [] OTHER -> "other"

FileState(op) == Classify(cfg.target, tx.final[op].previous, tx.final[op].candidate)
RuntimeState(op) ==
  Classify(runtime, Adapt[tx.final[op].previous], Adapt[tx.final[op].candidate])

\* Faulty variant: a third state of the file is overwritten.
InstallOverOther(op) ==
  /\ Ready /\ Loadable(op)
  /\ cfg.temporary[op] = None
  /\ FileState(op) # "candidate"
  /\ Goto("createTemporary", op, tx.final[op].candidate)
  /\ UNCHANGED <<control, handle, prepared, files, stages, caddy, promised>>

\* A file that is the candidate already is a success without a step.
Install(op) ==
  /\ Ready /\ Loadable(op)
  /\ cfg.temporary[op] = None
  /\ FileState(op) = "previous"
  /\ Goto("createTemporary", op, tx.final[op].candidate)
  /\ UNCHANGED <<control, handle, prepared, files, stages, caddy, promised>>

\* Faulty variant: residue of an interrupted replacement is refused, as
\* Install refuses it.
RestoreRefusingResidue(op) ==
  /\ Ready /\ Loadable(op)
  /\ cfg.temporary[op] = None /\ FileState(op) = "candidate"
  /\ Goto("createTemporary", op, tx.final[op].previous)
  /\ UNCHANGED <<control, handle, prepared, files, stages, caddy, promised>>

\* There is residue of an interrupted replacement, or the candidate.
CanRestore(op) ==
  Ready /\ Loadable(op) /\ (cfg.temporary[op] # None \/ FileState(op) = "candidate")

\* The residue is removed first.
Restore(op) ==
  /\ CanRestore(op)
  /\ \/ /\ cfg.temporary[op] # None
        /\ ChangeConfig([cfg EXCEPT !.temporary[op] = None])
        /\ Goto("syncRemoval", op, None)
     \/ /\ cfg.temporary[op] = None
        /\ Goto("createTemporary", op, tx.final[op].previous)
        /\ UNCHANGED files
  /\ UNCHANGED <<control, handle, prepared, stages, caddy, promised>>

SyncRemoval ==
  /\ At("syncRemoval")
  /\ cfgDisk' = {cfg}
  /\ IF FileState(call.op) = "candidate"
     THEN Goto("createTemporary", call.op, tx.final[call.op].previous)
     ELSE Return
  /\ UNCHANGED <<control, handle, prepared, cfg, stages, caddy, promised>>

\* replaceTarget, from its first step to its last.
CreateTemporary ==
  /\ At("createTemporary")
  /\ ChangeConfig([cfg EXCEPT !.temporary[call.op] = Partial])
  /\ Goto("writeTemporary", call.op, call.value)
  /\ UNCHANGED <<control, handle, prepared, stages, caddy, promised>>

WriteTemporary ==
  /\ At("writeTemporary")
  /\ ChangeConfig([cfg EXCEPT !.temporary[call.op] = call.value])
  /\ Goto("syncTemporary", call.op, call.value)
  /\ UNCHANGED <<control, handle, prepared, stages, caddy, promised>>

\* Faulty variant: the temporary file is renamed unsynced.
SyncTemporarySkipped ==
  /\ At("syncTemporary")
  /\ Goto("renameTemporary", call.op, call.value)
  /\ UNCHANGED <<control, handle, prepared, files, stages, caddy, promised>>

\* Wherever the entry is on disk, it has its content now.
SyncTemporary ==
  /\ At("syncTemporary")
  /\ cfgDisk' = {IF s.temporary[call.op] = Partial
                 THEN [s EXCEPT !.temporary[call.op] = call.value] ELSE s : s \in cfgDisk}
  /\ Goto("renameTemporary", call.op, call.value)
  /\ UNCHANGED <<control, handle, prepared, cfg, stages, caddy, promised>>

\* The target becomes whatever the temporary entry holds, on disk as well.
RenameTemporary ==
  LET op == call.op
      Replaced(s) == [s EXCEPT !.target = s.temporary[op], !.temporary[op] = None]
  IN  /\ At("renameTemporary")
      /\ cfg' = Replaced(cfg)
      /\ cfgDisk' = {s \in cfgDisk : "power" \in env.faults} \cup
                    {Replaced(s) : s \in {d \in cfgDisk : d.temporary[op] # None}}
      /\ Goto("syncConfig", op, call.value)
      /\ UNCHANGED <<control, handle, prepared, stages, caddy, promised>>

\* Faulty variant: success is returned without a sync of the directory.
SyncConfigSkipped ==
  /\ At("syncConfig")
  /\ Return
  /\ UNCHANGED <<control, handle, prepared, files, stages, caddy, promised>>

SyncConfig ==
  /\ At("syncConfig")
  /\ cfgDisk' = {cfg}
  /\ Return
  /\ UNCHANGED <<control, handle, prepared, cfg, stages, caddy, promised>>

-----------------------------------------------------------------------------
(* Activate and Reactivate: the runtime domain. *)

\* A runtime that is in the wanted state already is a success without a step.
CanActivate(op, wanted) ==
  LET allowed == IF wanted = "candidate" THEN "previous" ELSE "candidate"
  IN  /\ Ready /\ Loadable(op)
      /\ FileState(op) = wanted
      /\ RuntimeState(op) = allowed

Activate(op, wanted) ==
  /\ CanActivate(op, wanted)
  /\ Goto("reload", op, tx.final[op][wanted])
  /\ UNCHANGED <<control, handle, prepared, files, stages, caddy, promised>>

\* Caddy loads the configuration and the adapter reads it back.
Reload ==
  /\ At("reload")
  /\ runtime' = Adapt[call.value]
  /\ Return
  /\ UNCHANGED <<control, handle, prepared, files, stages, pending, promised>>

\* The deadline passes and `caddy reload' is killed, but the request it sent
\* is with Caddy, which does not abandon a load.
ReloadTimeout ==
  /\ At("reload") /\ "late" \in env.faults
  /\ pending' = pending \cup {call.value}
  /\ Return
  /\ UNCHANGED <<control, handle, prepared, files, stages, runtime, promised>>

LateReload(c) ==
  /\ c \in pending
  /\ runtime' = Adapt[c] /\ pending' = pending \ {c}
  /\ UNCHANGED <<control, handle, call, prepared, files, stages, promised>>

-----------------------------------------------------------------------------
(* Faults. *)

\* A write, sync, rename or command of the call in progress fails; what was
\* done stays done.
CallFails ==
  /\ "io" \in env.faults /\ call # Idle
  /\ Return
  /\ UNCHANGED <<control, handle, prepared, files, stages, caddy, promised>>

\* The process dies.  A `caddy reload' it has started goes on without it.
Kill ==
  /\ "kill" \in env.faults /\ handle = "open"
  /\ handle' = "closed" /\ Return
  /\ prepared' = [op \in Op |-> None]
  /\ IF At("reload")
     THEN \/ UNCHANGED caddy
          \/ runtime' = Adapt[call.value] /\ UNCHANGED pending
          \/ "late" \in env.faults /\ pending' = pending \cup {call.value} /\ UNCHANGED runtime
     ELSE UNCHANGED caddy
  /\ UNCHANGED <<control, files, stages, promised>>

\* Files that were not synced may come back incomplete.
AfterPowerLoss(s, lost) ==
  LET Torn(dirs) == [op \in Op |-> IF op \in lost /\ dirs[op] # None THEN Partial ELSE dirs[op]]
  IN  [final |-> Torn(s.final), temporary |-> Torn(s.temporary)]

\* Power is lost; Caddy starts again from the file.
PowerLoss ==
  /\ "power" \in env.faults
  /\ handle' = "closed" /\ Return
  /\ prepared' = [op \in Op |-> None]
  /\ cfg' \in cfgDisk /\ cfgDisk' = {cfg'}
  /\ \E s \in txDisk, lost \in SUBSET dirty : tx' = AfterPowerLoss(s, lost)
  /\ txDisk' = {tx'} /\ dirty' = {}
  /\ runtime' = RuntimeOf(cfg'.target) /\ pending' = {}
  /\ UNCHANGED <<control, promised>>

-----------------------------------------------------------------------------
CallStep ==
  \/ FillStage \/ SyncStageFiles \/ RenameStage \/ SyncStages \/ RemoveStage
  \/ SyncRemoval \/ CreateTemporary \/ WriteTemporary \/ SyncTemporary
  \/ RenameTemporary \/ SyncConfig \/ Reload \/ ReloadTimeout

OnlyPowerIsLost == env.faults \subseteq {"power"}
OneSortOfFault == OnlyPowerIsLost \/ env.faults \subseteq {"io", "kill"}

\* The controller decides to roll back; from then on it makes no forward call,
\* as the journal has it.  (Recorded only where RollbackEnds is about it.)
Undo(op) ==
  /\ OneSortOfFault
  /\ op \notin undoing /\ \A o \in Op \ {op} : env.candidates[o] = {}
  /\ undoing' = undoing \cup {op}
  /\ UNCHANGED <<env, handle, call, prepared, files, stages, caddy, promised>>

ForwardCall(op) ==
  /\ op \notin undoing
  /\ \/ \E c \in env.candidates[op] : Preflight(op, c)
     \/ Stage(op) \/ Install(op) \/ Activate(op, "candidate")

RollbackCall(op) == Restore(op) \/ Activate(op, "previous")

Damage == CallFails \/ Kill \/ PowerLoss

Next ==
  \/ Open \/ Close
  \/ \E op \in Op : \/ ForwardCall(op) \/ RollbackCall(op)
                    \/ ReconcileStage(op) \/ RollbackStage(op) \/ Undo(op)
  \/ CallStep
  \/ \E c \in pending : LateReload(c)
  \/ Damage

\* A call that began goes on, and a controller that rolls back opens the
\* adapter again and makes the rollback call that is accepted.
Fairness ==
  /\ WF_vars(CallStep)
  /\ WF_vars(undoing # {} /\ Open)
  /\ \A op \in Op : SF_vars(op \in undoing /\ RollbackCall(op))

Spec == Init /\ [][Next]_vars /\ Fairness

-----------------------------------------------------------------------------
(* Properties. *)

\* replaceTarget never leaves the service without a complete Caddyfile, at
\* whatever step a call fails, the process dies or power is lost.
TargetNeverTorn == cfg.target \in Config

\* No operation brings back what another one, or the first Caddyfile, has been.
NothingReturns ==
  \A op \in Op : /\ Initial \notin env.candidates[op]
                 /\ \A o \in Op \ {op} : env.candidates[op] \cap env.candidates[o] = {}

\* Whatever of the live state an operation has changed, a transaction that can
\* be loaded says what was there before, through kills and errors or through
\* losses of power, where the two do not meet and no load outlives its client:
\* the promise of RollbackStage.  (It compares contents: when a second operation
\* brings back what a first one replaced, the first one's transaction may go while
\* the second one's rollback still leads to its candidate.)
Covered ==
  OneSortOfFault /\ NothingReturns =>
  /\ cfg.target = Initial \/ \E op \in Op : Loadable(op) /\ tx.final[op].candidate = cfg.target
  /\ runtime = Adapt[Initial] \/ \E op \in Op : Loadable(op) /\ Adapt[tx.final[op].candidate] = runtime

\* Staging that was reported a success survives losses of power, where nothing
\* else fails.  (ReconcileStage promotes what a killed Stage left by what it sees,
\* and does not sync the files.)
StagedIsDurable ==
  OnlyPowerIsLost => \A op \in promised : op \notin dirty /\ \A s \in txDisk : s.final[op] \in Transaction

\* A configuration is loaded only when a restart of Caddy, even after a loss
\* of power, would load it as well: the file is persisted before activation,
\* where nothing but power is lost.  (After a kill or a failed sync the next call
\* takes the file it sees for persistent.)
ActivatedIsPersistent ==
  OnlyPowerIsLost /\ At("reload") => \A s \in cfgDisk : s.target = call.value

\* A live file is only ever exchanged between the two states its transaction
\* names: what another operation has installed in the meantime is not overwritten.
\* (Nobody but operations of the adapter writes the file here; between the look at
\* it and the rename the code has no protection against an editor.)
ReplacesOnlyItsOwn ==
  [][At("renameTemporary") /\ cfg'.target # cfg.target /\ call'.name = "syncConfig" =>
       /\ Loadable(call.op)
       /\ {cfg.target, cfg'.target} = {tx.final[call.op].previous, tx.final[call.op].candidate}]_vars

\* Once faults stop, a rollback ends with the file and the running Caddy back
\* in the previous state, from wherever Install, Activate or an earlier
\* rollback was interrupted, by kills and errors or by losses of power.
RollbackEnds ==
  <>[][~Damage]_vars =>
    \A op \in Op :
      OneSortOfFault /\ op \in undoing ~> ~Loadable(op) \/ Baseline(op)

\* A committed transaction can be loaded, so that RollbackStage can remove it.
CommittedIsLoadable ==
  Ready => \A op \in Op : tx.final[op] # None => Loadable(op)
=============================================================================
