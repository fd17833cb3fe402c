------------------------- MODULE CaddyAdapterProofs -------------------------
(***************************************************************************)
(* Proofs about CaddyAdapter, for any operations, Caddyfiles and adapter   *)
(* of Caddyfiles, and every environment.                                   *)
(***************************************************************************)
EXTENDS CaddyAdapter, TLAPS

-----------------------------------------------------------------------------
(* The inductive invariant, in named parts. *)

StageCalls == {"fillStage", "syncFiles", "renameStage", "syncStages", "removeStage"}
Replacing == {"createTemporary", "writeTemporary", "syncTemporary", "renameTemporary"}
CallNames == StageCalls \cup Replacing \cup {"idle", "syncRemoval", "syncConfig", "reload"}

Directory == [target : Config, temporary : [Op -> Config \cup {None, Partial}]]
Stages == [final : [Op -> Transaction \cup {None, Partial}],
           temporary : [Op -> Transaction \cup {None, Partial}]]

\* A torn file is only ever a temporary one, on every disk.
TypeOK ==
  /\ env \in [faults : SUBSET FaultKinds, candidates : [Op -> SUBSET Config]]
  /\ prepared \in [Op -> Transaction \cup {None}]
  /\ cfg \in Directory /\ cfgDisk \subseteq Directory /\ cfg \in cfgDisk
  /\ tx \in Stages /\ txDisk \subseteq Stages /\ tx \in txDisk
  /\ dirty \subseteq Op /\ promised \subseteq Op /\ pending \subseteq Config
  /\ call.name \in CallNames
  /\ ~At("idle") => call.op \in Op
  /\ At("fillStage") => call.value \in Transaction
  /\ call.name \in Replacing \cup {"reload"} => call.value \in Config

\* What is renamed over the target is whole, wherever the entry is on disk.
RenameInv ==
  /\ call.name \in {"syncTemporary", "renameTemporary"} => cfg.temporary[call.op] = call.value
  /\ At("renameTemporary") => \A s \in cfgDisk : s.temporary[call.op] # Partial

\* While a call replaces the file, its transaction names both contents; what is
\* loaded is what the file holds.
ReplaceInv ==
  /\ call.name \in Replacing =>
       /\ Loadable(call.op)
       /\ {cfg.target, call.value} = {tx.final[call.op].previous, tx.final[call.op].candidate}
  /\ At("syncRemoval") => Loadable(call.op)
  /\ At("reload") => call.value = cfg.target

\* Where only power is lost, a call ends with its directory synced.
PowerInv ==
  OnlyPowerIsLost =>
    /\ dirty \subseteq (IF At("syncFiles") THEN {call.op} ELSE {})
    /\ call.name \in StageCalls \cup {"idle", "createTemporary", "reload"} => cfgDisk = {cfg}
    /\ call.name \in {"fillStage", "syncFiles", "renameStage", "removeStage"} =>
         call.op \notin promised
    /\ \A op \in promised, s \in txDisk : s.final[op] \in Transaction

-----------------------------------------------------------------------------
(* Directories. *)

\* Rewriting one entry.
LEMMA DirectoryEffect ==
  ASSUME NEW s \in Directory, NEW op \in Op, NEW v \in Config \cup {None, Partial}
  PROVE  /\ [s EXCEPT !.temporary[op] = v] \in Directory
         /\ [s EXCEPT !.temporary[op] = v].target = s.target
         /\ [s EXCEPT !.temporary[op] = v].temporary[op] = v
  BY DEF Directory

LEMMA StagesEffect ==
  ASSUME NEW s \in Stages, NEW op \in Op, NEW v \in Transaction \cup {None, Partial}
  PROVE  /\ [s EXCEPT !.temporary[op] = v] \in Stages
         /\ [s EXCEPT !.temporary[op] = v].final = s.final
         /\ [s EXCEPT !.final[op] = v] \in Stages
         /\ [s EXCEPT !.final[op] = v].final[op] = v
         /\ \A o \in Op \ {op} : [s EXCEPT !.final[op] = v].final[o] = s.final[o]
         /\ [s EXCEPT !.final[op] = v].temporary = s.temporary
  BY DEF Stages

Promoted(s, op) == [s EXCEPT !.final[op] = s.temporary[op], !.temporary[op] = None]

LEMMA PromotedEffect ==
  ASSUME NEW s \in Stages, NEW op \in Op
  PROVE  /\ Promoted(s, op) \in Stages
         /\ Promoted(s, op).final[op] = s.temporary[op] /\ Promoted(s, op).temporary[op] = None
         /\ \A o \in Op \ {op} : /\ Promoted(s, op).final[o] = s.final[o]
                                 /\ Promoted(s, op).temporary[o] = s.temporary[o]
  BY DEF Stages, Promoted

Replaced(s, op) == [s EXCEPT !.target = s.temporary[op], !.temporary[op] = None]

\* Renaming a whole file over the target.
LEMMA ReplacedEffect ==
  ASSUME NEW s \in Directory, NEW op \in Op, s.temporary[op] \in Config
  PROVE  /\ Replaced(s, op) \in Directory
         /\ Replaced(s, op).target = s.temporary[op]
  BY DEF Directory, Replaced

\* What a loss of power tears.
LEMMA TornEffect ==
  ASSUME NEW s \in Stages, NEW lost \in SUBSET Op
  PROVE  /\ AfterPowerLoss(s, lost) \in Stages
         /\ \A op \in Op \ lost : /\ AfterPowerLoss(s, lost).final[op] = s.final[op]
                                  /\ AfterPowerLoss(s, lost).temporary[op] = s.temporary[op]
         /\ \A op \in lost : /\ AfterPowerLoss(s, lost).final[op] \in {None, Partial}
                             /\ AfterPowerLoss(s, lost).temporary[op] \in {None, Partial}
  BY DEF Stages, AfterPowerLoss

\* A change of a directory is one the disk may have seen or not.
LEMMA ChangeEffect ==
  ASSUME NEW new
  PROVE  /\ ChangeConfig(new) => cfg' = new /\ new \in cfgDisk' /\ cfgDisk' \subseteq cfgDisk \cup {new}
                                 /\ ("power" \notin env.faults => cfgDisk' = {new})
         /\ ChangeStages(new) => tx' = new /\ new \in txDisk' /\ txDisk' \subseteq txDisk \cup {new}
                                 /\ ("power" \notin env.faults => txDisk' = {new})
  BY DEF ChangeConfig, ChangeStages, Unsynced

-----------------------------------------------------------------------------
(* The steps. *)

\* Stage and Restore, by what they begin with.
StageBegins(op) ==
  /\ Ready /\ prepared[op] # None /\ tx.final[op] = None /\ tx.temporary[op] = None
  /\ cfg.target = prepared[op].previous
  /\ ChangeStages([tx EXCEPT !.temporary[op] = Partial])
  /\ Goto("fillStage", op, prepared[op])
  /\ UNCHANGED <<env, prepared, files, dirty, caddy, promised>>

Promotes(op) ==
  /\ Ready /\ tx.final[op] = None /\ tx.temporary[op] \in Transaction
  /\ ChangeStages(Promoted(tx, op))
  /\ Goto("syncStages", op, None)
  /\ UNCHANGED <<env, prepared, files, dirty, caddy, promised>>

SyncsAgain(op) ==
  /\ Ready /\ Goto("syncStages", op, None)
  /\ UNCHANGED <<env, prepared, files, stages, caddy, promised>>

RestoreCleans(op) ==
  /\ Ready /\ Loadable(op) /\ cfg.temporary[op] # None
  /\ ChangeConfig([cfg EXCEPT !.temporary[op] = None])
  /\ Goto("syncRemoval", op, None)
  /\ UNCHANGED <<env, prepared, stages, caddy, promised>>

RestoreBegins(op) ==
  /\ Ready /\ Loadable(op) /\ cfg.temporary[op] = None /\ FileState(op) = "candidate"
  /\ Goto("createTemporary", op, tx.final[op].previous)
  /\ UNCHANGED <<env, prepared, files, stages, caddy, promised>>

\* The steps that change no directory.
Calm ==
  \/ Open \/ Close \/ CallFails \/ Kill \/ Reload \/ ReloadTimeout
  \/ \E c \in pending : LateReload(c)
  \/ \E op \in Op : \/ Undo(op) \/ (\E c \in env.candidates[op] : Preflight(op, c))
                    \/ SyncsAgain(op) \/ RestoreBegins(op) \/ Activate(op, "previous")
                    \/ (op \notin undoing /\ (Install(op) \/ Activate(op, "candidate")))

\* The steps of the specification.
LEMMA StepCases ==
  ASSUME [Next]_vars
  PROVE  \/ Calm
         \/ \E op \in Op : StageBegins(op) \/ Promotes(op) \/ RollbackStage(op) \/ RestoreCleans(op)
         \/ FillStage \/ SyncStageFiles \/ RenameStage \/ SyncStages \/ RemoveStage
         \/ SyncRemoval \/ CreateTemporary \/ WriteTemporary \/ SyncTemporary
         \/ RenameTemporary \/ SyncConfig \/ PowerLoss
         \/ UNCHANGED vars
<1>1. ASSUME NEW op \in Op, Stage(op)
      PROVE  StageBegins(op) \/ SyncsAgain(op)
  BY <1>1 DEF Stage, StageBegins, SyncsAgain, control, stages
<1>2. ASSUME NEW op \in Op, ReconcileStage(op)
      PROVE  Promotes(op) \/ SyncsAgain(op)
  BY <1>2 DEF ReconcileStage, Promotes, SyncsAgain, PromoteStage, Promoted, control, stages
<1>3. ASSUME NEW op \in Op, Restore(op)
      PROVE  RestoreCleans(op) \/ RestoreBegins(op)
  BY <1>3 DEF Restore, CanRestore, RestoreCleans, RestoreBegins, control
<1>4. ASSUME NEW op \in Op, ForwardCall(op) \/ RollbackCall(op) \/ ReconcileStage(op)
                            \/ RollbackStage(op) \/ Undo(op)
      PROVE  Calm \/ StageBegins(op) \/ Promotes(op) \/ RollbackStage(op) \/ RestoreCleans(op)
  BY <1>1, <1>2, <1>3, <1>4 DEF ForwardCall, RollbackCall, Calm
<1>5. CASE CallStep
  BY <1>5 DEF CallStep, Calm
<1>6. CASE Open \/ Close \/ (\E c \in pending : LateReload(c)) \/ Damage
  BY <1>6 DEF Damage, Calm
<1>7. QED
  BY <1>4, <1>5, <1>6 DEF Next

\* What FileState tells.
LEMMA FileStateFacts ==
  ASSUME NEW op
  PROVE  /\ FileState(op) = "candidate" => cfg.target = tx.final[op].candidate
         /\ FileState(op) = "previous" =>
              cfg.target = tx.final[op].previous /\ cfg.target # tx.final[op].candidate
  BY DEF FileState, Classify

\* The calls that begin without a change of a directory.
Begins(op) ==
  /\ call.name = "idle" /\ call'.op = op
  /\ \/ call'.name = "syncStages"
     \/ /\ call'.name = "createTemporary" /\ Loadable(op) /\ cfg.temporary[op] = None
        /\ {cfg.target, call'.value} = {tx.final[op].previous, tx.final[op].candidate}
     \/ call'.name = "reload" /\ Loadable(op) /\ call'.value = cfg.target

LEMMA CalmEffect ==
  ASSUME TypeOK, Calm
  PROVE  /\ UNCHANGED <<env, cfg, cfgDisk, tx, txDisk, dirty, promised>>
         /\ prepared' \in [Op -> Transaction \cup {None}] /\ pending' \subseteq Config
         /\ call' = call \/ call' = Idle \/ \E op \in Op : Begins(op)
<1> USE DEF control, files, stages, caddy
<1>n. [op \in Op |-> None] \in [Op -> Transaction \cup {None}]
  OBVIOUS
<1>p. prepared \in [Op -> Transaction \cup {None}] /\ pending \subseteq Config
  BY DEF TypeOK
<1>1. CASE Open \/ Close \/ CallFails
  BY <1>1, <1>n, <1>p DEF Open, Close, CallFails, Return
<1>2. CASE Kill
  BY <1>2, <1>n, <1>p DEF Kill, Return, TypeOK, At
<1>3. CASE Reload \/ ReloadTimeout \/ \E c \in pending : LateReload(c)
  BY <1>3, <1>p DEF Reload, ReloadTimeout, LateReload, Return, TypeOK, At
<1>4. ASSUME NEW op \in Op, Undo(op)
      PROVE  UNCHANGED <<env, cfg, cfgDisk, tx, txDisk, dirty, promised, prepared, pending, call>>
  BY <1>4 DEF Undo
<1>5. ASSUME NEW op \in Op, NEW c \in env.candidates[op], Preflight(op, c)
      PROVE  /\ UNCHANGED <<env, cfg, cfgDisk, tx, txDisk, dirty, promised, pending, call>>
             /\ prepared' \in [Op -> Transaction \cup {None}]
  <2>1. UNCHANGED <<env, cfg, cfgDisk, tx, txDisk, dirty, promised, pending, call>>
    BY <1>5 DEF Preflight
  <2>2. prepared' = [prepared EXCEPT ![op] = [previous |-> cfg.target, candidate |-> c]]
        /\ cfg.target \in Config /\ c \in Config
    BY <1>5 DEF Preflight, TypeOK
  <2>3. [previous |-> cfg.target, candidate |-> c] \in Transaction
    BY <2>2 DEF Transaction
  <2>4. QED
    BY <1>p, <2>1, <2>2, <2>3
<1>6. ASSUME NEW op \in Op,
             SyncsAgain(op) \/ Install(op) \/ RestoreBegins(op)
             \/ Activate(op, "candidate") \/ Activate(op, "previous")
      PROVE  /\ UNCHANGED <<env, cfg, cfgDisk, tx, txDisk, dirty, promised, prepared, pending>>
             /\ Begins(op)
  <2>1. CASE SyncsAgain(op)
    BY <2>1 DEF SyncsAgain, Ready, Idle, Goto, Begins
  <2>2. CASE Install(op)
    BY <2>2, FileStateFacts DEF Install, Ready, Idle, Goto, Begins
  <2>3. CASE RestoreBegins(op)
    BY <2>3, FileStateFacts DEF RestoreBegins, Ready, Idle, Goto, Begins
  <2>4. CASE Activate(op, "candidate")
    BY <2>4, FileStateFacts DEF Activate, CanActivate, Ready, Idle, Goto, Begins
  <2>5. CASE Activate(op, "previous")
    BY <2>5, FileStateFacts DEF Activate, CanActivate, Ready, Idle, Goto, Begins
  <2>6. QED
    BY <1>6, <2>1, <2>2, <2>3, <2>4, <2>5
<1>7. QED
  BY <1>p, <1>1, <1>2, <1>3, <1>4, <1>5, <1>6 DEF Calm

\* The environment is chosen once.
LEMMA EnvStep == TypeOK /\ [Next]_vars => env' = env
<1> SUFFICES ASSUME TypeOK, [Next]_vars PROVE env' = env
  OBVIOUS
<1> USE DEF control
<1>1. ASSUME NEW op \in Op, StageBegins(op) \/ Promotes(op) \/ RollbackStage(op) \/ RestoreCleans(op)
      PROVE  env' = env
  BY <1>1 DEF StageBegins, Promotes, RollbackStage, RestoreCleans
<1>2. CASE FillStage \/ SyncStageFiles \/ RenameStage \/ SyncStages \/ RemoveStage \/ SyncRemoval
  BY <1>2 DEF FillStage, SyncStageFiles, RenameStage, SyncStages, RemoveStage, SyncRemoval
<1>3. CASE CreateTemporary \/ WriteTemporary \/ SyncTemporary \/ SyncConfig \/ PowerLoss
  BY <1>3 DEF CreateTemporary, WriteTemporary, SyncTemporary, SyncConfig, PowerLoss
<1>4. CASE RenameTemporary \/ UNCHANGED vars
  BY <1>4 DEF RenameTemporary, vars
<1>5. QED
  BY <1>1, <1>2, <1>3, <1>4, CalmEffect, StepCases

-----------------------------------------------------------------------------
(* Types, and the file that is renamed over the target. *)

CallOK ==
  /\ call.name \in CallNames
  /\ ~At("idle") => call.op \in Op
  /\ At("fillStage") => call.value \in Transaction
  /\ call.name \in Replacing \cup {"reload"} => call.value \in Config

\* Every call goes on with what it holds, or ends.
LEMMA CallStepType == TypeOK /\ ReplaceInv /\ [Next]_vars => CallOK'
<1> SUFFICES ASSUME TypeOK, ReplaceInv, [Next]_vars
             PROVE  CallOK'
  OBVIOUS
<1> USE DEF At, Goto, CallNames, StageCalls, Replacing
<1>r. call' = Idle => CallOK'
  BY DEF CallOK, Idle
<1>c. cfg.target \in Config /\ \A op \in Op : Loadable(op) =>
        tx.final[op].previous \in Config /\ tx.final[op].candidate \in Config
  BY DEF TypeOK, Directory, Loadable, Transaction
<1>1. CASE Calm
  <2>1. CASE call' = call
    BY <2>1 DEF TypeOK, CallOK
  <2>2. ASSUME NEW op \in Op, Begins(op)
        PROVE  CallOK'
    BY <1>c, <2>2 DEF Begins, CallOK
  <2>3. QED
    BY <1>1, <1>r, <2>1, <2>2, CalmEffect
<1>2. ASSUME NEW op \in Op, StageBegins(op)
      PROVE  CallOK'
  <2>1. prepared[op] \in Transaction
    BY <1>2 DEF StageBegins, TypeOK
  <2>2. QED
    BY <1>2, <2>1 DEF StageBegins, CallOK
<1>3. ASSUME NEW op \in Op, Promotes(op) \/ RollbackStage(op) \/ RestoreCleans(op)
      PROVE  CallOK'
  BY <1>3 DEF Promotes, RollbackStage, RestoreCleans, CallOK
<1>4. CASE FillStage \/ SyncStageFiles \/ RenameStage \/ RemoveStage
  BY <1>4 DEF FillStage, SyncStageFiles, RenameStage, RemoveStage, CallOK, TypeOK
<1>5. CASE SyncStages \/ SyncConfig \/ PowerLoss
  BY <1>5, <1>r DEF SyncStages, SyncConfig, PowerLoss, Return
<1>6. CASE SyncRemoval
  <2>1. CASE call' = Idle
    BY <1>r, <2>1
  <2>2. CASE FileState(call.op) = "candidate"
             /\ Goto("createTemporary", call.op, tx.final[call.op].previous)
    <3>1. call.op \in Op /\ Loadable(call.op)
      BY <1>6 DEF SyncRemoval, TypeOK, ReplaceInv
    <3>2. QED
      BY <1>c, <2>2, <3>1 DEF CallOK
  <2>3. QED
    BY <1>6, <2>1, <2>2 DEF SyncRemoval, Return
<1>7. CASE CreateTemporary \/ WriteTemporary \/ SyncTemporary \/ RenameTemporary
  <2>1. call.name \in Replacing /\ call.op \in Op /\ call.value \in Config
    BY <1>7 DEF CreateTemporary, WriteTemporary, SyncTemporary, RenameTemporary, TypeOK
  <2>2. /\ call'.op = call.op /\ call'.value = call.value
        /\ call'.name \in {"writeTemporary", "syncTemporary", "renameTemporary", "syncConfig"}
    <3>1. CASE RenameTemporary
      BY <3>1 DEF RenameTemporary
    <3>2. CASE CreateTemporary \/ WriteTemporary \/ SyncTemporary
      BY <3>2 DEF CreateTemporary, WriteTemporary, SyncTemporary
    <3>3. QED
      BY <1>7, <3>1, <3>2
  <2>3. QED
    BY <2>1, <2>2 DEF CallOK
<1>8. CASE UNCHANGED vars
  BY <1>8 DEF vars, TypeOK, CallOK
<1>9. QED
  BY <1>1, <1>2, <1>3, <1>4, <1>5, <1>6, <1>7, <1>8, StepCases

\* The transactions directory holds transactions, whole or torn.
LEMMA StagesStepType ==
  TypeOK /\ [Next]_vars =>
    /\ tx' \in Stages /\ txDisk' \subseteq Stages /\ tx' \in txDisk'
    /\ dirty' \subseteq Op /\ promised' \subseteq Op
<1> SUFFICES ASSUME TypeOK, [Next]_vars
             PROVE  /\ tx' \in Stages /\ txDisk' \subseteq Stages /\ tx' \in txDisk'
                    /\ dirty' \subseteq Op /\ promised' \subseteq Op
  OBVIOUS
<1> USE DEF At
<1>t. /\ tx \in Stages /\ txDisk \subseteq Stages /\ tx \in txDisk
      /\ dirty \subseteq Op /\ promised \subseteq Op
  BY DEF TypeOK
<1>c. ASSUME NEW new \in Stages, ChangeStages(new)
      PROVE  tx' \in Stages /\ txDisk' \subseteq Stages /\ tx' \in txDisk'
  BY <1>t, <1>c, ChangeEffect
<1>1. CASE Calm
  BY <1>1, <1>t, CalmEffect
<1>2. ASSUME NEW op \in Op, StageBegins(op)
      PROVE  /\ tx' \in Stages /\ txDisk' \subseteq Stages /\ tx' \in txDisk'
             /\ UNCHANGED <<dirty, promised>>
  <2>1. [tx EXCEPT !.temporary[op] = Partial] \in Stages
    BY <1>t, StagesEffect
  <2>2. QED
    BY <1>2, <1>c, <2>1 DEF StageBegins
<1>3. ASSUME NEW op \in Op, Promotes(op)
      PROVE  /\ tx' \in Stages /\ txDisk' \subseteq Stages /\ tx' \in txDisk'
             /\ UNCHANGED <<dirty, promised>>
  BY <1>3, <1>c, <1>t, PromotedEffect DEF Promotes
<1>4. ASSUME NEW op \in Op, RollbackStage(op)
      PROVE  /\ tx' \in Stages /\ txDisk' \subseteq Stages /\ tx' \in txDisk'
             /\ dirty' = dirty /\ promised' \subseteq promised
  <2>1. [tx EXCEPT !.temporary[op] = Partial] \in Stages /\ [tx EXCEPT !.final[op] = Partial] \in Stages
    BY <1>t, StagesEffect
  <2>2. QED
    BY <1>4, <1>c, <2>1 DEF RollbackStage
<1>5. ASSUME NEW op \in Op, RestoreCleans(op)
      PROVE  UNCHANGED <<tx, txDisk, dirty, promised>>
  BY <1>5 DEF RestoreCleans, stages
<1>6. CASE FillStage
  <2>1. call.op \in Op /\ call.value \in Transaction
    BY <1>6 DEF FillStage, TypeOK
  <2>2. [tx EXCEPT !.temporary[call.op] = call.value] \in Stages
    BY <1>t, <2>1, StagesEffect
  <2>3. QED
    BY <1>6, <1>c, <1>t, <2>1, <2>2 DEF FillStage
<1>7. CASE SyncStageFiles
  BY <1>7, <1>t DEF SyncStageFiles
<1>8. CASE RenameStage
  <2>1. call.op \in Op
    BY <1>8 DEF RenameStage, TypeOK
  <2>2. Promoted(tx, call.op) \in Stages
    BY <1>t, <2>1, PromotedEffect
  <2>3. ChangeStages(Promoted(tx, call.op)) /\ UNCHANGED <<dirty, promised>>
    BY <1>8 DEF RenameStage, PromoteStage, Promoted
  <2>4. QED
    BY <1>c, <1>t, <2>2, <2>3
<1>9. CASE SyncStages
  <2>1. call.op \in Op
    BY <1>9 DEF SyncStages, TypeOK
  <2>2. QED
    BY <1>9, <1>t, <2>1 DEF SyncStages
<1>10. CASE RemoveStage
  <2>1. call.op \in Op
    BY <1>10 DEF RemoveStage, TypeOK
  <2>2. [tx EXCEPT !.temporary[call.op] = None] \in Stages /\ [tx EXCEPT !.final[call.op] = None] \in Stages
    BY <1>t, <2>1, StagesEffect
  <2>3. QED
    BY <1>10, <1>c, <1>t, <2>2 DEF RemoveStage
<1>11. CASE SyncRemoval \/ CreateTemporary \/ WriteTemporary \/ SyncTemporary \/ RenameTemporary
            \/ SyncConfig \/ UNCHANGED vars
  BY <1>11, <1>t DEF SyncRemoval, CreateTemporary, WriteTemporary, SyncTemporary, RenameTemporary,
                     SyncConfig, vars, stages
<1>12. CASE PowerLoss
  <2>1. PICK s \in txDisk, lost \in SUBSET dirty : tx' = AfterPowerLoss(s, lost)
    BY <1>12 DEF PowerLoss
  <2>2. tx' \in Stages
    BY <1>t, <2>1, TornEffect
  <2>3. QED
    BY <1>12, <1>t, <2>2 DEF PowerLoss
<1>13. QED
  BY <1>t, <1>1, <1>2, <1>3, <1>4, <1>5, <1>6, <1>7, <1>8, <1>9, <1>10, <1>11, <1>12, StepCases

\* The configuration directory always has a whole target, on every disk; what is about
\* to be renamed over it is whole.
LEMMA ConfigStepType ==
  TypeOK /\ RenameInv /\ [Next]_vars =>
    cfg' \in Directory /\ cfgDisk' \subseteq Directory /\ cfg' \in cfgDisk' /\ RenameInv'
<1> SUFFICES ASSUME TypeOK, RenameInv, [Next]_vars
             PROVE  cfg' \in Directory /\ cfgDisk' \subseteq Directory /\ cfg' \in cfgDisk' /\ RenameInv'
  OBVIOUS
<1> USE DEF At, Goto
<1>t. cfg \in Directory /\ cfgDisk \subseteq Directory /\ cfg \in cfgDisk
  BY DEF TypeOK
<1>n. call'.name \notin {"syncTemporary", "renameTemporary"} => RenameInv'
  BY DEF RenameInv
<1>c. ASSUME NEW new \in Directory, ChangeConfig(new)
      PROVE  cfg' \in Directory /\ cfgDisk' \subseteq Directory /\ cfg' \in cfgDisk'
  BY <1>t, <1>c, ChangeEffect
<1>1. CASE Calm
  <2>1. UNCHANGED <<cfg, cfgDisk>>
    BY <1>1, CalmEffect
  <2>2. call' = call \/ call'.name \notin {"syncTemporary", "renameTemporary"}
    BY <1>1, CalmEffect DEF Begins, Idle
  <2>3. RenameInv'
    BY <1>n, <2>1, <2>2 DEF RenameInv
  <2>4. QED
    BY <1>t, <2>1, <2>3
<1>2. ASSUME NEW op \in Op, StageBegins(op) \/ Promotes(op) \/ RollbackStage(op)
      PROVE  UNCHANGED <<cfg, cfgDisk>> /\ RenameInv'
  BY <1>2, <1>n DEF StageBegins, Promotes, RollbackStage, files
<1>3. ASSUME NEW op \in Op, RestoreCleans(op)
      PROVE  cfg' \in Directory /\ cfgDisk' \subseteq Directory /\ cfg' \in cfgDisk' /\ RenameInv'
  <2>1. [cfg EXCEPT !.temporary[op] = None] \in Directory
    BY <1>t, DirectoryEffect
  <2>2. QED
    BY <1>3, <1>c, <1>n, <2>1 DEF RestoreCleans
<1>4. CASE FillStage \/ SyncStageFiles \/ RenameStage \/ SyncStages \/ RemoveStage
  BY <1>4, <1>n, <1>t DEF FillStage, SyncStageFiles, RenameStage, SyncStages, RemoveStage, files,
                          Return, Idle
<1>5. CASE SyncRemoval \/ SyncConfig
  BY <1>5, <1>n, <1>t DEF SyncRemoval, SyncConfig, Return, Idle
<1>6. CASE CreateTemporary
  <2>1. call.op \in Op
    BY <1>6 DEF CreateTemporary, TypeOK
  <2>2. [cfg EXCEPT !.temporary[call.op] = Partial] \in Directory
    BY <1>t, <2>1, DirectoryEffect
  <2>3. QED
    BY <1>6, <1>c, <1>n, <2>2 DEF CreateTemporary
<1>7. CASE WriteTemporary
  <2>1. PICK op \in Op, v \in Config : call.op = op /\ call.value = v
    BY <1>7 DEF WriteTemporary, TypeOK, Replacing
  <2>2. /\ [cfg EXCEPT !.temporary[op] = v] \in Directory
        /\ [cfg EXCEPT !.temporary[op] = v].temporary[op] = v
    BY <1>t, DirectoryEffect
  <2>3. ChangeConfig([cfg EXCEPT !.temporary[op] = v])
        /\ call'.name = "syncTemporary" /\ call'.op = op /\ call'.value = v
    BY <1>7, <2>1 DEF WriteTemporary
  <2>4. cfg'.temporary[op] = v
    BY <2>2, <2>3 DEF ChangeConfig
  <2>5. QED
    BY <1>c, <2>2, <2>3, <2>4 DEF RenameInv
<1>8. CASE SyncTemporary
  <2>1. PICK op \in Op, v \in Config : call.op = op /\ call.value = v
    BY <1>8 DEF SyncTemporary, TypeOK, Replacing
  <2>2. cfg' = cfg /\ call'.name = "renameTemporary" /\ call'.op = op /\ call'.value = v
    BY <1>8, <2>1 DEF SyncTemporary
  <2>3. cfgDisk' = {IF s.temporary[op] = Partial THEN [s EXCEPT !.temporary[op] = v] ELSE s : s \in cfgDisk}
    BY <1>8, <2>1 DEF SyncTemporary
  <2>4. cfg.temporary[op] = v /\ v # Partial
    BY <1>8, <2>1, CaddyAssumption DEF SyncTemporary, RenameInv, CaddyAssumption
  <2>5. ASSUME NEW s \in cfgDisk'
        PROVE  s \in Directory /\ s.temporary[op] # Partial
    <3>1. PICK d \in cfgDisk : s = IF d.temporary[op] = Partial THEN [d EXCEPT !.temporary[op] = v] ELSE d
      BY <2>3
    <3>2. /\ [d EXCEPT !.temporary[op] = v] \in Directory
          /\ [d EXCEPT !.temporary[op] = v].temporary[op] = v
      BY <1>t, DirectoryEffect
    <3>3. QED
      BY <1>t, <2>4, <3>1, <3>2
  <2>6. cfg \in cfgDisk'
    BY <1>t, <2>3, <2>4
  <2>7. RenameInv'
    BY <2>2, <2>4, <2>5 DEF RenameInv
  <2>8. QED
    BY <1>t, <2>2, <2>5, <2>6, <2>7
<1>9. CASE RenameTemporary
  <2>1. PICK op \in Op : call.op = op
    BY <1>9 DEF RenameTemporary, TypeOK
  <2>2. cfg.temporary[op] \in Config /\ \A s \in cfgDisk : s.temporary[op] # Partial
    BY <1>9, <2>1 DEF RenameTemporary, RenameInv, TypeOK, Replacing
  <2>3. /\ cfg' = Replaced(cfg, op) /\ call'.name = "syncConfig"
        /\ cfgDisk' = {s \in cfgDisk : "power" \in env.faults} \cup
                      {Replaced(s, op) : s \in {d \in cfgDisk : d.temporary[op] # None}}
    BY <1>9, <2>1 DEF RenameTemporary, Replaced
  <2>4. ASSUME NEW s \in cfgDisk, s.temporary[op] # None
        PROVE  Replaced(s, op) \in Directory
    <3>1. s \in Directory /\ s.temporary[op] \in Config
      BY <1>t, <2>2, <2>4 DEF Directory
    <3>2. QED
      BY <3>1, ReplacedEffect
  <2>5. cfg.temporary[op] # None
    BY <2>2, CaddyAssumption DEF CaddyAssumption
  <2>6. QED
    BY <1>n, <1>t, <2>3, <2>4, <2>5
<1>10. CASE PowerLoss
  BY <1>10, <1>n, <1>t DEF PowerLoss, Return, Idle
<1>11. CASE UNCHANGED vars
  BY <1>11, <1>t DEF vars, RenameInv
<1>12. QED
  BY <1>t, <1>1, <1>2, <1>3, <1>4, <1>5, <1>6, <1>7, <1>8, <1>9, <1>10, <1>11, StepCases

\* Types are kept, and so is what the file calls rely on.
LEMMA TypeStep == TypeOK /\ RenameInv /\ ReplaceInv /\ [Next]_vars => TypeOK' /\ RenameInv'
<1> SUFFICES ASSUME TypeOK, RenameInv, ReplaceInv, [Next]_vars
             PROVE  TypeOK' /\ RenameInv'
  OBVIOUS
<1>1. env' = env /\ prepared' \in [Op -> Transaction \cup {None}] /\ pending' \subseteq Config
  <2> USE DEF control, caddy
  <2>n. [op \in Op |-> None] \in [Op -> Transaction \cup {None}]
    OBVIOUS
  <2>p. prepared \in [Op -> Transaction \cup {None}] /\ pending \subseteq Config
    BY DEF TypeOK
  <2>1. CASE Calm
    BY <2>1, CalmEffect
  <2>2. ASSUME NEW op \in Op, StageBegins(op) \/ Promotes(op) \/ RollbackStage(op) \/ RestoreCleans(op)
        PROVE  UNCHANGED <<env, prepared, pending>>
    BY <2>2 DEF StageBegins, Promotes, RollbackStage, RestoreCleans
  <2>3. CASE FillStage \/ SyncStageFiles \/ RenameStage \/ SyncStages \/ RemoveStage \/ SyncRemoval
    BY <2>3, <2>p DEF FillStage, SyncStageFiles, RenameStage, SyncStages, RemoveStage, SyncRemoval
  <2>4. CASE CreateTemporary \/ WriteTemporary \/ SyncTemporary \/ SyncConfig
    BY <2>4, <2>p DEF CreateTemporary, WriteTemporary, SyncTemporary, SyncConfig
  <2>5. CASE RenameTemporary
    BY <2>5, <2>p DEF RenameTemporary
  <2>6. CASE PowerLoss \/ UNCHANGED vars
    BY <2>6, <2>n, <2>p DEF PowerLoss, vars
  <2>7. QED
    BY <2>p, <2>1, <2>2, <2>3, <2>4, <2>5, <2>6, StepCases
<1>2. QED
  BY <1>1, CallStepType, StagesStepType, ConfigStepType DEF TypeOK, CallOK

-----------------------------------------------------------------------------
(* The two contents a call replaces. *)

\* Nothing touches the file or the transaction of a call in progress.
LEMMA ReplaceStep == TypeOK /\ ReplaceInv /\ [Next]_vars => ReplaceInv'
<1> SUFFICES ASSUME TypeOK, ReplaceInv, [Next]_vars
             PROVE  ReplaceInv'
  OBVIOUS
<1> USE DEF At, Goto
<1>n. call'.name \notin Replacing \cup {"syncRemoval", "reload"} => ReplaceInv'
  BY DEF ReplaceInv
<1>1. CASE Calm
  <2>1. UNCHANGED <<cfg, tx>>
    BY <1>1, CalmEffect
  <2>2. CASE call' = call
    BY <2>1, <2>2 DEF ReplaceInv, Loadable
  <2>3. CASE call' = Idle
    BY <1>n, <2>3 DEF Idle, Replacing
  <2>4. ASSUME NEW op \in Op, Begins(op)
        PROVE  ReplaceInv'
    BY <2>1, <2>4 DEF Begins, ReplaceInv, Loadable, Replacing
  <2>5. QED
    BY <1>1, <2>2, <2>3, <2>4, CalmEffect
<1>2. ASSUME NEW op \in Op, StageBegins(op) \/ Promotes(op) \/ RollbackStage(op)
      PROVE  ReplaceInv'
  BY <1>2, <1>n DEF StageBegins, Promotes, RollbackStage, Replacing
<1>3. ASSUME NEW op \in Op, RestoreCleans(op)
      PROVE  ReplaceInv'
  <2>1. tx' = tx /\ Loadable(op) /\ call'.name = "syncRemoval" /\ call'.op = op
    BY <1>3 DEF RestoreCleans, stages
  <2>2. QED
    BY <2>1 DEF ReplaceInv, Loadable, Replacing
<1>4. CASE FillStage \/ SyncStageFiles \/ RenameStage \/ SyncStages \/ RemoveStage
  BY <1>4, <1>n DEF FillStage, SyncStageFiles, RenameStage, SyncStages, RemoveStage, Return, Idle,
                    Replacing
<1>5. CASE SyncRemoval
  <2>1. cfg' = cfg /\ tx' = tx /\ Loadable(call.op) /\ call.name = "syncRemoval"
    BY <1>5 DEF SyncRemoval, stages, ReplaceInv
  <2>2. CASE call' = Idle
    BY <1>n, <2>2 DEF Idle, Replacing
  <2>3. CASE FileState(call.op) = "candidate"
             /\ Goto("createTemporary", call.op, tx.final[call.op].previous)
    <3>1. cfg.target = tx.final[call.op].candidate
      BY <2>3, FileStateFacts
    <3>2. QED
      BY <2>1, <2>3, <3>1 DEF ReplaceInv, Loadable, Replacing
  <2>4. QED
    BY <1>5, <2>2, <2>3 DEF SyncRemoval, Return
<1>6. CASE CreateTemporary \/ WriteTemporary
  <2>1. PICK op \in Op : call.op = op
    BY <1>6 DEF CreateTemporary, WriteTemporary, TypeOK
  <2>2. cfg \in Directory /\ call.value \in Config
    BY <1>6 DEF CreateTemporary, WriteTemporary, TypeOK, Replacing
  <2>3. PICK v \in Config \cup {Partial} : cfg' = [cfg EXCEPT !.temporary[op] = v]
    BY <1>6, <2>1, <2>2 DEF CreateTemporary, WriteTemporary, ChangeConfig
  <2>4. cfg'.target = cfg.target
    BY <2>2, <2>3, DirectoryEffect
  <2>5. tx' = tx /\ call'.op = op /\ call'.value = call.value /\ call'.name \in Replacing
        /\ call.name \in Replacing
    BY <1>6, <2>1 DEF CreateTemporary, WriteTemporary, stages, Replacing
  <2>6. QED
    BY <2>1, <2>4, <2>5 DEF ReplaceInv, Loadable, Replacing
<1>7. CASE SyncTemporary
  <2>1. /\ cfg' = cfg /\ tx' = tx /\ call'.op = call.op /\ call'.value = call.value
        /\ call'.name = "renameTemporary" /\ call.name = "syncTemporary"
    BY <1>7 DEF SyncTemporary, stages
  <2>2. QED
    BY <2>1 DEF ReplaceInv, Loadable, Replacing
<1>8. CASE RenameTemporary
  <2>1. call'.name = "syncConfig"
    BY <1>8 DEF RenameTemporary
  <2>2. QED
    BY <1>n, <2>1 DEF Replacing
<1>9. CASE SyncConfig \/ PowerLoss
  BY <1>9, <1>n DEF SyncConfig, PowerLoss, Return, Idle, Replacing
<1>10. CASE UNCHANGED vars
  BY <1>10 DEF vars, ReplaceInv, Loadable
<1>11. QED
  BY <1>1, <1>2, <1>3, <1>4, <1>5, <1>6, <1>7, <1>8, <1>9, <1>10, StepCases

-----------------------------------------------------------------------------
(* Where only power is lost. *)

\* No error or kill ends a call before its last step.
LEMMA CalmEnds ==
  ASSUME OnlyPowerIsLost, Calm
  PROVE  call' = call \/ At("reload") \/ At("idle")
<1> USE DEF OnlyPowerIsLost
<1>1. CASE Open \/ Close \/ CallFails \/ Kill
  BY <1>1 DEF Open, Close, CallFails, Kill, Ready
<1>2. CASE Reload \/ ReloadTimeout \/ \E c \in pending : LateReload(c)
  BY <1>2 DEF Reload, ReloadTimeout, LateReload
<1>3. ASSUME NEW op \in Op, Undo(op) \/ \E c \in env.candidates[op] : Preflight(op, c)
      PROVE  call' = call
  BY <1>3 DEF Undo, Preflight
<1>4. ASSUME NEW op \in Op, SyncsAgain(op) \/ Install(op) \/ RestoreBegins(op)
                            \/ Activate(op, "candidate") \/ Activate(op, "previous")
      PROVE  At("idle")
  BY <1>4 DEF SyncsAgain, Install, RestoreBegins, Activate, CanActivate, Ready, Idle, At
<1>5. QED
  BY <1>1, <1>2, <1>3, <1>4 DEF Calm

\* What was reported staged stays on every disk, and no call leaves the Caddyfile's
\* directory unsynced.
LEMMA PowerStep == TypeOK /\ PowerInv /\ [Next]_vars => PowerInv'
<1> SUFFICES ASSUME TypeOK, PowerInv, [Next]_vars, OnlyPowerIsLost'
             PROVE  PowerInv'
  BY DEF PowerInv
<1> USE DEF At, Goto
<1>e. env' = env
  BY EnvStep
<1>o. OnlyPowerIsLost
  BY <1>e DEF OnlyPowerIsLost
<1>i. /\ dirty \subseteq (IF call.name = "syncFiles" THEN {call.op} ELSE {})
      /\ call.name \in StageCalls \cup {"idle", "createTemporary", "reload"} => cfgDisk = {cfg}
      /\ call.name \in {"fillStage", "syncFiles", "renameStage", "removeStage"} => call.op \notin promised
      /\ \A op \in promised, s \in txDisk : s.final[op] \in Transaction
  BY <1>o DEF PowerInv
<1>t. /\ tx \in Stages /\ txDisk \subseteq Stages /\ tx \in txDisk /\ promised \subseteq Op
      /\ cfg \in Directory
  BY DEF TypeOK
<1>a. CaddyAssumption
  BY CaddyAssumption
\* A step that leaves the transactions alone, and ends no call of them.
<1>f. ASSUME UNCHANGED <<txDisk, dirty, promised>>, call.name # "syncFiles", call'.name \notin StageCalls,
             call'.name \in {"idle", "createTemporary", "reload"} => cfgDisk' = {cfg'}
      PROVE  PowerInv'
  BY <1>f, <1>i DEF PowerInv, StageCalls
\* A step of a staging call, which leaves the Caddyfile's directory alone.
<1>s. ASSUME UNCHANGED <<cfg, cfgDisk>>, cfgDisk = {cfg}, NEW op \in Op, call'.op = op,
             call'.name \in StageCalls,
             dirty' \subseteq (IF call'.name = "syncFiles" THEN {op} ELSE {}),
             call'.name # "syncStages" => op \notin promised',
             promised' \subseteq promised, \A s \in txDisk' : s \in txDisk \/ \A o \in promised' : s.final[o] = tx.final[o]
      PROVE  PowerInv'
  <2>1. \A o \in promised', s \in txDisk' : s.final[o] \in Transaction
    BY <1>i, <1>s, <1>t
  <2>2. QED
    BY <1>s, <2>1 DEF PowerInv, StageCalls
<1>1. CASE Calm
  <2>1. UNCHANGED <<cfg, cfgDisk, tx, txDisk, dirty, promised>>
    BY <1>1, CalmEffect
  <2>2. CASE call' = call
    BY <1>i, <2>1, <2>2 DEF PowerInv
  <2>3. CASE call' = Idle /\ call.name \in {"reload", "idle"}
    BY <1>f, <1>i, <2>1, <2>3 DEF Idle, StageCalls
  <2>4. ASSUME NEW op \in Op, Begins(op)
        PROVE  PowerInv'
    BY <1>i, <2>1, <2>4 DEF Begins, PowerInv, StageCalls
  <2>5. QED
    BY <1>1, <1>o, <2>2, <2>3, <2>4, CalmEffect, CalmEnds
<1>2. ASSUME NEW op \in Op, StageBegins(op)
      PROVE  PowerInv'
  <2>1. /\ UNCHANGED <<cfg, cfgDisk, promised, dirty>> /\ cfgDisk = {cfg} /\ dirty = {} /\ tx.final[op] = None
        /\ call'.name = "fillStage" /\ call'.op = op /\ ChangeStages([tx EXCEPT !.temporary[op] = Partial])
    BY <1>2, <1>i DEF StageBegins, files, Ready, Idle
  <2>2. op \notin promised
    BY <1>i, <1>t, <1>a, <2>1 DEF CaddyAssumption, Transaction
  <2>3. [tx EXCEPT !.temporary[op] = Partial].final = tx.final
    BY <1>t, StagesEffect
  <2>4. QED
    BY <1>s, <2>1, <2>2, <2>3, ChangeEffect DEF StageCalls
<1>3. ASSUME NEW op \in Op, Promotes(op)
      PROVE  PowerInv'
  <2>1. /\ UNCHANGED <<cfg, cfgDisk, promised, dirty>> /\ cfgDisk = {cfg} /\ dirty = {} /\ tx.final[op] = None
        /\ call'.name = "syncStages" /\ call'.op = op /\ ChangeStages(Promoted(tx, op))
    BY <1>3, <1>i DEF Promotes, files, Ready, Idle
  <2>2. op \notin promised
    BY <1>i, <1>t, <1>a, <2>1 DEF CaddyAssumption, Transaction
  <2>3. \A o \in promised : Promoted(tx, op).final[o] = tx.final[o]
    BY <1>t, <2>2, PromotedEffect
  <2>4. QED
    BY <1>s, <2>1, <2>3, ChangeEffect DEF StageCalls
<1>4. ASSUME NEW op \in Op, RollbackStage(op)
      PROVE  PowerInv'
  <2>1. /\ UNCHANGED <<cfg, cfgDisk, dirty>> /\ cfgDisk = {cfg} /\ dirty = {} /\ promised' = promised \ {op}
        /\ call'.name = "removeStage" /\ call'.op = op
    BY <1>4, <1>i DEF RollbackStage, files, Ready, Idle
  <2>2. PICK new : ChangeStages(new) /\ \A o \in promised' : new.final[o] = tx.final[o]
    <3>1. /\ [tx EXCEPT !.temporary[op] = Partial].final = tx.final
          /\ \A o \in Op \ {op} : [tx EXCEPT !.final[op] = Partial].final[o] = tx.final[o]
      BY <1>t, StagesEffect
    <3>2. QED
      BY <1>4, <1>t, <2>1, <3>1 DEF RollbackStage
  <2>3. QED
    BY <1>s, <2>1, <2>2, ChangeEffect DEF StageCalls
<1>5. ASSUME NEW op \in Op, RestoreCleans(op)
      PROVE  PowerInv'
  <2>1. UNCHANGED <<txDisk, dirty, promised>> /\ call.name = "idle" /\ call'.name = "syncRemoval"
    BY <1>5 DEF RestoreCleans, stages, Ready, Idle
  <2>2. QED
    BY <1>f, <2>1 DEF StageCalls
<1>6. CASE FillStage
  <2>1. PICK op \in Op, v \in Transaction : call.op = op /\ call.value = v
    BY <1>6 DEF FillStage, TypeOK
  <2>2. /\ UNCHANGED <<cfg, cfgDisk, promised>> /\ cfgDisk = {cfg} /\ dirty' \subseteq {op}
        /\ op \notin promised /\ call'.name = "syncFiles" /\ call'.op = op
        /\ ChangeStages([tx EXCEPT !.temporary[op] = v])
    BY <1>6, <1>i, <2>1 DEF FillStage, files, StageCalls
  <2>3. [tx EXCEPT !.temporary[op] = v].final = tx.final
    BY <1>t, StagesEffect
  <2>4. QED
    BY <1>s, <2>2, <2>3, ChangeEffect DEF StageCalls
<1>7. CASE SyncStageFiles
  <2>1. PICK op \in Op : call.op = op
    BY <1>7 DEF SyncStageFiles, TypeOK
  <2>2. /\ UNCHANGED <<cfg, cfgDisk, promised, tx, txDisk>> /\ cfgDisk = {cfg} /\ dirty' = {}
        /\ op \notin promised /\ call'.name = "renameStage" /\ call'.op = op
    BY <1>7, <1>i, <2>1 DEF SyncStageFiles, files, StageCalls
  <2>3. QED
    BY <1>s, <2>2 DEF StageCalls
<1>8. CASE RenameStage
  <2>1. PICK op \in Op : call.op = op
    BY <1>8 DEF RenameStage, TypeOK
  <2>2. /\ UNCHANGED <<cfg, cfgDisk, promised, dirty>> /\ cfgDisk = {cfg} /\ dirty = {}
        /\ op \notin promised /\ call'.name = "syncStages" /\ call'.op = op
        /\ ChangeStages(Promoted(tx, op))
    BY <1>8, <1>i, <2>1 DEF RenameStage, PromoteStage, Promoted, files, StageCalls
  <2>3. \A o \in promised : Promoted(tx, op).final[o] = tx.final[o]
    BY <1>t, <2>2, PromotedEffect
  <2>4. QED
    BY <1>s, <2>2, <2>3, ChangeEffect DEF StageCalls
<1>9. CASE SyncStages
  <2>1. /\ UNCHANGED <<cfg, cfgDisk, dirty, tx>> /\ cfgDisk = {cfg} /\ dirty = {} /\ call' = Idle
        /\ txDisk' = {tx} /\ promised' = IF Loadable(call.op) THEN promised \cup {call.op} ELSE promised
    BY <1>9, <1>i DEF SyncStages, files, StageCalls, Return
  <2>2. \A o \in promised', s \in txDisk' : s.final[o] \in Transaction
    BY <1>i, <1>t, <2>1 DEF Loadable
  <2>3. QED
    BY <2>1, <2>2 DEF PowerInv, Idle, StageCalls
<1>10. CASE RemoveStage
  <2>1. PICK op \in Op : call.op = op
    BY <1>10 DEF RemoveStage, TypeOK
  <2>2. /\ UNCHANGED <<cfg, cfgDisk, promised, dirty>> /\ cfgDisk = {cfg} /\ dirty = {}
        /\ op \notin promised /\ call'.name = "syncStages" /\ call'.op = op
    BY <1>10, <1>i, <2>1 DEF RemoveStage, files, StageCalls
  <2>3. PICK new : ChangeStages(new) /\ \A o \in promised : new.final[o] = tx.final[o]
    <3>1. /\ [tx EXCEPT !.temporary[op] = None].final = tx.final
          /\ \A o \in Op \ {op} : [tx EXCEPT !.final[op] = None].final[o] = tx.final[o]
      BY <1>t, StagesEffect
    <3>2. QED
      BY <1>10, <1>t, <2>1, <2>2, <3>1 DEF RemoveStage
  <2>4. QED
    BY <1>s, <2>2, <2>3, ChangeEffect DEF StageCalls
<1>11. CASE SyncRemoval \/ SyncConfig
  <2>1. UNCHANGED <<txDisk, dirty, promised, cfg>> /\ cfgDisk' = {cfg}
        /\ call'.name \in {"idle", "createTemporary"} /\ call.name \in {"syncRemoval", "syncConfig"}
    BY <1>11 DEF SyncRemoval, SyncConfig, stages, Return, Idle
  <2>2. QED
    BY <1>f, <2>1 DEF StageCalls
<1>12. CASE CreateTemporary \/ WriteTemporary \/ SyncTemporary
  <2>1. UNCHANGED <<txDisk, dirty, promised>> /\ call.name \in Replacing
        /\ call'.name \in {"writeTemporary", "syncTemporary", "renameTemporary"}
    BY <1>12 DEF CreateTemporary, WriteTemporary, SyncTemporary, stages, Replacing
  <2>2. QED
    BY <1>f, <2>1 DEF StageCalls, Replacing
<1>13. CASE RenameTemporary
  <2>1. UNCHANGED <<txDisk, dirty, promised>> /\ call.name = "renameTemporary" /\ call'.name = "syncConfig"
    BY <1>13 DEF RenameTemporary, stages
  <2>2. QED
    BY <1>f, <2>1 DEF StageCalls
<1>14. CASE PowerLoss
  <2>1. PICK s \in txDisk, lost \in SUBSET dirty : tx' = AfterPowerLoss(s, lost)
    BY <1>14 DEF PowerLoss
  <2>2. /\ call' = Idle /\ cfgDisk' = {cfg'} /\ txDisk' = {tx'} /\ dirty' = {} /\ promised' = promised
    BY <1>14 DEF PowerLoss, Return
  <2>3. s \in Stages /\ lost \in SUBSET Op /\ \A op \in promised : op \notin lost
    BY <1>i, <1>t DEF TypeOK
  <2>4. \A op \in promised : tx'.final[op] \in Transaction
    BY <1>i, <1>t, <2>1, <2>3, TornEffect
  <2>5. QED
    BY <2>2, <2>4 DEF PowerInv, Idle, StageCalls
<1>15. CASE UNCHANGED vars
  BY <1>15, <1>i DEF vars, PowerInv
<1>16. QED
  BY <1>1, <1>2, <1>3, <1>4, <1>5, <1>6, <1>7, <1>8, <1>9, <1>10, <1>11, <1>12, <1>13, <1>14, <1>15, StepCases

-----------------------------------------------------------------------------
(* The theorems. *)

CaddyInv == TypeOK /\ RenameInv /\ ReplaceInv /\ PowerInv

LEMMA InitInvariant == Init => CaddyInv
<1> SUFFICES ASSUME Init PROVE CaddyInv
  OBVIOUS
<1>a. CaddyAssumption
  BY CaddyAssumption
<1>1. /\ call = Idle /\ cfgDisk = {cfg} /\ txDisk = {tx} /\ dirty = {} /\ promised = {} /\ pending = {}
      /\ cfg = [target |-> Initial, temporary |-> [op \in Op |-> None]]
      /\ tx = [final |-> [op \in Op |-> None], temporary |-> [op \in Op |-> None]]
      /\ prepared = [op \in Op |-> None]
      /\ env \in [faults : SUBSET FaultKinds, candidates : [Op -> SUBSET Config]]
  BY <1>a DEF Init, CaddyAssumption
<1>2. cfg \in Directory
  BY <1>1, <1>a DEF CaddyAssumption, Directory
<1>3. tx \in Stages
  BY <1>1 DEF Stages
<1>4. prepared \in [Op -> Transaction \cup {None}]
  BY <1>1
<1>5. TypeOK
  BY <1>1, <1>2, <1>3, <1>4 DEF TypeOK, Idle, At, CallNames, StageCalls, Replacing
<1>6. RenameInv /\ ReplaceInv /\ PowerInv
  BY <1>1 DEF RenameInv, ReplaceInv, PowerInv, Idle, At, Replacing
<1>7. QED
  BY <1>5, <1>6 DEF CaddyInv

\* Every directory holds what replaceTarget and Stage may leave in it, and a call
\* that goes on still has the file and the transaction it began with.
THEOREM CaddyInvariant == Spec => []CaddyInv
<1>1. CaddyInv /\ [Next]_vars => CaddyInv'
  BY TypeStep, ReplaceStep, PowerStep DEF CaddyInv
<1>2. QED
  BY <1>1, InitInvariant, PTL DEF Spec

\* The Caddyfile is whole at every step of every call and after every fault.
THEOREM TargetTheorem == Spec => []TargetNeverTorn
<1>1. CaddyInv => TargetNeverTorn
  BY DEF CaddyInv, TypeOK, Directory, TargetNeverTorn
<1>2. QED
  BY <1>1, CaddyInvariant, PTL

\* A transaction reported staged is on every disk a loss of power may leave.
THEOREM StagedTheorem == Spec => []StagedIsDurable
<1>1. CaddyInv => StagedIsDurable
  <2> SUFFICES ASSUME CaddyInv, OnlyPowerIsLost, NEW op \in promised
               PROVE  op \notin dirty /\ \A s \in txDisk : s.final[op] \in Transaction
    BY DEF StagedIsDurable
  <2>1. QED
    BY DEF CaddyInv, PowerInv, At
<1>2. QED
  BY <1>1, CaddyInvariant, PTL

\* What is loaded is what a restart of Caddy would load, whatever the disk kept.
THEOREM ActivatedTheorem == Spec => []ActivatedIsPersistent
<1>1. CaddyInv => ActivatedIsPersistent
  <2> SUFFICES ASSUME CaddyInv, OnlyPowerIsLost, At("reload"), NEW s \in cfgDisk
               PROVE  s.target = call.value
    BY DEF ActivatedIsPersistent
  <2>1. cfgDisk = {cfg} /\ call.value = cfg.target
    BY DEF CaddyInv, PowerInv, ReplaceInv, At
  <2>2. QED
    BY <2>1
<1>2. QED
  BY <1>1, CaddyInvariant, PTL

\* A live file is exchanged between the two contents of its transaction, and no other.
THEOREM ReplacesTheorem == Spec => ReplacesOnlyItsOwn
<1> DEFINE Own == At("renameTemporary") /\ cfg'.target # cfg.target /\ call'.name = "syncConfig" =>
                    /\ Loadable(call.op)
                    /\ {cfg.target, cfg'.target} = {tx.final[call.op].previous, tx.final[call.op].candidate}
<1>1. CaddyInv /\ [Next]_vars => Own
  <2> SUFFICES ASSUME CaddyInv, [Next]_vars, At("renameTemporary"), cfg'.target # cfg.target,
                      call'.name = "syncConfig"
               PROVE  /\ Loadable(call.op)
                      /\ {cfg.target, cfg'.target} = {tx.final[call.op].previous, tx.final[call.op].candidate}
    OBVIOUS
  <2> USE DEF At
  <2>t. TypeOK
    BY DEF CaddyInv
  <2>1. RenameTemporary
    <3>1. ~Calm
      BY <2>t, CalmEffect
    <3>2. \A op \in Op : ~(StageBegins(op) \/ Promotes(op) \/ RollbackStage(op) \/ RestoreCleans(op))
      BY DEF StageBegins, Promotes, RollbackStage, RestoreCleans, Ready, Idle
    <3>3. ~(FillStage \/ SyncStageFiles \/ RenameStage \/ SyncStages \/ RemoveStage)
      BY DEF FillStage, SyncStageFiles, RenameStage, SyncStages, RemoveStage
    <3>4. ~(SyncRemoval \/ CreateTemporary \/ WriteTemporary \/ SyncTemporary \/ SyncConfig)
      BY DEF SyncRemoval, CreateTemporary, WriteTemporary, SyncTemporary, SyncConfig
    <3>5. ~PowerLoss /\ ~UNCHANGED vars
      BY DEF PowerLoss, Return, Idle, vars
    <3>6. QED
      BY <3>1, <3>2, <3>3, <3>4, <3>5, StepCases
  <2>2. PICK op \in Op : call.op = op
    BY <2>t DEF TypeOK
  <2>3. cfg' = Replaced(cfg, op)
    BY <2>1, <2>2 DEF RenameTemporary, Replaced
  <2>4. cfg \in Directory /\ cfg.temporary[op] = call.value /\ call.value \in Config
    BY <2>2 DEF CaddyInv, TypeOK, RenameInv, Replacing
  <2>5. cfg'.target = call.value
    BY <2>3, <2>4, ReplacedEffect
  <2>6. QED
    BY <2>5 DEF CaddyInv, ReplaceInv, Replacing
<1>2. QED
  BY <1>1, CaddyInvariant, PTL DEF Spec, ReplacesOnlyItsOwn

-----------------------------------------------------------------------------
(* What covers the live state, where faults are of one sort. *)

\* A transaction holds a candidate its operation asked for.
CandidatesOf(dirs) ==
  \A op \in Op : dirs[op] \in Transaction => dirs[op].candidate \in env.candidates[op]

CandidateInv ==
  /\ CandidatesOf(prepared)
  /\ \A s \in txDisk : CandidatesOf(s.final) /\ CandidatesOf(s.temporary)
  /\ At("fillStage") => call.value.candidate \in env.candidates[call.op]

\* An error or a kill finds nothing unsynced; a loss of power finds one directory
\* unsynced, the one the call is changing.
DiskInv ==
  OneSortOfFault =>
    /\ pending = {}
    /\ "power" \notin env.faults => cfgDisk = {cfg} /\ txDisk = {tx}
    /\ call.name \notin StageCalls => txDisk = {tx}
    /\ call.name \in {"fillStage", "syncFiles", "renameStage"} =>
         \A s \in txDisk : s.final[call.op] = None
    /\ call.name \in Replacing =>
         \A s \in cfgDisk : s.target = cfg.target /\ s.temporary[call.op] \in {None, Partial, call.value}
    /\ call.name \in {"syncRemoval", "createTemporary"} => cfg.temporary[call.op] = None

\* The operations of done, undone one after the other, lead from c to Initial:
\* each one's previous content is Initial or the candidate of another, no two have
\* the same, and none has c.
LinkedBy(done, c, final) ==
  /\ \A op \in done : final[op] \in Transaction
  /\ c = Initial \/ \E op \in done : final[op].candidate = c
  /\ \A op \in done : /\ final[op].previous # c
                      /\ \/ final[op].previous = Initial
                         \/ \E o \in done : final[o].candidate = final[op].previous
  /\ \A op, o \in done : final[op].previous = final[o].previous => op = o

Linked(c, final) == \E done \in SUBSET Op : LinkedBy(done, c, final)

CoversRuntime(r, final) ==
  r = Adapt[Initial] \/ \E op \in Op : final[op] \in Transaction /\ Adapt[final[op].candidate] = r

\* Whatever the disks may hold, the file is linked to Initial.
LinkInv ==
  OneSortOfFault /\ NothingReturns =>
    /\ \A s \in cfgDisk, t \in txDisk : Linked(s.target, t.final)
    /\ CoversRuntime(runtime, tx.final)

\* A live file may be linked by an operation more, or by one less.
LEMMA LinkedKeeps ==
  ASSUME NEW c, NEW f, NEW g, Linked(c, f), \A op \in Op : f[op] \in Transaction => g[op] = f[op]
  PROVE  Linked(c, g)
<1>1. PICK done \in SUBSET Op : LinkedBy(done, c, f)
  BY DEF Linked
<1>2. \A op \in done : g[op] = f[op]
  BY <1>1 DEF LinkedBy
<1>3. LinkedBy(done, c, g)
  BY <1>1, <1>2 DEF LinkedBy
<1>4. QED
  BY <1>3 DEF Linked

\* RollbackStage: the transaction that goes links nothing, for the file is its previous content.
LEMMA LinkedRemoves ==
  ASSUME NEW c, NEW f, NEW g, Linked(c, f), NEW op \in Op, f[op].previous = c,
         \A o \in Op \ {op} : g[o] = f[o]
  PROVE  Linked(c, g)
<1>1. PICK done \in SUBSET Op : LinkedBy(done, c, f)
  BY DEF Linked
<1>2. \A o \in done : g[o] = f[o]
  BY <1>1 DEF LinkedBy
<1>3. LinkedBy(done, c, g)
  BY <1>1, <1>2 DEF LinkedBy
<1>4. QED
  BY <1>3 DEF Linked

\* Candidates tell operations apart.
LEMMA Distinct ==
  ASSUME NothingReturns, NEW f, CandidatesOf(f), NEW op \in Op, f[op] \in Transaction
  PROVE  /\ f[op].candidate # Initial
         /\ \A o \in Op : f[o] \in Transaction /\ f[o].candidate = f[op].candidate => o = op
  BY DEF NothingReturns, CandidatesOf

\* Install.
LEMMA LinkedInstalls ==
  ASSUME NothingReturns, NEW f, CandidatesOf(f), NEW op \in Op, f[op] \in Transaction,
         f[op].previous # f[op].candidate, Linked(f[op].previous, f)
  PROVE  Linked(f[op].candidate, f)
<1>1. PICK done \in SUBSET Op : LinkedBy(done, f[op].previous, f)
  BY DEF Linked
<1>2. op \notin done /\ \A o \in done : f[o] \in Transaction /\ f[o].candidate # f[op].candidate
  BY <1>1, Distinct DEF LinkedBy
<1>3. LinkedBy(done \cup {op}, f[op].candidate, f)
  BY <1>1, <1>2, Distinct DEF LinkedBy
<1>4. done \cup {op} \in SUBSET Op
  OBVIOUS
<1>5. QED
  BY <1>3, <1>4 DEF Linked

\* Restore.
LEMMA LinkedRestores ==
  ASSUME NothingReturns, NEW f, CandidatesOf(f), NEW op \in Op, f[op] \in Transaction,
         Linked(f[op].candidate, f)
  PROVE  Linked(f[op].previous, f)
<1>1. PICK done \in SUBSET Op : LinkedBy(done, f[op].candidate, f)
  BY DEF Linked
<1>2. op \in done
  BY <1>1, Distinct DEF LinkedBy
<1>3. LinkedBy(done \ {op}, f[op].previous, f)
  BY <1>1, <1>2 DEF LinkedBy
<1>4. QED
  BY <1>3 DEF Linked

LEMMA LinkedCovers ==
  ASSUME NEW c, NEW f, Linked(c, f)
  PROVE  /\ c = Initial \/ \E op \in Op : f[op] \in Transaction /\ f[op].candidate = c
         /\ CoversRuntime(Adapt[c], f)
  BY DEF Linked, LinkedBy, CoversRuntime

\* Stage takes its candidate from Preflight, and everything after it from Stage.
LEMMA CandidateStep == TypeOK /\ CandidateInv /\ [Next]_vars => CandidateInv'
<1> SUFFICES ASSUME TypeOK, CandidateInv, [Next]_vars
             PROVE  CandidateInv'
  OBVIOUS
<1> USE DEF At, Goto
<1>e. env' = env
  BY EnvStep
<1>i. /\ CandidatesOf(prepared)
      /\ \A s \in txDisk : CandidatesOf(s.final) /\ CandidatesOf(s.temporary)
      /\ call.name = "fillStage" => call.value.candidate \in env.candidates[call.op]
  BY DEF CandidateInv
<1>t. /\ tx \in Stages /\ tx \in txDisk /\ txDisk \subseteq Stages
  BY DEF TypeOK
<1>a. None \notin Transaction /\ Partial \notin Transaction
  BY CaddyAssumption DEF CaddyAssumption, Transaction
<1>s. ASSUME NEW new, CandidatesOf(new.final), CandidatesOf(new.temporary),
             txDisk' \subseteq txDisk \cup {new}, prepared' = prepared,
             call'.name = "fillStage" => call'.value.candidate \in env.candidates[call'.op]
      PROVE  CandidateInv'
  BY <1>e, <1>i, <1>s DEF CandidateInv, CandidatesOf
<1>u. ASSUME txDisk' \subseteq txDisk, prepared' = prepared, call'.name # "fillStage"
      PROVE  CandidateInv'
  BY <1>i, <1>s, <1>t, <1>u
\* A new entry of one operation.
<1>n. ASSUME NEW op \in Op, NEW v \in Transaction \cup {None, Partial},
             v \in Transaction => v.candidate \in env.candidates[op]
      PROVE  /\ CandidatesOf([tx EXCEPT !.temporary[op] = v].final)
             /\ CandidatesOf([tx EXCEPT !.temporary[op] = v].temporary)
             /\ CandidatesOf([tx EXCEPT !.final[op] = v].final)
             /\ CandidatesOf([tx EXCEPT !.final[op] = v].temporary)
  <2>1. CandidatesOf(tx.final) /\ CandidatesOf(tx.temporary)
    BY <1>i, <1>t
  <2>2. /\ [tx EXCEPT !.temporary[op] = v].temporary[op] = v
        /\ \A o \in Op \ {op} : [tx EXCEPT !.temporary[op] = v].temporary[o] = tx.temporary[o]
    BY <1>t DEF Stages
  <2>3. QED
    BY <1>n, <1>t, <2>1, <2>2, StagesEffect DEF CandidatesOf
<1>p. ASSUME NEW op \in Op
      PROVE  CandidatesOf(Promoted(tx, op).final) /\ CandidatesOf(Promoted(tx, op).temporary)
  <2>1. CandidatesOf(tx.final) /\ CandidatesOf(tx.temporary)
    BY <1>i, <1>t
  <2>2. /\ Promoted(tx, op).final[op] = tx.temporary[op] /\ Promoted(tx, op).temporary[op] = None
        /\ \A o \in Op \ {op} : /\ Promoted(tx, op).final[o] = tx.final[o]
                                /\ Promoted(tx, op).temporary[o] = tx.temporary[o]
    BY <1>t, PromotedEffect
  <2>3. QED
    BY <1>a, <2>1, <2>2 DEF CandidatesOf
<1>1. CASE Calm
  <2>1. txDisk' = txDisk /\ (call'.name = "fillStage" => call' = call)
    BY <1>1, CalmEffect DEF Begins, Idle
  <2>2. CandidatesOf(prepared')
    <3>1. CASE prepared' = prepared
      BY <1>i, <3>1
    <3>2. CASE prepared' = [op \in Op |-> None]
      BY <1>a, <3>2 DEF CandidatesOf
    <3>3. ASSUME NEW op \in Op, NEW c \in env.candidates[op],
                 prepared' = [prepared EXCEPT ![op] = [previous |-> cfg.target, candidate |-> c]]
          PROVE  CandidatesOf(prepared')
      <4>1. [previous |-> cfg.target, candidate |-> c].candidate = c
        OBVIOUS
      <4>2. prepared'[op].candidate = c /\ \A o \in Op \ {op} : prepared'[o] = prepared[o]
        BY <3>3, <4>1 DEF TypeOK
      <4>3. QED
        BY <1>i, <4>2 DEF CandidatesOf
    <3>4. \/ prepared' = prepared \/ prepared' = [op \in Op |-> None]
          \/ \E op \in Op : \E c \in env.candidates[op] :
               prepared' = [prepared EXCEPT ![op] = [previous |-> cfg.target, candidate |-> c]]
      <4>1. CASE Open \/ Close \/ CallFails \/ Kill \/ Reload \/ ReloadTimeout
                 \/ (\E c \in pending : LateReload(c))
        BY <4>1 DEF Open, Close, CallFails, Kill, Reload, ReloadTimeout, LateReload
      <4>2. ASSUME NEW op \in Op, Undo(op) \/ (\E c \in env.candidates[op] : Preflight(op, c))
            PROVE  \/ prepared' = prepared
                   \/ \E c \in env.candidates[op] :
                        prepared' = [prepared EXCEPT ![op] = [previous |-> cfg.target, candidate |-> c]]
        BY <4>2 DEF Undo, Preflight
      <4>3. ASSUME NEW op \in Op, SyncsAgain(op) \/ Install(op) \/ RestoreBegins(op)
                    \/ Activate(op, "candidate") \/ Activate(op, "previous")
            PROVE  prepared' = prepared
        BY <4>3 DEF SyncsAgain, Install, RestoreBegins, Activate
      <4>4. QED
        BY <1>1, <4>1, <4>2, <4>3 DEF Calm
    <3>5. QED
      BY <3>1, <3>2, <3>3, <3>4
  <2>3. QED
    BY <1>e, <1>i, <2>1, <2>2 DEF CandidateInv, CandidatesOf
<1>2. ASSUME NEW op \in Op, StageBegins(op)
      PROVE  CandidateInv'
  <2>1. /\ ChangeStages([tx EXCEPT !.temporary[op] = Partial]) /\ prepared' = prepared
        /\ call'.op = op /\ call'.value = prepared[op] /\ prepared[op] # None
    BY <1>2 DEF StageBegins
  <2>2. prepared[op].candidate \in env.candidates[op]
    BY <1>i, <2>1 DEF TypeOK, CandidatesOf
  <2>3. QED
    BY <1>a, <1>n, <1>s, <2>1, <2>2, ChangeEffect
<1>3. ASSUME NEW op \in Op, Promotes(op)
      PROVE  CandidateInv'
  <2>1. ChangeStages(Promoted(tx, op)) /\ prepared' = prepared /\ call'.name = "syncStages"
    BY <1>3 DEF Promotes
  <2>2. QED
    BY <1>p, <1>s, <2>1, ChangeEffect
<1>4. ASSUME NEW op \in Op, RollbackStage(op)
      PROVE  CandidateInv'
  <2>1. /\ prepared' = prepared /\ call'.name = "removeStage"
        /\ \/ ChangeStages([tx EXCEPT !.final[op] = Partial])
           \/ ChangeStages([tx EXCEPT !.temporary[op] = Partial])
    BY <1>4 DEF RollbackStage
  <2>2. QED
    BY <1>a, <1>n, <1>s, <2>1, ChangeEffect
<1>5. ASSUME NEW op \in Op, RestoreCleans(op)
      PROVE  CandidateInv'
  BY <1>5, <1>u DEF RestoreCleans, stages
<1>6. CASE FillStage
  <2>1. PICK op \in Op, v \in Transaction : call.op = op /\ call.value = v
    BY <1>6 DEF FillStage, TypeOK
  <2>2. /\ ChangeStages([tx EXCEPT !.temporary[op] = v]) /\ prepared' = prepared
        /\ call'.name = "syncFiles" /\ v.candidate \in env.candidates[op]
    BY <1>6, <1>i, <2>1 DEF FillStage
  <2>3. QED
    BY <1>n, <1>s, <2>2, ChangeEffect
<1>7. CASE RenameStage
  <2>1. PICK op \in Op : call.op = op
    BY <1>7 DEF RenameStage, TypeOK
  <2>2. ChangeStages(Promoted(tx, op)) /\ prepared' = prepared /\ call'.name = "syncStages"
    BY <1>7, <2>1 DEF RenameStage, PromoteStage, Promoted
  <2>3. QED
    BY <1>p, <1>s, <2>2, ChangeEffect
<1>8. CASE RemoveStage
  <2>1. PICK op \in Op : call.op = op
    BY <1>8 DEF RemoveStage, TypeOK
  <2>2. /\ prepared' = prepared /\ call'.name = "syncStages"
        /\ \/ ChangeStages([tx EXCEPT !.final[op] = None])
           \/ ChangeStages([tx EXCEPT !.temporary[op] = None])
    BY <1>8, <2>1 DEF RemoveStage
  <2>3. QED
    BY <1>a, <1>n, <1>s, <2>2, ChangeEffect
<1>9. CASE SyncStageFiles \/ SyncStages \/ SyncRemoval \/ SyncConfig
  BY <1>9, <1>t, <1>u DEF SyncStageFiles, SyncStages, SyncRemoval, SyncConfig, stages, Return, Idle
<1>10. CASE CreateTemporary \/ WriteTemporary \/ SyncTemporary
  BY <1>10, <1>u DEF CreateTemporary, WriteTemporary, SyncTemporary, stages
<1>11. CASE RenameTemporary
  <2>1. txDisk' = txDisk /\ prepared' = prepared /\ call'.name = "syncConfig"
    BY <1>11 DEF RenameTemporary, stages
  <2>2. QED
    BY <1>u, <2>1
<1>12. CASE PowerLoss
  <2>1. PICK s \in txDisk, lost \in SUBSET dirty : tx' = AfterPowerLoss(s, lost)
    BY <1>12 DEF PowerLoss
  <2>2. call' = Idle /\ txDisk' = {tx'} /\ prepared' = [op \in Op |-> None]
    BY <1>12 DEF PowerLoss, Return
  <2>3. s \in Stages /\ lost \in SUBSET Op /\ CandidatesOf(s.final) /\ CandidatesOf(s.temporary)
    BY <1>i, <1>t DEF TypeOK
  <2>4. CandidatesOf(tx'.final) /\ CandidatesOf(tx'.temporary)
    BY <1>a, <2>1, <2>3, TornEffect DEF CandidatesOf
  <2>5. CandidatesOf(prepared')
    BY <1>a, <2>2 DEF CandidatesOf
  <2>6. QED
    BY <1>e, <2>2, <2>4, <2>5 DEF CandidateInv, CandidatesOf, Idle
<1>13. CASE UNCHANGED vars
  BY <1>13, <1>i DEF vars, CandidateInv, CandidatesOf
<1>14. QED
  BY <1>1, <1>2, <1>3, <1>4, <1>5, <1>6, <1>7, <1>8, <1>9, <1>10, <1>11, <1>12, <1>13, StepCases

\* No step leaves more unsynced than the call in progress accounts for.
LEMMA DiskStep == TypeOK /\ RenameInv /\ PowerInv /\ DiskInv /\ [Next]_vars => DiskInv'
<1> SUFFICES ASSUME TypeOK, RenameInv, PowerInv, DiskInv, [Next]_vars, OneSortOfFault'
             PROVE  DiskInv'
  BY DEF DiskInv
<1> USE DEF At, Goto
<1>e. env' = env
  BY EnvStep
<1>o. OneSortOfFault
  BY <1>e DEF OneSortOfFault, OnlyPowerIsLost
<1>i. /\ pending = {}
      /\ "power" \notin env.faults => cfgDisk = {cfg} /\ txDisk = {tx}
      /\ call.name \notin StageCalls => txDisk = {tx}
      /\ call.name \in {"fillStage", "syncFiles", "renameStage"} =>
           \A s \in txDisk : s.final[call.op] = None
      /\ call.name \in Replacing =>
           \A s \in cfgDisk : s.target = cfg.target /\ s.temporary[call.op] \in {None, Partial, call.value}
      /\ call.name \in {"syncRemoval", "createTemporary"} => cfg.temporary[call.op] = None
  BY <1>o DEF DiskInv
<1>k. call.name \in StageCalls \cup {"idle", "createTemporary", "reload"} => cfgDisk = {cfg}
  BY <1>i, <1>o DEF PowerInv, OneSortOfFault
<1>t. /\ tx \in Stages /\ tx \in txDisk /\ txDisk \subseteq Stages
      /\ cfg \in Directory /\ cfg \in cfgDisk /\ cfgDisk \subseteq Directory
      /\ call.name \in Replacing => call.op \in Op /\ call.value \in Config
  BY DEF TypeOK, Replacing
\* A step of a staging call.
<1>s. ASSUME UNCHANGED <<cfg, cfgDisk, pending>>, call'.name \in StageCalls,
             NEW new, tx' = new, txDisk' \subseteq txDisk \cup {new},
             "power" \notin env.faults => txDisk' = {new},
             call'.name \in {"fillStage", "syncFiles", "renameStage"} =>
               \A s \in txDisk \cup {new} : s.final[call'.op] = None
      PROVE  DiskInv'
  BY <1>e, <1>i, <1>s DEF DiskInv, StageCalls, Replacing
\* A step outside of one.
<1>f. ASSUME UNCHANGED <<tx, txDisk, pending>>, call.name \notin StageCalls, call'.name \notin StageCalls,
             "power" \notin env.faults => cfgDisk' = {cfg'},
             call'.name \in Replacing => 
               \A s \in cfgDisk' : s.target = cfg'.target /\ s.temporary[call'.op] \in {None, Partial, call'.value},
             call'.name \in {"syncRemoval", "createTemporary"} => cfg'.temporary[call'.op] = None
      PROVE  DiskInv'
  BY <1>e, <1>i, <1>f DEF DiskInv, StageCalls
<1>1. CASE Calm
  <2>1. UNCHANGED <<cfg, cfgDisk, tx, txDisk>>
    BY <1>1, CalmEffect
  <2>2. pending' = pending
    <3> USE DEF caddy
    <3>1. CASE Open \/ Close \/ CallFails \/ Reload
      BY <3>1 DEF Open, Close, CallFails, Reload
    <3>2. CASE Kill \/ ReloadTimeout \/ \E c \in pending : LateReload(c)
      BY <1>i, <1>o, <3>2 DEF Kill, ReloadTimeout, OneSortOfFault, OnlyPowerIsLost
    <3>3. ASSUME NEW op \in Op, Undo(op) \/ (\E c \in env.candidates[op] : Preflight(op, c))
          PROVE  pending' = pending
      BY <3>3 DEF Undo, Preflight
    <3>4. ASSUME NEW op \in Op, SyncsAgain(op) \/ Install(op) \/ RestoreBegins(op)
                    \/ Activate(op, "candidate") \/ Activate(op, "previous")
          PROVE  pending' = pending
      BY <3>4 DEF SyncsAgain, Install, RestoreBegins, Activate
    <3>5. QED
      BY <1>1, <3>1, <3>2, <3>3, <3>4 DEF Calm
  <2>3. CASE call' = call
    BY <1>e, <1>i, <2>1, <2>2, <2>3 DEF DiskInv
  <2>4. CASE call' = Idle /\ (call.name \in {"reload", "idle"} \/ "power" \notin env.faults)
    BY <1>e, <1>i, <2>1, <2>2, <2>4 DEF DiskInv, Idle, StageCalls, Replacing
  <2>5. ASSUME NEW op \in Op, Begins(op)
        PROVE  DiskInv'
    <3>1. CASE call'.name = "syncStages"
      BY <1>i, <1>s, <1>t, <2>1, <2>2, <3>1 DEF StageCalls
    <3>2. CASE call'.name = "createTemporary"
      BY <1>f, <1>k, <1>i, <2>1, <2>2, <2>5, <3>2 DEF Begins, StageCalls
    <3>3. CASE call'.name = "reload"
      BY <1>f, <1>i, <2>1, <2>2, <2>5, <3>3 DEF Begins, StageCalls, Replacing
    <3>4. QED
      BY <2>5, <3>1, <3>2, <3>3 DEF Begins
  <2>6. QED
    <3>1. CASE OnlyPowerIsLost
      BY <1>1, <2>3, <2>4, <2>5, <3>1, CalmEffect, CalmEnds
    <3>2. CASE "power" \notin env.faults
      BY <1>1, <2>3, <2>4, <2>5, <3>2, CalmEffect
    <3>3. QED
      BY <1>o, <3>1, <3>2 DEF OneSortOfFault
<1>2. ASSUME NEW op \in Op, StageBegins(op)
      PROVE  DiskInv'
  <2>1. /\ UNCHANGED <<cfg, cfgDisk, pending>> /\ ChangeStages([tx EXCEPT !.temporary[op] = Partial])
        /\ call.name = "idle" /\ call'.name = "fillStage" /\ call'.op = op /\ tx.final[op] = None
    BY <1>2 DEF StageBegins, files, caddy, Ready, Idle
  <2>2. [tx EXCEPT !.temporary[op] = Partial].final = tx.final /\ txDisk = {tx}
    BY <1>i, <1>t, <2>1, StagesEffect DEF StageCalls
  <2>3. QED
    BY <1>s, <2>1, <2>2, ChangeEffect DEF StageCalls
<1>3. ASSUME NEW op \in Op, Promotes(op) \/ RollbackStage(op)
      PROVE  DiskInv'
  <2>1. /\ UNCHANGED <<cfg, cfgDisk, pending>> /\ call'.name \in {"syncStages", "removeStage"}
        /\ \E new : ChangeStages(new)
    BY <1>3 DEF Promotes, RollbackStage, files, caddy
  <2>2. QED
    BY <1>s, <2>1, ChangeEffect DEF StageCalls
<1>4. ASSUME NEW op \in Op, RestoreCleans(op)
      PROVE  DiskInv'
  <2>1. /\ UNCHANGED <<tx, txDisk, pending>> /\ call.name = "idle" /\ call'.name = "syncRemoval"
        /\ ChangeConfig([cfg EXCEPT !.temporary[op] = None])
    BY <1>4 DEF RestoreCleans, stages, caddy, Ready, Idle
  <2>2. [cfg EXCEPT !.temporary[op] = None].temporary[op] = None /\ call'.op = op
    BY <1>4, <1>t, DirectoryEffect DEF RestoreCleans
  <2>3. QED
    BY <1>f, <2>1, <2>2, ChangeEffect DEF StageCalls, Replacing
<1>5. CASE FillStage
  <2>1. PICK op \in Op, v \in Transaction : call.op = op /\ call.value = v
    BY <1>5 DEF FillStage, TypeOK
  <2>2. /\ UNCHANGED <<cfg, cfgDisk, pending>> /\ ChangeStages([tx EXCEPT !.temporary[op] = v])
        /\ call.name = "fillStage" /\ call'.name = "syncFiles" /\ call'.op = op
    BY <1>5, <2>1 DEF FillStage, files, caddy
  <2>3. [tx EXCEPT !.temporary[op] = v].final = tx.final
    BY <1>t, StagesEffect
  <2>4. QED
    BY <1>i, <1>s, <1>t, <2>1, <2>2, <2>3, ChangeEffect DEF StageCalls
<1>6. CASE SyncStageFiles
  <2>1. /\ UNCHANGED <<cfg, cfgDisk, pending, tx, txDisk>>
        /\ call.name = "syncFiles" /\ call'.name = "renameStage" /\ call'.op = call.op
    BY <1>6 DEF SyncStageFiles, files, caddy
  <2>2. QED
    BY <1>i, <1>s, <1>t, <2>1 DEF StageCalls
<1>7. CASE RenameStage \/ RemoveStage
  <2>1. /\ UNCHANGED <<cfg, cfgDisk, pending>> /\ call'.name = "syncStages"
        /\ \E new : ChangeStages(new)
    BY <1>7 DEF RenameStage, RemoveStage, PromoteStage, files, caddy
  <2>2. QED
    BY <1>s, <2>1, ChangeEffect DEF StageCalls
<1>8. CASE SyncStages
  <2>1. UNCHANGED <<cfg, cfgDisk, pending, tx>> /\ txDisk' = {tx} /\ call' = Idle
    BY <1>8 DEF SyncStages, files, caddy, Return
  <2>2. QED
    BY <1>e, <1>i, <2>1 DEF DiskInv, Idle, StageCalls, Replacing
<1>9. CASE SyncRemoval \/ SyncConfig
  <2>1. /\ UNCHANGED <<cfg, tx, txDisk, pending>> /\ cfgDisk' = {cfg}
        /\ call.name \in {"syncRemoval", "syncConfig"} /\ call'.name \in {"idle", "createTemporary"}
        /\ call'.name = "createTemporary" => call'.op = call.op /\ call.name = "syncRemoval"
    BY <1>9 DEF SyncRemoval, SyncConfig, stages, caddy, Return, Idle
  <2>2. QED
    BY <1>f, <1>i, <2>1 DEF StageCalls, Replacing
<1>10. CASE CreateTemporary \/ WriteTemporary
  <2>1. PICK op \in Op : call.op = op
    BY <1>10 DEF CreateTemporary, WriteTemporary, TypeOK
  <2>2. /\ UNCHANGED <<tx, txDisk, pending>> /\ call.name \in Replacing
        /\ call'.name \in {"writeTemporary", "syncTemporary"} /\ call'.op = op /\ call'.value = call.value
    BY <1>10, <2>1 DEF CreateTemporary, WriteTemporary, stages, caddy, Replacing
  <2>3. PICK v \in {Partial, call.value} : ChangeConfig([cfg EXCEPT !.temporary[op] = v])
    BY <1>10, <2>1 DEF CreateTemporary, WriteTemporary
  <2>4. /\ [cfg EXCEPT !.temporary[op] = v].target = cfg.target
        /\ [cfg EXCEPT !.temporary[op] = v].temporary[op] = v
    BY <1>t, <2>2, <2>3, DirectoryEffect
  <2>5. QED
    BY <1>f, <1>i, <2>1, <2>2, <2>3, <2>4, ChangeEffect DEF StageCalls, Replacing
<1>11. CASE SyncTemporary
  <2>1. PICK op \in Op, v \in Config : call.op = op /\ call.value = v
    BY <1>11, <1>t DEF SyncTemporary, Replacing
  <2>2. /\ UNCHANGED <<tx, txDisk, pending, cfg>> /\ call.name = "syncTemporary"
        /\ call'.name = "renameTemporary" /\ call'.op = op /\ call'.value = v
        /\ cfgDisk' = {IF s.temporary[op] = Partial
                       THEN [s EXCEPT !.temporary[op] = v] ELSE s : s \in cfgDisk}
    BY <1>11, <2>1 DEF SyncTemporary, stages, caddy
  <2>3. ASSUME NEW s \in cfgDisk
        PROVE  LET r == IF s.temporary[op] = Partial THEN [s EXCEPT !.temporary[op] = v] ELSE s
               IN  r.target = cfg.target /\ r.temporary[op] \in {None, Partial, v}
    <3>1. s \in Directory /\ s.target = cfg.target /\ s.temporary[op] \in {None, Partial, v}
      BY <1>i, <1>t, <2>1, <2>2 DEF Replacing
    <3>2. QED
      BY <3>1, DirectoryEffect
  <2>4. "power" \notin env.faults => cfgDisk' = {cfg}
    <3>1. cfg.temporary[op] = v /\ v # Partial
      BY <2>1, <2>2, CaddyAssumption DEF RenameInv, CaddyAssumption
    <3>2. QED
      BY <1>i, <2>2, <3>1
  <2>5. \A s \in cfgDisk' : s.target = cfg.target /\ s.temporary[op] \in {None, Partial, v}
    BY <2>2, <2>3
  <2>6. QED
    BY <1>f, <2>2, <2>4, <2>5 DEF StageCalls
<1>12. CASE RenameTemporary
  <2>1. PICK op \in Op, v \in Config : call.op = op /\ call.value = v
    BY <1>12, <1>t DEF RenameTemporary, Replacing
  <2>2. /\ UNCHANGED <<tx, txDisk, pending>> /\ call.name = "renameTemporary" /\ call'.name = "syncConfig"
        /\ cfg' = Replaced(cfg, op)
        /\ cfgDisk' = {s \in cfgDisk : "power" \in env.faults} \cup
                      {Replaced(s, op) : s \in {d \in cfgDisk : d.temporary[op] # None}}
    BY <1>12, <2>1 DEF RenameTemporary, stages, caddy, Replaced
  <2>3. "power" \notin env.faults => cfgDisk' = {cfg'}
    <3>1. cfg.temporary[op] = v /\ v # None
      BY <2>1, <2>2, CaddyAssumption DEF RenameInv, CaddyAssumption
    <3>2. QED
      BY <1>i, <2>2, <3>1
  <2>4. QED
    BY <1>f, <2>2, <2>3 DEF StageCalls, Replacing
<1>13. CASE PowerLoss
  <2>1. call' = Idle /\ cfgDisk' = {cfg'} /\ txDisk' = {tx'} /\ pending' = {}
    BY <1>13 DEF PowerLoss, Return
  <2>2. QED
    BY <2>1 DEF DiskInv, Idle, StageCalls, Replacing
<1>14. CASE UNCHANGED vars
  BY <1>14, <1>e, <1>i DEF vars, DiskInv
<1>15. QED
  BY <1>1, <1>2, <1>3, <1>4, <1>5, <1>6, <1>7, <1>8, <1>9, <1>10, <1>11, <1>12, <1>13, <1>14, StepCases

\* Install and Restore move along the links; what RollbackStage takes is no link.
LEMMA LinkStep ==
  TypeOK /\ RenameInv /\ ReplaceInv /\ PowerInv /\ CandidateInv /\ DiskInv /\ LinkInv /\ [Next]_vars
    => LinkInv'
<1> SUFFICES ASSUME TypeOK, RenameInv, ReplaceInv, PowerInv, CandidateInv, DiskInv, LinkInv, [Next]_vars,
                    OneSortOfFault', NothingReturns'
             PROVE  LinkInv'
  BY DEF LinkInv
<1> USE DEF At, Goto
<1>e. env' = env
  BY EnvStep
<1>o. OneSortOfFault /\ NothingReturns
  BY <1>e DEF OneSortOfFault, OnlyPowerIsLost, NothingReturns
<1>i. /\ pending = {}
      /\ call.name \notin StageCalls => txDisk = {tx}
      /\ call.name \in {"fillStage", "syncFiles", "renameStage"} =>
           \A s \in txDisk : s.final[call.op] = None
      /\ call.name \in Replacing =>
           \A s \in cfgDisk : s.temporary[call.op] \in {None, Partial, call.value}
  BY <1>o DEF DiskInv
<1>k. call.name \in StageCalls \cup {"idle", "createTemporary", "reload"} => cfgDisk = {cfg}
  BY <1>o DEF DiskInv, PowerInv, OneSortOfFault
<1>l. /\ \A s \in cfgDisk, t \in txDisk : Linked(s.target, t.final)
      /\ CoversRuntime(runtime, tx.final)
  BY <1>o DEF LinkInv
<1>t. /\ tx \in Stages /\ tx \in txDisk /\ txDisk \subseteq Stages
      /\ cfg \in Directory /\ cfg \in cfgDisk /\ cfgDisk \subseteq Directory
      /\ call.name \in Replacing => call.op \in Op /\ call.value \in Config
  BY DEF TypeOK, Replacing
<1>a. None \notin Transaction /\ Partial \notin Transaction
  BY CaddyAssumption DEF CaddyAssumption, Transaction
\* A step of a staging call.
<1>s. ASSUME UNCHANGED <<cfg, cfgDisk, runtime>>, cfgDisk = {cfg},
             NEW new, tx' = new, txDisk' \subseteq txDisk \cup {new},
             \A op \in Op : tx.final[op] \in Transaction => new.final[op] = tx.final[op]
      PROVE  LinkInv'
  <2>1. Linked(cfg.target, new.final)
    <3>1. Linked(cfg.target, tx.final)
      BY <1>l, <1>t
    <3>2. QED
      BY <1>s, <3>1, LinkedKeeps
  <2>2. CoversRuntime(runtime, new.final)
    BY <1>l, <1>s DEF CoversRuntime
  <2>3. QED
    BY <1>l, <1>s, <2>1, <2>2 DEF LinkInv
\* A step that leaves the transactions alone.
<1>f. ASSUME UNCHANGED <<tx, txDisk>>, \A s \in cfgDisk' : \E r \in cfgDisk : s.target = r.target,
             runtime' = runtime \/ runtime' = Adapt[cfg.target]
      PROVE  LinkInv'
  <2>1. CoversRuntime(Adapt[cfg.target], tx.final)
    <3>1. Linked(cfg.target, tx.final)
      BY <1>l, <1>t
    <3>2. QED
      BY <3>1, LinkedCovers
  <2>2. QED
    BY <1>f, <1>l, <2>1 DEF LinkInv
<1>1. CASE Calm
  <2>1. UNCHANGED <<cfg, cfgDisk, tx, txDisk>>
    BY <1>1, CalmEffect
  <2>2. runtime' = runtime \/ runtime' = Adapt[cfg.target]
    <3> USE DEF caddy
    <3>1. CASE Open \/ Close \/ CallFails \/ ReloadTimeout \/ \E c \in pending : LateReload(c)
      BY <1>i, <3>1 DEF Open, Close, CallFails, ReloadTimeout
    <3>2. CASE Kill \/ Reload
      BY <3>2 DEF Kill, Reload, ReplaceInv
    <3>3. ASSUME NEW op \in Op, Undo(op) \/ (\E c \in env.candidates[op] : Preflight(op, c))
          PROVE  runtime' = runtime
      BY <3>3 DEF Undo, Preflight
    <3>4. ASSUME NEW op \in Op, SyncsAgain(op) \/ Install(op) \/ RestoreBegins(op)
                    \/ Activate(op, "candidate") \/ Activate(op, "previous")
          PROVE  runtime' = runtime
      BY <3>4 DEF SyncsAgain, Install, RestoreBegins, Activate
    <3>5. QED
      BY <1>1, <3>1, <3>2, <3>3, <3>4 DEF Calm
  <2>3. QED
    BY <1>f, <2>1, <2>2
<1>2. ASSUME NEW op \in Op, StageBegins(op)
      PROVE  LinkInv'
  <2>1. /\ UNCHANGED <<cfg, cfgDisk, runtime>> /\ ChangeStages([tx EXCEPT !.temporary[op] = Partial])
        /\ call.name = "idle"
    BY <1>2 DEF StageBegins, files, caddy, Ready, Idle
  <2>2. [tx EXCEPT !.temporary[op] = Partial].final = tx.final
    BY <1>t, StagesEffect
  <2>3. QED
    BY <1>k, <1>s, <2>1, <2>2, ChangeEffect
<1>3. ASSUME NEW op \in Op, Promotes(op)
      PROVE  LinkInv'
  <2>1. /\ UNCHANGED <<cfg, cfgDisk, runtime>> /\ ChangeStages(Promoted(tx, op))
        /\ call.name = "idle" /\ tx.final[op] = None
    BY <1>3 DEF Promotes, files, caddy, Ready, Idle
  <2>2. \A o \in Op : tx.final[o] \in Transaction => Promoted(tx, op).final[o] = tx.final[o]
    BY <1>a, <1>t, <2>1, PromotedEffect
  <2>3. QED
    BY <1>k, <1>s, <2>1, <2>2, ChangeEffect
<1>4. ASSUME NEW op \in Op, RollbackStage(op)
      PROVE  LinkInv'
  <2>1. /\ UNCHANGED <<cfg, cfgDisk, runtime>> /\ call.name = "idle" /\ cfgDisk = {cfg} /\ txDisk = {tx}
    BY <1>4, <1>k, <1>i DEF RollbackStage, files, caddy, Ready, Idle, StageCalls
  <2>2. CASE ChangeStages([tx EXCEPT !.temporary[op] = Partial])
    <3>1. [tx EXCEPT !.temporary[op] = Partial].final = tx.final
      BY <1>t, StagesEffect
    <3>2. QED
      BY <1>s, <2>1, <2>2, <3>1, ChangeEffect
  <2>3. CASE Loadable(op) /\ Baseline(op) /\ ChangeStages([tx EXCEPT !.final[op] = Partial])
    <3> DEFINE new == [tx EXCEPT !.final[op] = Partial]
    <3>1. \A o \in Op \ {op} : new.final[o] = tx.final[o]
      BY <1>t, StagesEffect
    <3>2. Linked(cfg.target, tx.final) /\ tx.final[op].previous = cfg.target /\ runtime = Adapt[cfg.target]
      BY <1>l, <1>t, <2>3 DEF Baseline
    <3> HIDE DEF new
    <3>3. Linked(cfg.target, new.final)
      BY <3>1, <3>2, LinkedRemoves
    <3>4. CoversRuntime(runtime, new.final)
      BY <3>2, <3>3, LinkedCovers
    <3>5. tx' = new /\ txDisk' \subseteq {tx, new}
      BY <2>1, <2>3, ChangeEffect DEF new
    <3>6. QED
      BY <1>l, <2>1, <3>3, <3>4, <3>5 DEF LinkInv
  <2>4. QED
    BY <1>4, <2>2, <2>3 DEF RollbackStage
<1>5. ASSUME NEW op \in Op, RestoreCleans(op)
      PROVE  LinkInv'
  <2>1. /\ UNCHANGED <<tx, txDisk, runtime>> /\ ChangeConfig([cfg EXCEPT !.temporary[op] = None])
    BY <1>5 DEF RestoreCleans, stages, caddy
  <2>2. [cfg EXCEPT !.temporary[op] = None].target = cfg.target
    BY <1>t, DirectoryEffect
  <2>3. \A s \in cfgDisk' : \E r \in cfgDisk : s.target = r.target
    <3>1. cfgDisk' \subseteq cfgDisk \cup {[cfg EXCEPT !.temporary[op] = None]}
      BY <2>1, ChangeEffect
    <3>2. QED
      BY <1>t, <2>2, <3>1
  <2>4. QED
    BY <1>f, <2>1, <2>3
<1>6. CASE FillStage
  <2>1. PICK op \in Op, v \in Transaction : call.op = op /\ call.value = v
    BY <1>6 DEF FillStage, TypeOK
  <2>2. /\ UNCHANGED <<cfg, cfgDisk, runtime>> /\ ChangeStages([tx EXCEPT !.temporary[op] = v])
        /\ call.name \in StageCalls
    BY <1>6, <2>1 DEF FillStage, files, caddy, StageCalls
  <2>3. [tx EXCEPT !.temporary[op] = v].final = tx.final
    BY <1>t, StagesEffect
  <2>4. QED
    BY <1>k, <1>s, <2>2, <2>3, ChangeEffect
<1>7. CASE RenameStage
  <2>1. PICK op \in Op : call.op = op
    BY <1>7 DEF RenameStage, TypeOK
  <2>2. /\ UNCHANGED <<cfg, cfgDisk, runtime>> /\ ChangeStages(Promoted(tx, op))
        /\ call.name \in StageCalls /\ tx.final[op] = None
    BY <1>7, <1>i, <1>t, <2>1 DEF RenameStage, PromoteStage, Promoted, files, caddy, StageCalls
  <2>3. \A o \in Op : tx.final[o] \in Transaction => Promoted(tx, op).final[o] = tx.final[o]
    BY <1>a, <1>t, <2>2, PromotedEffect
  <2>4. QED
    BY <1>k, <1>s, <2>2, <2>3, ChangeEffect
<1>8. CASE SyncStageFiles \/ SyncStages
  <2>1. /\ UNCHANGED <<cfg, cfgDisk, runtime, tx>> /\ txDisk' \subseteq txDisk \cup {tx}
        /\ call.name \in StageCalls
    BY <1>8 DEF SyncStageFiles, SyncStages, files, caddy, StageCalls
  <2>2. QED
    BY <1>k, <1>s, <2>1
<1>9. CASE RemoveStage
  <2>1. PICK op \in Op : call.op = op
    BY <1>9 DEF RemoveStage, TypeOK
  <2>2. /\ UNCHANGED <<cfg, cfgDisk, runtime>> /\ call.name \in StageCalls
        /\ \/ tx.final[op] = Partial /\ ChangeStages([tx EXCEPT !.final[op] = None])
           \/ ChangeStages([tx EXCEPT !.temporary[op] = None])
    BY <1>9, <2>1 DEF RemoveStage, files, caddy, StageCalls
  <2>3. CASE tx.final[op] = Partial /\ ChangeStages([tx EXCEPT !.final[op] = None])
    <3>1. \A o \in Op : tx.final[o] \in Transaction => [tx EXCEPT !.final[op] = None].final[o] = tx.final[o]
      BY <1>a, <1>t, <2>3, StagesEffect
    <3>2. QED
      BY <1>k, <1>s, <2>2, <2>3, <3>1, ChangeEffect
  <2>4. CASE ChangeStages([tx EXCEPT !.temporary[op] = None])
    <3>1. [tx EXCEPT !.temporary[op] = None].final = tx.final
      BY <1>t, StagesEffect
    <3>2. QED
      BY <1>k, <1>s, <2>2, <2>4, <3>1, ChangeEffect
  <2>5. QED
    BY <2>2, <2>3, <2>4
<1>10. CASE SyncRemoval \/ SyncConfig
  <2>1. UNCHANGED <<cfg, tx, txDisk, runtime>> /\ cfgDisk' = {cfg}
    BY <1>10 DEF SyncRemoval, SyncConfig, stages, caddy
  <2>2. QED
    BY <1>f, <1>t, <2>1
<1>11. CASE CreateTemporary \/ WriteTemporary
  <2>1. PICK op \in Op : call.op = op
    BY <1>11 DEF CreateTemporary, WriteTemporary, TypeOK
  <2>2. UNCHANGED <<tx, txDisk, runtime>> /\ call.value \in Config
    BY <1>11, <1>t DEF CreateTemporary, WriteTemporary, stages, caddy, Replacing
  <2>3. PICK v \in {Partial, call.value} : ChangeConfig([cfg EXCEPT !.temporary[op] = v])
    BY <1>11, <2>1 DEF CreateTemporary, WriteTemporary
  <2>4. [cfg EXCEPT !.temporary[op] = v].target = cfg.target
    BY <1>t, <2>2, <2>3, DirectoryEffect
  <2>5. QED
    BY <1>f, <1>t, <2>2, <2>3, <2>4, ChangeEffect
<1>12. CASE SyncTemporary
  <2>1. PICK op \in Op, v \in Config : call.op = op /\ call.value = v
    BY <1>12, <1>t DEF SyncTemporary, Replacing
  <2>2. /\ UNCHANGED <<tx, txDisk, runtime>>
        /\ cfgDisk' = {IF s.temporary[op] = Partial
                       THEN [s EXCEPT !.temporary[op] = v] ELSE s : s \in cfgDisk}
    BY <1>12, <2>1 DEF SyncTemporary, stages, caddy
  <2>3. ASSUME NEW s \in cfgDisk
        PROVE  (IF s.temporary[op] = Partial THEN [s EXCEPT !.temporary[op] = v] ELSE s).target = s.target
    BY <1>t, DirectoryEffect
  <2>4. \A s \in cfgDisk' : \E r \in cfgDisk : s.target = r.target
    BY <2>2, <2>3
  <2>5. QED
    BY <1>f, <2>2, <2>4
<1>13. CASE RenameTemporary
  <2>1. PICK op \in Op, v \in Config : call.op = op /\ call.value = v
    BY <1>13, <1>t DEF RenameTemporary, Replacing
  <2>2. /\ UNCHANGED <<tx, txDisk, runtime>> /\ call.name = "renameTemporary"
        /\ cfgDisk' \subseteq cfgDisk \cup {Replaced(s, op) : s \in {d \in cfgDisk : d.temporary[op] # None}}
    BY <1>13, <2>1 DEF RenameTemporary, stages, caddy, Replaced
  <2>3. ASSUME NEW s \in cfgDisk, s.temporary[op] # None
        PROVE  Replaced(s, op).target = v
    <3>1. s \in Directory /\ s.temporary[op] = v
      BY <1>i, <1>t, <2>1, <2>2, <2>3 DEF RenameInv, Replacing
    <3>2. QED
      BY <3>1, ReplacedEffect
  <2>4. /\ tx.final[op] \in Transaction /\ {cfg.target, v} = {tx.final[op].previous, tx.final[op].candidate}
        /\ txDisk = {tx}
    BY <1>i, <2>1, <2>2 DEF ReplaceInv, Replacing, Loadable, StageCalls
  <2>5. Linked(v, tx.final)
    <3>1. Linked(cfg.target, tx.final) /\ CandidatesOf(tx.final)
      BY <1>l, <1>t DEF CandidateInv
    <3>2. CASE v = cfg.target
      BY <3>1, <3>2
    <3>3. CASE v # cfg.target /\ v = tx.final[op].candidate
      BY <1>o, <2>4, <3>1, <3>3, LinkedInstalls
    <3>4. CASE v # cfg.target /\ v = tx.final[op].previous
      BY <1>o, <2>4, <3>1, <3>4, LinkedRestores
    <3>5. QED
      BY <2>4, <3>2, <3>3, <3>4
  <2>6. \A s \in cfgDisk' : s \in cfgDisk \/ s.target = v
    BY <2>2, <2>3
  <2>7. QED
    BY <1>l, <2>2, <2>4, <2>5, <2>6 DEF LinkInv
<1>14. CASE PowerLoss
  <2>1. PICK s \in txDisk, lost \in SUBSET dirty : tx' = AfterPowerLoss(s, lost)
    BY <1>14 DEF PowerLoss
  <2>2. cfg' \in cfgDisk /\ cfgDisk' = {cfg'} /\ txDisk' = {tx'} /\ runtime' = RuntimeOf(cfg'.target)
    BY <1>14 DEF PowerLoss
  <2>3. s \in Stages /\ lost \in SUBSET Op /\ cfg'.target \in Config
    BY <1>t, <2>2 DEF TypeOK, Directory
  <2>4. \A op \in lost : s.final[op] = None
    <3>1. OnlyPowerIsLost
      BY <1>14, <1>o DEF PowerLoss, OneSortOfFault
    <3>2. QED
      BY <1>i, <3>1 DEF PowerInv
  <2>5. \A op \in Op : s.final[op] \in Transaction => tx'.final[op] = s.final[op]
    BY <1>a, <2>1, <2>3, <2>4, TornEffect
  <2>6. Linked(cfg'.target, s.final)
    BY <1>l, <2>2
  <2>7. Linked(cfg'.target, tx'.final)
    BY <2>5, <2>6, LinkedKeeps
  <2>8. CoversRuntime(runtime', tx'.final)
    BY <2>2, <2>3, <2>7, LinkedCovers DEF RuntimeOf
  <2>9. QED
    BY <2>2, <2>7, <2>8 DEF LinkInv
<1>15. CASE UNCHANGED vars
  BY <1>15, <1>l DEF vars, LinkInv
<1>16. QED
  BY <1>1, <1>2, <1>3, <1>4, <1>5, <1>6, <1>7, <1>8, <1>9, <1>10, <1>11, <1>12, <1>13, <1>14, <1>15, StepCases

LEMMA InitLinked == Init => CandidateInv /\ DiskInv /\ LinkInv
<1> SUFFICES ASSUME Init PROVE CandidateInv /\ DiskInv /\ LinkInv
  OBVIOUS
<1>a. None \notin Transaction
  BY CaddyAssumption DEF CaddyAssumption, Transaction
<1>1. /\ call = Idle /\ cfgDisk = {cfg} /\ txDisk = {tx} /\ pending = {} /\ cfg.target = Initial
      /\ tx.final = [op \in Op |-> None] /\ tx.temporary = [op \in Op |-> None]
      /\ prepared = [op \in Op |-> None] /\ runtime = Adapt[Initial]
  BY DEF Init
<1>2. CandidateInv /\ DiskInv
  BY <1>1, <1>a DEF CandidateInv, CandidatesOf, DiskInv, Idle, At, Replacing
<1>3. LinkedBy({}, cfg.target, tx.final)
  BY <1>1 DEF LinkedBy
<1>4. LinkInv
  BY <1>1, <1>3 DEF LinkInv, Linked, CoversRuntime
<1>5. QED
  BY <1>2, <1>4

\* Whatever an operation changed of the file or of the running Caddy, a transaction
\* that can be loaded says what was there before: for one sort of fault, and reloads
\* that take effect before their call returns or never.
THEOREM CoveredTheorem == Spec => []Covered
<1>1. CaddyInv /\ CandidateInv /\ DiskInv /\ LinkInv /\ [Next]_vars
        => CandidateInv' /\ DiskInv' /\ LinkInv'
  BY CandidateStep, DiskStep, LinkStep DEF CaddyInv
<1>2. CaddyInv /\ LinkInv => Covered
  <2> SUFFICES ASSUME CaddyInv, LinkInv, OneSortOfFault, NothingReturns
               PROVE  /\ cfg.target = Initial \/ \E op \in Op : Loadable(op) /\ tx.final[op].candidate = cfg.target
                      /\ runtime = Adapt[Initial]
                         \/ \E op \in Op : Loadable(op) /\ Adapt[tx.final[op].candidate] = runtime
    BY DEF Covered
  <2>1. Linked(cfg.target, tx.final) /\ CoversRuntime(runtime, tx.final)
    BY DEF LinkInv, CaddyInv, TypeOK
  <2>2. QED
    BY <2>1, LinkedCovers DEF CoversRuntime, Loadable
<1>3. QED
  BY <1>1, <1>2, CaddyInvariant, InitLinked, PTL DEF Spec

-----------------------------------------------------------------------------
(* A rollback always has a next call. *)

\* No other operation changes anything.
Alone(op) == \A o \in Op \ {op} : env.candidates[o] = {}

\* A file and a transaction, from any two disks: the file is one of the two contents the
\* transaction names, and the previous one while staging has not ended.
Placed(op, s, t) ==
  /\ t.final[op] \in Transaction => s.target \in {t.final[op].previous, t.final[op].candidate}
  /\ t.temporary[op] \in Transaction => t.final[op] = None /\ s.target = t.temporary[op].previous

\* Caddy runs one of the two contents as well, and the file itself where nothing is staged.
RunsIts(op) ==
  IF tx.final[op] \in Transaction
  THEN runtime \in {Adapt[tx.final[op].previous], Adapt[tx.final[op].candidate]}
  ELSE runtime = Adapt[cfg.target]

InPlace(op) ==
  /\ \A s \in cfgDisk, t \in txDisk : Placed(op, s, t)
  /\ RunsIts(op)
  /\ call.name = "fillStage" /\ call.op = op => call.value.previous = cfg.target

PlacedInv == OneSortOfFault => \A op \in Op : Alone(op) => InPlace(op)

\* One entry is rewritten; the others stay.
LEMMA EntryEffect ==
  ASSUME NEW s \in Stages, NEW o \in Op, NEW op \in Op, NEW v
  PROVE  /\ [s EXCEPT !.temporary[o] = v].temporary[op] = IF op = o THEN v ELSE s.temporary[op]
         /\ [s EXCEPT !.temporary[o] = v].final = s.final
         /\ [s EXCEPT !.final[o] = v].final[op] = IF op = o THEN v ELSE s.final[op]
         /\ [s EXCEPT !.final[o] = v].temporary = s.temporary
  BY DEF Stages

\* The running configuration changes to what the file holds, or not at all.
LEMMA CalmRuns ==
  ASSUME TypeOK, ReplaceInv, DiskInv, OneSortOfFault, Calm
  PROVE  runtime' = runtime \/ runtime' = Adapt[cfg.target]
<1> USE DEF caddy
<1>1. CASE Open \/ Close \/ CallFails \/ ReloadTimeout \/ \E c \in pending : LateReload(c)
  BY <1>1 DEF Open, Close, CallFails, ReloadTimeout, DiskInv
<1>2. CASE Kill \/ Reload
  BY <1>2 DEF Kill, Reload, ReplaceInv
<1>3. ASSUME NEW op \in Op, Undo(op) \/ (\E c \in env.candidates[op] : Preflight(op, c))
      PROVE  runtime' = runtime
  BY <1>3 DEF Undo, Preflight
<1>4. ASSUME NEW op \in Op, SyncsAgain(op) \/ Install(op) \/ RestoreBegins(op)
                    \/ Activate(op, "candidate") \/ Activate(op, "previous")
      PROVE  runtime' = runtime
  BY <1>4 DEF SyncsAgain, Install, RestoreBegins, Activate
<1>5. QED
  BY <1>1, <1>2, <1>3, <1>4 DEF Calm

LEMMA PlacedStep ==
  TypeOK /\ RenameInv /\ ReplaceInv /\ PowerInv /\ CandidateInv /\ DiskInv /\ PlacedInv /\ [Next]_vars
    => PlacedInv'
<1> SUFFICES ASSUME TypeOK, RenameInv, ReplaceInv, PowerInv, CandidateInv, DiskInv, PlacedInv, [Next]_vars,
                    OneSortOfFault', NEW op \in Op, Alone(op)'
             PROVE  InPlace(op)'
  BY DEF PlacedInv
<1> USE DEF At, Goto
<1>e. env' = env
  BY EnvStep
<1>o. OneSortOfFault /\ Alone(op)
  BY <1>e DEF OneSortOfFault, OnlyPowerIsLost, Alone
<1>i. /\ call.name \notin StageCalls => txDisk = {tx}
      /\ call.name \in {"fillStage", "syncFiles", "renameStage"} => \A s \in txDisk : s.final[call.op] = None
      /\ call.name \in Replacing => \A s \in cfgDisk : s.temporary[call.op] \in {None, Partial, call.value}
  BY <1>o DEF DiskInv
<1>k. call.name \in StageCalls \cup {"idle", "createTemporary", "reload"} => cfgDisk = {cfg}
  BY <1>o DEF DiskInv, PowerInv, OneSortOfFault
<1>t. /\ tx \in Stages /\ tx \in txDisk /\ txDisk \subseteq Stages
      /\ cfg \in Directory /\ cfg \in cfgDisk /\ cfgDisk \subseteq Directory
      /\ call.name \in Replacing => call.op \in Op /\ call.value \in Config
  BY DEF TypeOK, Replacing
<1>a. None \notin Transaction /\ Partial \notin Transaction /\ None # Partial
  BY CaddyAssumption DEF CaddyAssumption, Transaction
<1>p. /\ \A s \in cfgDisk, t \in txDisk : Placed(op, s, t)
      /\ RunsIts(op)
      /\ call.name = "fillStage" /\ call.op = op => call.value.previous = cfg.target
  BY <1>o DEF PlacedInv, InPlace
<1>q. /\ tx.final[op] \in Transaction => cfg.target \in {tx.final[op].previous, tx.final[op].candidate}
      /\ tx.temporary[op] \in Transaction => tx.final[op] = None /\ cfg.target = tx.temporary[op].previous
  BY <1>p, <1>t DEF Placed
\* A step of a staging call.
<1>s. ASSUME UNCHANGED <<cfg, cfgDisk, runtime>>, cfgDisk = {cfg},
             NEW new, tx' = new, txDisk' \subseteq txDisk \cup {new}, Placed(op, cfg, new),
             new.final[op] = tx.final[op] \/ runtime = Adapt[cfg.target],
             call'.name = "fillStage" /\ call'.op = op => call'.value.previous = cfg.target
      PROVE  InPlace(op)'
  <2>1. \A s \in cfgDisk', t \in txDisk' : Placed(op, s, t)
    BY <1>p, <1>s
  <2>2. RunsIts(op)'
    <3>1. CASE new.final[op] = tx.final[op]
      BY <1>p, <1>s, <3>1 DEF RunsIts
    <3>2. CASE runtime = Adapt[cfg.target]
      BY <1>s, <3>2 DEF RunsIts, Placed
    <3>3. QED
      BY <1>s, <3>1, <3>2
  <2>3. QED
    BY <1>s, <2>1, <2>2 DEF InPlace, Placed
\* The entries of this operation stay as they are.
<1>n. ASSUME NEW new, new.final[op] = tx.final[op], new.temporary[op] = tx.temporary[op]
      PROVE  Placed(op, cfg, new)
  BY <1>n, <1>q DEF Placed
\* A new temporary directory.
<1>v. ASSUME NEW o \in Op, NEW v
      PROVE  /\ [tx EXCEPT !.temporary[o] = v].final = tx.final
             /\ [tx EXCEPT !.temporary[o] = v].temporary[op] = IF op = o THEN v ELSE tx.temporary[op]
  <2>1. tx \in Stages
    BY <1>t
  <2>2. QED
    BY <2>1, EntryEffect
\* A step that leaves the transactions and the live file alone.
<1>f. ASSUME UNCHANGED <<tx, txDisk>>, cfg'.target = cfg.target,
             \A s \in cfgDisk' : \E r \in cfgDisk : s.target = r.target,
             runtime' = runtime \/ runtime' = Adapt[cfg.target],
             call'.name = "fillStage" => call' = call
      PROVE  InPlace(op)'
  <2>1. \A s \in cfgDisk', t \in txDisk' : Placed(op, s, t)
    BY <1>f, <1>p DEF Placed
  <2>2. RunsIts(op)'
    BY <1>f, <1>p, <1>q DEF RunsIts
  <2>3. QED
    BY <1>f, <1>p, <2>1, <2>2 DEF InPlace, Placed
<1>1. CASE Calm
  <2>1. UNCHANGED <<cfg, cfgDisk, tx, txDisk>> /\ (call'.name = "fillStage" => call' = call)
    BY <1>1, CalmEffect DEF Begins, Idle
  <2>2. runtime' = runtime \/ runtime' = Adapt[cfg.target]
    BY <1>1, <1>o, CalmRuns
  <2>3. QED
    BY <1>f, <2>1, <2>2
<1>2. ASSUME NEW o \in Op, StageBegins(o)
      PROVE  InPlace(op)'
  <2> DEFINE new == [tx EXCEPT !.temporary[o] = Partial]
  <2>1. /\ UNCHANGED <<cfg, cfgDisk, runtime>> /\ ChangeStages(new) /\ call.name = "idle"
        /\ call'.op = o /\ call'.value = prepared[o] /\ cfg.target = prepared[o].previous
    BY <1>2 DEF StageBegins, files, caddy, Ready, Idle
  <2>2. /\ new.final = tx.final
        /\ new.temporary[op] = IF op = o THEN Partial ELSE tx.temporary[op]
    BY <1>t, <1>v
  <2> HIDE DEF new
  <2>3. Placed(op, cfg, new)
    BY <1>a, <1>q, <2>2 DEF Placed
  <2>4. QED
    BY <1>k, <1>s, <2>1, <2>2, <2>3, ChangeEffect
\* The temporary directory becomes the final one.
<1>3. ASSUME NEW o \in Op, ChangeStages(Promoted(tx, o)), UNCHANGED <<cfg, cfgDisk, runtime>>, cfgDisk = {cfg},
             tx.final[o] = None, call'.name = "syncStages"
      PROVE  InPlace(op)'
  <2> DEFINE new == Promoted(tx, o)
  <2>1. CASE op = o
    <3>1. new.final[op] = tx.temporary[op] /\ new.temporary[op] = None
      BY <1>t, <2>1, PromotedEffect
    <3>2. runtime = Adapt[cfg.target]
      BY <1>3, <1>a, <1>p, <2>1 DEF RunsIts
    <3> HIDE DEF new
    <3>3. Placed(op, cfg, new)
      BY <1>a, <1>q, <3>1 DEF Placed
    <3>4. tx' = new /\ txDisk' \subseteq txDisk \cup {new}
      BY <1>3, ChangeEffect DEF new
    <3>5. QED
      BY <1>3, <1>s, <3>2, <3>3, <3>4
  <2>2. CASE op # o
    <3>1. new.final[op] = tx.final[op] /\ new.temporary[op] = tx.temporary[op]
      BY <1>t, <2>2, PromotedEffect
    <3> HIDE DEF new
    <3>2. Placed(op, cfg, new)
      BY <1>n, <3>1
    <3>3. tx' = new /\ txDisk' \subseteq txDisk \cup {new}
      BY <1>3, ChangeEffect DEF new
    <3>4. QED
      BY <1>3, <1>s, <3>1, <3>2, <3>3
  <2>3. QED
    BY <2>1, <2>2
\* A temporary directory goes, or loses its content.
<1>4. ASSUME NEW o \in Op, NEW v \in {None, Partial}, ChangeStages([tx EXCEPT !.temporary[o] = v]),
             UNCHANGED <<cfg, cfgDisk, runtime>>, cfgDisk = {cfg}, call'.name # "fillStage"
      PROVE  InPlace(op)'
  <2> DEFINE new == [tx EXCEPT !.temporary[o] = v]
  <2>1. new.final = tx.final /\ new.temporary[op] = IF op = o THEN v ELSE tx.temporary[op]
    BY <1>v
  <2> HIDE DEF new
  <2>2. Placed(op, cfg, new)
    BY <1>a, <1>q, <2>1 DEF Placed
  <2>3. tx' = new /\ txDisk' \subseteq txDisk \cup {new}
    BY <1>4, ChangeEffect DEF new
  <2>4. QED
    BY <1>4, <1>s, <2>1, <2>2, <2>3
\* A final directory goes, or loses its content, where Caddy runs the file.
<1>5. ASSUME NEW o \in Op, NEW v \in {None, Partial}, ChangeStages([tx EXCEPT !.final[o] = v]),
             UNCHANGED <<cfg, cfgDisk, runtime>>, cfgDisk = {cfg}, call'.name # "fillStage",
             tx.final[o] # None, runtime = Adapt[cfg.target] \/ tx.final[o] \notin Transaction
      PROVE  InPlace(op)'
  <2> DEFINE new == [tx EXCEPT !.final[o] = v]
  <2>1. /\ new.temporary = tx.temporary
        /\ new.final[op] = IF op = o THEN v ELSE tx.final[op]
    BY <1>t, EntryEffect
  <2> HIDE DEF new
  <2>2. Placed(op, cfg, new)
    BY <1>5, <1>a, <1>q, <2>1 DEF Placed
  <2>3. tx' = new /\ txDisk' \subseteq txDisk \cup {new}
    BY <1>5, ChangeEffect DEF new
  <2>4. new.final[op] = tx.final[op] \/ runtime = Adapt[cfg.target]
    BY <1>5, <1>p, <2>1 DEF RunsIts
  <2>5. QED
    BY <1>5, <1>s, <2>2, <2>3, <2>4
<1>6. ASSUME NEW o \in Op, Promotes(o)
      PROVE  InPlace(op)'
  BY <1>3, <1>6, <1>k DEF Promotes, files, caddy, Ready, Idle
<1>7. ASSUME NEW o \in Op, RollbackStage(o)
      PROVE  InPlace(op)'
  <2>1. UNCHANGED <<cfg, cfgDisk, runtime>> /\ cfgDisk = {cfg} /\ call'.name = "removeStage"
    BY <1>7, <1>k DEF RollbackStage, files, caddy, Ready, Idle
  <2>2. CASE Loadable(o) /\ Baseline(o) /\ ChangeStages([tx EXCEPT !.final[o] = Partial])
    <3>1. tx.final[o] # None /\ runtime = Adapt[cfg.target]
      BY <1>a, <2>2 DEF Loadable, Baseline
    <3>2. QED
      BY <1>5, <2>1, <2>2, <3>1
  <2>3. CASE ChangeStages([tx EXCEPT !.temporary[o] = Partial])
    BY <1>4, <2>1, <2>3
  <2>4. QED
    BY <1>7, <2>2, <2>3 DEF RollbackStage
<1>8. CASE RemoveStage
  <2>1. PICK o \in Op : call.op = o
    BY <1>8 DEF RemoveStage, TypeOK
  <2>2. /\ UNCHANGED <<cfg, cfgDisk, runtime>> /\ cfgDisk = {cfg} /\ call'.name = "syncStages"
        /\ \/ tx.final[o] = Partial /\ ChangeStages([tx EXCEPT !.final[o] = None])
           \/ ChangeStages([tx EXCEPT !.temporary[o] = None])
    BY <1>8, <1>k, <2>1 DEF RemoveStage, files, caddy, StageCalls
  <2>3. CASE tx.final[o] = Partial /\ ChangeStages([tx EXCEPT !.final[o] = None])
    BY <1>5, <1>a, <2>2, <2>3
  <2>4. CASE ChangeStages([tx EXCEPT !.temporary[o] = None])
    BY <1>4, <2>2, <2>4
  <2>5. QED
    BY <2>2, <2>3, <2>4
<1>9. CASE FillStage
  <2>1. PICK o \in Op, v \in Transaction : call.op = o /\ call.value = v
    BY <1>9 DEF FillStage, TypeOK
  <2> DEFINE new == [tx EXCEPT !.temporary[o] = v]
  <2>2. /\ UNCHANGED <<cfg, cfgDisk, runtime>> /\ ChangeStages(new) /\ call'.name = "syncFiles"
        /\ call.name = "fillStage" /\ tx.final[o] = None
        /\ op = o => v.previous = cfg.target
    BY <1>9, <1>i, <1>p, <1>t, <2>1 DEF FillStage, files, caddy
  <2>3. /\ new.final = tx.final
        /\ new.temporary[op] = IF op = o THEN v ELSE tx.temporary[op]
    BY <1>t, <1>v
  <2> HIDE DEF new
  <2>4. Placed(op, cfg, new)
    BY <1>a, <1>q, <2>2, <2>3 DEF Placed
  <2>5. cfgDisk = {cfg}
    BY <1>k, <2>2 DEF StageCalls
  <2>6. QED
    BY <1>s, <2>2, <2>3, <2>4, <2>5, ChangeEffect
<1>10. CASE RenameStage
  <2>1. PICK o \in Op : call.op = o
    BY <1>10 DEF RenameStage, TypeOK
  <2>2. /\ UNCHANGED <<cfg, cfgDisk, runtime>> /\ ChangeStages(Promoted(tx, o)) /\ cfgDisk = {cfg}
        /\ tx.final[o] = None /\ call'.name = "syncStages"
    BY <1>10, <1>i, <1>k, <1>t, <2>1 DEF RenameStage, PromoteStage, Promoted, files, caddy, StageCalls
  <2>3. QED
    BY <1>3, <2>2
<1>11. CASE SyncStageFiles \/ SyncStages
  <2>1. /\ UNCHANGED <<cfg, cfgDisk, runtime, tx>> /\ txDisk' \subseteq txDisk \cup {tx}
        /\ cfgDisk = {cfg} /\ call'.name # "fillStage"
    BY <1>11, <1>k DEF SyncStageFiles, SyncStages, files, caddy, StageCalls, Return, Idle
  <2>2. Placed(op, cfg, tx)
    BY <1>p, <1>t
  <2>3. QED
    BY <1>s, <2>1, <2>2
<1>12. ASSUME NEW o \in Op, RestoreCleans(o)
      PROVE  InPlace(op)'
  <2>1. /\ UNCHANGED <<tx, txDisk, runtime>> /\ ChangeConfig([cfg EXCEPT !.temporary[o] = None])
        /\ call'.name = "syncRemoval"
    BY <1>12 DEF RestoreCleans, stages, caddy
  <2>2. [cfg EXCEPT !.temporary[o] = None].target = cfg.target
    BY <1>t, DirectoryEffect
  <2>3. cfg'.target = cfg.target /\ cfgDisk' \subseteq cfgDisk \cup {cfg'}
    BY <2>1, <2>2, ChangeEffect
  <2>4. QED
    BY <1>f, <1>t, <2>1, <2>3
<1>13. CASE SyncRemoval \/ SyncConfig
  <2>1. UNCHANGED <<cfg, tx, txDisk, runtime>> /\ cfgDisk' = {cfg} /\ call'.name # "fillStage"
    BY <1>13 DEF SyncRemoval, SyncConfig, stages, caddy, Return, Idle
  <2>2. QED
    BY <1>f, <1>t, <2>1
<1>14. CASE CreateTemporary \/ WriteTemporary
  <2>1. PICK o \in Op : call.op = o
    BY <1>14 DEF CreateTemporary, WriteTemporary, TypeOK
  <2>2. /\ UNCHANGED <<tx, txDisk, runtime>> /\ call.value \in Config
        /\ call'.name \in {"writeTemporary", "syncTemporary"}
    BY <1>14, <1>t DEF CreateTemporary, WriteTemporary, stages, caddy, Replacing
  <2>3. PICK v \in {Partial, call.value} : ChangeConfig([cfg EXCEPT !.temporary[o] = v])
    BY <1>14, <2>1 DEF CreateTemporary, WriteTemporary
  <2>4. [cfg EXCEPT !.temporary[o] = v].target = cfg.target
    BY <1>t, <2>2, <2>3, DirectoryEffect
  <2>5. cfg'.target = cfg.target /\ cfgDisk' \subseteq cfgDisk \cup {cfg'}
    BY <2>3, <2>4, ChangeEffect
  <2>6. QED
    BY <1>f, <1>t, <2>2, <2>5
<1>15. CASE SyncTemporary
  <2>1. PICK o \in Op, v \in Config : call.op = o /\ call.value = v
    BY <1>15, <1>t DEF SyncTemporary, Replacing
  <2>2. /\ UNCHANGED <<cfg, tx, txDisk, runtime>> /\ call'.name = "renameTemporary"
        /\ cfgDisk' = {IF s.temporary[o] = Partial
                       THEN [s EXCEPT !.temporary[o] = v] ELSE s : s \in cfgDisk}
    BY <1>15, <2>1 DEF SyncTemporary, stages, caddy
  <2>3. ASSUME NEW s \in cfgDisk
        PROVE  (IF s.temporary[o] = Partial THEN [s EXCEPT !.temporary[o] = v] ELSE s).target = s.target
    BY <1>t, DirectoryEffect
  <2>4. \A s \in cfgDisk' : \E r \in cfgDisk : s.target = r.target
    BY <2>2, <2>3
  <2>5. QED
    BY <1>f, <2>2, <2>4
<1>16. CASE RenameTemporary
  <2>1. PICK o \in Op, v \in Config : call.op = o /\ call.value = v
    BY <1>16, <1>t DEF RenameTemporary, Replacing
  <2>2. /\ UNCHANGED <<tx, txDisk, runtime>> /\ call.name = "renameTemporary" /\ call'.name = "syncConfig"
        /\ cfgDisk' \subseteq cfgDisk \cup {Replaced(s, o) : s \in {d \in cfgDisk : d.temporary[o] # None}}
    BY <1>16, <2>1 DEF RenameTemporary, stages, caddy, Replaced
  <2>3. ASSUME NEW s \in cfgDisk, s.temporary[o] # None
        PROVE  Replaced(s, o).target = v
    <3>1. s \in Directory /\ s.temporary[o] = v
      BY <1>i, <1>t, <2>1, <2>2, <2>3 DEF RenameInv, Replacing
    <3>2. QED
      BY <3>1, ReplacedEffect
  <2>4. /\ tx.final[o] \in Transaction /\ {cfg.target, v} = {tx.final[o].previous, tx.final[o].candidate}
        /\ txDisk = {tx}
    BY <1>i, <2>1, <2>2 DEF ReplaceInv, Replacing, Loadable, StageCalls
  <2>5. o = op
    BY <1>o, <1>t, <2>4 DEF CandidateInv, CandidatesOf, Alone
  <2>6. \A s \in cfgDisk' : s \in cfgDisk \/ s.target = v
    BY <2>2, <2>3
  <2>7. tx.temporary[op] \notin Transaction
    BY <1>a, <1>q, <2>4, <2>5
  <2>8. \A s \in cfgDisk', t \in txDisk' : Placed(op, s, t)
    <3>1. ASSUME NEW s, s.target = v
          PROVE  Placed(op, s, tx)
      BY <2>4, <2>5, <2>7, <3>1 DEF Placed
    <3>2. QED
      BY <1>p, <2>2, <2>4, <2>6, <3>1
  <2>9. RunsIts(op)'
    BY <1>p, <2>2, <2>4, <2>5 DEF RunsIts
  <2>10. QED
    BY <2>2, <2>8, <2>9 DEF InPlace, Placed
<1>17. CASE PowerLoss
  <2>1. PICK s \in txDisk, lost \in SUBSET dirty : tx' = AfterPowerLoss(s, lost)
    BY <1>17 DEF PowerLoss
  <2>2. /\ cfg' \in cfgDisk /\ cfgDisk' = {cfg'} /\ txDisk' = {tx'}
        /\ runtime' = RuntimeOf(cfg'.target) /\ call' = Idle
    BY <1>17 DEF PowerLoss, Return
  <2>3. s \in Stages /\ lost \in SUBSET Op /\ cfg'.target \in Config
    BY <1>t, <2>2 DEF TypeOK, Directory
  <2>4. CASE op \in lost
    <3>1. tx'.final[op] \notin Transaction /\ tx'.temporary[op] \notin Transaction
      BY <1>a, <2>1, <2>3, <2>4, TornEffect
    <3>2. QED
      BY <2>2, <2>3, <3>1 DEF InPlace, Placed, RunsIts, RuntimeOf, Idle
  <2>5. CASE op \notin lost
    <3>1. tx'.final[op] = s.final[op] /\ tx'.temporary[op] = s.temporary[op]
      BY <2>1, <2>3, <2>5, TornEffect
    <3>2. Placed(op, cfg', s)
      BY <1>p, <2>2
    <3>3. Placed(op, cfg', tx')
      BY <3>1, <3>2 DEF Placed
    <3>4. RunsIts(op)'
      BY <2>2, <2>3, <3>3 DEF RunsIts, RuntimeOf, Placed
    <3>5. QED
      BY <2>2, <3>3, <3>4 DEF InPlace, Placed, Idle
  <2>6. QED
    BY <2>4, <2>5
<1>18. CASE UNCHANGED vars
  BY <1>18, <1>p DEF vars, InPlace, Placed, RunsIts
<1>19. QED
  BY <1>1, <1>2, <1>6, <1>7, <1>8, <1>9, <1>10, <1>11, <1>12, <1>13, <1>14, <1>15, <1>16, <1>17, <1>18, StepCases

LEMMA InitPlaced == Init => PlacedInv
<1> SUFFICES ASSUME Init, NEW op \in Op PROVE InPlace(op)
  BY DEF PlacedInv
<1>a. None \notin Transaction
  BY CaddyAssumption DEF CaddyAssumption, Transaction
<1>1. /\ call = Idle /\ cfgDisk = {cfg} /\ txDisk = {tx} /\ cfg.target = Initial
      /\ tx.final[op] = None /\ tx.temporary[op] = None /\ runtime = Adapt[Initial]
  BY DEF Init
<1>2. QED
  BY <1>1, <1>a DEF InPlace, Placed, RunsIts, Idle

LEMMA PlacedInvariant == Spec => [](CaddyInv /\ CandidateInv /\ DiskInv /\ PlacedInv)
<1>1. CaddyInv /\ CandidateInv /\ DiskInv /\ PlacedInv /\ [Next]_vars
        => CandidateInv' /\ DiskInv' /\ PlacedInv'
  BY CandidateStep, DiskStep, PlacedStep DEF CaddyInv
<1>2. Init => CandidateInv /\ DiskInv /\ PlacedInv
  BY InitLinked, InitPlaced
<1>3. QED
  BY <1>1, <1>2, CaddyInvariant, PTL DEF Spec

\* For one operation and one sort of fault: whatever Install, Activate or an earlier
\* rollback left, while it is not the previous state Restore or Reactivate is accepted.
RollbackIsPossible ==
  OneSortOfFault =>
    \A op \in Op : Alone(op) /\ Ready /\ Loadable(op) /\ ~Baseline(op) =>
      CanRestore(op) \/ CanActivate(op, "previous")

\* No fault leaves the file and the running Caddy in a place between the previous state
\* and the candidate from which no rollback call leads on.
THEOREM RollbackIsPossibleTheorem == Spec => []RollbackIsPossible
<1>1. ASSUME CaddyInv, PlacedInv
      PROVE  RollbackIsPossible
  <2> SUFFICES ASSUME OneSortOfFault, NEW op \in Op, Alone(op), Ready, Loadable(op), ~Baseline(op),
                      ~CanRestore(op)
               PROVE  CanActivate(op, "previous")
    BY DEF RollbackIsPossible
  <2>1. InPlace(op) /\ cfg \in cfgDisk /\ tx \in txDisk
    BY <1>1 DEF PlacedInv, CaddyInv, TypeOK
  <2>2. /\ cfg.target \in {tx.final[op].previous, tx.final[op].candidate}
        /\ runtime \in {Adapt[tx.final[op].previous], Adapt[tx.final[op].candidate]}
    BY <2>1 DEF InPlace, Placed, RunsIts, Loadable
  <2>3. cfg.temporary[op] = None /\ FileState(op) # "candidate"
    BY DEF CanRestore
  <2>4. FileState(op) = "previous" /\ cfg.target = tx.final[op].previous
    BY <2>2, <2>3 DEF FileState, Classify
  <2>5. runtime # Adapt[tx.final[op].previous]
    BY <2>3, <2>4 DEF Baseline
  <2>6. RuntimeState(op) = "candidate"
    BY <2>2, <2>5 DEF RuntimeState, Classify
  <2>7. QED
    BY <2>4, <2>6 DEF CanActivate
<1>2. QED
  BY <1>1, PlacedInvariant, PTL

\* Both live domains are in the previous state, whatever a loss of power may leave of
\* the file, and the call in progress, if it replaces the file, brings that state back.
Back(op) ==
  /\ Loadable(op)
  /\ \A s \in cfgDisk : s.target = tx.final[op].previous
  /\ runtime = Adapt[tx.final[op].previous]
  /\ call.name \in Replacing => call.value = tx.final[op].previous

\* What a rollback has brought back stays: no call that a controller makes while it rolls
\* back, no error, kill or loss of power takes it away again.
RollbackHolds ==
  [][OneSortOfFault =>
       \A op \in Op : op \in undoing /\ Alone(op) /\ Back(op) =>
         Back(op)' \/ tx'.final[op] # tx.final[op]]_vars

LEMMA BackStep ==
  ASSUME CaddyInv, CandidateInv, DiskInv, [Next]_vars, OneSortOfFault, NEW op \in Op, op \in undoing,
         Alone(op), Back(op), tx'.final[op] = tx.final[op]
  PROVE  Back(op)'
<1> DEFINE p == tx.final[op].previous
<1> USE DEF At, Goto, CaddyInv
<1>b. /\ tx.final[op] \in Transaction /\ runtime = Adapt[p]
      /\ \A s \in cfgDisk : s.target = p
      /\ call.name \in Replacing => call.value = p
  BY DEF Back, Loadable
<1>t. /\ cfg \in Directory /\ cfg \in cfgDisk /\ cfgDisk \subseteq Directory
      /\ call.name \in Replacing => call.op \in Op /\ call.value \in Config
      /\ tx \in txDisk
  BY DEF TypeOK, Replacing
<1>l. \A o \in Op : Loadable(o) => o = op
  BY <1>t DEF CandidateInv, CandidatesOf, Alone, Loadable
<1>c. ASSUME \A s \in cfgDisk' : s.target = p, runtime' = runtime \/ runtime' = Adapt[p],
             call'.name \in Replacing => call'.value = p
      PROVE  Back(op)'
  BY <1>b, <1>c DEF Back, Loadable
<1> HIDE DEF p
<1>1. CASE Calm
  <2>1. UNCHANGED <<cfg, cfgDisk>>
    BY <1>1, CalmEffect
  <2>2. runtime' = runtime \/ runtime' = Adapt[p]
    BY <1>1, <1>b, <1>t, CalmRuns
  <2>3. call'.name \in Replacing => call'.value = p
    <3>1. CASE call' = call \/ call' = Idle
      BY <1>b, <3>1 DEF Idle, Replacing
    <3>2. ASSUME NEW o \in Op, SyncsAgain(o) \/ Activate(o, "candidate") \/ Activate(o, "previous")
          PROVE  call'.name \notin Replacing
      BY <3>2 DEF SyncsAgain, Activate, Replacing
    <3>3. ASSUME NEW o \in Op, o \notin undoing, Install(o)
          PROVE  FALSE
      BY <1>l, <3>3 DEF Install
    <3>4. ASSUME NEW o \in Op, RestoreBegins(o)
          PROVE  call'.value = p
      BY <1>l, <3>4 DEF RestoreBegins, p
    <3>5. CASE Open \/ Close \/ CallFails \/ Kill \/ Reload \/ ReloadTimeout
               \/ \E d \in pending : LateReload(d)
      <4>1. call' = call \/ call' = Idle
        BY <3>5 DEF Open, Close, CallFails, Kill, Reload, ReloadTimeout, LateReload, Return
      <4>2. QED
        BY <3>1, <4>1
    <3>6. ASSUME NEW o \in Op, Undo(o) \/ (\E d \in env.candidates[o] : Preflight(o, d))
          PROVE  call' = call
      BY <3>6 DEF Undo, Preflight
    <3>7. QED
      BY <1>1, <3>1, <3>2, <3>3, <3>4, <3>5, <3>6 DEF Calm
  <2>4. QED
    BY <1>b, <1>c, <2>1, <2>2, <2>3
<1>2. ASSUME NEW o \in Op, StageBegins(o) \/ Promotes(o) \/ RollbackStage(o)
      PROVE  Back(op)'
  <2>1. UNCHANGED <<cfgDisk, runtime>> /\ call'.name \notin Replacing
    BY <1>2 DEF StageBegins, Promotes, RollbackStage, files, caddy, Replacing
  <2>2. QED
    BY <1>b, <1>c, <2>1
<1>3. CASE FillStage \/ SyncStageFiles \/ RenameStage \/ SyncStages \/ RemoveStage
  <2>1. UNCHANGED <<cfgDisk, runtime>> /\ call'.name \notin Replacing
    BY <1>3 DEF FillStage, SyncStageFiles, RenameStage, SyncStages, RemoveStage, files, caddy,
                Return, Idle, Replacing
  <2>2. QED
    BY <1>b, <1>c, <2>1
<1>4. ASSUME NEW o \in Op, RestoreCleans(o)
      PROVE  Back(op)'
  <2>1. /\ runtime' = runtime /\ call'.name \notin Replacing
        /\ ChangeConfig([cfg EXCEPT !.temporary[o] = None])
    BY <1>4 DEF RestoreCleans, caddy, Replacing
  <2>2. [cfg EXCEPT !.temporary[o] = None].target = p
    BY <1>b, <1>t, DirectoryEffect
  <2>3. QED
    BY <1>b, <1>c, <2>1, <2>2, ChangeEffect
<1>5. CASE SyncRemoval
  <2>1. PICK o \in Op : call.op = o
    BY <1>5 DEF SyncRemoval, TypeOK
  <2>2. o = op
    BY <1>5, <1>l, <2>1 DEF SyncRemoval, ReplaceInv
  <2>3. /\ cfgDisk' = {cfg} /\ runtime' = runtime
        /\ call'.name \in Replacing => call'.value = p
    BY <1>5, <2>1, <2>2 DEF SyncRemoval, caddy, Return, Idle, Replacing, p
  <2>4. QED
    BY <1>b, <1>c, <1>t, <2>3
<1>6. CASE CreateTemporary \/ WriteTemporary
  <2>1. PICK o \in Op : call.op = o
    BY <1>6 DEF CreateTemporary, WriteTemporary, TypeOK
  <2>2. call.name \in Replacing /\ runtime' = runtime /\ call'.value = call.value
    BY <1>6 DEF CreateTemporary, WriteTemporary, caddy, Replacing
  <2>3. PICK v \in {Partial, call.value} : ChangeConfig([cfg EXCEPT !.temporary[o] = v])
    BY <1>6, <2>1 DEF CreateTemporary, WriteTemporary
  <2>4. [cfg EXCEPT !.temporary[o] = v].target = p
    BY <1>b, <1>t, <2>2, <2>3, DirectoryEffect
  <2>5. QED
    BY <1>b, <1>c, <2>2, <2>3, <2>4, ChangeEffect
<1>7. CASE SyncTemporary
  <2>1. PICK o \in Op, v \in Config : call.op = o /\ call.value = v
    BY <1>7, <1>t DEF SyncTemporary, Replacing
  <2>2. /\ runtime' = runtime /\ call.name = "syncTemporary" /\ call'.value = call.value
        /\ cfgDisk' = {IF s.temporary[o] = Partial
                       THEN [s EXCEPT !.temporary[o] = v] ELSE s : s \in cfgDisk}
    BY <1>7, <2>1 DEF SyncTemporary, caddy
  <2>3. ASSUME NEW s \in cfgDisk
        PROVE  (IF s.temporary[o] = Partial THEN [s EXCEPT !.temporary[o] = v] ELSE s).target = p
    <3>1. s \in Directory /\ s.target = p
      BY <1>b, <1>t
    <3>2. QED
      BY <3>1, DirectoryEffect
  <2>4. \A s \in cfgDisk' : s.target = p
    BY <2>2, <2>3
  <2>5. QED
    BY <1>b, <1>c, <2>2, <2>4 DEF Replacing
<1>8. CASE RenameTemporary
  <2>1. PICK o \in Op, v \in Config : call.op = o /\ call.value = v
    BY <1>8, <1>t DEF RenameTemporary, Replacing
  <2>2. /\ runtime' = runtime /\ call.name = "renameTemporary" /\ call'.name \notin Replacing
        /\ cfgDisk' \subseteq cfgDisk \cup {Replaced(s, o) : s \in {d \in cfgDisk : d.temporary[o] # None}}
    BY <1>8, <2>1 DEF RenameTemporary, caddy, Replaced, Replacing
  <2>3. v = p
    BY <1>b, <2>1, <2>2 DEF Replacing
  <2>4. ASSUME NEW s \in cfgDisk, s.temporary[o] # None
        PROVE  Replaced(s, o).target = p
    <3>1. s \in Directory /\ s.temporary[o] = v
      BY <1>t, <2>1, <2>2, <2>4 DEF RenameInv, DiskInv, Replacing
    <3>2. QED
      BY <2>3, <3>1, ReplacedEffect
  <2>5. \A s \in cfgDisk' : s.target = p
    BY <1>b, <2>2, <2>4
  <2>6. QED
    BY <1>c, <2>2, <2>5
<1>9. CASE SyncConfig
  <2>1. cfgDisk' = {cfg} /\ runtime' = runtime /\ call' = Idle
    BY <1>9 DEF SyncConfig, caddy, Return
  <2>2. QED
    BY <1>b, <1>c, <1>t, <2>1 DEF Idle, Replacing
<1>10. CASE PowerLoss
  <2>1. /\ cfg' \in cfgDisk /\ cfgDisk' = {cfg'} /\ runtime' = RuntimeOf(cfg'.target) /\ call' = Idle
    BY <1>10 DEF PowerLoss, Return
  <2>2. cfg'.target = p /\ p \in Config
    BY <1>b, <2>1 DEF p, Transaction
  <2>3. QED
    BY <1>c, <2>1, <2>2 DEF RuntimeOf, Idle, Replacing
<1>11. CASE UNCHANGED vars
  BY <1>11, <1>b, <1>c DEF vars
<1>12. QED
  BY <1>1, <1>2, <1>3, <1>4, <1>5, <1>6, <1>7, <1>8, <1>9, <1>10, <1>11, StepCases

\* From the moment a rollback has brought both domains back and no call is in progress,
\* they stay in the previous state for as long as the transaction is there.
THEOREM RollbackHoldsTheorem ==
  Spec => /\ [](OneSortOfFault =>
                  \A op \in Op : Ready /\ Loadable(op) /\ Baseline(op) => Back(op))
          /\ RollbackHolds
<1>1. ASSUME CaddyInv, DiskInv
      PROVE  OneSortOfFault => \A op \in Op : Ready /\ Loadable(op) /\ Baseline(op) => Back(op)
  <2> SUFFICES ASSUME OneSortOfFault, NEW op \in Op, Ready, Loadable(op), Baseline(op)
               PROVE  Back(op)
    OBVIOUS
  <2>1. call = Idle /\ cfgDisk = {cfg}
    BY <1>1 DEF Ready, DiskInv, CaddyInv, PowerInv, OneSortOfFault, Idle
  <2>2. QED
    BY <2>1 DEF Back, Baseline, Idle, Replacing
<1>2. CaddyInv /\ CandidateInv /\ DiskInv /\ [Next]_vars =>
        [OneSortOfFault =>
           \A op \in Op : op \in undoing /\ Alone(op) /\ Back(op) =>
             Back(op)' \/ tx'.final[op] # tx.final[op]]_vars
  <2> SUFFICES ASSUME CaddyInv, CandidateInv, DiskInv, [Next]_vars, OneSortOfFault,
                      NEW op \in Op, op \in undoing, Alone(op), Back(op), tx'.final[op] = tx.final[op]
               PROVE  Back(op)'
    BY DEF Back
  <2>1. QED
    BY BackStep
<1>3. QED
  BY <1>1, <1>2, PlacedInvariant, PTL DEF Spec, RollbackHolds

-----------------------------------------------------------------------------
(* Every step of a rollback call leads nearer to the previous state. *)

FileSteps == Replacing \cup {"syncRemoval", "syncConfig"}

\* The steps that remain until the file has its previous content and no residue is left,
\* where no call is at work on it: to remove residue and to sync that, to begin, to
\* create, write, sync and rename the temporary file and to sync the directory.
FileDue(op) ==
  IF cfg.target # tx.final[op].previous
  THEN IF cfg.temporary[op] = None THEN 6 ELSE 7
  ELSE IF cfg.temporary[op] = None THEN 0 ELSE 2

FileDistance(op) ==
  CASE At("createTemporary") -> 5
    [] At("writeTemporary")  -> 4
    [] At("syncTemporary")   -> 3
    [] At("renameTemporary") -> 2
    [] At("syncConfig")      -> 1
    [] At("syncRemoval")     -> IF cfg.target # tx.final[op].previous THEN 6 ELSE 1
    [] OTHER                 -> FileDue(op)

\* And until Caddy runs it.
RunDistance(op) ==
  IF runtime = Adapt[tx.final[op].previous] THEN 0 ELSE IF At("reload") THEN 1 ELSE 2

Distance(op) == FileDistance(op) + RunDistance(op)

\* The call in progress is not one that brings the candidate in.
Backward(op) ==
  /\ call.name \in Replacing \cup {"reload"} => call.value = tx.final[op].previous
  /\ At("syncConfig") => cfg.target = tx.final[op].previous /\ cfg.temporary[op] = None

\* Once a rollback was decided and no forward call is in progress, only an error, a kill or
\* a loss of power takes an operation that changes something away from the previous
\* state; each rollback call, and each of its steps, brings it nearer.  (Caddy is reloaded
\* in vain where both contents adapt to what it runs already.)
RollbackNears ==
  [][OneSortOfFault =>
       \A op \in Op :
         /\ op \in undoing /\ Alone(op) /\ Loadable(op) /\ tx'.final[op] = tx.final[op]
         /\ tx.final[op].previous # tx.final[op].candidate
         /\ Backward(op)
         => /\ Backward(op)'
            /\ Distance(op)' <= Distance(op) \/ Damage
            /\ Restore(op) \/ (CallStep /\ call.name \in FileSteps) => Distance(op)' < Distance(op)
            /\ Activate(op, "previous") \/ Reload =>
                 runtime = Adapt[tx.final[op].previous] \/ Distance(op)' < Distance(op)]_vars

\* It is over when the distance is zero.
ZeroIsBaseline ==
  OneSortOfFault /\ Ready =>
    \A op \in Op : Loadable(op) => (Distance(op) = 0 <=> Baseline(op))

\* The distances, by the call in progress.
LEMMA DistanceIs ==
  ASSUME NEW op \in Op
  PROVE  LET p == tx.final[op].previous
         IN  /\ Distance(op) = FileDistance(op) + RunDistance(op)
             /\ FileDistance(op) \in Nat /\ RunDistance(op) \in Nat
             /\ call.name = "createTemporary" => FileDistance(op) = 5
             /\ call.name = "writeTemporary" => FileDistance(op) = 4
             /\ call.name = "syncTemporary" => FileDistance(op) = 3
             /\ call.name = "renameTemporary" => FileDistance(op) = 2
             /\ call.name = "syncConfig" => FileDistance(op) = 1
             /\ call.name = "syncRemoval" => FileDistance(op) = IF cfg.target # p THEN 6 ELSE 1
             /\ call.name \in StageCalls \cup {"idle", "reload"} => FileDistance(op) = FileDue(op)
             /\ FileDue(op) = IF cfg.target # p THEN IF cfg.temporary[op] = None THEN 6 ELSE 7
                              ELSE IF cfg.temporary[op] = None THEN 0 ELSE 2
             /\ RunDistance(op) = IF runtime = Adapt[p] THEN 0 ELSE IF call.name = "reload" THEN 1 ELSE 2
  BY DEF Distance, FileDistance, FileDue, RunDistance, At, StageCalls

LEMMA NearStep ==
  ASSUME CaddyInv, CandidateInv, DiskInv, PlacedInv, [Next]_vars, OneSortOfFault, NEW op \in Op,
         op \in undoing, Alone(op), Loadable(op), tx'.final[op] = tx.final[op],
         tx.final[op].previous # tx.final[op].candidate, Backward(op)
  PROVE  /\ Backward(op)'
         /\ Distance(op)' <= Distance(op) \/ Damage
         /\ Restore(op) \/ (CallStep /\ call.name \in FileSteps) => Distance(op)' < Distance(op)
         /\ Activate(op, "previous") \/ Reload =>
              runtime = Adapt[tx.final[op].previous] \/ Distance(op)' < Distance(op)
<1> DEFINE p == tx.final[op].previous
<1> USE DEF At, Goto, CaddyInv
<1>b. /\ call.name \in Replacing \cup {"reload"} => call.value = p
      /\ call.name = "syncConfig" => cfg.target = p /\ cfg.temporary[op] = None
  BY DEF Backward
<1>t. /\ cfg \in Directory /\ tx \in txDisk
      /\ call.name \in Replacing \cup {"syncRemoval"} => call.op \in Op
      /\ call.name \in Replacing => call.value \in Config
  BY DEF TypeOK, Replacing
<1>l. \A o \in Op : Loadable(o) => o = op
  BY <1>t DEF CandidateInv, CandidatesOf, Alone, Loadable
<1>o. call.name \in Replacing \cup {"syncRemoval"} => call.op = op
  BY <1>l, <1>t DEF ReplaceInv
<1>d. /\ Distance(op) = FileDistance(op) + RunDistance(op)
      /\ FileDistance(op) \in Nat /\ RunDistance(op) \in Nat
      /\ call.name = "createTemporary" => FileDistance(op) = 5
      /\ call.name = "writeTemporary" => FileDistance(op) = 4
      /\ call.name = "syncTemporary" => FileDistance(op) = 3
      /\ call.name = "renameTemporary" => FileDistance(op) = 2
      /\ call.name = "syncConfig" => FileDistance(op) = 1
      /\ call.name = "syncRemoval" => FileDistance(op) = IF cfg.target # p THEN 6 ELSE 1
      /\ call.name \in StageCalls \cup {"idle", "reload"} => FileDistance(op) = FileDue(op)
      /\ FileDue(op) = IF cfg.target # p THEN IF cfg.temporary[op] = None THEN 6 ELSE 7
                       ELSE IF cfg.temporary[op] = None THEN 0 ELSE 2
      /\ RunDistance(op) = IF runtime = Adapt[p] THEN 0 ELSE IF call.name = "reload" THEN 1 ELSE 2
  BY DistanceIs
<1>e. /\ Distance(op)' = FileDistance(op)' + RunDistance(op)'
      /\ FileDistance(op)' \in Nat /\ RunDistance(op)' \in Nat
      /\ call'.name = "createTemporary" => FileDistance(op)' = 5
      /\ call'.name = "writeTemporary" => FileDistance(op)' = 4
      /\ call'.name = "syncTemporary" => FileDistance(op)' = 3
      /\ call'.name = "renameTemporary" => FileDistance(op)' = 2
      /\ call'.name = "syncConfig" => FileDistance(op)' = 1
      /\ call'.name = "syncRemoval" => FileDistance(op)' = IF cfg'.target # p THEN 6 ELSE 1
      /\ call'.name \in StageCalls \cup {"idle", "reload"} => FileDistance(op)' = FileDue(op)'
      /\ FileDue(op)' = IF cfg'.target # p THEN IF cfg'.temporary[op] = None THEN 6 ELSE 7
                        ELSE IF cfg'.temporary[op] = None THEN 0 ELSE 2
      /\ RunDistance(op)' = IF runtime' = Adapt[p] THEN 0 ELSE IF call'.name = "reload" THEN 1 ELSE 2
  BY DEF Distance, FileDistance, FileDue, RunDistance, StageCalls
<1>k. ASSUME call'.name \in Replacing \cup {"reload"} => call'.value = p,
             call'.name = "syncConfig" => cfg'.target = p /\ cfg'.temporary[op] = None
      PROVE  Backward(op)'
  BY <1>k DEF Backward
<1> HIDE DEF p
<1>r. ASSUME runtime' = runtime, call.name # "reload"
      PROVE  RunDistance(op)' <= RunDistance(op)
  BY <1>d, <1>e, <1>r
<1> DEFINE Nears == Backward(op)' /\ Distance(op)' < Distance(op)
           Stays == Backward(op)' /\ Distance(op)' <= Distance(op)
\* Nothing happens to the file and to Caddy.
<1>1. ASSUME UNCHANGED <<cfg, runtime>>, call.name \in StageCalls \cup {"idle"},
             call'.name \in StageCalls \cup {"idle"}
      PROVE  Stays
  BY <1>1, <1>d, <1>e, <1>k, <1>r DEF StageCalls, Replacing, FileDue
<1>2. ASSUME UNCHANGED <<cfg, runtime, call>>
      PROVE  Stays
  <2>1. Backward(op)'
    BY <1>2, <1>b, <1>k
  <2>2. Distance(op)' = Distance(op)
    BY <1>2 DEF Distance, FileDistance, FileDue, RunDistance
  <2>3. QED
    BY <2>1, <2>2, <1>d
\* The rollback calls and their steps.
<1>3. ASSUME NEW o \in Op, RestoreBegins(o)
      PROVE  Nears
  <2>1. o = op /\ cfg.target = tx.final[op].candidate
    BY <1>3, <1>l, FileStateFacts DEF RestoreBegins
  <2>2. /\ UNCHANGED <<cfg, runtime>> /\ call.name = "idle" /\ call'.name = "createTemporary"
        /\ call'.value = p /\ cfg.temporary[op] = None /\ cfg.target # p
    BY <1>3, <2>1 DEF RestoreBegins, files, caddy, Ready, Idle, p
  <2>3. FileDistance(op) = 6 /\ FileDistance(op)' = 5
    BY <1>d, <1>e, <2>2
  <2>4. QED
    BY <1>d, <1>e, <1>k, <1>r, <2>2, <2>3
<1>4. ASSUME NEW o \in Op, RestoreCleans(o)
      PROVE  Nears
  <2>1. o = op
    BY <1>4, <1>l DEF RestoreCleans
  <2>2. /\ runtime' = runtime /\ call.name = "idle" /\ call'.name = "syncRemoval"
        /\ cfg.temporary[op] # None /\ cfg' = [cfg EXCEPT !.temporary[op] = None]
    BY <1>4, <2>1 DEF RestoreCleans, caddy, Ready, Idle, ChangeConfig
  <2>3. cfg'.target = cfg.target
    BY <1>t, <2>2, DirectoryEffect
  <2>4. FileDistance(op) = (IF cfg.target # p THEN 7 ELSE 2) /\ FileDistance(op)' = FileDistance(op) - 1
    BY <1>d, <1>e, <2>2, <2>3
  <2>5. QED
    BY <1>d, <1>e, <1>k, <1>r, <2>2, <2>4 DEF Replacing
<1>5. ASSUME SyncRemoval
      PROVE  Nears
  <2>1. call.op = op /\ call.name = "syncRemoval"
    BY <1>5, <1>o DEF SyncRemoval
  <2>2. UNCHANGED <<cfg, runtime>> /\ cfg.temporary[op] = None
    BY <1>5, <2>1 DEF SyncRemoval, caddy, DiskInv
  <2>3. cfg.target \in {p, tx.final[op].candidate}
    BY <1>t DEF PlacedInv, InPlace, Placed, Loadable, TypeOK, p
  <2>4. CASE cfg.target # p
    <3>1. FileState(op) = "candidate"
      BY <2>3, <2>4 DEF FileState, Classify
    <3>2. call'.name = "createTemporary" /\ call'.value = p
      BY <1>5, <2>1, <3>1 DEF SyncRemoval, p
    <3>3. QED
      BY <1>d, <1>e, <1>k, <1>r, <2>1, <2>2, <2>4, <3>2
  <2>5. CASE cfg.target = p
    <3>1. FileState(op) # "candidate"
      BY <2>5, FileStateFacts DEF p
    <3>2. call'.name = "idle"
      BY <1>5, <2>1, <3>1 DEF SyncRemoval, Return, Idle
    <3>3. QED
      BY <1>d, <1>e, <1>k, <1>r, <2>1, <2>2, <2>5, <3>2 DEF Replacing
  <2>6. QED
    BY <2>4, <2>5
<1>6. ASSUME CreateTemporary \/ WriteTemporary \/ SyncTemporary
      PROVE  Nears
  <2>1. /\ runtime' = runtime /\ call'.value = call.value /\ call.name \in Replacing
        /\ \/ call.name = "createTemporary" /\ call'.name = "writeTemporary"
           \/ call.name = "writeTemporary" /\ call'.name = "syncTemporary"
           \/ call.name = "syncTemporary" /\ call'.name = "renameTemporary"
    BY <1>6 DEF CreateTemporary, WriteTemporary, SyncTemporary, caddy, Replacing
  <2>2. call'.value = p /\ call'.name # "syncConfig"
    BY <1>b, <2>1
  <2>3. FileDistance(op)' < FileDistance(op)
    BY <1>d, <1>e, <2>1
  <2>4. QED
    BY <1>d, <1>e, <1>k, <1>r, <2>1, <2>2, <2>3
<1>7. ASSUME RenameTemporary
      PROVE  Nears
  <2>1. call.name = "renameTemporary" /\ call.op = op /\ call.value = p /\ p \in Config
    BY <1>7, <1>b, <1>o, <1>t DEF RenameTemporary, Replacing
  <2>2. /\ runtime' = runtime /\ call'.name = "syncConfig" /\ cfg.temporary[op] = p
        /\ cfg' = [cfg EXCEPT !.target = cfg.temporary[op], !.temporary[op] = None]
    BY <1>7, <2>1 DEF RenameTemporary, caddy, RenameInv
  <2>3. cfg'.target = p /\ cfg'.temporary[op] = None
    BY <1>t, <2>2 DEF Directory
  <2>4. QED
    BY <1>d, <1>e, <1>k, <1>r, <2>1, <2>2, <2>3 DEF Replacing
<1>8. ASSUME SyncConfig
      PROVE  Nears
  <2>1. UNCHANGED <<cfg, runtime>> /\ call.name = "syncConfig" /\ call'.name = "idle"
    BY <1>8 DEF SyncConfig, caddy, Return, Idle
  <2>2. FileDistance(op)' = 0 /\ FileDistance(op) = 1
    BY <1>b, <1>d, <1>e, <2>1
  <2>3. QED
    BY <1>d, <1>e, <1>k, <1>r, <2>1, <2>2 DEF Replacing
<1>9. ASSUME NEW o \in Op, Activate(o, "previous")
      PROVE  Stays /\ (runtime = Adapt[p] \/ Nears)
  <2>1. o = op /\ cfg.target = tx.final[op].previous
    BY <1>9, <1>l, FileStateFacts DEF Activate, CanActivate
  <2>2. /\ UNCHANGED <<cfg, runtime>> /\ call.name = "idle" /\ call'.name = "reload"
        /\ call'.value = p
    BY <1>9, <2>1 DEF Activate, CanActivate, files, caddy, Ready, Idle, p
  <2>3. FileDistance(op)' = FileDistance(op)
    BY <1>d, <1>e, <2>2
  <2>4. QED
    BY <1>d, <1>e, <1>k, <1>r, <2>2, <2>3
<1>10. ASSUME Reload
       PROVE  Stays /\ (runtime = Adapt[p] \/ Nears)
  <2>1. /\ cfg' = cfg /\ runtime' = Adapt[p] /\ call.name = "reload" /\ call'.name = "idle"
    BY <1>10, <1>b DEF Reload, files, Return, Idle
  <2>2. FileDistance(op)' = FileDistance(op) /\ RunDistance(op)' = 0
    BY <1>d, <1>e, <2>1
  <2>3. QED
    BY <1>d, <1>e, <1>k, <2>1, <2>2 DEF Replacing
<1> HIDE DEF Nears, Stays
<1>11. ASSUME Damage
       PROVE  Backward(op)'
  <2>1. call'.name = "idle"
    BY <1>11 DEF Damage, CallFails, Kill, PowerLoss, Return, Idle
  <2>2. QED
    BY <1>k, <2>1 DEF Replacing
\* The others.
<1>12. ASSUME NEW o \in Op, StageBegins(o) \/ Promotes(o) \/ RollbackStage(o) \/ SyncsAgain(o)
       PROVE  Stays
  <2>1. /\ UNCHANGED <<cfg, runtime>> /\ call.name = "idle"
        /\ call'.name \in {"fillStage", "syncStages", "removeStage"}
    BY <1>12 DEF StageBegins, Promotes, RollbackStage, SyncsAgain, files, caddy, Ready, Idle
  <2>2. QED
    BY <1>1, <2>1 DEF StageCalls
<1>13. ASSUME FillStage \/ SyncStageFiles \/ RenameStage \/ SyncStages \/ RemoveStage
       PROVE  Stays
  <2>1. /\ UNCHANGED <<cfg, runtime>> /\ call.name \in StageCalls
        /\ call'.name \in StageCalls \cup {"idle"}
    BY <1>13 DEF FillStage, SyncStageFiles, RenameStage, SyncStages, RemoveStage, files, caddy,
                 Return, Idle, StageCalls
  <2>2. QED
    BY <1>1, <2>1
<1>14. ASSUME Open \/ Close \/ \E o \in Op : Undo(o) \/ \E c \in env.candidates[o] : Preflight(o, c)
       PROVE  Stays
  <2>1. UNCHANGED <<cfg, runtime, call>>
    BY <1>14 DEF Open, Close, Undo, Preflight, files, caddy
  <2>2. QED
    BY <1>2, <2>1
<1>15. /\ ~ReloadTimeout /\ ~\E c \in pending : LateReload(c)
       /\ \A o \in Op \ undoing : ~Install(o) /\ ~Activate(o, "candidate")
  <2>1. ~ReloadTimeout
    BY DEF ReloadTimeout, OneSortOfFault, OnlyPowerIsLost
  <2>2. pending = {}
    BY DEF DiskInv
  <2>3. \A o \in Op \ undoing : ~Install(o) /\ ~Activate(o, "candidate")
    BY <1>l DEF Install, Activate, CanActivate
  <2>4. QED
    BY <2>1, <2>2, <2>3
<1>16. Stays \/ (Damage /\ Backward(op)')
  <2>1. ASSUME Nears
        PROVE  Stays
    BY <2>1, <1>d, <1>e DEF Nears, Stays
  <2>2. ASSUME Calm
        PROVE  Stays \/ (Damage /\ Backward(op)')
    BY <1>3, <1>9, <1>10, <1>11, <1>12, <1>14, <1>15, <2>1, <2>2 DEF Calm, Damage
  <2>3. ASSUME UNCHANGED vars
        PROVE  Stays
    BY <2>3, <1>2 DEF vars
  <2>4. QED
    BY <1>4, <1>5, <1>6, <1>7, <1>8, <1>11, <1>12, <1>13, <2>1, <2>2, <2>3, StepCases DEF Damage
<1>17. ASSUME Restore(op)
       PROVE  Nears
  BY <1>3, <1>4, <1>17 DEF Restore, CanRestore, RestoreCleans, RestoreBegins, control
<1>18. ASSUME CallStep, call.name \in FileSteps
       PROVE  Nears
  <2>1. SyncRemoval \/ CreateTemporary \/ WriteTemporary \/ SyncTemporary \/ RenameTemporary \/ SyncConfig
    BY <1>18 DEF CallStep, FileSteps, Replacing, FillStage, SyncStageFiles, RenameStage, SyncStages,
                 RemoveStage, Reload, ReloadTimeout
  <2>2. QED
    BY <1>5, <1>6, <1>7, <1>8, <2>1
<1>19. QED
  BY <1>9, <1>10, <1>16, <1>17, <1>18 DEF Nears, Stays, p

\* The measure behind the end of a rollback: errors, kills and losses of power apart, what
\* is left of it only shrinks, and what is left when nothing is left is the previous state.
THEOREM RollbackNearsTheorem == Spec => RollbackNears /\ []ZeroIsBaseline
<1>1. CaddyInv /\ CandidateInv /\ DiskInv /\ PlacedInv /\ [Next]_vars =>
        [OneSortOfFault =>
           \A op \in Op :
             /\ op \in undoing /\ Alone(op) /\ Loadable(op) /\ tx'.final[op] = tx.final[op]
             /\ tx.final[op].previous # tx.final[op].candidate
             /\ Backward(op)
             => /\ Backward(op)'
                /\ Distance(op)' <= Distance(op) \/ Damage
                /\ Restore(op) \/ (CallStep /\ call.name \in FileSteps) => Distance(op)' < Distance(op)
                /\ Activate(op, "previous") \/ Reload =>
                     runtime = Adapt[tx.final[op].previous] \/ Distance(op)' < Distance(op)]_vars
  BY NearStep
<1>2. ZeroIsBaseline
  <2> SUFFICES ASSUME Ready, NEW op \in Op
               PROVE  Distance(op) = 0 <=> Baseline(op)
    BY DEF ZeroIsBaseline
  <2>1. call.name = "idle"
    BY DEF Ready, Idle
  <2>2. QED
    BY <2>1, DistanceIs DEF Baseline
<1>3. QED
  BY <1>1, <1>2, PlacedInvariant, PTL DEF Spec, RollbackNears
=============================================================================
