----------------------- MODULE ContainerAdapterProofs -----------------------
(***************************************************************************)
(* What the proofs about the PostgreSQL and the Authentik adapter share:   *)
(* the effect of each docker command, which steps touch containers, and    *)
(* how the transaction files stand to the disk.                            *)
(***************************************************************************)
EXTENDS ContainerAdapter, FiniteSetTheorems, TLAPS

ContainersOK == containers \in [Names -> Container \cup {None}]

-----------------------------------------------------------------------------
(* The docker commands, name by name. *)

\* A container is a record, or there is none.
LEMMA Presence ==
  ASSUME ContainersOK, NEW n \in Names
  PROVE  /\ Absent(n) <=> containers[n] \notin Container
         /\ Running(n) => ~Absent(n)
         /\ ~Absent(n) => containers[n].generation \in Generation
                          /\ containers[n].running \in BOOLEAN
  BY NothingAssumption DEF ContainersOK, Absent, Running, Container

\* docker stop and docker start change the power of one container.
LEMMA PowerEffect ==
  ASSUME ContainersOK, NEW n \in Names, NEW kind \in {"stop", "start"},
         Execute(Command(kind, n, None, None))
  PROVE  /\ ContainersOK'
         /\ \A m \in Names \ {n} : containers'[m] = containers[m]
         /\ Absent(n) => containers'[n] = None
         /\ ~Absent(n) => /\ containers'[n] \in Container
                          /\ containers'[n].generation = containers[n].generation
                          /\ containers'[n].running = (kind = "start")
<1> DEFINE c == Command(kind, n, None, None)
<1>1. c.kind = kind /\ c.name = n
  BY DEF Command
<1>2. Accepts(c) <=> ~Absent(n)
  BY <1>1 DEF Accepts
<1>3. After(c) = [containers EXCEPT ![n].running = (kind = "start")]
  BY <1>1 DEF After
<1>4. CASE Absent(n)
  BY <1>2, <1>4 DEF Execute, Absent, ContainersOK
<1>5. CASE ~Absent(n)
  <2>1. containers[n] \in Container
    BY <1>5, Presence
  <2>2. containers' = [containers EXCEPT ![n].running = (kind = "start")]
    BY <1>2, <1>3, <1>5 DEF Execute
  <2>3. /\ containers'[n] \in Container
        /\ containers'[n].generation = containers[n].generation
        /\ containers'[n].running = (kind = "start")
    BY <2>1, <2>2 DEF ContainersOK, Container
  <2>4. QED
    BY <1>5, <2>2, <2>3 DEF ContainersOK
<1>6. QED
  BY <1>4, <1>5

\* docker create makes a container that rests, under a name that was free.
LEMMA CreateEffect ==
  ASSUME ContainersOK, NEW n \in Names, NEW g \in Generation, Execute(CreateCommand(n, g))
  PROVE  /\ ContainersOK'
         /\ \A m \in Names \ {n} : containers'[m] = containers[m]
         /\ Absent(n) => containers'[n] = [generation |-> g, running |-> FALSE]
         /\ ~Absent(n) => containers'[n] = containers[n]
<1> DEFINE c == CreateCommand(n, g)
<1>1. c.kind = "create" /\ c.name = n /\ c.generation = g
  BY DEF Command, CreateCommand
<1>2. Accepts(c) <=> Absent(n)
  BY <1>1 DEF Accepts
<1>3. After(c) = [containers EXCEPT ![n] = [generation |-> g, running |-> FALSE]]
  BY <1>1 DEF After
<1>4. [generation |-> g, running |-> FALSE] \in Container
  BY DEF Container
<1>5. QED
  BY <1>2, <1>3, <1>4 DEF Execute, ContainersOK

\* docker rm takes away a container that rests.
LEMMA RemoveEffect ==
  ASSUME ContainersOK, NEW n \in Names, NEW g, Execute(RemoveCommand(n, g))
  PROVE  /\ ContainersOK'
         /\ \A m \in Names \ {n} : containers'[m] = containers[m]
         /\ containers'[n] = IF Running(n) THEN containers[n] ELSE None
<1> DEFINE c == RemoveCommand(n, g)
<1>1. c.kind = "rm" /\ c.name = n
  BY DEF Command, RemoveCommand
<1>2. Accepts(c) <=> ~Absent(n) /\ ~Running(n)
  BY <1>1 DEF Accepts
<1>3. After(c) = [containers EXCEPT ![n] = None]
  BY <1>1 DEF After
<1>4. QED
  BY <1>2, <1>3 DEF Execute, ContainersOK, Absent, Running

\* docker rename moves a container to a name that is free.
LEMMA RenameEffect ==
  ASSUME ContainersOK, NEW n \in Names, NEW m \in Names, n # m, Execute(RenameCommand(n, m))
  PROVE  /\ ContainersOK'
         /\ \A k \in Names \ {n, m} : containers'[k] = containers[k]
         /\ IF ~Absent(n) /\ Absent(m)
            THEN containers'[m] = containers[n] /\ containers'[n] = None
            ELSE containers'[m] = containers[m] /\ containers'[n] = containers[n]
<1> DEFINE c == RenameCommand(n, m)
<1>1. c.kind = "rename" /\ c.name = n /\ c.to = m
  BY DEF Command, RenameCommand
<1>2. Accepts(c) <=> ~Absent(n) /\ Absent(m)
  BY <1>1 DEF Accepts
<1>3. After(c) = [containers EXCEPT ![m] = containers[n], ![n] = None]
  BY <1>1 DEF After
<1>4. QED
  BY <1>2, <1>3 DEF Execute, ContainersOK

\* A container that ends by itself only stops running.
LEMMA ExitEffect ==
  ASSUME ContainersOK, NEW n \in Names, Exit(n)
  PROVE  /\ ContainersOK' /\ env' = env /\ call' = call /\ pending' = pending
         /\ \A m \in Names \ {n} : containers'[m] = containers[m]
         /\ ~Absent(n) /\ ~Absent(n)'
         /\ containers'[n].generation = containers[n].generation
         /\ containers'[n].running = FALSE
<1>1. ~Absent(n) /\ containers[n] \in Container
  BY Presence DEF Exit, Running
<1>2. containers' = [containers EXCEPT ![n].running = FALSE]
  BY DEF Exit
<1>3. /\ containers'[n] \in Container
      /\ containers'[n].generation = containers[n].generation
      /\ containers'[n].running = FALSE
  BY <1>1, <1>2 DEF ContainersOK, Container
<1>4. ~Absent(n)'
  BY <1>3, NothingAssumption DEF Absent
<1>5. ContainersOK' /\ \A m \in Names \ {n} : containers'[m] = containers[m]
  BY <1>2, <1>3 DEF ContainersOK
<1>6. QED
  BY <1>1, <1>3, <1>4, <1>5 DEF Exit, Fault

\* A loss of power stops every container and keeps it.
LEMMA PowerLossEffect ==
  ASSUME ContainersOK, PowerLoss
  PROVE  /\ ContainersOK'
         /\ \A n \in Names : Absent(n) => containers'[n] = None
         /\ \A n \in Names : ~Absent(n) =>
              /\ containers'[n] \in Container
              /\ containers'[n].generation = containers[n].generation
              /\ containers'[n].running = FALSE
<1>1. ASSUME NEW n \in Names, Absent(n)
      PROVE  containers'[n] = None
  BY <1>1 DEF PowerLoss
<1>2. ASSUME NEW n \in Names, ~Absent(n)
      PROVE  /\ containers'[n] \in Container
             /\ containers'[n].generation = containers[n].generation
             /\ containers'[n].running = FALSE
  <2>1. containers[n] \in Container
    BY <1>2, Presence
  <2>2. containers'[n] = [containers[n] EXCEPT !.running = FALSE]
    BY <1>2 DEF PowerLoss
  <2>3. QED
    BY <2>1, <2>2 DEF Container
<1>3. containers' = [n \in Names |-> containers'[n]]
  BY DEF PowerLoss
<1>4. \A n \in Names : containers'[n] \in Container \cup {None}
  BY <1>1, <1>2
<1>5. QED
  BY <1>1, <1>2, <1>3, <1>4 DEF ContainersOK

-----------------------------------------------------------------------------
(* The steps that have nothing to do with a container. *)

Quiet ==
  \/ Open \/ Close \/ StageStep \/ InitializeData \/ CallFails
  \/ \E op \in Op : \/ Undo(op) \/ StageTransaction(op)
                    \/ ReconcileTransaction(op) \/ RemoveTransaction(op)
                    \/ \E previous \in Generation \cup {None} : Prepare(op, previous)

\* They leave every container alone, and no command begins in them.
LEMMA QuietEffect ==
  ASSUME Quiet
  PROVE  /\ env' = env /\ containers' = containers /\ pending' = pending /\ rooted' = rooted
         /\ call' = call \/ call'.name # "command"
         /\ faultsLeft' = faultsLeft \/ faultsLeft' = faultsLeft - 1
<1> USE DEF control, stages, engine, Idle, Return, Goto
<1>1. CASE Open \/ Close
  BY <1>1 DEF Open, Close
<1>2. CASE StageStep
  BY <1>2 DEF StageStep, WriteStage, SyncStageFile, RenameStage, SyncStages
<1>3. CASE InitializeData \/ CallFails
  BY <1>3 DEF InitializeData, CallFails, Fault
<1>4. ASSUME NEW op \in Op, Undo(op) \/ StageTransaction(op)
                            \/ ReconcileTransaction(op) \/ RemoveTransaction(op)
      PROVE  /\ env' = env /\ containers' = containers /\ pending' = pending /\ rooted' = rooted
             /\ call' = call \/ call'.name # "command"
             /\ faultsLeft' = faultsLeft
  BY <1>4 DEF Undo, StageTransaction, ReconcileTransaction, RemoveTransaction
<1>5. ASSUME NEW op \in Op, NEW previous \in Generation \cup {None}, Prepare(op, previous)
      PROVE  /\ env' = env /\ containers' = containers /\ pending' = pending /\ rooted' = rooted
             /\ call' = call /\ faultsLeft' = faultsLeft
  BY <1>5 DEF Prepare
<1>6. QED
  BY <1>1, <1>2, <1>3, <1>4, <1>5 DEF Quiet

-----------------------------------------------------------------------------
(* The transaction files. *)

CallNames == {"idle", "writeStage", "syncFile", "renameStage", "syncStages", "command"}
Files == [final : [Op -> Transaction \cup {None, Partial}],
          stage : [Op -> Transaction \cup {None, Partial}]]

StageTypeOK ==
  /\ env.rooted => rooted
  /\ tx \in Files /\ txDisk \subseteq Files /\ tx \in txDisk /\ dirty \subseteq Op
  /\ prepared \in [Op -> Transaction \cup {None}]
  /\ data \in {"empty", "partial", "initialized"}
  /\ call.name \in CallNames /\ (call.name = "idle" <=> call = Idle)
  /\ ~At("idle") => call.op \in Op
  /\ At("writeStage") => call.value \in Transaction

\* The operation has moved a container aside or made its candidate.
Touched(op) ==
  \E r \in Role : ~Absent(Rollback(r, op)) \/ (Alone /\ Holds(Primary(r), op))

\* The transactions of a directory cover what was touched; no operation restores
\* its own candidate.
Covers(s) ==
  \A op \in Op :
    /\ Touched(op) => s.final[op] \in Transaction /\ s.stage[op] = None
    /\ Alone => /\ s.final[op] \in Transaction => s.final[op].previous # op
                /\ s.stage[op] \in Transaction => s.stage[op].previous # op

\* Between calls the directory is synced, so that a loss of power finds what the
\* calls saw; while an operation is being staged it has touched nothing.
StageInv ==
  FilesLast /\ ~Late =>
    /\ \A s \in txDisk : Covers(s)
    /\ "power" \notin env.faults \/ At("idle") \/ At("command") => txDisk = {tx} /\ dirty = {}
    /\ dirty \subseteq (IF At("syncFile") THEN {call.op} ELSE {})
    /\ call.name \in {"writeStage", "syncFile", "renameStage"} => ~Touched(call.op)
    /\ At("writeStage") /\ Alone => call.value.previous # call.op
    /\ At("command") => Loadable(call.op)

\* Rewriting one file of the directory.
LEMMA FilesEffect ==
  ASSUME NEW s \in Files, NEW op \in Op, NEW v \in Transaction \cup {None, Partial}
  PROVE  /\ [s EXCEPT !.stage[op] = v] \in Files
         /\ [s EXCEPT !.stage[op] = v].final = s.final
         /\ [s EXCEPT !.stage[op] = v].stage[op] = v
         /\ \A o \in Op \ {op} : [s EXCEPT !.stage[op] = v].stage[o] = s.stage[o]
         /\ [s EXCEPT !.final[op] = v] \in Files
         /\ [s EXCEPT !.final[op] = v].stage = s.stage
         /\ [s EXCEPT !.final[op] = v].final[op] = v
         /\ \A o \in Op \ {op} : [s EXCEPT !.final[op] = v].final[o] = s.final[o]
  BY DEF Files

\* Promoting a stage file.
LEMMA PromotedEffect ==
  ASSUME tx \in Files, NEW op \in Op
  PROVE  /\ Promoted(op) \in Files
         /\ Promoted(op).final[op] = tx.stage[op] /\ Promoted(op).stage[op] = None
         /\ \A o \in Op \ {op} : Promoted(op).final[o] = tx.final[o]
                                 /\ Promoted(op).stage[o] = tx.stage[o]
  BY DEF Files, Promoted

\* What a loss of power tears.
LEMMA TornEffect ==
  ASSUME NEW s \in Files, NEW lost \in SUBSET Op
  PROVE  /\ AfterPowerLoss(s, lost) \in Files
         /\ \A op \in Op \ lost : AfterPowerLoss(s, lost).final[op] = s.final[op]
                                  /\ AfterPowerLoss(s, lost).stage[op] = s.stage[op]
         /\ \A op \in lost : AfterPowerLoss(s, lost).final[op] \in {None, Partial}
                             /\ AfterPowerLoss(s, lost).stage[op] \in {None, Partial}
  BY DEF Files, AfterPowerLoss

\* A change of the directory is one the disk may have seen or not.
LEMMA ChangeEffect ==
  ASSUME NEW new \in Files, txDisk \subseteq Files, ChangeStages(new)
  PROVE  /\ tx' = new /\ tx' \in txDisk' /\ txDisk' \subseteq txDisk \cup {new}
         /\ "power" \notin env.faults => txDisk' = {new}
  BY DEF ChangeStages

\* Prepare returns a transaction.
LEMMA PrepareType ==
  ASSUME StageTypeOK, NEW op \in Op, NEW previous \in Generation \cup {None},
         Prepare(op, previous)
  PROVE  prepared' \in [Op -> Transaction \cup {None}]
<1> DEFINE t == [previous |-> previous, running |-> [r \in Role |-> Running(Primary(r))],
                 data |-> data]
<1>1. [r \in Role |-> Running(Primary(r))] \in [Role -> BOOLEAN]
  BY DEF Running
<1>2. data \in {"empty", "initialized"}
  BY DEF Prepare, StageTypeOK
<1>3. t \in Transaction
  BY <1>1, <1>2 DEF Transaction
<1>4. prepared' = [prepared EXCEPT ![op] = t]
  BY DEF Prepare
<1>5. QED
  BY <1>3, <1>4 DEF StageTypeOK

\* The directory and the calls keep their types in the steps that touch no container.
LEMMA QuietStageType ==
  ASSUME StageTypeOK, Quiet
  PROVE  StageTypeOK'
<1> USE DEF At
<1>z. env'.rooted => rooted'
  BY QuietEffect DEF StageTypeOK
\* A call that goes on has a name of its own.
<1>g. ASSUME NEW name \in CallNames \ {"idle"}, NEW op \in Op, NEW value, Goto(name, op, value),
             name = "writeStage" => value \in Transaction
      PROVE  /\ call'.name \in CallNames /\ (call'.name = "idle" <=> call' = Idle)
             /\ ~At("idle")' => call'.op \in Op
             /\ At("writeStage")' => call'.value \in Transaction
  BY <1>g DEF Goto, Idle
<1>r. ASSUME Return
      PROVE  /\ call'.name \in CallNames /\ (call'.name = "idle" <=> call' = Idle)
             /\ ~At("idle")' => call'.op \in Op
             /\ At("writeStage")' => call'.value \in Transaction
  BY <1>r DEF Return, Idle, CallNames
<1>c. ASSUME NEW new \in Files, ChangeStages(new)
      PROVE  tx' \in Files /\ txDisk' \subseteq Files /\ tx' \in txDisk'
  BY <1>z, <1>c, ChangeEffect DEF StageTypeOK
<1>n. [op \in Op |-> None] \in [Op -> Transaction \cup {None}]
  OBVIOUS
<1>1. CASE Open \/ Close
  BY <1>z, <1>1, <1>n DEF Open, Close, StageTypeOK, control, stages, engine
<1>2. CASE WriteStage
  <2>1. call.op \in Op /\ call.value \in Transaction
    BY <1>z, <1>2 DEF WriteStage, StageTypeOK
  <2>2. [tx EXCEPT !.stage[call.op] = call.value] \in Files
    BY <1>z, <2>1, FilesEffect DEF StageTypeOK
  <2>3. tx' \in Files /\ txDisk' \subseteq Files /\ tx' \in txDisk' /\ dirty' \subseteq Op
    BY <1>z, <1>2, <1>c, <2>1, <2>2 DEF WriteStage, StageTypeOK
  <2>4. Goto("syncFile", call.op, None) /\ UNCHANGED <<prepared, data>>
    BY <1>2 DEF WriteStage, engine
  <2>5. QED
    BY <1>z, <1>g, <2>1, <2>3, <2>4 DEF StageTypeOK, CallNames
<1>3. CASE SyncStageFile
  <2>1. call.op \in Op
    BY <1>z, <1>3 DEF SyncStageFile, StageTypeOK
  <2>2. /\ Goto("renameStage", call.op, None) /\ UNCHANGED <<prepared, data, tx, txDisk>>
        /\ dirty' \subseteq dirty
    BY <1>3 DEF SyncStageFile, engine
  <2>3. QED
    BY <1>z, <1>g, <2>1, <2>2 DEF StageTypeOK, CallNames
<1>4. CASE RenameStage
  <2>1. call.op \in Op
    BY <1>z, <1>4 DEF RenameStage, StageTypeOK
  <2>2. Promoted(call.op) \in Files
    BY <1>z, <2>1, PromotedEffect DEF StageTypeOK
  <2>3. tx' \in Files /\ txDisk' \subseteq Files /\ tx' \in txDisk'
    BY <1>4, <1>c, <2>2 DEF RenameStage
  <2>4. Goto("syncStages", call.op, None) /\ UNCHANGED <<prepared, data, dirty>>
    BY <1>4 DEF RenameStage, engine
  <2>5. QED
    BY <1>z, <1>g, <2>1, <2>3, <2>4 DEF StageTypeOK, CallNames
<1>5. CASE SyncStages
  <2>1. txDisk' = {tx} /\ Return /\ UNCHANGED <<prepared, data, tx, dirty>>
    BY <1>5 DEF SyncStages, engine
  <2>2. QED
    BY <1>z, <1>r, <2>1 DEF StageTypeOK
<1>6. CASE InitializeData
  BY <1>z, <1>6 DEF InitializeData, StageTypeOK, stages
<1>7. CASE CallFails
  <2>1. Return /\ UNCHANGED <<prepared, data, tx, txDisk, dirty>>
    BY <1>7 DEF CallFails, stages, engine
  <2>2. QED
    BY <1>z, <1>r, <2>1 DEF StageTypeOK
<1>8. ASSUME NEW op \in Op, Undo(op)
      PROVE  StageTypeOK'
  BY <1>z, <1>8 DEF Undo, StageTypeOK, stages, engine
<1>9. ASSUME NEW op \in Op, StageTransaction(op)
      PROVE  StageTypeOK'
  <2>1. CASE Goto("syncStages", op, None) /\ UNCHANGED stages
    BY <1>z, <1>9, <1>g, <2>1 DEF StageTransaction, StageTypeOK, CallNames, stages, engine
  <2>2. CASE ChangeStages([tx EXCEPT !.stage[op] = Partial])
             /\ Goto("writeStage", op, prepared[op]) /\ UNCHANGED dirty
    <3>1. prepared[op] \in Transaction
      BY <1>z, <1>9 DEF StageTransaction, StageTypeOK
    <3>2. [tx EXCEPT !.stage[op] = Partial] \in Files
      BY <1>z, FilesEffect DEF StageTypeOK
    <3>3. tx' \in Files /\ txDisk' \subseteq Files /\ tx' \in txDisk'
      BY <1>c, <2>2, <3>2
    <3>4. UNCHANGED <<prepared, data>>
      BY <1>9 DEF StageTransaction, engine
    <3>5. QED
      BY <1>z, <1>g, <2>2, <3>1, <3>3, <3>4 DEF StageTypeOK, CallNames
  <2>3. QED
    BY <1>9, <2>1, <2>2 DEF StageTransaction
<1>10. ASSUME NEW op \in Op, ReconcileTransaction(op)
       PROVE  StageTypeOK'
  <2>1. Promoted(op) \in Files
    BY <1>z, PromotedEffect DEF StageTypeOK
  <2>2. tx' \in Files /\ txDisk' \subseteq Files /\ tx' \in txDisk'
    BY <1>10, <1>c, <2>1 DEF ReconcileTransaction
  <2>3. Goto("syncStages", op, None) /\ UNCHANGED <<prepared, data, dirty>>
    BY <1>10 DEF ReconcileTransaction, engine
  <2>4. QED
    BY <1>z, <1>g, <2>2, <2>3 DEF StageTypeOK, CallNames
<1>11. ASSUME NEW op \in Op, RemoveTransaction(op)
       PROVE  StageTypeOK'
  <2>1. /\ [tx EXCEPT !.final[op] = None] \in Files
        /\ [tx EXCEPT !.stage[op] = None] \in Files
    BY <1>z, FilesEffect DEF StageTypeOK
  <2>2. tx' \in Files /\ txDisk' \subseteq Files /\ tx' \in txDisk'
    BY <1>11, <1>c, <2>1 DEF RemoveTransaction
  <2>3. Goto("syncStages", op, None) /\ UNCHANGED <<prepared, data, dirty>>
    BY <1>11 DEF RemoveTransaction, engine
  <2>4. QED
    BY <1>z, <1>g, <2>2, <2>3 DEF StageTypeOK, CallNames
<1>12. ASSUME NEW op \in Op, NEW previous \in Generation \cup {None}, Prepare(op, previous)
       PROVE  StageTypeOK'
  <2>1. prepared' \in [Op -> Transaction \cup {None}]
    BY <1>12, PrepareType
  <2>2. QED
    BY <1>z, <1>12, <2>1 DEF Prepare, StageTypeOK, stages, engine
<1>13. QED
  BY <1>1, <1>2, <1>3, <1>4, <1>5, <1>6, <1>7, <1>8, <1>9, <1>10, <1>11, <1>12
     DEF Quiet, StageStep

\* An operation without a transaction has touched nothing.
LEMMA Untouched ==
  ASSUME NEW s, Covers(s), NEW op \in Op, s.final[op] \notin Transaction
  PROVE  ~Touched(op)
  BY DEF Covers

\* Files of an operation that has touched nothing are changed without loss.
LEMMA CoversChange ==
  ASSUME NEW s, NEW new, NEW op \in Op, Covers(s), ~Touched(op),
         \A o \in Op \ {op} : new.final[o] = s.final[o] /\ new.stage[o] = s.stage[o],
         Alone => /\ new.final[op] \in Transaction => new.final[op].previous # op
                  /\ new.stage[op] \in Transaction => new.stage[op].previous # op
  PROVE  Covers(new)
  BY DEF Covers

\* Stage, ReconcileStage and RollbackStage keep every touched operation covered,
\* on every disk a loss of power may leave.
LEMMA QuietStage ==
  ASSUME StageTypeOK, StageInv, Quiet
  PROVE  StageInv'
<1> SUFFICES ASSUME FilesLast', ~Late'
             PROVE  StageInv'
  BY DEF StageInv
<1> USE DEF At
<1>e. env' = env /\ containers' = containers
  BY QuietEffect
<1>f. FilesLast /\ ~Late
  BY <1>e DEF FilesLast, OnlyPowerIsLost, Late
<1>t. \A op \in Op : Touched(op)' <=> Touched(op)
  BY <1>e DEF Touched, Absent, Holds, Alone
<1>k. ASSUME NEW s, Covers(s)
      PROVE  Covers(s)'
  BY <1>e, <1>k, <1>t DEF Covers, Alone
<1>i. /\ \A s \in txDisk : Covers(s)
      /\ "power" \notin env.faults \/ call.name \in {"idle", "command"} =>
           txDisk = {tx} /\ dirty = {}
      /\ dirty \subseteq (IF call.name = "syncFile" THEN {call.op} ELSE {})
      /\ call.name \in {"writeStage", "syncFile", "renameStage"} => ~Touched(call.op)
      /\ call.name = "writeStage" /\ Alone => call.value.previous # call.op
      /\ call.name = "command" => Loadable(call.op)
  BY <1>f DEF StageInv
<1>c. Covers(tx) /\ tx \in Files /\ txDisk \subseteq Files
  BY <1>i DEF StageTypeOK
\* A call of the files goes on, or ends with the directory synced.
<1>g. ASSUME NEW op \in Op, call'.op = op,
             call'.name \in {"writeStage", "syncFile", "renameStage", "syncStages"},
             \A s \in txDisk' : Covers(s)', "power" \notin env.faults => txDisk' = {tx'} /\ dirty' = {},
             dirty' \subseteq (IF call'.name = "syncFile" THEN {op} ELSE {}),
             call'.name # "syncStages" => ~Touched(op),
             call'.name = "writeStage" /\ Alone => call'.value.previous # op
      PROVE  StageInv'
  BY <1>e, <1>g, <1>t DEF StageInv, Alone
<1>n. ASSUME NEW new \in Files, Covers(new), ChangeStages(new)
      PROVE  /\ \A s \in txDisk' : Covers(s)'
             /\ "power" \notin env.faults => txDisk' = {tx'}
  <2>1. txDisk' \subseteq txDisk \cup {new} /\ ("power" \notin env.faults => txDisk' = {tx'})
    BY <1>n, <1>c, ChangeEffect
  <2>2. QED
    BY <1>i, <1>k, <1>n, <2>1
\* The call does not move.
<1>s. ASSUME UNCHANGED <<call, tx, txDisk, dirty>>
      PROVE  StageInv'
  <2>1. \A s \in txDisk' : Covers(s)'
    BY <1>s, <1>i, <1>k
  <2>2. call.name = "command" => Loadable(call.op)'
    BY <1>s, <1>i DEF Loadable
  <2>3. call.name \in {"writeStage", "syncFile", "renameStage"} => ~Touched(call.op)'
    <3>1. SUFFICES ASSUME call.name \in {"writeStage", "syncFile", "renameStage"}
                   PROVE  ~Touched(call.op)'
      OBVIOUS
    <3>2. PICK op \in Op : call.op = op
      BY <3>1 DEF StageTypeOK
    <3>3. ~Touched(op)'
      BY <1>i, <1>t, <3>1, <3>2
    <3>4. QED
      BY <1>s, <3>2, <3>3 DEF Touched, Absent, Holds, Alone, Rollback, Primary
  <2>4. QED
    BY <1>e, <1>i, <1>s, <2>1, <2>2, <2>3 DEF StageInv, Alone
<1>1. CASE Open \/ Close \/ InitializeData
  BY <1>1, <1>s DEF Open, Close, InitializeData, stages
<1>2. CASE WriteStage
  <2>1. PICK op \in Op : call.op = op
    BY <1>2 DEF WriteStage, StageTypeOK
  <2>2. ~Touched(op) /\ call.value \in Transaction /\ (Alone => call.value.previous # op)
    BY <1>2, <1>i, <2>1 DEF WriteStage, StageTypeOK
  <2>3. Covers([tx EXCEPT !.stage[op] = call.value]) /\ [tx EXCEPT !.stage[op] = call.value] \in Files
    <3> DEFINE new == [tx EXCEPT !.stage[op] = call.value]
    <3>1. /\ new \in Files /\ new.final = tx.final /\ new.stage[op] = call.value
          /\ \A o \in Op \ {op} : new.stage[o] = tx.stage[o]
      BY <1>c, <2>2 DEF Files
    <3>2. Alone => (tx.final[op] \in Transaction => tx.final[op].previous # op)
      BY <1>c DEF Covers
    <3> HIDE DEF new
    <3>3. Covers(new)
      BY <1>c, <2>2, <3>1, <3>2, CoversChange
    <3>4. QED
      BY <3>1, <3>3 DEF new
  <2>4. ChangeStages([tx EXCEPT !.stage[op] = call.value])
    BY <1>2, <2>1 DEF WriteStage
  <2>5. call'.name = "syncFile" /\ call'.op = op
    BY <1>2, <2>1 DEF WriteStage, Goto
  <2>6. dirty' \subseteq {op} /\ ("power" \notin env.faults => dirty' = {})
    BY <1>2, <1>i, <2>1 DEF WriteStage
  <2>7. /\ \A s \in txDisk' : Covers(s)'
        /\ "power" \notin env.faults => txDisk' = {tx'}
    BY <1>n, <2>3, <2>4
  <2>8. QED
    BY <1>g, <2>2, <2>5, <2>6, <2>7
<1>3. CASE SyncStageFile
  <2>1. PICK op \in Op : call.op = op
    BY <1>3 DEF SyncStageFile, StageTypeOK
  <2>2. ~Touched(op)
    BY <1>3, <1>i, <2>1 DEF SyncStageFile
  <2>3. call'.name = "renameStage" /\ call'.op = op /\ UNCHANGED <<tx, txDisk>> /\ dirty' = dirty \ {op}
    BY <1>3, <2>1 DEF SyncStageFile, Goto
  <2>4. dirty' = {}
    BY <1>3, <1>i, <2>1, <2>3 DEF SyncStageFile
  <2>5. (\A s \in txDisk' : Covers(s)') /\ ("power" \notin env.faults => txDisk' = {tx'})
    BY <1>i, <1>k, <2>3
  <2>6. QED
    BY <1>g, <2>2, <2>3, <2>4, <2>5
<1>4. CASE RenameStage
  <2>1. PICK op \in Op : call.op = op
    BY <1>4 DEF RenameStage, StageTypeOK
  <2>2. ~Touched(op)
    BY <1>4, <1>i, <2>1 DEF RenameStage
  <2>3. Promoted(op) \in Files /\ Covers(Promoted(op))
    <3>1. Alone => (tx.stage[op] \in Transaction => tx.stage[op].previous # op)
      BY <1>c DEF Covers
    <3>2. QED
      BY <1>c, <2>2, <3>1, PromotedEffect, CoversChange, NothingAssumption
  <2>4. ChangeStages(Promoted(op)) /\ dirty' = dirty /\ call'.name = "syncStages" /\ call'.op = op
    BY <1>4, <2>1 DEF RenameStage, Goto
  <2>5. dirty' = {}
    BY <1>4, <1>i, <2>4 DEF RenameStage
  <2>6. (\A s \in txDisk' : Covers(s)') /\ ("power" \notin env.faults => txDisk' = {tx'})
    BY <1>n, <2>3, <2>4
  <2>7. QED
    BY <1>g, <2>2, <2>4, <2>5, <2>6
<1>5. CASE SyncStages
  <2>1. txDisk' = {tx} /\ tx' = tx /\ dirty' = dirty /\ call' = Idle
    BY <1>5 DEF SyncStages, Return
  <2>2. dirty = {}
    BY <1>5, <1>i DEF SyncStages
  <2>3. \A s \in txDisk' : Covers(s)'
    BY <1>c, <1>k, <2>1
  <2>4. QED
    BY <2>1, <2>2, <2>3 DEF StageInv, Idle
<1>6. CASE CallFails
  <2>1. "power" \notin env.faults
    BY <1>6, <1>f DEF CallFails, Fault, FilesLast, OnlyPowerIsLost
  <2>2. UNCHANGED <<tx, txDisk, dirty>> /\ call' = Idle
    BY <1>6 DEF CallFails, Return, stages
  <2>3. \A s \in txDisk' : Covers(s)'
    BY <1>i, <1>k, <2>2
  <2>4. QED
    BY <1>i, <2>1, <2>2, <2>3 DEF StageInv, Idle
<1>7. ASSUME NEW op \in Op, Undo(op)
      PROVE  StageInv'
  BY <1>7, <1>s DEF Undo, stages
<1>8. ASSUME NEW op \in Op, StageTransaction(op)
      PROVE  StageInv'
  <2>0. call.name = "idle" /\ txDisk = {tx} /\ dirty = {}
    BY <1>8, <1>i DEF StageTransaction, Ready, Idle
  <2>1. CASE Goto("syncStages", op, None) /\ UNCHANGED stages
    <3>1. call'.name = "syncStages" /\ call'.op = op /\ UNCHANGED <<tx, txDisk, dirty>>
      BY <2>1 DEF Goto, stages
    <3>2. \A s \in txDisk' : Covers(s)'
      BY <1>i, <1>k, <3>1
    <3>3. QED
      BY <1>g, <2>0, <3>1, <3>2
  <2>2. CASE /\ tx.final[op] = None /\ PreflightState(op, prepared[op])
             /\ ChangeStages([tx EXCEPT !.stage[op] = Partial])
             /\ Goto("writeStage", op, prepared[op]) /\ UNCHANGED dirty
    <3>1. ~Touched(op)
      BY <1>c, <2>2, Untouched, NothingAssumption
    <3>2. Covers([tx EXCEPT !.stage[op] = Partial]) /\ [tx EXCEPT !.stage[op] = Partial] \in Files
      <4> DEFINE new == [tx EXCEPT !.stage[op] = Partial]
      <4>1. /\ new \in Files /\ new.final = tx.final /\ new.stage[op] = Partial
            /\ \A o \in Op \ {op} : new.stage[o] = tx.stage[o]
        BY <1>c DEF Files
      <4> HIDE DEF new
      <4>2. Covers(new)
        BY <1>c, <2>2, <3>1, <4>1, CoversChange, NothingAssumption
      <4>3. QED
        BY <4>1, <4>2 DEF new
    <3>3. Alone => prepared[op].previous # op
      <4> SUFFICES ASSUME Alone, prepared[op].previous = op
                   PROVE  FALSE
        OBVIOUS
      <4>1. PICK r \in Role : TRUE
        BY ContainerAssumption DEF ContainerAssumption
      <4>2. Holds(Primary(r), op)
        BY <2>2, ContainerAssumption DEF PreflightState, ContainerAssumption
      <4>3. QED
        BY <3>1, <4>2 DEF Touched
    <3>4. call'.name = "writeStage" /\ call'.op = op /\ call'.value = prepared[op]
      BY <2>2 DEF Goto
    <3>5. (\A s \in txDisk' : Covers(s)') /\ ("power" \notin env.faults => txDisk' = {tx'})
      BY <1>n, <2>2, <3>2
    <3>6. QED
      BY <1>g, <2>0, <2>2, <3>1, <3>3, <3>4, <3>5
  <2>3. QED
    BY <1>8, <2>1, <2>2 DEF StageTransaction
<1>9. ASSUME NEW op \in Op, ReconcileTransaction(op)
      PROVE  StageInv'
  <2>1. dirty = {} /\ tx.final[op] = None
    BY <1>9, <1>i DEF ReconcileTransaction, Ready, Idle
  <2>2. ~Touched(op)
    BY <1>c, <2>1, Untouched, NothingAssumption
  <2>3. Promoted(op) \in Files /\ Covers(Promoted(op))
    <3>1. Alone => (tx.stage[op] \in Transaction => tx.stage[op].previous # op)
      BY <1>c DEF Covers
    <3>2. QED
      BY <1>c, <2>2, <3>1, PromotedEffect, CoversChange, NothingAssumption
  <2>4. ChangeStages(Promoted(op)) /\ dirty' = dirty /\ call'.name = "syncStages" /\ call'.op = op
    BY <1>9 DEF ReconcileTransaction, Goto
  <2>5. (\A s \in txDisk' : Covers(s)') /\ ("power" \notin env.faults => txDisk' = {tx'})
    BY <1>n, <2>3, <2>4
  <2>6. QED
    BY <1>g, <2>1, <2>4, <2>5
<1>10. ASSUME NEW op \in Op, RemoveTransaction(op)
       PROVE  StageInv'
  <2>1. dirty = {}
    BY <1>10, <1>i DEF RemoveTransaction, Ready, Idle
  <2>2. call'.name = "syncStages" /\ call'.op = op /\ dirty' = dirty
    BY <1>10 DEF RemoveTransaction, Goto
  <2>3. PICK new \in Files : Covers(new) /\ ChangeStages(new)
    <3>1. CASE /\ Loadable(op) /\ PreflightState(op, tx.final[op])
               /\ ChangeStages([tx EXCEPT !.final[op] = None])
      <4>1. Alone => tx.final[op].previous # op
        BY <1>c, <3>1 DEF Covers, Loadable
      <4>2. ~Touched(op)
        BY <3>1, <4>1 DEF Touched, PreflightState, Holds
      <4> DEFINE new == [tx EXCEPT !.final[op] = None]
      <4>3. /\ new \in Files /\ new.stage = tx.stage /\ new.final[op] = None
            /\ \A o \in Op \ {op} : new.final[o] = tx.final[o]
        BY <1>c DEF Files
      <4>4. Alone => (tx.stage[op] \in Transaction => tx.stage[op].previous # op)
        BY <1>c DEF Covers
      <4> HIDE DEF new
      <4>5. Covers(new)
        BY <1>c, <4>2, <4>3, <4>4, CoversChange, NothingAssumption
      <4>6. QED
        BY <3>1, <4>3, <4>5 DEF new
    <3>2. CASE tx.final[op] = None /\ ChangeStages([tx EXCEPT !.stage[op] = None])
      <4>1. ~Touched(op)
        BY <1>c, <3>2, Untouched, NothingAssumption
      <4> DEFINE new == [tx EXCEPT !.stage[op] = None]
      <4>2. /\ new \in Files /\ new.final = tx.final /\ new.stage[op] = None
            /\ \A o \in Op \ {op} : new.stage[o] = tx.stage[o]
        BY <1>c DEF Files
      <4> HIDE DEF new
      <4>3. Covers(new)
        BY <1>c, <3>2, <4>1, <4>2, CoversChange, NothingAssumption
      <4>4. QED
        BY <3>2, <4>2, <4>3 DEF new
    <3>3. QED
      BY <1>10, <3>1, <3>2 DEF RemoveTransaction
  <2>4. (\A s \in txDisk' : Covers(s)') /\ ("power" \notin env.faults => txDisk' = {tx'})
    BY <1>n, <2>3
  <2>5. QED
    BY <1>g, <2>1, <2>2, <2>4
<1>11. ASSUME NEW op \in Op, NEW previous \in Generation \cup {None}, Prepare(op, previous)
       PROVE  StageInv'
  BY <1>11, <1>s DEF Prepare, stages
<1>12. QED
  BY <1>1, <1>2, <1>3, <1>4, <1>5, <1>6, <1>7, <1>8, <1>9, <1>10, <1>11 DEF Quiet, StageStep

-----------------------------------------------------------------------------
(* The commands of the adapters, and every step of theirs. *)

\* The docker commands of the calls of one operation about one role.
RoleCommand(r, op) ==
  { StopCommand(Primary(r)), StartCommand(Primary(r)),
    CreateCommand(Primary(r), op), RemoveCommand(Primary(r), op),
    RenameCommand(Primary(r), Rollback(r, op)), RenameCommand(Rollback(r, op), Primary(r)) }

\* Only operations of the environment have commands.
CommandsOK ==
  /\ ContainersOK /\ env.ops \subseteq Op /\ IsFiniteSet(env.ops)
  /\ At("command") => call.op \in env.ops /\ \E r \in Role : call.value \in RoleCommand(r, call.op)
  /\ pending \subseteq UNION {RoleCommand(r, op) : r \in Role, op \in env.ops}
  /\ ~Late => pending = {}

\* No container is of another operation.
StrayInv == ~Late => \A n \in Names : ~Absent(n) => containers[n].generation \in env.ops \cup {Initial}

AdapterStep ==
  \/ Quiet \/ (\E op \in env.ops, r \in Role : \E c \in RoleCommand(r, op) : Mutate(op, c))
  \/ RunCommand \/ (\E c \in pending : LateCommand(c))
  \/ CommandTimeout \/ Kill \/ PowerLoss \/ (\E n \in Names : Exit(n))
  \/ UNCHANGED vars

\* Primary and rollback names are names, and differ.
LEMMA RoleNames ==
  ASSUME NEW r \in Role, NEW op \in Op
  PROVE  /\ Primary(r) \in Names /\ Rollback(r, op) \in Names /\ Primary(r) # Rollback(r, op)
         /\ \A q \in Role, o \in Op : /\ Primary(q) # Rollback(r, op)
                                      /\ Rollback(q, o) = Rollback(r, op) => q = r /\ o = op
  BY ContainerAssumption DEF Names, Primary, Rollback, ContainerAssumption

\* What the lemmas about commands ask for.
LEMMA CommandsFacts == CommandsOK => ContainersOK /\ env.ops \subseteq Op /\ IsFiniteSet(env.ops)
  BY DEF CommandsOK

\* A command makes containers of its operation only, and puts none under the rollback
\* name of another.
LEMMA ExecuteScope ==
  ASSUME ContainersOK, NEW r \in Role, NEW op \in Op, NEW c \in RoleCommand(r, op), Execute(c)
  PROVE  /\ ContainersOK'
         /\ \A n \in Names : ~Absent(n)' =>
              \/ containers'[n].generation = op
              \/ \E m \in Names : ~Absent(m) /\ containers'[n].generation = containers[m].generation
         /\ \A q \in Role, o \in Op \ {op} : Absent(Rollback(q, o)) => Absent(Rollback(q, o))'
<1> DEFINE p == Primary(r)
           b == Rollback(r, op)
<1>n. p \in Names /\ b \in Names /\ p # b
      /\ \A q \in Role, o \in Op \ {op} : Rollback(q, o) \in Names \ {p, b}
  BY RoleNames
<1>c. c \in { Command("stop", p, None, None), Command("start", p, None, None),
              CreateCommand(p, op), RemoveCommand(p, op), RenameCommand(p, b), RenameCommand(b, p) }
  BY DEF RoleCommand, StopCommand, StartCommand
<1> HIDE DEF p, b
\* Every name but the two is left alone; what they hold was there, or is new.
<1>g. op \in Generation
  BY DEF Generation
<1>s. SUFFICES /\ ContainersOK'
               /\ \A n \in Names \ {p, b} : containers'[n] = containers[n]
               /\ \A n \in {p, b} : ~Absent(n)' =>
                    \/ containers'[n].generation = op
                    \/ \E m \in Names : ~Absent(m) /\ containers'[n].generation = containers[m].generation
  BY <1>n, <1>s DEF Absent
<1>1. CASE c \in {Command("stop", p, None, None), Command("start", p, None, None)}
  <2>1. PICK kind \in {"stop", "start"} : c = Command(kind, p, None, None)
    BY <1>1
  <2>2. /\ ContainersOK'
        /\ \A m \in Names \ {p} : containers'[m] = containers[m]
        /\ Absent(p) => containers'[p] = None
        /\ ~Absent(p) => containers'[p].generation = containers[p].generation
    BY <1>n, <2>1, PowerEffect
  <2>3. QED
    BY <1>n, <2>2 DEF Absent
<1>2. CASE c = CreateCommand(p, op)
  <2>1. /\ ContainersOK'
        /\ \A m \in Names \ {p} : containers'[m] = containers[m]
        /\ Absent(p) => containers'[p] = [generation |-> op, running |-> FALSE]
        /\ ~Absent(p) => containers'[p] = containers[p]
    BY <1>n, <1>2, <1>g, CreateEffect
  <2>2. Absent(p) => containers'[p].generation = op
    BY <2>1
  <2>3. QED
    BY <1>n, <2>1, <2>2 DEF Absent
<1>3. CASE c = RemoveCommand(p, op)
  <2>1. /\ ContainersOK'
        /\ \A m \in Names \ {p} : containers'[m] = containers[m]
        /\ containers'[p] \in {containers[p], None}
    BY <1>n, <1>3, RemoveEffect
  <2>2. QED
    BY <1>n, <2>1 DEF Absent
<1>4. CASE c = RenameCommand(p, b)
  <2>1. /\ ContainersOK'
        /\ \A m \in Names \ {p, b} : containers'[m] = containers[m]
        /\ \A m \in {p, b} : containers'[m] \in {containers[p], containers[b], None}
    BY <1>n, <1>4, RenameEffect
  <2>2. QED
    BY <1>n, <2>1 DEF Absent
<1>5. CASE c = RenameCommand(b, p)
  <2>1. /\ ContainersOK'
        /\ \A m \in Names \ {p, b} : containers'[m] = containers[m]
        /\ \A m \in {p, b} : containers'[m] \in {containers[p], containers[b], None}
    BY <1>n, <1>5, RenameEffect
  <2>2. QED
    BY <1>n, <2>1 DEF Absent
<1>6. QED
  BY <1>c, <1>1, <1>2, <1>3, <1>4, <1>5

\* The directory of the database stays readable, empty or half written.
LEMMA ExecuteData ==
  ASSUME NEW c, Execute(c), data \in {"empty", "partial", "initialized"}
  PROVE  data' \in {"empty", "partial", "initialized"}
  BY DEF Execute, DataAfter

\* Every step of an adapter keeps containers and commands what they are.
LEMMA CommandsStep ==
  ASSUME CommandsOK, AdapterStep
  PROVE  CommandsOK'
<1> USE DEF At
<1>x. ASSUME NEW c, Execute(c), NEW op \in env.ops, NEW r \in Role, c \in RoleCommand(r, op)
      PROVE  ContainersOK'
  BY <1>x, ExecuteScope DEF CommandsOK
<1>y. ASSUME call.name = "command", Execute(call.value)
      PROVE  ContainersOK'
  BY <1>x, <1>y DEF CommandsOK
<1>1. CASE Quiet
  BY <1>1, QuietEffect DEF CommandsOK, ContainersOK, Late
<1>2. ASSUME NEW op \in env.ops, NEW r \in Role, NEW c \in RoleCommand(r, op), Mutate(op, c)
      PROVE  CommandsOK'
  <2>1. UNCHANGED <<env, containers, pending>> /\ call'.op = op /\ call'.value = c
    BY <1>2 DEF Mutate, Goto, control, engine
  <2>2. QED
    BY <2>1 DEF CommandsOK, ContainersOK, Late
<1>3. CASE RunCommand
  <2>1. ContainersOK' /\ call' = Idle /\ UNCHANGED <<env, pending>>
    BY <1>3, <1>y DEF RunCommand, Return, control
  <2>2. QED
    BY <2>1 DEF CommandsOK, Late, Idle
<1>4. ASSUME NEW c \in pending, LateCommand(c)
      PROVE  CommandsOK'
  <2>1. PICK r \in Role, op \in env.ops : c \in RoleCommand(r, op)
    BY DEF CommandsOK
  <2>2. ContainersOK' /\ pending' \subseteq pending /\ UNCHANGED <<env, call>>
    BY <1>4, <1>x, <2>1 DEF LateCommand, control
  <2>3. QED
    BY <2>2 DEF CommandsOK, Late
<1>5. CASE CommandTimeout
  <2>1. /\ UNCHANGED <<env, containers>> /\ call' = Idle /\ Late /\ call.name = "command"
        /\ pending' = pending \cup {call.value}
    BY <1>5 DEF CommandTimeout, Fault, Return, Late
  <2>2. QED
    BY <2>1 DEF CommandsOK, ContainersOK, Late, Idle
<1>6. CASE Kill
  <2>1. ContainersOK' /\ call' = Idle /\ env' = env
    BY <1>6, <1>y DEF Kill, Return, Fault, CommandsOK, ContainersOK, engine
  <2>2. \/ pending' = pending
        \/ call.name = "command" /\ Late /\ pending' = pending \cup {call.value}
    BY <1>6 DEF Kill, engine
  <2>3. QED
    BY <2>1, <2>2 DEF CommandsOK, Late, Idle
<1>7. CASE PowerLoss
  <2>1. ContainersOK' /\ call' = Idle /\ env' = env /\ pending' = {}
    BY <1>7, PowerLossEffect, CommandsFacts DEF PowerLoss, Return, Fault
  <2>2. QED
    BY <2>1 DEF CommandsOK, Late, Idle
<1>8. ASSUME NEW n \in Names, Exit(n)
      PROVE  CommandsOK'
  <2>1. ContainersOK' /\ UNCHANGED <<env, call, pending>>
    BY <1>8, ExitEffect, CommandsFacts
  <2>2. QED
    BY <2>1 DEF CommandsOK, Late
<1>9. CASE UNCHANGED vars
  BY <1>9 DEF vars, CommandsOK, ContainersOK, Late
<1>10. QED
  BY <1>1, <1>2, <1>3, <1>4, <1>5, <1>6, <1>7, <1>8, <1>9 DEF AdapterStep

\* Every step of an adapter keeps the types of its files and calls.
LEMMA StageTypeStep ==
  ASSUME CommandsOK, StageTypeOK, AdapterStep
  PROVE  StageTypeOK'
\* A loss of power that leaves the directory shows that it was written.
<1>z. env'.rooted => rooted'
  BY QuietEffect DEF StageTypeOK, AdapterStep, Mutate, RunCommand, LateCommand, CommandTimeout,
     Kill, PowerLoss, Exit, Fault, vars, control
<1>r. [op \in Op |-> None] \in [Op -> Transaction \cup {None}]
  OBVIOUS
<1>i. ASSUME Return
      PROVE  /\ call'.name \in CallNames /\ (call'.name = "idle" <=> call' = Idle)
             /\ call'.name = "idle"
  BY <1>i DEF Return, Idle, CallNames
<1>1. CASE Quiet
  BY <1>1, QuietStageType
<1>2. ASSUME NEW op \in env.ops, NEW c, Mutate(op, c)
      PROVE  StageTypeOK'
  <2>1. UNCHANGED <<tx, txDisk, dirty, prepared, data>> /\ op \in Op
    BY <1>2 DEF Mutate, stages, engine, CommandsOK
  <2>2. call'.name = "command" /\ call'.op = op
    BY <1>2 DEF Mutate, Goto
  <2>3. QED
    BY <1>z, <2>1, <2>2 DEF StageTypeOK, At, CallNames, Idle
<1>3. CASE RunCommand
  <2>1. UNCHANGED <<tx, txDisk, dirty, prepared>> /\ Return
    BY <1>3 DEF RunCommand, stages
  <2>2. data' \in {"empty", "partial", "initialized"}
    BY <1>z, <1>3, ExecuteData DEF RunCommand, StageTypeOK
  <2>3. QED
    BY <1>z, <1>i, <2>1, <2>2 DEF StageTypeOK, At
<1>4. ASSUME NEW c \in pending, LateCommand(c)
      PROVE  StageTypeOK'
  <2>1. UNCHANGED <<tx, txDisk, dirty, prepared, call>>
    BY <1>4 DEF LateCommand, stages
  <2>2. data' \in {"empty", "partial", "initialized"}
    BY <1>z, <1>4, ExecuteData DEF LateCommand, StageTypeOK
  <2>3. QED
    BY <1>z, <2>1, <2>2 DEF StageTypeOK, At
<1>5. CASE CommandTimeout
  <2>1. UNCHANGED <<tx, txDisk, dirty, prepared, data>> /\ Return
    BY <1>5 DEF CommandTimeout, stages
  <2>2. QED
    BY <1>z, <1>i, <2>1 DEF StageTypeOK, At
<1>6. CASE Kill
  <2>1. UNCHANGED <<tx, txDisk, dirty>> /\ Return /\ prepared' = [op \in Op |-> None]
    BY <1>6 DEF Kill, stages
  <2>2. data' \in {"empty", "partial", "initialized"}
    BY <1>6, ExecuteData DEF Kill, StageTypeOK, engine
  <2>3. QED
    BY <1>z, <1>i, <1>r, <2>1, <2>2 DEF StageTypeOK, At
<1>7. CASE PowerLoss
  <2>1. Return /\ prepared' = [op \in Op |-> None] /\ data' = data /\ txDisk' = {tx'} /\ dirty' = {}
    BY <1>7 DEF PowerLoss
  <2>2. ASSUME NEW s \in txDisk, NEW lost \in SUBSET dirty, tx' = AfterPowerLoss(s, lost)
        PROVE  tx' \in Files
    <3>1. s \in Files /\ lost \in SUBSET Op
      BY DEF StageTypeOK
    <3>2. QED
      BY <2>2, <3>1, TornEffect
  <2>3. NoFiles \in Files
    BY DEF NoFiles, Files
  <2>4. tx' \in Files
    BY <1>7, <2>2, <2>3 DEF PowerLoss
  <2>5. QED
    BY <1>z, <1>i, <1>r, <2>1, <2>4 DEF StageTypeOK, At
<1>8. ASSUME NEW n \in Names, Exit(n)
      PROVE  StageTypeOK'
  BY <1>z, <1>8 DEF Exit, stages, StageTypeOK, At
<1>9. CASE UNCHANGED vars
  BY <1>z, <1>9 DEF vars, StageTypeOK, At
<1>10. QED
  BY <1>1, <1>2, <1>3, <1>4, <1>5, <1>6, <1>7, <1>8, <1>9 DEF AdapterStep

\* Every step of an adapter leaves only containers of the operations it was asked for.
LEMMA StrayStep ==
  ASSUME CommandsOK, StrayInv, AdapterStep
  PROVE  StrayInv'
<1> SUFFICES ASSUME ~Late', NEW n \in Names, ~Absent(n)'
             PROVE  containers'[n].generation \in (env.ops \cup {Initial})'
  BY DEF StrayInv
<1>e. env' = env
  BY QuietEffect DEF AdapterStep, Mutate, RunCommand, LateCommand, CommandTimeout, Kill, PowerLoss,
     Exit, Fault, vars, control
<1>l. ~Late /\ pending = {} /\ \A m \in Names : ~Absent(m) => containers[m].generation \in env.ops \cup {Initial}
  BY <1>e DEF Late, CommandsOK, StrayInv
<1>u. CASE containers' = containers
  BY <1>e, <1>l, <1>u DEF Absent
<1>x. CASE At("command") /\ Execute(call.value)
  <2>1. PICK op \in Op : call.op = op
    BY <1>x DEF CommandsOK
  <2>2. PICK r \in Role : call.value \in RoleCommand(r, op)
    BY <1>x, <2>1 DEF CommandsOK
  <2>3. \/ containers'[n].generation = op
        \/ \E m \in Names : ~Absent(m) /\ containers'[n].generation = containers[m].generation
    BY <1>x, <2>2, ExecuteScope DEF CommandsOK
  <2>4. op \in env.ops
    BY <1>x, <2>1 DEF CommandsOK
  <2>5. QED
    BY <1>e, <1>l, <2>3, <2>4
<1>1. CASE PowerLoss
  <2>1. Absent(n) => containers'[n] = None
    BY <1>1, PowerLossEffect, CommandsFacts
  <2>2. ~Absent(n) => containers'[n].generation = containers[n].generation
    BY <1>1, PowerLossEffect, CommandsFacts
  <2>3. QED
    BY <1>e, <1>l, <2>1, <2>2 DEF Absent
<1>2. ASSUME NEW m \in Names, Exit(m)
      PROVE  ~Absent(n) /\ containers'[n].generation = containers[n].generation
  BY <1>2, ExitEffect, CommandsFacts DEF Absent
<1>3. QED
  BY <1>e, <1>l, <1>u, <1>x, <1>1, <1>2, QuietEffect
     DEF AdapterStep, Mutate, RunCommand, CommandTimeout, Kill, vars, engine

\* Every step of an adapter keeps what was touched covered: a command is sent only with
\* a transaction that loads, and while one is being written its operation has sent none.
LEMMA StageStepKeeps ==
  ASSUME CommandsOK, StrayInv, StageTypeOK, StageInv, AdapterStep
  PROVE  StageInv'
<1> SUFFICES ASSUME FilesLast', ~Late', ~Quiet
             PROVE  StageInv'
  BY QuietStage DEF StageInv
<1> USE DEF At
<1>e. env' = env
  BY QuietEffect DEF AdapterStep, Mutate, RunCommand, LateCommand, CommandTimeout, Kill, PowerLoss,
     Exit, Fault, vars, control
<1>f. FilesLast /\ ~Late /\ pending = {}
  BY <1>e DEF FilesLast, OnlyPowerIsLost, Late, CommandsOK
<1>i. /\ \A s \in txDisk : Covers(s)
      /\ "power" \notin env.faults \/ call.name \in {"idle", "command"} =>
           txDisk = {tx} /\ dirty = {}
      /\ dirty \subseteq (IF call.name = "syncFile" THEN {call.op} ELSE {})
      /\ call.name \in {"writeStage", "syncFile", "renameStage"} => ~Touched(call.op)
      /\ call.name = "writeStage" /\ Alone => call.value.previous # call.op
      /\ call.name = "command" => Loadable(call.op)
  BY <1>f DEF StageInv
\* Containers are where they were, stopped perhaps.
<1>k. ASSUME \A n \in Names : /\ Absent(n)' <=> Absent(n)
                              /\ ~Absent(n) => containers'[n].generation = containers[n].generation
      PROVE  \A op \in Op : Touched(op)' <=> Touched(op)
  BY <1>e, <1>k, RoleNames DEF Touched, Holds, Alone
<1>c. ASSUME NEW s, Covers(s), \A op \in Op : Touched(op)' => Touched(op)
      PROVE  Covers(s)'
  BY <1>e, <1>c DEF Covers, Alone
\* A step that ends a call with the directory synced.
<1>r. ASSUME call' = Idle, txDisk' = {tx'}, dirty' = {}, Covers(tx)'
      PROVE  StageInv'
  BY <1>r DEF StageInv, Idle
\* A call goes on beside containers that may have stopped.
<1>s. ASSUME UNCHANGED <<call, tx, txDisk, dirty>>, \A op \in Op : Touched(op)' <=> Touched(op)
      PROVE  StageInv'
  <2>1. \A s \in txDisk' : Covers(s)'
    BY <1>c, <1>s, <1>i
  <2>2. call.name = "command" => Loadable(call.op)'
    BY <1>s, <1>i DEF Loadable
  <2>3. call.name \in {"writeStage", "syncFile", "renameStage"} => ~Touched(call.op)'
    <3>1. SUFFICES ASSUME call.name \in {"writeStage", "syncFile", "renameStage"}
                   PROVE  ~Touched(call.op)'
      OBVIOUS
    <3>2. PICK op \in Op : call.op = op
      BY <3>1 DEF StageTypeOK
    <3>3. ~Touched(op)'
      BY <1>i, <1>s, <3>1, <3>2
    <3>4. QED
      BY <1>s, <3>2, <3>3 DEF Touched, Absent, Holds, Alone, Rollback, Primary
  <2>4. QED
    BY <1>e, <1>i, <1>s, <2>1, <2>2, <2>3 DEF StageInv, Alone
\* A command is executed.
<1>x. ASSUME call.name = "command", Execute(call.value), tx' = tx
      PROVE  Covers(tx)'
  <2>1. PICK op \in Op : call.op = op
    BY <1>x DEF CommandsOK
  <2>2. PICK r \in Role : call.value \in RoleCommand(r, op)
    BY <1>x, <2>1 DEF CommandsOK
  <2>3. Loadable(op) /\ Covers(tx) /\ op \in env.ops
    BY <1>x, <1>i, <2>1 DEF CommandsOK
  <2>4. ASSUME NEW o \in Op \ {op}, Touched(o)'
        PROVE  Touched(o)
    <3>1. PICK q \in Role : ~Absent(Rollback(q, o))' \/ (Alone' /\ Holds(Primary(q), o)')
      BY <2>4 DEF Touched
    <3>2. CASE ~Absent(Rollback(q, o))'
      BY <1>x, <2>2, <3>2, ExecuteScope DEF CommandsOK, Touched
    <3>3. CASE Alone' /\ Holds(Primary(q), o)'
      <4>1. env.ops = {op}
        <5>1. PICK z : env.ops = {z}
          BY <1>e, <3>3, FS_Singleton, CommandsFacts DEF Alone
        <5>2. QED
          BY <2>3, <5>1
      <4>2. Primary(q) \in Names
        BY RoleNames
      <4>3. o \in env.ops \cup {Initial}
        BY <1>e, <1>f, <3>3, <4>2, StrayStep DEF StrayInv, Holds
      <4>4. QED
        BY <4>1, <4>3, ContainerAssumption DEF ContainerAssumption
    <3>4. QED
      BY <3>1, <3>2, <3>3
  <2>5. QED
    BY <1>e, <1>x, <2>3, <2>4 DEF Covers, Loadable, Alone
<1>2. ASSUME NEW op \in env.ops, NEW c, Mutate(op, c)
      PROVE  StageInv'
  <2>1. UNCHANGED <<tx, txDisk, dirty, containers>> /\ op \in Op
    BY <1>2 DEF Mutate, stages, engine, CommandsOK
  <2>2. call'.name = "command" /\ call'.op = op /\ Loadable(op) /\ call.name = "idle"
    BY <1>2 DEF Mutate, Goto, Ready, Idle
  <2>3. txDisk' = {tx'} /\ dirty' = {}
    BY <1>i, <2>1, <2>2
  <2>4. \A s \in txDisk' : Covers(s)'
    BY <1>c, <1>e, <1>i, <2>1 DEF Touched, Absent, Holds, Alone
  <2>5. QED
    BY <2>1, <2>2, <2>3, <2>4 DEF StageInv, Loadable
<1>3. CASE RunCommand
  <2>1. UNCHANGED <<tx, txDisk, dirty>> /\ call' = Idle /\ call.name = "command"
    BY <1>3 DEF RunCommand, stages, Return
  <2>2. Covers(tx)'
    BY <1>3, <1>x, <2>1 DEF RunCommand
  <2>3. QED
    BY <1>i, <1>r, <2>1, <2>2
<1>4. ASSUME NEW c \in pending, LateCommand(c)
      PROVE  StageInv'
  BY <1>f
<1>5. CASE CommandTimeout
  BY <1>5, <1>f DEF CommandTimeout, Fault, Late
<1>6. CASE Kill
  <2>1. UNCHANGED <<tx, txDisk, dirty>> /\ call' = Idle /\ "power" \notin env.faults
    BY <1>6, <1>f DEF Kill, stages, Return, Fault, FilesLast, OnlyPowerIsLost
  <2>2. Covers(tx)'
    <3>1. CASE containers' = containers
      BY <1>c, <1>e, <1>i, <2>1, <3>1 DEF Touched, Absent, Holds, Alone
    <3>2. QED
      BY <1>6, <1>x, <2>1, <3>1 DEF Kill, engine
  <2>3. QED
    BY <1>i, <1>r, <2>1, <2>2
<1>7. CASE PowerLoss
  <2>1. call' = Idle /\ txDisk' = {tx'} /\ dirty' = {}
    BY <1>7 DEF PowerLoss, Return
  <2>0. rooted
    BY <1>7, <1>f DEF PowerLoss, Fault, FilesLast, OnlyPowerIsLost, StageTypeOK
  <2>2. PICK s \in txDisk, lost \in SUBSET dirty : tx' = AfterPowerLoss(s, lost)
    BY <1>7, <2>0 DEF PowerLoss
  <2>3. s \in Files /\ lost \in SUBSET Op /\ Covers(s)
    BY <1>i DEF StageTypeOK
  <2>4. \A op \in Op : Touched(op)' <=> Touched(op)
    BY <1>7, <1>k, PowerLossEffect, NothingAssumption, CommandsFacts DEF Absent
  <2>5. \A op \in lost : ~Touched(op)
    BY <1>i, <2>2
  <2>6. /\ \A op \in Op \ lost : tx'.final[op] = s.final[op] /\ tx'.stage[op] = s.stage[op]
        /\ \A op \in lost : tx'.final[op] \notin Transaction /\ tx'.stage[op] \notin Transaction
    BY <2>2, <2>3, TornEffect, NothingAssumption
  <2>7. Covers(tx)'
    BY <1>e, <2>3, <2>4, <2>5, <2>6 DEF Covers, Alone
  <2>8. QED
    BY <1>r, <2>1, <2>7
<1>8. ASSUME NEW n \in Names, Exit(n)
      PROVE  StageInv'
  <2>1. \A op \in Op : Touched(op)' <=> Touched(op)
    BY <1>8, <1>k, ExitEffect, CommandsFacts DEF Absent
  <2>2. UNCHANGED <<call, tx, txDisk, dirty>>
    BY <1>8 DEF Exit, stages
  <2>3. QED
    BY <1>s, <2>1, <2>2
<1>9. CASE UNCHANGED vars
  BY <1>9, <1>s DEF vars, Touched, Absent, Holds, Alone
<1>10. QED
  BY <1>2, <1>3, <1>4, <1>5, <1>6, <1>7, <1>8, <1>9 DEF AdapterStep

\* What is covered on every disk is covered.
LEMMA StageCovers ==
  ASSUME StageTypeOK, StageInv
  PROVE  Covered
  BY DEF StageTypeOK, StageInv, Covers, Covered, Touched, Loadable
\* Nothing is staged or touched before the first operation.
LEMMA InitStage ==
  ASSUME NEW initial, NEW d \in {"empty", "initialized"}, InitWith(initial, d),
         \A r \in Role : initial[r] = None \/ initial[r].generation = Initial
  PROVE  StageTypeOK /\ StageInv /\ StrayInv
<1>1. \A n \in Names : Absent(n) \/ containers[n].generation = Initial
  <2>1. \A n \in Names : n[1] \in Role
    BY DEF Names
  <2>2. QED
    BY <2>1 DEF InitWith, Absent
<1>2. StageTypeOK
  BY DEF InitWith, StageTypeOK, NoFiles, Files, At, Idle, CallNames
<1>3. \A op \in Op : ~Touched(op)
  <2>1. \A op \in Op, r \in Role : Absent(Rollback(r, op))
    BY RoleNames, ContainerAssumption DEF InitWith, Absent, Rollback, ContainerAssumption
  <2>2. \A op \in Op, r \in Role : ~Holds(Primary(r), op)
    BY <1>1, RoleNames, ContainerAssumption DEF Holds, ContainerAssumption
  <2>3. QED
    BY <2>1, <2>2 DEF Touched
<1>4. StageInv
  BY <1>3, NothingAssumption DEF InitWith, StageInv, Covers, NoFiles, At, Idle
<1>5. StrayInv
  BY <1>1 DEF StrayInv
<1>6. QED
  BY <1>2, <1>4, <1>5

-----------------------------------------------------------------------------
(* Where the transactions come from. *)

\* A transaction of op that the directory holds, on some disk, or is about to.
OnDisk(op, t) ==
  \/ \E s \in txDisk : s.final[op] = t \/ s.stage[op] = t
  \/ At("writeStage") /\ call.op = op /\ call.value = t

\* A step of an adapter brings in no transaction but one that was prepared and still
\* describes the containers.
LEMMA OnDiskStep ==
  ASSUME CommandsOK, StageTypeOK, AdapterStep, NEW op \in Op, NEW t \in Transaction, OnDisk(op, t)'
  PROVE  OnDisk(op, t) \/ (Quiet /\ prepared[op] = t /\ PreflightState(op, t))
<1> USE DEF At
<1>0. tx \in Files /\ txDisk \subseteq Files /\ tx \in txDisk /\ t # None /\ t # Partial
  BY NothingAssumption DEF StageTypeOK
<1>1. ASSUME txDisk' = txDisk, call' = call \/ call'.name # "writeStage"
      PROVE  OnDisk(op, t)
  BY <1>1 DEF OnDisk
\* One new state of the directory.
<1>2. ASSUME NEW new \in Files, ChangeStages(new), call'.name # "writeStage",
             new.final[op] = t => OnDisk(op, t), new.stage[op] = t => OnDisk(op, t)
      PROVE  OnDisk(op, t)
  <2>1. txDisk' \subseteq txDisk \cup {new}
    BY <1>0, <1>2, ChangeEffect
  <2>2. QED
    BY <1>2, <2>1 DEF OnDisk
<1>3. CASE Open \/ Close \/ InitializeData \/ CallFails
  BY <1>1, <1>3 DEF Open, Close, InitializeData, CallFails, Return, Idle, stages
<1>4. CASE WriteStage
  <2>1. call.op \in Op /\ call.value \in Transaction /\ call.name = "writeStage"
    BY <1>4 DEF WriteStage, StageTypeOK
  <2> DEFINE new == [tx EXCEPT !.stage[call.op] = call.value]
  <2>2. /\ new \in Files /\ new.final = tx.final /\ new.stage[call.op] = call.value
        /\ \A o \in Op \ {call.op} : new.stage[o] = tx.stage[o]
    BY <1>0, <2>1 DEF Files
  <2>3. ChangeStages(new) /\ call'.name = "syncFile"
    BY <1>4 DEF WriteStage, Goto
  <2> HIDE DEF new
  <2>4. (new.final[op] = t => OnDisk(op, t)) /\ (new.stage[op] = t => OnDisk(op, t))
    BY <1>0, <2>1, <2>2 DEF OnDisk
  <2>5. QED
    BY <1>2, <2>2, <2>3, <2>4
<1>5. CASE SyncStageFile
  BY <1>1, <1>5 DEF SyncStageFile, Goto
\* A stage file is promoted.
<1>p. ASSUME NEW o \in Op, ChangeStages(Promoted(o)), call'.name # "writeStage"
      PROVE  OnDisk(op, t)
  <2> DEFINE new == Promoted(o)
  <2>1. /\ new \in Files /\ new.final[o] = tx.stage[o] /\ new.stage[o] = None
        /\ \A x \in Op \ {o} : new.final[x] = tx.final[x] /\ new.stage[x] = tx.stage[x]
    BY <1>0, PromotedEffect
  <2> HIDE DEF new
  <2>2. (new.final[op] = t => OnDisk(op, t)) /\ (new.stage[op] = t => OnDisk(op, t))
    BY <1>0, <2>1 DEF OnDisk
  <2>3. QED
    BY <1>2, <1>p, <2>1, <2>2 DEF new
<1>6. CASE RenameStage
  <2>1. PICK o \in Op : call.op = o
    BY <1>6 DEF RenameStage, StageTypeOK
  <2>2. QED
    BY <1>6, <1>p, <2>1 DEF RenameStage, Goto
<1>7. CASE SyncStages
  BY <1>0, <1>7 DEF SyncStages, Return, Idle, OnDisk
<1>8. ASSUME NEW o \in Op, ReconcileTransaction(o)
      PROVE  OnDisk(op, t)
  BY <1>8, <1>p DEF ReconcileTransaction, Goto
<1>9. ASSUME NEW o \in Op, RemoveTransaction(o)
      PROVE  OnDisk(op, t)
  <2>1. PICK new \in {[tx EXCEPT !.final[o] = None], [tx EXCEPT !.stage[o] = None]} : ChangeStages(new)
    BY <1>9 DEF RemoveTransaction
  <2>2. /\ new \in Files /\ new.final[op] \in {tx.final[op], None} /\ new.stage[op] \in {tx.stage[op], None}
    <3>1. CASE new = [tx EXCEPT !.final[o] = None]
      BY <1>0, <3>1 DEF Files
    <3>2. CASE new = [tx EXCEPT !.stage[o] = None]
      BY <1>0, <3>2 DEF Files
    <3>3. QED
      BY <2>1, <3>1, <3>2
  <2>3. (new.final[op] = t => OnDisk(op, t)) /\ (new.stage[op] = t => OnDisk(op, t))
    BY <1>0, <2>2 DEF OnDisk
  <2>4. call'.name # "writeStage"
    BY <1>9 DEF RemoveTransaction, Goto
  <2>5. QED
    BY <1>2, <2>1, <2>2, <2>3, <2>4
<1>10. ASSUME NEW o \in Op, StageTransaction(o)
       PROVE  OnDisk(op, t) \/ (prepared[op] = t /\ PreflightState(op, t))
  <2>1. CASE UNCHANGED stages /\ call'.name = "syncStages"
    BY <1>1, <2>1 DEF stages
  <2>2. CASE ~(UNCHANGED stages /\ call'.name = "syncStages")
    <3> DEFINE new == [tx EXCEPT !.stage[o] = Partial]
    <3>1. /\ ChangeStages(new) /\ call'.name = "writeStage" /\ call'.op = o /\ call'.value = prepared[o]
          /\ PreflightState(o, prepared[o])
      BY <1>10, <2>2 DEF StageTransaction, Goto
    <3>2. new \in Files /\ new.final = tx.final /\ new.stage[op] \in {tx.stage[op], Partial}
      BY <1>0 DEF Files
    <3>3. txDisk' \subseteq txDisk \cup {new}
      BY <1>0, <3>1, <3>2, ChangeEffect
    <3> HIDE DEF new
    <3>4. CASE \E s \in txDisk' : s.final[op] = t \/ s.stage[op] = t
      BY <1>0, <3>2, <3>3, <3>4 DEF OnDisk
    <3>5. CASE o = op /\ prepared[o] = t
      BY <3>1, <3>5
    <3>6. QED
      BY <3>1, <3>4, <3>5 DEF OnDisk
  <2>3. QED
    BY <2>1, <2>2
<1>11. ASSUME NEW o \in Op, NEW previous, Undo(o) \/ Prepare(o, previous)
       PROVE  OnDisk(op, t)
  BY <1>1, <1>11 DEF Undo, Prepare, stages
<1>12. CASE Quiet
  BY <1>12, <1>3, <1>4, <1>5, <1>6, <1>7, <1>8, <1>9, <1>10, <1>11 DEF Quiet, StageStep
<1>13. CASE PowerLoss
  <2>2. txDisk' = {tx'} /\ call'.name # "writeStage"
    BY <1>13 DEF PowerLoss, Return, Idle
  <2>0. tx' # NoFiles
    BY <1>0, <2>2 DEF OnDisk, NoFiles
  <2>1. PICK s \in txDisk, lost \in SUBSET dirty : tx' = AfterPowerLoss(s, lost)
    BY <1>13, <2>0 DEF PowerLoss
  <2>3. s \in Files /\ lost \in SUBSET Op
    BY <1>0, <2>1 DEF StageTypeOK
  <2>4. tx'.final[op] \in {s.final[op], None, Partial} /\ tx'.stage[op] \in {s.stage[op], None, Partial}
    BY <2>1, <2>3, TornEffect
  <2>5. tx'.final[op] = t \/ tx'.stage[op] = t
    BY <2>2 DEF OnDisk
  <2>6. s.final[op] = t \/ s.stage[op] = t
    BY <1>0, <2>4, <2>5
  <2>7. QED
    BY <2>1, <2>6 DEF OnDisk
<1>14. ASSUME NEW o, NEW c, Mutate(o, c)
       PROVE  OnDisk(op, t)
  BY <1>1, <1>14 DEF Mutate, Goto, stages
<1>15. CASE RunCommand \/ CommandTimeout \/ Kill
  BY <1>1, <1>15 DEF RunCommand, CommandTimeout, Kill, Return, Idle, stages
<1>16. ASSUME NEW c, LateCommand(c)
       PROVE  OnDisk(op, t)
  BY <1>1, <1>16 DEF LateCommand, stages
<1>17. ASSUME NEW n, Exit(n)
       PROVE  OnDisk(op, t)
  BY <1>1, <1>17 DEF Exit, stages
<1>18. CASE UNCHANGED vars
  BY <1>1, <1>18 DEF vars
<1>19. QED
  BY <1>12, <1>13, <1>14, <1>15, <1>16, <1>17, <1>18 DEF AdapterStep

\* A quiet step leaves a command in flight, and the transactions, alone.
LEMMA QuietCommand ==
  ASSUME Quiet, call'.name = "command"
  PROVE  call' = call /\ tx' = tx
<1> USE DEF control, stages, engine, Idle, Return, Goto
<1>1. CASE Open \/ Close
  BY <1>1 DEF Open, Close
<1>2. CASE StageStep
  BY <1>2 DEF StageStep, WriteStage, SyncStageFile, RenameStage, SyncStages
<1>3. CASE InitializeData \/ CallFails
  BY <1>3 DEF InitializeData, CallFails, Fault
<1>4. ASSUME NEW op \in Op, Undo(op) \/ StageTransaction(op)
                            \/ ReconcileTransaction(op) \/ RemoveTransaction(op)
      PROVE  call' = call /\ tx' = tx
  BY <1>4 DEF Undo, StageTransaction, ReconcileTransaction, RemoveTransaction
<1>5. ASSUME NEW op \in Op, NEW previous \in Generation \cup {None}, Prepare(op, previous)
      PROVE  call' = call /\ tx' = tx
  BY <1>5 DEF Prepare
<1>6. QED
  BY <1>1, <1>2, <1>3, <1>4, <1>5 DEF Quiet

\* No container is of no generation.
LEMMA HoldsSome ==
  ASSUME ContainersOK, NEW n \in Names
  PROVE  ~Holds(n, None)
  BY Presence, ContainerAssumption DEF Holds, Generation

\* Every container stays where it is, and no more of them run.
AtMostStop ==
  \A n \in Names : /\ Absent(n)' <=> Absent(n)
                   /\ ~Absent(n) => containers'[n].generation = containers[n].generation
                   /\ Running(n)' => Running(n)

LEMMA StopsKeep ==
  ASSUME AtMostStop, NEW n \in Names
  PROVE  /\ Absent(n)' <=> Absent(n)
         /\ Running(n)' => Running(n)
         /\ \A g : (Holds(n, g)' <=> Holds(n, g)) /\ (Stopped(n, g) => Stopped(n, g)')
  BY DEF AtMostStop, Holds, Stopped

LEMMA PowerLossStops ==
  ASSUME ContainersOK, PowerLoss
  PROVE  AtMostStop
<1>1. SUFFICES ASSUME NEW n \in Names
               PROVE  /\ Absent(n)' <=> Absent(n)
                      /\ ~Absent(n) => containers'[n].generation = containers[n].generation
                      /\ ~Running(n)'
  BY Zenon DEF AtMostStop
<1>2. CASE Absent(n)
  BY <1>2, PowerLossEffect DEF Absent, Running
<1>3. CASE ~Absent(n)
  <2>1. /\ containers'[n] \in Container
        /\ containers'[n].generation = containers[n].generation
        /\ containers'[n].running = FALSE
    BY <1>3, PowerLossEffect
  <2>2. QED
    BY <1>3, <2>1, NothingAssumption DEF Absent, Running
<1>4. QED
  BY <1>2, <1>3

LEMMA ExitStops ==
  ASSUME ContainersOK, NEW m \in Names, Exit(m)
  PROVE  AtMostStop
  BY ExitEffect DEF AtMostStop, Absent, Running

LEMMA StopStops ==
  ASSUME ContainersOK, NEW m \in Names, Execute(StopCommand(m))
  PROVE  AtMostStop
<1>1. /\ \A n \in Names \ {m} : containers'[n] = containers[n]
      /\ Absent(m) => containers'[m] = None
      /\ ~Absent(m) => /\ containers'[m] \in Container
                       /\ containers'[m].generation = containers[m].generation
                       /\ containers'[m].running = ("stop" = "start")
  BY PowerEffect DEF StopCommand
<1>2. ~Running(m)' /\ (Absent(m)' <=> Absent(m))
  BY <1>1, NothingAssumption DEF Running, Absent
<1>3. QED
  BY <1>1, <1>2 DEF AtMostStop, Absent, Running

\* What a name holds is decided by what is under it.
LEMMA SameContainer ==
  ASSUME NEW n, NEW m, containers'[n] = containers[m]
  PROVE  /\ Absent(n)' <=> Absent(m)
         /\ Running(n)' <=> Running(m)
         /\ \A g : (Holds(n, g)' <=> Holds(m, g)) /\ (Stopped(n, g)' <=> Stopped(m, g))
  BY DEF Absent, Running, Holds, Stopped
=============================================================================
