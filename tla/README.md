# A verification project for gotth-stack

gotth-stack plans a small self-hosted stack from a manifest, records approved
operations in a durable journal, and has adapters that change Caddy, PostgreSQL
and Authentik with a way back. This directory holds TLA+ models of the parts
where order, failure and restart decide whether it is correct, TLC
configurations that check them on small instances, and proofs that TLAPS checks
for every instance. `PROJECT.json` lists runs, mutants, theorems, findings,
hazards, and the source lines behind every definition.

## 1. Inventory

| Component | State it keeps | Operations | Hard behaviours | What makes it correct |
|---|---|---|---|---|
| Journal state machine (`pkg/journal/state.go`, `operation.go`, `approval.go`, `replay.go`) | projection in memory: approvals, operations, steps | RecordApproval, StartOperation, BeginStep, FinishStep, Cancel, BeginRollback, FinishOperation, Open (replay and marking) | restarts in the middle of a step; an append that fails although its record is durable; a mark that is only in memory | what is written can be replayed; memory and log agree; changes are not repeated; outcomes mean what they say; one operation at a time; no dead end |
| Journal storage (`storage.go`, `replay.go`, `open_linux.go`) | `journal.log`, `journal.head`, `journal.head.tmp`, in-memory head | appendRecord, replaceHead, Open, truncateTail, head repair | kill, failing system call or power loss between any two steps, also during recovery | acknowledged records are durable; the files stay readable; recovery ends |
| Journal creation and locking (`open_linux.go`) | directory, `journal.lock` | Create, Open, Close | several processes at one path; failure or death inside Create; unsynced directory entries | one owner; only whole journals are owned; a failed Create leaves nothing |
| Journal encoding (`json.go`, `record.go`) | none | encode, decode, digest | - | canonical, strict |
| Planner (`pkg/stack/validate.go`, `plan.go`) | none (pure) | validateManifest, dependencyOrder, BuildPlan, validatePlan | Go map iteration order | one plan per manifest, dependencies first, refusal exactly for cycles |
| Manifest parser (`pkg/stack/parse.go`) | none | Parse | - | strict, bounded |
| Caddy adapter (`internal/adapters/caddy`) | Caddyfile, transaction directories, running configuration | Preflight, Stage, ReconcileStage, RollbackStage, Install, Activate, Restore, Verify | interrupted file protocols, unsynced directories, a reload that outlives its deadline | the file is always complete; every live change has its rollback material; only one's own change is replaced |
| PostgreSQL adapter (`internal/adapters/postgresql`) | container under a primary and a rollback name, `<operation>.json` transaction, data directory | Preflight, Stage, ReconcileStage, RollbackStage, StopPrevious, PreservePrevious, CreateCandidate, StartCandidate, StopCandidate, RemoveCandidate, RestorePrevious, RestartPrevious, Observe, Verify | death between looking and running a command; a command that outlives its client; a container that exits; initdb interrupted | one server on a data directory; only candidates are removed; every change has its transaction; what is observed selects the next call; a rollback ends |
| Authentik adapter (`internal/adapters/authentik`) | the same for a server and a worker | the same, per role | half-done pairs; order between the roles; two generations | a worker only beside its server; one generation runs; every half-done pair has one next rollback call |
| Site, commands | none | HTTP pages; print a plan | - | - |

How they interact: a command parses a manifest and builds a plan; the plan's
digest and components are what an approval names; StartOperation ties an
operation to one approval. The state machine appends one record per change
through the storage before it applies the change in memory. The adapters do not
call the journal: a controller is meant to begin a step, call the adapter, and
finish the step, so the journal's rules for unresolved mutations and the
adapters' reconcile calls meet in the controller. No controller is in the
repository yet, and for this reason the components are modelled one by one.

## 2. Modules

| Module | Models | Notes |
|---|---|---|
| `DurableLog` | the promise of the storage to the state machine | abstract; no code of its own |
| `JournalStorage` | storage.go, replay.go, open_linux.go | one action per system call that matters |
| `Journal` | state.go, operation.go, approval.go, replay.go, validate.go | uses storage as `DurableLog` promises it |
| `StackPlan` | validate.go, plan.go | one map element per step |
| `JournalLifecycle` | open_linux.go: Create, Open, Close of several processes | one action per file-system call |
| `CaddyAdapter` | internal/adapters/caddy | one action per file or process step |
| `ContainerAdapter` | what the two container adapters share: transaction file, docker commands, faults | extended by the next two |
| `PostgreSQLAdapter` | internal/adapters/postgresql | one action per call, one for its command |
| `AuthentikAdapter` | internal/adapters/authentik | the same, per role |
| `JournalStorageProofs`, `JournalProofs`, `JournalLifecycleProofs`, `StackPlanProofs`, `CaddyAdapterProofs` | - | theorems about the module of the same name |
| `ContainerAdapterProofs` | - | what the next two share: effects of docker commands, the transaction file |
| `PostgreSQLAdapterProofs`, `AuthentikAdapterProofs` | - | theorems about the two container adapters |
| `MC*` | - | values of constants for TLC |

**JournalStorage.** A record is a model value; a head file, which names a record
by sequence number and chained digest, is the history it names (digests do not
collide). Every file has what processes see (`frames`, `torn`, `head`, `tmp`) and
what stable storage may hold (`synced`, `tornOnDisk`, `heads`, `dirty`).
`appendRecord` is AppendWrite, AppendSync, then `replaceHead` as HeadWriteTmp,
HeadRename, HeadSyncRoot. `Open` is OpenLock, OpenValidateDirectory, OpenSyncRoot
(only when a stale temporary file was removed) and one of ReplayClean,
ReplayTruncate with its sync, ReplayRepair followed by `replaceHead`, or
ReplayRefuse. Any of them may fail (AppendWriteFails, AppendSyncFails,
ReplaceHeadFails, OpenFails), the process may die (Kill) or the machine lose power
(PowerLoss). A torn frame that is exactly its header is told from any other (`torn`),
because replay tells them apart: at the end of a bare header io.ReadFull answers io.EOF,
which it takes for corruption, and elsewhere io.ErrUnexpectedEOF, which it takes for a
torn tail. Whether faults cut a frame there is a constant (`"header"` in Faults). Assumed
of the file system: of the unsynced end of the log any prefix survives a power loss, the
next frame possibly torn; a successful fsync makes everything in the file or directory
durable; an unsynced rename happened or not.

**Journal.** `live` is the projection in memory, `stored` the one replay of the
log builds; both are moved by the same transcription of applyRecord. AppendRecord
previews, appends and applies: it can succeed, or poison the handle with the
record in the log or not. Open replays and then marks interrupted steps in `live`
only. `durable` is the part of the log on stable storage: an append that returns success
synced all of the log, one that failed may have left a record that replay finds and a
loss of power takes (`cuts` holds what it may leave, PowerLoss takes one of them). Field
syntax, secret revisions and times other than issue, start and expiry are left out; the
clock may read anything at every call, earlier readings included. `workload`, chosen once,
says which plans, step inputs and readings the behaviour uses and how many operations,
steps and attempts it may reach.

**StackPlan.** IDs are numbers. The three runs of dependencyOrder
(validateManifest, BuildPlan, validatePlan) each walk the map and the child lists
in any order.

**CaddyAdapter.** A directory is a record of its entries, beside the set of states
the disk may hold (`cfgDisk`, `txDisk`); a change adds a state, a directory sync
leaves one. A configuration is complete, `Partial` or absent; `Adapt` maps it to
what Caddy runs. Caddy itself is outside the repository: it is taken to load the
file after a power loss, and to finish a load whose client was killed or timed out
(`pending`). A call that refuses without changing anything is not an action. `env`,
chosen once, holds the faults and candidates of the behaviour, so that a property can
say under which faults it is promised; `undoing` is the controller's decision to roll
back, after which it makes only rollback calls.

**JournalLifecycle.** A directory is a number, so that a second one at the same path is
another one, with another lock. Create is Create (Mkdir), OpenRoot, CreateFile and
WriteFile for each file, SyncRoot, SyncParent, and then Open, Lock and Validate like
any other process; Fail is what an error does: close, release, and for a Create
RemoveFile and RemoveDirectory of whatever the path names by then. RemoveFails ends that
half-way, and nobody hears of it: Create drops the error of os.RemoveAll. `patient` says
whether who opens the journal waits for a Create in progress, which is what a
controller that creates once and opens afterwards does. Replay is left to
JournalStorage; an append is one step here.

**ContainerAdapter, PostgreSQLAdapter, AuthentikAdapter.** A managed specification
carries the ID of its operation, so a container is identified by its generation: the
operation that made it, or `Initial`. Each call that changes something looks at the
primary and rollback names (its guard, in the adapter's module), then runs one docker
command by name (Mutate, RunCommand); between the two a process can die or a command
be left behind. Calls that refuse or find their work done change nothing and are left
out, as are the probes of a running server. The docker engine and the image's
entrypoint are external: the engine refuses names in use, missing containers and `rm`
of a running one; a first start fills an empty data directory, which is `partial`
(entries, but no PG_VERSION) until initdb ends. Faults: `io` (a step of a call fails),
`kill`, `power` (also stops every container), `exit` (a container ends by itself),
`late` (the client is killed at its deadline, or its adapter dies, and the command takes
effect later: process.go ties nothing to the death of the adapter). Without `late` a
command of a killed adapter was executed by then or never will be. `rooted` says whether
the state root's entry of the transactions directory is on disk: ensurePrivateDirectory
makes it and does not sync the state root (open_linux.go:208; Caddy's does), so that
until the file system writes it by itself a loss of power takes the directory and every
transaction in it. A property that relies on the files says `FilesLast`: no loss of power,
or nothing but losses of power that leave the directory.

## 3. Runs

Passing runs, with the distinct states TLC visits:

| Run | Instance | Shows |
|---|---|---|
| `storage` (617 000) | 2 payloads, 3 records, 4 faults of any kind, frames cut anywhere | durability, contiguity, refinement of DurableLog, RefusedOnlyAfterMixedFaults, AlwaysReopens |
| `journal` (549 000) | losses of power in four workloads: 1 component, 6 steps, 3 attempts; 2 components, 7 steps; 2 operations on 2 plans, 4 steps each; a clock with 3 readings | replay accepts what was written, memory matches the log, what was acknowledged is kept, no blind retry, no dead end, order of phases, meaning of every outcome, operations never overlap |
| `plan` (120 000) | all graphs on 4 components; all manifests of up to 2 entries over 4 IDs | the one order; refusal exactly for cycles; termination |
| `caddy` (323 000) | 1 operation with every fault together, with errors and kills, with power losses; 2 operations with kills or with power losses | the file is never torn; live changes stay covered; only an operation's own two contents are exchanged; staging is durable and activation follows persistence; a rollback ends |
| `postgres` (736 000) | 1 operation with 2 faults (errors, kills, exits; power losses, exits; late commands, kills); 2 operations with a kill, or with a loss of power that may take the transactions directory | one server on the data; every change covered; the observation decides; only candidates are removed; a rollback ends |
| `authentik` (457 000) | 1 operation with 2 faults (errors, kills; kills, exits; power losses), or with a loss of power that may take the transactions directory; 2 operations | worker beside its server; one generation runs; every half-done pair has one next call; a rollback ends |
| `lifecycle` (429 000) | 3 processes, 3 directories, 2 faults (errors; errors and power losses, where the clean-up fails or not; kills and power losses), waiting or not | one owner per directory; what is owned is whole and durable; failure leaves nothing |

Several properties name the environment they are promised in (`OneSortOfFault`,
`OnlyPowerIsLost`, `FilesLast`, `Alone`, `~Late`, `patient`, `NothingReturns`, a `budget`
of late commands, the faults of Create's clean-up): outside it the code does not keep them,
and section 4 says what happens there. The environments a condition admits are in the run of
its property, if not in every combination. Environments outside the condition
are in the run too where another property is about them: late commands in `postgres`, for
OneServerOnData, but not in `authentik`, whose properties all exclude them; an unsynced
state root in both; late reloads in `caddy`; a clean-up that fails in `lifecycle`.

A type invariant is checked where proofs are built on it, in `storage` and `journal`.

Why the bounds are enough. *Storage*: a mistake needs at most a record, an
interrupted append behind it, an interrupted recovery and one more power loss;
four faults leave one to spare, two payloads tell a frame from a replacement for
it, three records reach MaxRecords with frames on both sides of a torn one. No
symmetry is used because a liveness property is checked. *Journal*: the step
inputs hold, per component, one of each phase, a change without a rollback
reference, a compensation with a wrong reference, and reused IDs and digests;
three attempts allow a retry of a retry. The workloads' bounds (`maxAttempt`, `maxSteps`,
`maxOperations`) stand in the guards of BeginStep and StartOperation. Approvals and
operations are symmetric. *Plan*: four components are enough for diamonds, two
independent chains and cycles beside acyclic parts. *Caddy and the container
adapters*: two operations are what it takes to change something under a staged
transaction; one fault interrupts a call and a second one its repair. (Where the proofs
of section 5 needed more to go wrong than that, it is a condition of the property and
described in section 4.) Faults of the
container adapters are counted (`budget`), Caddy's are not. Liveness is stated for one
operation, which is how the journal runs them. *Lifecycle*: a creator, one that opens
the journal meanwhile and one that creates it anew, each with a directory of its own;
processes are symmetric.

In `plan` deadlock is not checked: planning ends. In `lifecycle` neither: a directory
that a killed Create left is refused by Create and by Open, and the directories made
are bounded. Everywhere else the system can always go on.

Fairness. `storage` assumes weak fairness of the steps of a call that has begun
and of closing a poisoned handle and opening again, which is what a controller
that keeps running does; it assumes nothing about appends, closes or faults, of
which there are finitely many. `plan` assumes that sequential code runs on. In the
adapters a call that began goes on (weak fairness of its steps), a controller that has
decided to roll back opens the adapter again (weak) and makes the rollback call that is
accepted (strong, since a fault or the controller's own Close may withdraw it again and
again); initdb in a running container ends; the health probe before a worker is started
is taken to succeed eventually. Nothing is assumed of forward calls or faults. Faults
of the container adapters are finite by their budget; Caddy's RollbackEnds says `once
faults stop`.

Each property has a mutant in `PROJECT.json`: a definition changed as a plausible
bug would change it, under which the run must fail. The faulty variants stand
beside the definitions they replace, marked as such.

## 4. Findings

Five runs are expected to fail: each checks a sentence of the documentation
or of a comment that the code does not keep.

- `storage_header`: a write that stops exactly behind a frame's header (44 bytes, none of
  the payload) makes io.ReadFull answer io.EOF, and replay.go:52 asks for
  io.ErrUnexpectedEOF: Open answers ErrCorrupt, now and for ever, after one kill or one
  short write, against prd.md:74 and architecture.md:115, which have such a tail
  recovered. RefusedOnlyAfterMixedFaults and AlwaysReopens make an exception for it
  (`HeaderCut`); they hold with frames cut anywhere else.
- `storage_confirmed`: Open trusts what it reads without syncing it. The trace has three
  faults. A process writes a frame and is killed before it syncs the log (storage.go:116).
  The next Open accepts the frame and replaces the head for it, still without syncing the
  log (replay.go:94), and is killed after the rename of the head, before the sync of the
  directory. The third Open finds log and head in agreement, syncs nothing, and answers
  duplicates as recorded. A loss of power takes frame and head away, and the record with
  them, against architecture.md:137. The first half of it is also why
  RefusedOnlyAfterMixedFaults excepts mixed faults: the head that was replaced can be on
  disk without the frame, ahead of the log, and Open then answers ErrCorrupt.
- `journal_duplicate`: markInterruptedSteps also touches sealed operations. One
  sealed recovery_required with a verification in flight shows retry_required after
  a restart, and repeating its outcome is refused, against architecture.md:127.
- `caddy_partial`: a kill inside the removal of a committed transaction leaves a
  directory that is neither loadable nor removable through RollbackStage, against
  caddy-adapter-architecture.md:117.
- `lifecycle_race`: Create gives its directory up before it opens the path (open_linux.go
  lines 64-65). Another process may open the journal in between; Create's Open answers
  ErrLocked, and its deferred clean-up removes the journal that process owns. A third
  call creates the path anew, with another lock file, and two processes own the journal
  and can append, against implementation-spec.md:88. No fault is needed. `lifecycle`
  shows that waiting for Create is enough to exclude it.

Seen with the same models under other constants, and not kept as runs of their own
(the conditions of the properties leave these out):

- *Caddy.* With `io` or `kill` before a loss of power ActivatedIsPersistent fails (Install
  accepts a visible file whose directory was never synced, actions.go:98), and so does
  StagedIsDurable (ReconcileStage promotes files that were never synced,
  transaction.go:131). With `late` Covered fails (a timed-out reload takes effect after the
  transaction was removed).
- *Commands that outlive their client.* With `late`, a `docker rm` by name that takes effect
  after RestorePrevious removes the previous container, against
  postgresql-adapter-implementation-spec.md:113 (RemovesOnlyItsCandidate); a `docker stop`
  of Authentik's server that outlives a killed adapter takes effect after the next one has
  found the server running and started the worker beside it (WorkerNeedsServer); with two
  operations a rename that takes effect late lets two servers run on one data directory
  (OneServerOnData). `docker stop --time` is given the whole deadline of the call
  (actions.go:79), so a slow stop is always late.
- *Transaction files of the container adapters.* A single loss of power after
  PreservePrevious may take the transactions directory away, whose entry in the state root
  nobody synced, and the way back with it (Covered without `FilesLast`). With `kill` and
  `power` together Covered fails also where the directory stays (a transaction whose rename
  a killed process had not synced is used by the next one, transaction.go:93, and a promoted
  file was never synced, transaction.go:105).
- *The data directory.* Left half initialised it is refused by every call
  (open_linux.go:238), and a first installation whose candidate initialised it cannot remove
  its transaction, because RollbackStage wants the directory as it was (transaction.go:153).
- *Creation.* A kill before syncParent leaves a journal that can be opened, and Open never
  syncs the parent, so a power loss takes confirmed records with the directory; so it does,
  without a kill, when syncParent fails and the clean-up fails as well, since the error of
  os.RemoveAll is dropped and a whole journal stays (ConfirmedIsDurable without its
  condition). A failing clean-up may also leave a half-made directory that refuses every
  later Create and Open, and a failing OpenRoot in Create returns before the clean-up is
  deferred and leaves the directory (open_linux.go:30).
- *The journal.* An operation sealed recovery_required may be sealed again as complete,
  because canComplete does not look at the state (state.go:244). A record whose append
  failed may be shown by the next Open and then be lost with the power: ResultsAreKept promises what was acknowledged, and what was merely shown only
  until power is lost.

Seen while reading: if two configurations differ only in a comment they adapt to the same
JSON, and classify (actions.go:66) always answers "candidate" for the runtime, so
Verify(previous) fails in exactly the previous state, against
caddy-adapter-architecture.md:92.

Met while proving, each confirmed by TLC on a larger instance, and now a condition of the
property: three late commands of a single operation (start, create, rename) suffice for
two servers on one data directory, two do not (OneServerOnData). Failed directory syncs
and losses of power together can bring back a transaction that RollbackStage removed,
beside containers of a later attempt whose Preflight saw something else; the observation
then no longer selects a call (ObservationDecides and PairDecides, `FilesLast`; four
or five faults). Caddy's RollbackStage compares contents: when a second operation brings
back the configuration the first one replaced, the first one's transaction may be removed,
and the second one's Restore leads to the first one's candidate, which nothing can undo any
more (Covered, `NothingReturns`; no fault needed, but two operations that overlap, which the journal alone excludes).

## 5. Proofs

Every invariant and action property of the passing runs is proved for every value of the
constants; liveness is not (see the end of this section). Each was checked by TLC first,
and so was the inductive invariant it rests on. The assumptions are the named ASSUMEs
of the modules, which every run evaluates: limits and budgets are natural numbers, faults
are of the kinds listed, and the markers for "nothing" and "torn" (`None`, `Partial`) are
different from what they stand in for. ContainerAdapter also assumes that an environment
asks for finitely many operations, StackPlan that IDs are finitely many numbers.

**JournalStorageProofs**, for every set of records, every limit and every set and number
of faults.

- `TypeCorrect`, `AcknowledgedRecordsAreDurable`, `AppendsAreContiguous`,
  `AcknowledgementsGrow`. AckedDurable is not inductive: that an acknowledgement is safe
  depends on what the handle has done before it. `StorageInv` adds `HandleInStep`: at each
  program point, how memory, log and head are related, and that a head replaced for an
  append is replaced only after the log was synced.
- `CorruptOnlyAfterMixedFaults`: Open calls its journal corrupt only if power was lost
  and also a process was killed or a call failed, or if a frame was cut exactly behind its
  header. `RecoveryInv` separates the two reasons. Without power loss the head is at most one frame behind what replay reads
  (`FilesRecoverable`). With nothing but power losses, no head on disk is ahead of
  the synced frames and only a log that ends at every head can be torn
  (`DiskRecoverable`), so that every state a power loss may leave is again
  recoverable. `FilesStep`, `DiskStep` and `PowerLossStep` are the three parts.
- `NearsOpenTheorem`: until the journal is open, a step either spends one of the
  limited faults or lowers `StepsLeft`, a number for each program point; and replay, the
  only program point that could refuse, does not where no mixture of faults happened
  and no frame was cut exactly behind its header (`RecoveryInv` again).
- `StorageImplementsDurableLog`: the refinement, with `stored <- frames` and
  `serving <- HandleOpen`.

**JournalProofs**, for any approvals, operations, plans, clock readings and workloads.
`JournalInv` says of each projection what a log can show (`ProjInv` of `stored`,
`LiveInv` of `live`), and relates the two (`Matches`: equal up to the marks of Open, while
the handle is open; `Kept`: no result is lost between them); and it says the same of what
a loss of power may leave, all of which `Keeps` what was acknowledged. It is needed because
applyRecord meets two projections: the marked one when a record is appended, the unmarked
one when it is replayed. ReplayAccepts is then that every guard the marked projection
passes is passed by the unmarked one too, record by record. From `JournalInv` follow
`ReplayTheorem`, `MatchTheorem`, `TypeTheorem`, `OneOperationTheorem`, `OnceTheorem`,
`OrderTheorem`, `CompleteTheorem`, `UndoneTheorem`; from the same invariant and the step
lemmas `RetryTheorem`. Two more need to know why an operation is in the state it is in.

- `ResultsTheorem`: of what was acknowledged no result is rewritten or forgotten, no
  operation is unsealed, and one that is complete, failed, rolled_back or cancelled never
  changes again, through restarts, failed appends and losses of power. The last part is not
  inductive: what keeps a later record from being admitted is not the seal but the state
  of the steps under it. `OutcomeInv` says what each outcome implies of them (nothing runs
  under a final one) and `UntouchedInv` that a failed or cancelled operation changed
  nothing; `Sealed` is that such an operation admits no record. recovery_required is
  left out, since the code seals it again (section 4).
- `NoDeadEndTheorem`: an unfinished operation admits one more call, whatever its history
  and however often the journal was reopened. Once a change began, recovery_required is
  admitted, whatever runs. Before that (`Quiet`) the argument goes by what is in flight:
  a running step admits its result (`ResultAdmitted`), an interrupted one its retry
  (`RetryAdmitted`); with nothing in flight, an operation that did not verify can be
  cancelled or sealed as failed, and in one that did every component passed preflight,
  which is what another verification asks for (`PreflightDone`,
  `VerificationAdmitted`). That needs a step ID nobody used: callers may always choose a
  new one, so the module assumes one that no workload holds (`AnotherId`).

**JournalLifecycleProofs**, for any processes, directories and environments.
`LifecycleInv` consists of types, the agreement of locks with handles, that a Create is
alone where openers wait (`PatientInv`), that directories not made yet are empty, that a
Create that failed and could clean up left a whole journal or none (`CleanInv`), and that,
where no Create is killed or fails to clean up, the entry is synced before the lock can be
had (`DurableInv`). `OneOwnerTheorem`, `OwnedIsWholeTheorem`,
`ConfirmedIsDurableTheorem`, `FailureLeavesNothingTheorem` follow.

**StackPlanProofs**, for every manifest over finitely many IDs. `IsOrder` says that a list
is a beginning of the one order: every position holds the smallest component that is free
there. `Work` is the invariant of dependencyOrder's loops: indegrees count what is not
ordered yet, with the children of the last component half updated during the inner loop,
and the ready list is sorted and holds exactly the free components. Two lists that are the
order agree (`SameOrder`), and a list that ends early leaves a set of components that wait
for each other (`CycleFound`), which excludes a complete one (`NoCycle`). `PlanInvariant`
carries this through the three passes; `PlanTheorem` and `RefusalTheorem` follow, and two
results that no run states. `DeterminedTheorem`: where there is a plan, the manifest
passed every check, has no cycle, and has no other full list that is an order, so that
planning it again gives the same plan. `ForwardTheorem` is what termination rests on
beside fairness: three numbers (passes left, components not ordered, elements not visited)
decrease lexicographically at every step, and until the planner has answered the guard of
some step holds.

**CaddyAdapterProofs**, for any operations, Caddyfiles and `Adapt`. `CaddyInv`: torn
content is found under temporary names only, and before the rename on no disk
(`RenameInv`); a replacing call still has its transaction, whose two contents are the
file's and its own (`ReplaceInv`); where only power is lost, a call ends with its
directory synced (`PowerInv`). From it `TargetTheorem`, `StagedTheorem`,
`ActivatedTheorem`, `ReplacesTheorem`. `CoveredTheorem` needs more: that every
candidate is one its operation asked for (`CandidateInv`), which directory may be unsynced
in which call (`DiskInv`), and that on every disk the staged operations, undone one after
the other, lead from the file to the initial one (`LinkInv`), so that no transaction can go
while a later one leads to its candidate.

Three more theorems are about the rollback of an operation that changes things alone
(`Alone`), under one sort of fault; no run states them. `PlacedInv` says where such an
operation can have left things: whatever disk is found, the file is one of the two contents
its transaction names, the previous one while it is still being staged, and Caddy runs one
of the two.

- `RollbackIsPossibleTheorem`: between calls, either this is the previous state or Restore
  or Reactivate is accepted (`CanRestore`, `CanActivate`).
- `RollbackHoldsTheorem`: once a rollback has brought both domains back (`Back`), they stay
  there while the transaction does, on every disk, whatever fails.
- `RollbackNearsTheorem`: `Distance` counts the steps that remain (to remove residue and
  sync that, to write, rename and sync the file, to reload). Only an error, a kill or a
  loss of power makes it grow, every step of Restore lowers it, Reactivate does where Caddy
  does not run the previous configuration yet, and between calls it is zero exactly in the
  state Baseline names. Left out are a transaction whose contents are equal, which leaves
  nothing to bring back, and a step by which the transaction goes.

**ContainerAdapterProofs** has what one docker command does to the names, and the
invariants of the transaction file: between calls the directory is synced, an operation
being staged has touched nothing, so every disk a loss of power may leave `Covers` what
was touched (`StageInv`); a transaction on any disk was prepared from the containers it
describes (`OnDiskStep`).

**PostgreSQLAdapterProofs** and **AuthentikAdapterProofs**, for any operations and
environments.

- `AdapterInvariant`, `OneServerTheorem`: without late commands, what a call looked at is
  what its command meets, but for containers that stopped (`GuardInv`). With two late
  commands of one operation that is false; `LateInv` counts the commands that may still
  come against the budget and says which of them may be in flight together while the
  previous server runs under its rollback name.
- `PairInvariant`, `OneGenerationTheorem`, `WorkerTheorem`: the same for the pair; a
  server is stopped only after its worker, a worker is started only beside its server. All
  of it is for commands that do not outlive their client.
- `RemovesOnlyItsCandidateTheorem`, `PairRemovesOnlyItsCandidate`, and both
  `Covered` theorems, for any number of operations, without late commands and, for Covered,
  where the files last (`FilesLast`).
- `ObservationTheorem`, `PairTheorem`: wherever a transaction is on any disk, the
  containers are in one of the places the operation may have brought them to (`Fits`), and a
  command in flight meets the place its call saw (`Meets`). That every such place has
  exactly one accepted rollback call is then a case distinction: over the four guards for
  PostgreSQL, over the eight pairs of guard and role for Authentik, where also the
  running flags of the transaction must be those of a pair (`PreparedInv`).
- `RollbackNearsTheorem` of either module: `Distance` counts the rollback commands that
  remain in each of those places, over both roles for Authentik. Once the rollback was
  decided and no forward command is in flight (`Backward`), it grows only when a container
  stops by itself or power is lost; a command lowers it, but for a stop of what is not
  running; between calls it is zero exactly where Verify accepts the previous state. For
  PostgreSQL that needs the data directory to be readable still (`Bound`), as validateBindings
  asks for.

Only model-checked:

- liveness, that is AlwaysReopens, Terminates, RollbackEnds of the Caddy and the PostgreSQL
  adapter, and PairRollbackEnds. Fairness and ENABLED are out of the prover's reach. Proved
  is what the argument needs of states and steps: that something which leads on is
  possible, that it leads nearer, and that where nothing remains the goal is reached.

| property | something is possible | it leads nearer |
|---|---|---|
| AlwaysReopens | `NearsOpenTheorem` (ReplayGoesOn) | `NearsOpenTheorem` |
| Terminates | `ForwardTheorem` | `ForwardTheorem` |
| RollbackEnds (Caddy) | `RollbackIsPossibleTheorem` | `RollbackNearsTheorem` |
| RollbackEnds (PostgreSQL) | `ObservationTheorem` | `RollbackNearsTheorem` |
| PairRollbackEnds | `PairTheorem` | `RollbackNearsTheorem` |

The predicates these theorems add were checked by TLC as well, on the instances of the
runs, before they were proved.

## 6. Not modelled

Encoding, parsing, digests and file-permission checks are pure or are environment
checks without state of their own. The site and the commands keep no state; the site's
views are generated. The probes of a running PostgreSQL or Authentik and the inspection
of images only read. A full journal (MaxRecords, MaxLogSize) refuses the append and
changes nothing, which JournalStorage has; the code offers no way out of it for an
operation that is not finished, and no document promises one. A composition of journal
and adapters would be a model of a controller the repository does not have.

## 7. Plan

Modelled, in this order: storage, journal, planner, Caddy, PostgreSQL, Authentik, journal
lifecycle. Proved: the safety properties of all of them, and a measure for each liveness
property. Left:

1. A composition of journal and adapters, when the repository has a controller.
2. The step from the measures of section 5 to the liveness properties themselves, with a
   prover that has ENABLED and induction over a well-founded order.
