--------------------------- MODULE JournalStorage ---------------------------
(***************************************************************************)
(* The durable half of pkg/journal: how appendRecord, replaceHead, Open    *)
(* and replay keep journal.log, journal.head and journal.head.tmp          *)
(* recoverable across killed processes, failed system calls and power      *)
(* loss.                                                                   *)
(*                                                                         *)
(* Every file has two contents: what the kernel shows to a process, and    *)
(* what a power loss may leave behind.  fsync of the log and of the        *)
(* directory are the only steps that make the two agree.                   *)
(*                                                                         *)
(* A head file names a record by its sequence number and by a digest that  *)
(* chains over all earlier records, so a head is modelled by the prefix of *)
(* the history it names: Sequence is its length, and two heads have the    *)
(* same digest exactly when they are the same prefix.                      *)
(***************************************************************************)
EXTENDS Naturals, Sequences, SequencesExt

CONSTANTS
  Record,       \* payloads a caller may append
  MaxRecords,   \* model.go MaxRecords: the log holds no more than this
  Faults,       \* which of "kill", "io", "power" the environment may inject,
                \* and "header": they may cut a frame right behind its header
  MaxFaults     \* how many of them in one behaviour

ASSUME StorageAssumption ==
  /\ MaxRecords \in Nat
  /\ MaxFaults \in Nat
  /\ Faults \subseteq {"kill", "io", "power", "header"}

VARIABLES
  frames,       \* complete frames of journal.log, as the kernel shows them
  torn,         \* what follows them: nothing, exactly the header of a frame,
                \* or any other part of one
  synced,       \* how many frames stable storage is known to hold
  tornOnDisk,   \* stable storage may hold an incomplete frame at its end
  head,         \* the history journal.head names
  heads,        \* the heads a power loss may leave in the directory
  tmp,          \* journal.head.tmp exists
  dirty,        \* the directory changed since it was last synced
  pc,           \* where the one handle holding journal.lock is
  job,          \* why it is replacing the head: an append or a repair
  mem,          \* Journal.head in memory; recordCount is its length
  target,       \* the head being installed by replaceHead
  opened,       \* how the latest finished Open ended
  acked,        \* history: the longest prefix appendRecord returned success for
  confirmed,    \* history: the longest prefix a lookup or duplicate confirmed
  faults        \* how many faults occurred so far, and of which kinds

logVars    == <<frames, torn, synced, tornOnDisk>>
dirVars    == <<head, heads, tmp, dirty>>
handleVars == <<pc, job, mem, target, opened>>
ghostVars  == <<acked, confirmed>>
vars == <<logVars, dirVars, handleVars, ghostVars, faults>>

History == Seq(Record)

(***************************************************************************)
(* Create leaves an empty log and a head naming nothing, both synced.      *)
(***************************************************************************)
Init ==
  /\ frames = << >> /\ torn = "none" /\ synced = 0 /\ tornOnDisk = FALSE
  /\ head = << >> /\ heads = {<< >>} /\ tmp = FALSE /\ dirty = FALSE
  /\ pc = "down" /\ job = "none" /\ mem = << >> /\ target = << >>
  /\ opened = "none"
  /\ acked = << >> /\ confirmed = << >>
  /\ faults = [count |-> 0, kinds |-> {}]

-----------------------------------------------------------------------------
(* replay's verdict on the files it finds (replay.go). *)

\* Faulty variant: a torn frame behind the head is not noticed.
CleanIgnoringTail == frames = head

\* A complete log that ends exactly where the head says.
Clean == torn = "none" /\ frames = head

\* A torn final frame right after the record the head names.  io.ReadFull answers
\* ErrUnexpectedEOF, which replay takes for it, only after it read something: at
\* the end of a bare header the read of the payload answers EOF.
TornTail == torn = "part" /\ frames = head

\* One complete frame more than the head names.
StaleHead ==
  /\ torn = "none"
  /\ IsPrefix(head, frames)
  /\ Len(frames) = Len(head) + 1

Recoverable == Clean \/ TornTail \/ StaleHead

-----------------------------------------------------------------------------
(* appendRecord. *)

\* Limits are checked, then the frame is written at the end of the log.
AppendWrite(r) ==
  /\ pc = "idle"
  /\ Len(mem) < MaxRecords
  /\ frames' = Append(frames, r)
  /\ target' = Append(mem, r)
  /\ pc' = "written" /\ job' = "append"
  /\ UNCHANGED <<torn, synced, tornOnDisk, dirVars, mem, opened, ghostVars, faults>>

\* Faulty variants: the frame is counted twice; the fsync is forgotten;
\* success is returned as soon as the frame is written.
AppendSyncOffByOne ==
  /\ pc = "written"
  /\ synced' = Len(frames) + 1
  /\ tornOnDisk' = FALSE
  /\ pc' = "headNext"
  /\ UNCHANGED <<frames, torn, dirVars, job, mem, target, opened, ghostVars, faults>>

AppendSyncForgotten ==
  /\ pc = "written"
  /\ pc' = "headNext"
  /\ UNCHANGED <<logVars, dirVars, job, mem, target, opened, ghostVars, faults>>

AppendSyncReturnsEarly ==
  /\ pc = "written"
  /\ pc' = "idle" /\ job' = "none"
  /\ mem' = target /\ acked' = target
  /\ UNCHANGED <<logVars, dirVars, target, opened, confirmed, faults>>

\* The log is synced: every frame in it is durable.
AppendSync ==
  /\ pc = "written"
  /\ synced' = Len(frames)
  /\ tornOnDisk' = FALSE
  /\ pc' = "headNext"
  /\ UNCHANGED <<frames, torn, dirVars, job, mem, target, opened, ghostVars, faults>>

-----------------------------------------------------------------------------
(* replaceHead, shared by appendRecord and by replay's repair. *)

\* Create, write, sync and close journal.head.tmp.
HeadWriteTmp ==
  /\ pc = "headNext"
  /\ tmp' = TRUE /\ dirty' = TRUE
  /\ pc' = "headTmp"
  /\ UNCHANGED <<logVars, head, heads, job, mem, target, opened, ghostVars, faults>>

\* Faulty variant: success is returned without syncing the directory.
HeadRenameReturnsEarly ==
  /\ pc = "headTmp"
  /\ head' = target
  /\ heads' = heads \cup {target}
  /\ tmp' = FALSE /\ dirty' = TRUE
  /\ mem' = target
  /\ pc' = "idle" /\ job' = "none"
  /\ acked' = IF job = "append" THEN target ELSE acked
  /\ UNCHANGED <<logVars, target, opened, confirmed, faults>>

\* The rename is visible at once; a power loss may still undo it.
HeadRename ==
  /\ pc = "headTmp"
  /\ head' = target
  /\ heads' = heads \cup {target}
  /\ tmp' = FALSE /\ dirty' = TRUE
  /\ pc' = "headRenamed"
  /\ UNCHANGED <<logVars, job, mem, target, opened, ghostVars, faults>>

\* The directory is synced; the caller (appendRecord or Open) succeeds.
HeadSyncRoot ==
  /\ pc = "headRenamed"
  /\ heads' = {head} /\ dirty' = FALSE
  /\ mem' = target
  /\ pc' = "idle" /\ job' = "none"
  /\ acked' = IF job = "append" THEN target ELSE acked
  /\ opened' = IF job = "repair" THEN "ok" ELSE opened
  /\ UNCHANGED <<logVars, head, tmp, target, confirmed, faults>>

-----------------------------------------------------------------------------
(* Open and replay. *)

OpenLock ==
  /\ pc = "down"
  /\ pc' = "locked"
  /\ UNCHANGED <<logVars, dirVars, job, mem, target, opened, ghostVars, faults>>

\* Faulty variant: a stale journal.head.tmp is an unexpected file.
OpenValidateDirectoryStrict ==
  /\ pc = "locked"
  /\ pc' = IF tmp THEN "down" ELSE "replay"
  /\ UNCHANGED <<logVars, dirVars, job, mem, target, opened, ghostVars, faults>>

\* A stale journal.head.tmp is removed; only then is the directory synced.
OpenValidateDirectory ==
  /\ pc = "locked"
  /\ tmp' = FALSE
  /\ dirty' = (dirty \/ tmp)
  /\ pc' = IF tmp THEN "cleaned" ELSE "replay"
  /\ UNCHANGED <<logVars, head, heads, job, mem, target, opened, ghostVars, faults>>

OpenSyncRoot ==
  /\ pc = "cleaned"
  /\ heads' = {head} /\ dirty' = FALSE
  /\ pc' = "replay"
  /\ UNCHANGED <<logVars, head, tmp, job, mem, target, opened, ghostVars, faults>>

ReplayClean ==
  /\ pc = "replay"
  /\ Clean /\ Len(frames) <= MaxRecords
  /\ mem' = head
  /\ pc' = "idle" /\ opened' = "ok"
  /\ UNCHANGED <<logVars, dirVars, job, target, ghostVars, faults>>

\* truncateTail: cut the torn frame off, then sync the log.
ReplayTruncate ==
  /\ pc = "replay"
  /\ TornTail /\ Len(frames) <= MaxRecords
  /\ torn' = "none"
  /\ mem' = head
  /\ pc' = "truncated"
  /\ UNCHANGED <<frames, synced, tornOnDisk, dirVars, job, target, opened, ghostVars, faults>>

ReplayTruncateSync ==
  /\ pc = "truncated"
  /\ synced' = Len(frames) /\ tornOnDisk' = FALSE
  /\ pc' = "idle" /\ opened' = "ok"
  /\ UNCHANGED <<frames, torn, dirVars, job, mem, target, ghostVars, faults>>

\* The head is repaired forward; the log itself is not synced again.
ReplayRepair ==
  /\ pc = "replay"
  /\ StaleHead /\ Len(frames) <= MaxRecords
  /\ mem' = head
  /\ target' = frames
  /\ pc' = "headNext" /\ job' = "repair"
  /\ UNCHANGED <<logVars, dirVars, opened, ghostVars, faults>>

\* ErrCorrupt or ErrLimit: Open refuses the journal and changes nothing.  A log
\* that ends in a bare header is among those it refuses.
ReplayRefuse ==
  /\ pc = "replay"
  /\ ~Recoverable \/ Len(frames) > MaxRecords
  /\ pc' = "down" /\ opened' = "corrupt"
  /\ UNCHANGED <<logVars, dirVars, job, mem, target, ghostVars, faults>>

\* Operation, Approval and every exact duplicate answer from memory.
Confirm ==
  /\ pc = "idle"
  /\ confirmed' = mem
  /\ UNCHANGED <<logVars, dirVars, handleVars, acked, faults>>

\* Close, also of a poisoned handle.
Close ==
  /\ pc \in {"idle", "poisoned"}
  /\ pc' = "down" /\ job' = "none"
  /\ UNCHANGED <<logVars, dirVars, mem, target, opened, ghostVars, faults>>

-----------------------------------------------------------------------------
(* Failing system calls.  appendRecord poisons its handle; Open gives up.  *)

\* What may follow the last complete frame when a write or a loss of power ends
\* within the next one.
Tails == {"none", "part"} \cup ({"header"} \cap Faults)

\* One more fault; a frame cut right behind its header is recorded as well.
Fault(kind) ==
  /\ kind \in Faults
  /\ faults.count < MaxFaults
  /\ faults' = [count |-> faults.count + 1,
                kinds |-> faults.kinds \cup {kind} \cup ({"header"} \cap {torn'})]

\* Seek or a (possibly partial) write of the frame fails.
AppendWriteFails ==
  /\ pc = "idle" /\ Len(mem) < MaxRecords
  /\ torn' \in Tails
  /\ pc' = "poisoned"
  /\ UNCHANGED <<frames, synced, tornOnDisk, dirVars, job, mem, target, opened, ghostVars>>
  /\ Fault("io")

\* Faulty variant: the handle stays usable after a failed fsync.
AppendSyncFailsUnpoisoned ==
  /\ pc = "written"
  /\ pc' = "idle" /\ job' = "none"
  /\ UNCHANGED <<logVars, dirVars, mem, target, opened, ghostVars>>
  /\ Fault("io")

\* fsync of the log fails: the frame stays visible, its durability unknown.
AppendSyncFails ==
  /\ pc = "written"
  /\ pc' = "poisoned" /\ job' = "none"
  /\ UNCHANGED <<logVars, dirVars, mem, target, opened, ghostVars>>
  /\ Fault("io")

\* A step of replaceHead fails; its deferred cleanup removes the temporary
\* file.  After the rename there is nothing left to remove.
ReplaceHeadFails ==
  /\ pc \in {"headNext", "headTmp", "headRenamed"}
  /\ tmp' = FALSE
  /\ dirty' = TRUE
  /\ pc' = IF job = "append" THEN "poisoned" ELSE "down"
  /\ opened' = IF job = "append" THEN opened ELSE "storage"
  /\ job' = "none"
  /\ UNCHANGED <<logVars, head, heads, mem, target, ghostVars>>
  /\ Fault("io")

\* Open returns ErrStorage before or while it repairs anything else.
OpenFails ==
  /\ pc \in {"locked", "cleaned", "replay", "truncated"}
  /\ pc' = "down" /\ opened' = "storage"
  /\ UNCHANGED <<logVars, dirVars, job, mem, target, ghostVars>>
  /\ Fault("io")

-----------------------------------------------------------------------------
(* Crashes. *)

\* The process dies; the kernel, its caches and the files live on.  A frame
\* being written may be cut short.
Kill ==
  /\ pc # "down"
  /\ torn' \in IF pc = "idle" /\ Len(mem) < MaxRecords THEN Tails ELSE {torn}
  /\ pc' = "down" /\ job' = "none"
  /\ UNCHANGED <<frames, synced, tornOnDisk, dirVars, mem, target, opened, ghostVars>>
  /\ Fault("kill")

\* Power is lost: of the unsynced frames any prefix survives, the next one
\* possibly cut short; the directory keeps one of the heads renamed into it
\* since it was last synced.
PowerLoss ==
  /\ \E k \in synced .. Len(frames) :
       /\ frames' = SubSeq(frames, 1, k)
       /\ synced' = k
       /\ torn' \in IF k < Len(frames) \/ torn # "none" \/ tornOnDisk
                    THEN Tails ELSE {"none"}
  /\ tornOnDisk' = (torn' # "none")
  /\ head' \in heads
  /\ heads' = {head'}
  /\ tmp' \in IF dirty THEN BOOLEAN ELSE {tmp}
  /\ dirty' = FALSE
  /\ pc' = "down" /\ job' = "none"
  /\ UNCHANGED <<mem, target, opened, ghostVars>>
  /\ Fault("power")

-----------------------------------------------------------------------------
HandleStep ==
  \/ AppendSync
  \/ HeadWriteTmp \/ HeadRename \/ HeadSyncRoot
  \/ OpenLock \/ OpenValidateDirectory \/ OpenSyncRoot
  \/ ReplayClean \/ ReplayTruncate \/ ReplayTruncateSync
  \/ ReplayRepair \/ ReplayRefuse

Failure ==
  \/ AppendWriteFails \/ AppendSyncFails \/ ReplaceHeadFails \/ OpenFails
  \/ Kill \/ PowerLoss

Next ==
  \/ \E r \in Record : AppendWrite(r)
  \/ HandleStep
  \/ Confirm
  \/ Close
  \/ Failure

Spec == Init /\ [][Next]_vars

\* A call that has begun runs on, and the controller closes a poisoned handle
\* and opens the journal again; it need never append or close a healthy one.
Fairness ==
  /\ WF_vars(HandleStep)
  /\ WF_vars(pc = "poisoned" /\ Close)

FairSpec == Spec /\ Fairness

-----------------------------------------------------------------------------
(* Properties. *)

PCs == {"down", "locked", "cleaned", "replay", "truncated", "idle", "written",
        "headNext", "headTmp", "headRenamed", "poisoned"}

\* The handle that a successful Open returned and that was not yet closed.
HandleOpen == pc \in {"idle", "written", "poisoned"} \/ job = "append"

\* Every variable keeps its type.
TypeOK ==
  /\ frames \in History /\ torn \in {"none", "header", "part"}
  /\ synced \in 0 .. Len(frames) /\ tornOnDisk \in BOOLEAN
  /\ head \in History /\ heads \subseteq History
  /\ tmp \in BOOLEAN /\ dirty \in BOOLEAN
  /\ pc \in PCs /\ job \in {"none", "append", "repair"}
  /\ mem \in History /\ target \in History
  /\ opened \in {"none", "ok", "corrupt", "storage"}
  /\ acked \in History /\ confirmed \in History
  /\ faults \in [count : 0 .. MaxFaults, kinds : SUBSET Faults]

\* An acknowledged record is on stable storage in the log, and every head a
\* power loss could leave behind names it: no later kill, failed system call
\* or power loss can make a successful Open come up without it.
AckedDurable ==
  /\ Len(acked) <= synced
  /\ IsPrefix(acked, frames)
  /\ \A h \in heads : IsPrefix(acked, h)

\* A handle that may still append is in step with the files: it holds the
\* whole log and nothing torn follows it, so its next frame continues the
\* chain that replay will check.
AppendsContinueLog ==
  pc = "idle" => /\ mem = frames
                 /\ torn = "none"
                 /\ head = mem

\* What callers were told only ever grows: an acknowledgement never replaces
\* an acknowledged record by another one.
AckedOnlyGrows == [][IsPrefix(acked, acked')]_vars

\* The machine has lost power, and a process was killed or a call failed.
Mixed == "power" \in faults.kinds /\ faults.kinds \cap {"kill", "io"} # {}

\* A frame was cut right behind its header.
HeaderCut == "header" \in faults.kinds

\* Kills and failed system calls without a loss of power, and losses of power
\* without them, leave files that replay accepts, at whatever step they strike
\* and however often recovery itself is interrupted, unless one of them cut a
\* frame exactly behind its header.
RefusedOnlyAfterMixedFaults == opened = "corrupt" => Mixed \/ HeaderCut

\* Then the journal is always opened for appending again: recovery does not
\* stall on what an earlier interruption left behind.
AlwaysReopens == []<>(pc = "idle" \/ Mixed \/ HeaderCut)

\* docs/architecture.md: a partial final frame is discarded when the head still
\* names the record before it.  So kills and failed system calls alone never make
\* Open refuse the journal, wherever in a frame they strike.
PartialFrameIsDiscarded == opened = "corrupt" => Mixed

\* A record confirmed to a caller by a lookup or by the answer to an exact
\* duplicate is still there whenever the journal is open again.
ConfirmedSurvives == HandleOpen => IsPrefix(confirmed, frames)

\* The storage implements the abstract log: it extends it by one record at a
\* time and loses only what it never acknowledged.
Abstract == INSTANCE DurableLog
  WITH stored <- frames, serving <- HandleOpen

ImplementsDurableLog == Abstract!Spec
=============================================================================
