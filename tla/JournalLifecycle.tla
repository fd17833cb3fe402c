-------------------------- MODULE JournalLifecycle --------------------------
(***************************************************************************)
(* pkg/journal/open_linux.go: processes create, open, use and close the    *)
(* journal at one path.                                                    *)
(*                                                                         *)
(* Create makes a directory and its four files, syncs both and its parent, *)
(* gives the directory up, and opens the path like anybody else; when any  *)
(* of that fails it removes whatever the path names.  The advisory lock is *)
(* on the lock file of one directory: a directory made later at the same   *)
(* path has another.  Records and their replay are the modules             *)
(* JournalStorage and Journal; here an append is one step.                 *)
(***************************************************************************)
EXTENDS Naturals, FiniteSets

CONSTANTS
  Proc,          \* processes
  None,          \* no directory, no process
  MaxDirs,       \* bound on the directories made at the path
  Environments   \* which faults may happen, how often, and whether who opens
                 \* the journal waits for a Create in progress

FaultKinds == {"io", "open", "remove", "kill", "power"}

ASSUME LifecycleAssumption ==
  /\ MaxDirs \in Nat /\ None \notin Proc \cup (1 .. MaxDirs)
  /\ Environments \subseteq [faults : SUBSET FaultKinds, budget : Nat, patient : BOOLEAN]

VARIABLES
  env,        \* the environment of this behaviour
  faultsLeft, \* faults that may still happen
  made,       \* how many directories were made; they are 1 .. made
  path,       \* the directory the path names
  pathDisk,   \* what it may name after a loss of power
  files,      \* the files of each directory
  filesDisk,  \* what each may hold after a loss of power
  lock,       \* the process that holds the lock of each directory
  pc,         \* where each process is
  dir,        \* the directory each process has a handle of
  creating,   \* the processes that are inside Create
  confirmed   \* history: directories in which an append was confirmed

vars == <<env, faultsLeft, made, path, pathDisk, files, filesDisk, lock, pc, dir,
          creating, confirmed>>
parent == <<made, path, pathDisk>>
contents == <<files, filesDisk>>
faults == <<env, faultsLeft>>

Dir == 1 .. MaxDirs

\* requiredFiles, in the order Create makes them.
FileOrder == <<"installation.json", "journal.log", "journal.head", "journal.lock">>
File == {FileOrder[i] : i \in DOMAIN FileOrder}
Empty == [f \in File |-> "none"]
Whole == [f \in File |-> "whole"]

Init ==
  /\ env \in Environments /\ faultsLeft = env.budget
  /\ made = 0 /\ path = None /\ pathDisk = {None}
  /\ files = [d \in Dir |-> Empty] /\ filesDisk = [d \in Dir |-> {Empty}]
  /\ lock = [d \in Dir |-> None]
  /\ pc = [p \in Proc |-> "idle"] /\ dir = [p \in Proc |-> None]
  /\ creating = {} /\ confirmed = {}

\* What the disk may hold matters only where power may be lost.
Unsynced(old, new) == IF "power" \in env.faults THEN old \cup {new} ELSE {new}

Link(d) == path' = d /\ pathDisk' = Unsynced(pathDisk, d)

SetFile(d, f, value) ==
  LET new == [files[d] EXCEPT ![f] = value]
  IN  /\ files' = [files EXCEPT ![d] = new]
      /\ filesDisk' = [filesDisk EXCEPT ![d] = Unsynced(@, new)]

Goto(p, label) == pc' = [pc EXCEPT ![p] = label]
Release(p) == lock' = [d \in Dir |-> IF lock[d] = p THEN None ELSE lock[d]]

-----------------------------------------------------------------------------
(* Create. *)

Create(p) ==
  /\ pc[p] = "idle" /\ path = None /\ made < MaxDirs
  /\ made' = made + 1 /\ Link(made + 1)
  /\ creating' = creating \cup {p}
  /\ Goto(p, "root")
  /\ UNCHANGED <<faults, contents, lock, dir, confirmed>>

OpenRoot(p) ==
  /\ pc[p] = "root" /\ path # None
  /\ dir' = [dir EXCEPT ![p] = path]
  /\ Goto(p, "create")
  /\ UNCHANGED <<faults, parent, contents, lock, creating, confirmed>>

Missing(d) == {i \in DOMAIN FileOrder : files[d][FileOrder[i]] = "none"}

\* createEmptyFile, and the first half of createJSONFile.
CreateFile(p) ==
  /\ pc[p] = "create" /\ Missing(dir[p]) # {}
  /\ LET next == FileOrder[CHOOSE i \in Missing(dir[p]) : \A j \in Missing(dir[p]) : i <= j]
     IN  IF next \in {"installation.json", "journal.head"}
         THEN SetFile(dir[p], next, "partial") /\ Goto(p, "write")
         ELSE SetFile(dir[p], next, "whole") /\ UNCHANGED pc
  /\ UNCHANGED <<faults, parent, lock, dir, creating, confirmed>>

\* The second half: the document is written and synced.
WriteFile(p) ==
  /\ pc[p] = "write"
  /\ \E f \in File : files[dir[p]][f] = "partial" /\ SetFile(dir[p], f, "whole")
  /\ Goto(p, "create")
  /\ UNCHANGED <<faults, parent, lock, dir, creating, confirmed>>

SyncRoot(p) ==
  /\ pc[p] = "create" /\ Missing(dir[p]) = {}
  /\ filesDisk' = [filesDisk EXCEPT ![dir[p]] = {files[dir[p]]}]
  /\ Goto(p, "parent")
  /\ UNCHANGED <<faults, parent, files, lock, dir, creating, confirmed>>

\* Faulty variant: the entry of the new directory is left to the page cache.
SyncParentSkipped(p) ==
  /\ pc[p] = "parent"
  /\ dir' = [dir EXCEPT ![p] = None]
  /\ Goto(p, "open")
  /\ UNCHANGED <<faults, parent, contents, lock, creating, confirmed>>

\* syncParent; then the directory is given up, to be opened by its path.
SyncParent(p) ==
  /\ pc[p] = "parent"
  /\ pathDisk' = {path}
  /\ dir' = [dir EXCEPT ![p] = None]
  /\ Goto(p, "open")
  /\ UNCHANGED <<faults, made, path, contents, lock, creating, confirmed>>

-----------------------------------------------------------------------------
(* The deferred clean-up of a Create that fails. *)

\* Faulty variant: what was made is left behind.
FailKept(p) ==
  /\ Goto(p, "idle") /\ dir' = [dir EXCEPT ![p] = None] /\ Release(p)
  /\ creating' = creating \ {p}

Fail(p) ==
  /\ Goto(p, IF p \in creating THEN "remove" ELSE "idle")
  /\ dir' = [dir EXCEPT ![p] = None] /\ Release(p)
  /\ UNCHANGED creating

\* RemoveAll unlinks the files of what the path names, in any order, and the
\* directory once it is empty; its error is dropped, and what it left stays.
RemoveFile(p) ==
  /\ pc[p] = "remove" /\ path # None
  /\ \E f \in File : files[path][f] # "none" /\ SetFile(path, f, "none")
  /\ UNCHANGED <<faults, parent, lock, pc, dir, creating, confirmed>>

RemoveDirectory(p) ==
  /\ pc[p] = "remove"
  /\ path # None => files[path] = Empty
  /\ Link(None)
  /\ creating' = creating \ {p}
  /\ Goto(p, "idle")
  /\ UNCHANGED <<faults, made, contents, lock, dir, confirmed>>

-----------------------------------------------------------------------------
(* Open and Close. *)

\* The directory is what the path names now.
Open(p) ==
  /\ \/ pc[p] = "open"
     \/ pc[p] = "idle" /\ path # None /\ (env.patient => creating = {})
  /\ IF path = None
     THEN Fail(p)
     ELSE Goto(p, "lock") /\ dir' = [dir EXCEPT ![p] = path] /\ UNCHANGED <<lock, creating>>
  /\ UNCHANGED <<faults, parent, contents, confirmed>>

\* Faulty variant: an answer of flock that is not an error is not needed.
LockIgnored(p) ==
  /\ pc[p] = "lock"
  /\ IF files[dir[p]]["journal.lock"] = "whole"
     THEN Goto(p, "validate") /\ UNCHANGED <<lock, dir, creating>>
     ELSE Fail(p)
  /\ UNCHANGED <<faults, parent, contents, confirmed>>

Lock(p) ==
  /\ pc[p] = "lock"
  /\ IF files[dir[p]]["journal.lock"] = "whole" /\ lock[dir[p]] = None
     THEN lock' = [lock EXCEPT ![dir[p]] = p] /\ Goto(p, "validate") /\ UNCHANGED <<dir, creating>>
     ELSE Fail(p)
  /\ UNCHANGED <<faults, parent, contents, confirmed>>

\* Faulty variant: what the lock file stands beside is not looked at.
ValidateNothing(p) ==
  /\ pc[p] = "validate"
  /\ Goto(p, "owner") /\ creating' = creating \ {p}
  /\ UNCHANGED <<faults, parent, contents, lock, dir, confirmed>>

\* validateDirectory, validateInstallation and loadHead.
Validate(p) ==
  /\ pc[p] = "validate"
  /\ IF files[dir[p]] = Whole
     THEN Goto(p, "owner") /\ creating' = creating \ {p} /\ UNCHANGED <<lock, dir>>
     ELSE Fail(p)
  /\ UNCHANGED <<faults, parent, contents, confirmed>>

\* A confirmed append has synced the journal's directory with its new head.
AppendRecord(p) ==
  /\ pc[p] = "owner" /\ files[dir[p]] = Whole
  /\ filesDisk' = [filesDisk EXCEPT ![dir[p]] = {files[dir[p]]}]
  /\ confirmed' = confirmed \cup {dir[p]}
  /\ UNCHANGED <<faults, parent, files, lock, pc, dir, creating>>

Close(p) ==
  /\ pc[p] = "owner"
  /\ Release(p) /\ Goto(p, "idle") /\ dir' = [dir EXCEPT ![p] = None]
  /\ UNCHANGED <<faults, parent, contents, creating, confirmed>>

-----------------------------------------------------------------------------
(* Faults. *)

Fault(kind) ==
  /\ kind \in env.faults /\ faultsLeft > 0
  /\ faultsLeft' = faultsLeft - 1 /\ UNCHANGED env

\* A call of the file system fails, before or after Create has its handle.
CallFails(p) ==
  /\ \/ /\ pc[p] \in {"create", "write", "parent", "open", "lock", "validate"}
        /\ Fault("io") /\ Fail(p)
     \/ /\ pc[p] = "root" /\ Fault("open")
        /\ Goto(p, "idle") /\ creating' = creating \ {p} /\ UNCHANGED <<lock, dir>>
  /\ UNCHANGED <<parent, contents, confirmed>>

RemoveFails(p) ==
  /\ pc[p] = "remove" /\ path # None /\ Fault("remove")
  /\ Goto(p, "idle") /\ creating' = creating \ {p}
  /\ UNCHANGED <<parent, contents, lock, dir, confirmed>>

Kill(p) ==
  /\ pc[p] # "idle" /\ Fault("kill")
  /\ Goto(p, "idle") /\ dir' = [dir EXCEPT ![p] = None] /\ Release(p)
  /\ creating' = creating \ {p}
  /\ UNCHANGED <<parent, contents, confirmed>>

PowerLoss ==
  /\ Fault("power")
  /\ path' \in pathDisk /\ pathDisk' = {path'}
  /\ files' \in {g \in [Dir -> UNION {filesDisk[d] : d \in Dir}] : \A d \in Dir : g[d] \in filesDisk[d]}
  /\ filesDisk' = [d \in Dir |-> {files'[d]}]
  /\ lock' = [d \in Dir |-> None]
  /\ pc' = [p \in Proc |-> "idle"] /\ dir' = [p \in Proc |-> None] /\ creating' = {}
  /\ UNCHANGED <<made, confirmed>>

-----------------------------------------------------------------------------
Step(p) ==
  \/ Create(p) \/ OpenRoot(p) \/ CreateFile(p) \/ WriteFile(p) \/ SyncRoot(p) \/ SyncParent(p)
  \/ RemoveFile(p) \/ RemoveDirectory(p)
  \/ Open(p) \/ Lock(p) \/ Validate(p) \/ AppendRecord(p) \/ Close(p)
  \/ CallFails(p) \/ RemoveFails(p) \/ Kill(p)

Next == (\E p \in Proc : Step(p)) \/ PowerLoss

Spec == Init /\ [][Next]_vars

-----------------------------------------------------------------------------
(* Properties. *)

Owners == {p \in Proc : pc[p] = "owner"}

\* One process owns a journal at a time.
OneOwner == \A p, q \in Owners : p = q

\* Where who opens waits for Create, one process owns the journal at the path;
\* where nobody waits, still only one owns each directory.
OneOwnerPerDirectory ==
  \A p, q \in Owners : env.patient \/ dir[p] = dir[q] => p = q

\* A process owns only a journal that is whole and is the one the path names.
\* A Create that fails, is killed or loses power, or whose clean-up fails
\* half-way, never leaves one to open that is not, and its clean-up never
\* removes one that is in use.
OwnedIsWhole ==
  env.patient => \A p \in Owners : dir[p] = path /\ files[dir[p]] = Whole

\* A confirmed append survives a loss of power, the directory it is in
\* included: its entry was synced before anybody could open it, by a Create
\* that was not killed and that could clean up if it failed.  (Otherwise the
\* next Open takes over a whole journal whose entry nobody has synced.)
ConfirmedIsDurable ==
  env.patient /\ env.faults \cap {"kill", "remove"} = {} =>
    \A d \in confirmed : pathDisk = {d} /\ filesDisk[d] = {Whole}

\* Where the clean-up itself does not fail, a Create that got its directory
\* open and then returns an error leaves the path free for the next one.  (One
\* whose OpenRoot fails removes nothing.)  And after whatever fault, no lock
\* outlives an Open that failed or a handle that was closed.
FailureLeavesNothing ==
  /\ env.faults \subseteq {"io"} /\ env.patient /\ (\A p \in Proc : pc[p] = "idle") =>
       path = None \/ files[path] = Whole
  /\ \A d \in Dir : lock[d] # None =>
       dir[lock[d]] = d /\ pc[lock[d]] \in {"validate", "owner"}
=============================================================================
