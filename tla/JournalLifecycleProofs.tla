----------------------- MODULE JournalLifecycleProofs -----------------------
(***************************************************************************)
(* Proofs about JournalLifecycle, for every set of processes, any number   *)
(* of directories and every environment.                                   *)
(***************************************************************************)
EXTENDS JournalLifecycle, TLAPS

-----------------------------------------------------------------------------
(* The inductive invariant, in named parts. *)

PCs == {"idle", "root", "create", "write", "parent", "open", "lock", "validate",
        "owner", "remove"}
Contents == [File -> {"none", "partial", "whole"}]

TypeOK ==
  /\ env \in [faults : SUBSET FaultKinds, budget : Nat, patient : BOOLEAN]
  /\ faultsLeft \in Nat
  /\ made \in 0 .. MaxDirs
  /\ path \in Dir \cup {None} /\ pathDisk \subseteq Dir \cup {None}
  /\ files \in [Dir -> Contents] /\ filesDisk \in [Dir -> SUBSET Contents]
  /\ lock \in [Dir -> Proc \cup {None}]
  /\ pc \in [Proc -> PCs] /\ dir \in [Proc -> Dir \cup {None}]
  /\ creating \subseteq Proc /\ confirmed \subseteq Dir

\* Who is past open has a handle, and nobody else has one; who has locked a
\* directory holds its lock, and nobody else holds one.
HandleInv ==
  /\ \A p \in Proc : dir[p] # None <=>
       pc[p] \in {"create", "write", "parent", "lock", "validate", "owner"}
  /\ \A p \in Proc : pc[p] \in {"validate", "owner"} => lock[dir[p]] = p
  /\ \A d \in Dir : lock[d] # None =>
       dir[lock[d]] = d /\ pc[lock[d]] \in {"validate", "owner"}

\* Where who opens waits, a Create is alone until it has succeeded or is through with
\* its clean-up, complete or not, and every handle is of the directory that the path
\* names.
PatientInv ==
  env.patient =>
    /\ path = None => creating = {} /\ \A p \in Proc : pc[p] = "idle"
    /\ \A p \in creating : pc[p] \notin {"idle", "owner"}
                           /\ \A q \in Proc \ {p} : pc[q] = "idle"
    /\ \A p \in Proc :
         pc[p] \in {"root", "create", "write", "parent", "open", "remove"} => p \in creating
    /\ \A p \in Proc : dir[p] # None => dir[p] = path
    /\ \A p \in Proc : pc[p] = "owner" => files[dir[p]] = Whole

\* A directory not made yet is empty, and nothing names it.
FreshInv ==
  /\ \A d \in Dir : d > made => files[d] = Empty /\ filesDisk[d] = {Empty}
  /\ {path} \cup pathDisk \subseteq (1 .. made) \cup {None}
  /\ \A p \in Proc : dir[p] \in (1 .. made) \cup {None}

\* A Create that fails, is not cut short and can clean up leaves a whole journal or
\* none.
CleanInv ==
  env.faults \subseteq {"io"} /\ env.patient /\ creating = {} =>
    path = None \/ files[path] = Whole

\* Where no Create is killed and no clean-up fails, the entry of a directory is synced
\* before anybody locks it, and an append finds its directory whole, synced and settled.
DurableInv ==
  env.patient /\ env.faults \cap {"kill", "remove"} = {} =>
    /\ path # None /\ creating = {} => pathDisk = {path} \/ files[path] = Empty
    /\ \A p \in creating : pc[p] = "root" => files[path] = Empty
    /\ \A p \in creating : pc[p] \in {"open", "lock"} => pathDisk = {path}
    /\ \A p \in Proc : pc[p] \in {"validate", "owner"} => pathDisk = {path}
    /\ \A d \in confirmed :
         /\ creating = {} /\ path = d /\ files[d] = Whole
         /\ pathDisk = {d} /\ filesDisk[d] = {Whole}

LifecycleInv == TypeOK /\ HandleInv /\ PatientInv /\ FreshInv /\ CleanInv /\ DurableInv

-----------------------------------------------------------------------------
(* Types. *)

\* Setting a file changes one directory, in memory and on disk.
LEMMA SetFileEffect ==
  ASSUME TypeOK, NEW d \in Dir, NEW f, NEW value \in {"none", "partial", "whole"},
         SetFile(d, f, value)
  PROVE  /\ files' \in [Dir -> Contents] /\ filesDisk' \in [Dir -> SUBSET Contents]
         /\ \A e \in Dir \ {d} : files'[e] = files[e] /\ filesDisk'[e] = filesDisk[e]
<1>1. [files[d] EXCEPT ![f] = value] \in Contents
  BY DEF TypeOK, Contents
<1>2. Unsynced(filesDisk[d], [files[d] EXCEPT ![f] = value]) \subseteq Contents
  BY <1>1 DEF TypeOK, Unsynced
<1>3. QED
  BY <1>1, <1>2 DEF TypeOK, SetFile

\* Every step keeps every variable in its type.
LEMMA TypeStep == TypeOK /\ HandleInv /\ [Next]_vars => TypeOK'
<1> SUFFICES ASSUME TypeOK, HandleInv, [Next]_vars
             PROVE  TypeOK'
  OBVIOUS
<1> USE DEF TypeOK, PCs, parent, contents, faults
<1>n. LifecycleAssumption
  BY LifecycleAssumption
<1>f. ASSUME NEW kind, Fault(kind)
      PROVE  env' = env /\ faultsLeft' \in Nat
  BY <1>f DEF Fault
<1>l. ASSUME NEW d \in Dir \cup {None}, Link(d)
      PROVE  path' \in Dir \cup {None} /\ pathDisk' \subseteq Dir \cup {None}
  BY <1>l DEF Link, Unsynced
<1>r. ASSUME NEW p \in Proc, Release(p)
      PROVE  lock' \in [Dir -> Proc \cup {None}]
  BY <1>r DEF Release
<1>g. ASSUME NEW p \in Proc, NEW l \in PCs, Goto(p, l)
      PROVE  pc' \in [Proc -> PCs]
  BY <1>g DEF Goto
<1>d. ASSUME NEW p \in Proc, NEW d \in Dir \cup {None}
      PROVE  [dir EXCEPT ![p] = d] \in [Proc -> Dir \cup {None}]
  OBVIOUS
<1>x. ASSUME NEW p \in Proc, Fail(p)
      PROVE  /\ pc' \in [Proc -> PCs] /\ dir' \in [Proc -> Dir \cup {None}]
             /\ lock' \in [Dir -> Proc \cup {None}] /\ creating' = creating
  BY <1>x, <1>r, <1>g, <1>d DEF Fail
<1>1. ASSUME NEW p \in Proc, Create(p)
      PROVE  TypeOK'
  <2>1. made + 1 \in Dir /\ made' \in 0 .. MaxDirs
    BY <1>1, <1>n DEF Create, Dir, LifecycleAssumption
  <2>2. QED
    BY <1>1, <1>l, <1>g, <2>1 DEF Create
<1>2. ASSUME NEW p \in Proc, OpenRoot(p)
      PROVE  TypeOK'
  BY <1>2, <1>g, <1>d DEF OpenRoot
<1>3. ASSUME NEW p \in Proc, CreateFile(p)
      PROVE  TypeOK'
  <2>1. dir[p] \in Dir
    BY <1>3 DEF CreateFile, HandleInv
  <2>2. files' \in [Dir -> Contents] /\ filesDisk' \in [Dir -> SUBSET Contents]
    BY <1>3, <2>1, SetFileEffect DEF CreateFile
  <2>3. pc' \in [Proc -> PCs]
    BY <1>3, <1>g DEF CreateFile
  <2>4. QED
    BY <1>3, <2>2, <2>3 DEF CreateFile
<1>4. ASSUME NEW p \in Proc, WriteFile(p)
      PROVE  TypeOK'
  <2>1. dir[p] \in Dir
    BY <1>4 DEF WriteFile, HandleInv
  <2>2. files' \in [Dir -> Contents] /\ filesDisk' \in [Dir -> SUBSET Contents]
    BY <1>4, <2>1, SetFileEffect DEF WriteFile
  <2>3. QED
    BY <1>4, <1>g, <2>2 DEF WriteFile
<1>5. ASSUME NEW p \in Proc, SyncRoot(p)
      PROVE  TypeOK'
  <2>1. dir[p] \in Dir
    BY <1>5 DEF SyncRoot, HandleInv
  <2>2. filesDisk' \in [Dir -> SUBSET Contents]
    BY <1>5, <2>1 DEF SyncRoot
  <2>3. QED
    BY <1>5, <1>g, <2>2 DEF SyncRoot
<1>6. ASSUME NEW p \in Proc, SyncParent(p)
      PROVE  TypeOK'
  BY <1>6, <1>g, <1>d DEF SyncParent
<1>7. ASSUME NEW p \in Proc, RemoveFile(p)
      PROVE  TypeOK'
  <2>1. path \in Dir
    BY <1>7 DEF RemoveFile
  <2>2. files' \in [Dir -> Contents] /\ filesDisk' \in [Dir -> SUBSET Contents]
    BY <1>7, <2>1, SetFileEffect DEF RemoveFile
  <2>3. QED
    BY <1>7, <2>2 DEF RemoveFile
<1>8. ASSUME NEW p \in Proc, RemoveDirectory(p)
      PROVE  TypeOK'
  BY <1>8, <1>g, <1>l DEF RemoveDirectory
<1>9. ASSUME NEW p \in Proc, Open(p)
      PROVE  TypeOK'
  BY <1>9, <1>g, <1>d, <1>x DEF Open
<1>10. ASSUME NEW p \in Proc, Lock(p)
       PROVE  TypeOK'
  BY <1>10, <1>g, <1>x DEF Lock
<1>11. ASSUME NEW p \in Proc, Validate(p)
       PROVE  TypeOK'
  BY <1>11, <1>g, <1>x DEF Validate
<1>12. ASSUME NEW p \in Proc, AppendRecord(p)
       PROVE  TypeOK'
  <2>1. dir[p] \in Dir
    BY <1>12 DEF AppendRecord, HandleInv
  <2>2. filesDisk' \in [Dir -> SUBSET Contents]
    BY <1>12, <2>1 DEF AppendRecord
  <2>3. QED
    BY <1>12, <2>1, <2>2 DEF AppendRecord
<1>13. ASSUME NEW p \in Proc, Close(p)
       PROVE  TypeOK'
  BY <1>13, <1>g, <1>d, <1>r DEF Close
<1>14. ASSUME NEW p \in Proc, CallFails(p)
       PROVE  TypeOK'
  BY <1>14, <1>f, <1>g, <1>x DEF CallFails
<1>14a. ASSUME NEW p \in Proc, RemoveFails(p)
       PROVE  TypeOK'
  BY <1>14a, <1>f, <1>g DEF RemoveFails
<1>15. ASSUME NEW p \in Proc, Kill(p)
       PROVE  TypeOK'
  BY <1>15, <1>f, <1>g, <1>d, <1>r DEF Kill
<1>16. CASE PowerLoss
  <2>1. files' \in [Dir -> Contents]
    <3>1. \A d \in Dir : files'[d] \in filesDisk[d]
      BY <1>16 DEF PowerLoss
    <3>2. QED
      BY <1>16, <3>1 DEF PowerLoss
  <2>2. filesDisk' \in [Dir -> SUBSET Contents]
    BY <1>16, <2>1 DEF PowerLoss
  <2>3. QED
    BY <1>16, <1>f, <2>1, <2>2 DEF PowerLoss
<1>17. CASE UNCHANGED vars
  BY <1>17 DEF vars
<1>18. QED
  BY <1>1, <1>2, <1>3, <1>4, <1>5, <1>6, <1>7, <1>8, <1>9, <1>10, <1>11, <1>12, <1>13,
     <1>14, <1>14a, <1>15, <1>16, <1>17 DEF Next, Step

-----------------------------------------------------------------------------
(* Handles and locks. *)

\* Who gives its handle up gives up its lock with it and disturbs nobody else.
LEMMA ReleaseKeepsHandles ==
  ASSUME TypeOK, HandleInv, NEW p \in Proc, NEW label \in {"idle", "remove"},
         Goto(p, label), dir' = [dir EXCEPT ![p] = None], Release(p)
  PROVE  HandleInv'
<1>1. \A q \in Proc \ {p} : pc'[q] = pc[q] /\ dir'[q] = dir[q]
  BY DEF TypeOK, Goto
<1>2. pc'[p] = label /\ dir'[p] = None
  BY DEF TypeOK, Goto
<1>3. \A d \in Dir : lock'[d] = IF lock[d] = p THEN None ELSE lock[d]
  BY DEF Release
<1>4. \A q \in Proc : pc'[q] \in {"validate", "owner"} => lock'[dir'[q]] = q
  BY <1>1, <1>2, <1>3, LifecycleAssumption DEF TypeOK, HandleInv
<1>5. QED
  BY <1>1, <1>2, <1>3, <1>4 DEF HandleInv, TypeOK

\* Every step keeps locks with the handles of those who hold them.
LEMMA HandleStep == TypeOK /\ HandleInv /\ [Next]_vars => HandleInv'
<1> SUFFICES ASSUME TypeOK, HandleInv, [Next]_vars
             PROVE  HandleInv'
  OBVIOUS
<1> USE DEF parent, contents, faults
<1>n. None \notin Proc /\ None \notin Dir
  BY LifecycleAssumption DEF LifecycleAssumption, Dir
\* A step that moves one process and changes no lock.
<1>m. ASSUME NEW p \in Proc, NEW l \in PCs, NEW d \in Dir \cup {None},
             Goto(p, l), dir' = [dir EXCEPT ![p] = d], lock' = lock,
             d # None <=> l \in {"create", "write", "parent", "lock", "validate", "owner"},
             l \in {"validate", "owner"} => pc[p] \in {"validate", "owner"} /\ d = dir[p],
             pc[p] \in {"validate", "owner"} => l \in {"validate", "owner"}
      PROVE  HandleInv'
  <2>1. \A q \in Proc \ {p} : pc'[q] = pc[q] /\ dir'[q] = dir[q]
    BY <1>m DEF TypeOK, Goto
  <2>2. pc'[p] = l /\ dir'[p] = d
    BY <1>m DEF TypeOK, Goto
  <2>3. QED
    BY <1>m, <1>n, <2>1, <2>2 DEF HandleInv, TypeOK
<1>s. \A p \in Proc : dir = [dir EXCEPT ![p] = dir[p]] /\ dir[p] \in Dir \cup {None}
  BY DEF TypeOK
<1>x. ASSUME NEW p \in Proc, Fail(p)
      PROVE  HandleInv'
  BY <1>x, ReleaseKeepsHandles DEF Fail
<1>1. ASSUME NEW p \in Proc, Create(p)
      PROVE  HandleInv'
  BY <1>1, <1>m, <1>s DEF Create, HandleInv, PCs
<1>2. ASSUME NEW p \in Proc, OpenRoot(p)
      PROVE  HandleInv'
  BY <1>2, <1>m DEF OpenRoot, TypeOK, PCs
<1>3. ASSUME NEW p \in Proc, CreateFile(p)
      PROVE  HandleInv'
  <2>1. CASE UNCHANGED pc
    BY <1>3, <2>1 DEF CreateFile, HandleInv
  <2>2. CASE Goto(p, "write")
    BY <1>3, <2>2, <1>m, <1>s DEF CreateFile, HandleInv, PCs
  <2>3. QED
    BY <1>3, <2>1, <2>2 DEF CreateFile
<1>4. ASSUME NEW p \in Proc, WriteFile(p)
      PROVE  HandleInv'
  BY <1>4, <1>m, <1>s DEF WriteFile, HandleInv, PCs
<1>5. ASSUME NEW p \in Proc, SyncRoot(p)
      PROVE  HandleInv'
  BY <1>5, <1>m, <1>s DEF SyncRoot, HandleInv, PCs
<1>6. ASSUME NEW p \in Proc, SyncParent(p)
      PROVE  HandleInv'
  BY <1>6, <1>m DEF SyncParent, PCs
<1>7. ASSUME NEW p \in Proc, RemoveFile(p)
      PROVE  HandleInv'
  BY <1>7 DEF RemoveFile, HandleInv
<1>8. ASSUME NEW p \in Proc, RemoveDirectory(p)
      PROVE  HandleInv'
  BY <1>8, <1>m, <1>s DEF RemoveDirectory, HandleInv, PCs
<1>9. ASSUME NEW p \in Proc, Open(p)
      PROVE  HandleInv'
  <2>1. CASE path = None
    BY <1>9, <2>1, <1>x DEF Open
  <2>2. CASE path # None
    BY <1>9, <2>2, <1>m DEF Open, TypeOK, PCs
  <2>3. QED
    BY <2>1, <2>2
<1>10. ASSUME NEW p \in Proc, Lock(p)
       PROVE  HandleInv'
  <2>1. CASE files[dir[p]]["journal.lock"] = "whole" /\ lock[dir[p]] = None
    <3>1. dir[p] \in Dir
      BY <1>10 DEF Lock, HandleInv, TypeOK
    <3>2. lock'[dir[p]] = p /\ \A d \in Dir \ {dir[p]} : lock'[d] = lock[d]
      BY <1>10, <2>1, <3>1 DEF Lock, TypeOK
    <3>3. pc'[p] = "validate" /\ \A q \in Proc \ {p} : pc'[q] = pc[q]
      BY <1>10, <2>1 DEF Lock, Goto, TypeOK
    <3>4. dir' = dir
      BY <1>10, <2>1 DEF Lock
    <3>5. ASSUME NEW q \in Proc, pc'[q] \in {"validate", "owner"}
          PROVE  lock'[dir'[q]] = q
      <4>1. CASE q = p
        BY <3>2, <3>4, <4>1
      <4>2. CASE q # p
        <5>1. lock[dir[q]] = q /\ dir[q] \in Dir
          BY <3>3, <3>5, <4>2 DEF HandleInv, TypeOK
        <5>2. QED
          BY <1>n, <2>1, <3>2, <3>4, <5>1
      <4>3. QED
        BY <4>1, <4>2
    <3>6. QED
      BY <1>10, <1>n, <3>1, <3>2, <3>3, <3>4, <3>5 DEF Lock, HandleInv, TypeOK
  <2>2. CASE ~(files[dir[p]]["journal.lock"] = "whole" /\ lock[dir[p]] = None)
    BY <1>10, <2>2, <1>x DEF Lock
  <2>3. QED
    BY <2>1, <2>2
<1>11. ASSUME NEW p \in Proc, Validate(p)
       PROVE  HandleInv'
  <2>1. CASE files[dir[p]] = Whole
    BY <1>11, <2>1, <1>m, <1>s DEF Validate, HandleInv, PCs
  <2>2. CASE files[dir[p]] # Whole
    BY <1>11, <2>2, <1>x DEF Validate
  <2>3. QED
    BY <2>1, <2>2
<1>12. ASSUME NEW p \in Proc, AppendRecord(p)
       PROVE  HandleInv'
  BY <1>12 DEF AppendRecord, HandleInv
<1>13. ASSUME NEW p \in Proc, Close(p)
       PROVE  HandleInv'
  BY <1>13, ReleaseKeepsHandles DEF Close
<1>14. ASSUME NEW p \in Proc, CallFails(p)
       PROVE  HandleInv'
  <2>1. CASE Fail(p)
    BY <2>1, <1>x
  <2>2. CASE pc[p] = "root" /\ Goto(p, "idle") /\ UNCHANGED <<lock, dir>>
    BY <2>2, <1>m, <1>s DEF HandleInv, PCs
  <2>3. QED
    BY <1>14, <2>1, <2>2 DEF CallFails
<1>14a. ASSUME NEW p \in Proc, RemoveFails(p)
       PROVE  HandleInv'
  BY <1>14a, <1>m, <1>s DEF RemoveFails, HandleInv, PCs
<1>15. ASSUME NEW p \in Proc, Kill(p)
       PROVE  HandleInv'
  BY <1>15, ReleaseKeepsHandles DEF Kill
<1>16. CASE PowerLoss
  BY <1>16 DEF PowerLoss, HandleInv
<1>17. CASE UNCHANGED vars
  BY <1>17 DEF vars, HandleInv
<1>18. QED
  BY <1>1, <1>2, <1>3, <1>4, <1>5, <1>6, <1>7, <1>8, <1>9, <1>10, <1>11, <1>12, <1>13,
     <1>14, <1>14a, <1>15, <1>16, <1>17 DEF Next, Step

-----------------------------------------------------------------------------
(* Where who opens waits for Create. *)

\* Moving a process leaves the others where they are.
LEMMA GotoEffect ==
  ASSUME TypeOK, NEW p \in Proc, NEW label, Goto(p, label)
  PROVE  pc'[p] = label /\ \A q \in Proc \ {p} : pc'[q] = pc[q]
  BY DEF TypeOK, Goto

\* A Create stays alone, and every handle stays on the directory at the path.
LEMMA PatientStep == TypeOK /\ HandleInv /\ PatientInv /\ [Next]_vars => PatientInv'
<1> SUFFICES ASSUME TypeOK, HandleInv, PatientInv, [Next]_vars, env'.patient
             PROVE  PatientInv'
  BY DEF PatientInv
<1> USE DEF parent, contents, faults
<1>n. None \notin Proc /\ None \notin Dir
  BY LifecycleAssumption DEF LifecycleAssumption, Dir
<1>e. env' = env
  BY DEF Next, Step, vars, Create, OpenRoot, CreateFile, WriteFile, SyncRoot, SyncParent,
         RemoveFile, RemoveDirectory, Open, Lock, Validate, AppendRecord, Close, CallFails,
         RemoveFails, Kill, PowerLoss, Fault
<1>p. env.patient
  BY <1>e
<1>i. /\ path = None => creating = {} /\ \A p \in Proc : pc[p] = "idle"
      /\ \A p \in creating : pc[p] \notin {"idle", "owner"}
                             /\ \A q \in Proc \ {p} : pc[q] = "idle"
      /\ \A p \in Proc :
           pc[p] \in {"root", "create", "write", "parent", "open", "remove"} => p \in creating
      /\ \A p \in Proc : dir[p] # None => dir[p] = path
      /\ \A p \in Proc : pc[p] = "owner" => files[dir[p]] = Whole
  BY <1>p DEF PatientInv
<1>h. \A p \in Proc : dir[p] # None <=>
        pc[p] \in {"create", "write", "parent", "lock", "validate", "owner"}
  BY DEF HandleInv
\* Where a process creates, nobody owns.
<1>c. ASSUME NEW p \in creating, NEW q \in Proc
      PROVE  pc[q] # "owner"
  BY <1>c, <1>i DEF TypeOK
<1>x. ASSUME NEW p \in Proc, Fail(p), pc[p] # "idle", UNCHANGED <<path, files>>
      PROVE  PatientInv'
  <2>1. pc'[p] = (IF p \in creating THEN "remove" ELSE "idle")
        /\ \A q \in Proc \ {p} : pc'[q] = pc[q]
    BY <1>x, GotoEffect DEF Fail
  <2>2. dir'[p] = None /\ (\A q \in Proc \ {p} : dir'[q] = dir[q]) /\ creating' = creating
    BY <1>x DEF Fail, TypeOK
  <2>3. path # None
    BY <1>x, <1>i
  <2>4. QED
    BY <1>i, <1>x, <2>1, <2>2, <2>3 DEF PatientInv, TypeOK
<1>1. ASSUME NEW p \in Proc, Create(p)
      PROVE  PatientInv'
  <2>1. path = None /\ creating = {} /\ \A q \in Proc : pc[q] = "idle" /\ dir[q] = None
    BY <1>1, <1>i, <1>h DEF Create
  <2>2. pc'[p] = "root" /\ \A q \in Proc \ {p} : pc'[q] = pc[q]
    BY <1>1, GotoEffect DEF Create
  <2>3. creating' = {p} /\ dir' = dir
    BY <1>1, <2>1 DEF Create
  <2>4. path' # None
    BY <1>1, <1>n, LifecycleAssumption DEF Create, Link, TypeOK, Dir, LifecycleAssumption
  <2>5. QED
    BY <2>1, <2>2, <2>3, <2>4 DEF PatientInv
<1>2. ASSUME NEW p \in Proc, OpenRoot(p)
      PROVE  PatientInv'
  <2>1. pc'[p] = "create" /\ \A q \in Proc \ {p} : pc'[q] = pc[q]
    BY <1>2, GotoEffect DEF OpenRoot
  <2>2. dir'[p] = path /\ \A q \in Proc \ {p} : dir'[q] = dir[q]
    BY <1>2 DEF OpenRoot, TypeOK
  <2>3. QED
    BY <1>2, <1>i, <2>1, <2>2 DEF OpenRoot, PatientInv
<1>3. ASSUME NEW p \in Proc, CreateFile(p)
      PROVE  PatientInv'
  <2>1. p \in creating /\ \A q \in Proc : pc[q] # "owner"
    BY <1>3, <1>i, <1>c DEF CreateFile
  <2>2. pc'[p] \in {"create", "write"} /\ \A q \in Proc \ {p} : pc'[q] = pc[q]
    BY <1>3, GotoEffect DEF CreateFile
  <2>3. QED
    BY <1>3, <1>i, <2>1, <2>2 DEF CreateFile, PatientInv
<1>4. ASSUME NEW p \in Proc, WriteFile(p)
      PROVE  PatientInv'
  <2>1. p \in creating /\ \A q \in Proc : pc[q] # "owner"
    BY <1>4, <1>i, <1>c DEF WriteFile
  <2>2. pc'[p] = "create" /\ \A q \in Proc \ {p} : pc'[q] = pc[q]
    BY <1>4, GotoEffect DEF WriteFile
  <2>3. QED
    BY <1>4, <1>i, <2>1, <2>2 DEF WriteFile, PatientInv
<1>5. ASSUME NEW p \in Proc, SyncRoot(p)
      PROVE  PatientInv'
  <2>1. pc'[p] = "parent" /\ \A q \in Proc \ {p} : pc'[q] = pc[q]
    BY <1>5, GotoEffect DEF SyncRoot
  <2>2. QED
    BY <1>5, <1>i, <2>1 DEF SyncRoot, PatientInv
<1>6. ASSUME NEW p \in Proc, SyncParent(p)
      PROVE  PatientInv'
  <2>1. pc'[p] = "open" /\ \A q \in Proc \ {p} : pc'[q] = pc[q]
    BY <1>6, GotoEffect DEF SyncParent
  <2>2. dir'[p] = None /\ \A q \in Proc \ {p} : dir'[q] = dir[q]
    BY <1>6 DEF SyncParent, TypeOK
  <2>3. QED
    BY <1>6, <1>i, <2>1, <2>2 DEF SyncParent, PatientInv
<1>7. ASSUME NEW p \in Proc, RemoveFile(p)
      PROVE  PatientInv'
  <2>1. p \in creating /\ \A q \in Proc : pc[q] # "owner"
    BY <1>7, <1>i, <1>c DEF RemoveFile
  <2>2. QED
    BY <1>7, <1>i, <2>1 DEF RemoveFile, PatientInv
<1>8. ASSUME NEW p \in Proc, RemoveDirectory(p)
      PROVE  PatientInv'
  <2>1. p \in creating /\ \A q \in Proc \ {p} : pc[q] = "idle"
    BY <1>8, <1>i DEF RemoveDirectory
  <2>2. creating = {p}
    BY <2>1, <1>i DEF TypeOK
  <2>3. \A q \in Proc : pc'[q] = "idle" /\ dir[q] = None
    BY <1>8, <1>h, <2>1, GotoEffect DEF RemoveDirectory
  <2>4. QED
    BY <1>8, <2>2, <2>3 DEF RemoveDirectory, PatientInv
<1>9. ASSUME NEW p \in Proc, Open(p)
      PROVE  PatientInv'
  <2>1. path # None
    BY <1>9, <1>i DEF Open
  <2>2. pc'[p] = "lock" /\ \A q \in Proc \ {p} : pc'[q] = pc[q]
    BY <1>9, <2>1, GotoEffect DEF Open
  <2>3. dir'[p] = path /\ \A q \in Proc \ {p} : dir'[q] = dir[q]
    BY <1>9, <2>1 DEF Open, TypeOK
  <2>4. p \in creating \/ creating = {}
    BY <1>9, <1>i, <1>p DEF Open
  <2>5. UNCHANGED <<path, files, creating>>
    BY <1>9, <2>1 DEF Open
  <2>6. QED
    BY <1>i, <2>1, <2>2, <2>3, <2>4, <2>5 DEF PatientInv
<1>10. ASSUME NEW p \in Proc, Lock(p)
       PROVE  PatientInv'
  <2>1. CASE Fail(p)
    BY <1>10, <1>x, <2>1 DEF Lock
  <2>2. CASE Goto(p, "validate") /\ UNCHANGED <<dir, creating>>
    <3>1. pc'[p] = "validate" /\ \A q \in Proc \ {p} : pc'[q] = pc[q]
      BY <2>2, GotoEffect
    <3>2. QED
      BY <1>10, <1>i, <2>2, <3>1 DEF Lock, PatientInv
  <2>3. QED
    BY <1>10, <2>1, <2>2 DEF Lock
<1>11. ASSUME NEW p \in Proc, Validate(p)
       PROVE  PatientInv'
  <2>1. CASE Fail(p)
    BY <1>11, <1>x, <2>1 DEF Validate
  <2>2. CASE files[dir[p]] = Whole
    <3>1. pc'[p] = "owner" /\ \A q \in Proc \ {p} : pc'[q] = pc[q]
      BY <1>11, <2>2, GotoEffect DEF Validate
    <3>2. creating' = creating \ {p} /\ UNCHANGED <<dir, path, files>>
      BY <1>11, <2>2 DEF Validate
    <3>3. creating' = {}
      BY <1>11, <1>i, <3>2 DEF Validate, TypeOK
    <3>4. path # None
      BY <1>11, <1>i DEF Validate
    <3>5. \A q \in Proc \ {p} :
             pc[q] \notin {"root", "create", "write", "parent", "open", "remove"}
      BY <1>11, <1>i, <3>2, <3>3 DEF Validate, TypeOK
    <3>6. QED
      BY <1>11, <1>i, <2>2, <3>1, <3>2, <3>3, <3>4, <3>5 DEF PatientInv
  <2>3. QED
    BY <1>11, <2>1, <2>2 DEF Validate
<1>12. ASSUME NEW p \in Proc, AppendRecord(p)
       PROVE  PatientInv'
  BY <1>12, <1>i DEF AppendRecord, PatientInv
<1>13. ASSUME NEW p \in Proc, Close(p)
       PROVE  PatientInv'
  <2>1. pc'[p] = "idle" /\ \A q \in Proc \ {p} : pc'[q] = pc[q]
    BY <1>13, GotoEffect DEF Close
  <2>2. dir'[p] = None /\ \A q \in Proc \ {p} : dir'[q] = dir[q]
    BY <1>13 DEF Close, TypeOK
  <2>3. p \notin creating
    BY <1>13, <1>i DEF Close
  <2>4. QED
    BY <1>13, <1>i, <2>1, <2>2, <2>3 DEF Close, PatientInv
<1>14. ASSUME NEW p \in Proc, CallFails(p)
       PROVE  PatientInv'
  <2>1. CASE Fail(p) /\ pc[p] # "idle"
    BY <1>14, <1>x, <2>1 DEF CallFails
  <2>2. CASE pc[p] = "root" /\ Goto(p, "idle") /\ creating' = creating \ {p}
             /\ UNCHANGED <<lock, dir>>
    <3>1. pc'[p] = "idle" /\ \A q \in Proc \ {p} : pc'[q] = pc[q]
      BY <2>2, GotoEffect
    <3>2. QED
      BY <1>14, <1>i, <2>2, <3>1 DEF CallFails, PatientInv, TypeOK
  <2>3. QED
    BY <1>14, <2>1, <2>2 DEF CallFails
<1>14a. ASSUME NEW p \in Proc, RemoveFails(p)
       PROVE  PatientInv'
  <2>1. pc'[p] = "idle" /\ \A q \in Proc \ {p} : pc'[q] = pc[q]
    BY <1>14a, GotoEffect DEF RemoveFails
  <2>2. QED
    BY <1>14a, <1>i, <2>1 DEF RemoveFails, PatientInv, TypeOK
<1>15. ASSUME NEW p \in Proc, Kill(p)
       PROVE  PatientInv'
  <2>1. pc'[p] = "idle" /\ \A q \in Proc \ {p} : pc'[q] = pc[q]
    BY <1>15, GotoEffect DEF Kill
  <2>2. dir'[p] = None /\ \A q \in Proc \ {p} : dir'[q] = dir[q]
    BY <1>15 DEF Kill, TypeOK
  <2>3. QED
    BY <1>15, <1>i, <2>1, <2>2 DEF Kill, PatientInv, TypeOK
<1>16. CASE PowerLoss
  BY <1>16 DEF PowerLoss, PatientInv
<1>17. CASE UNCHANGED vars
  BY <1>17 DEF vars, PatientInv
<1>18. QED
  BY <1>1, <1>2, <1>3, <1>4, <1>5, <1>6, <1>7, <1>8, <1>9, <1>10, <1>11, <1>12, <1>13,
     <1>14, <1>14a, <1>15, <1>16, <1>17 DEF Next, Step

-----------------------------------------------------------------------------
(* Directories that are not made yet, and what a failed Create leaves. *)

\* Nothing writes into a directory before it is made.
LEMMA FreshStep == TypeOK /\ HandleInv /\ FreshInv /\ [Next]_vars => FreshInv'
<1> SUFFICES ASSUME TypeOK, HandleInv, FreshInv, [Next]_vars
             PROVE  FreshInv'
  OBVIOUS
<1> USE DEF parent, contents, faults
<1>n. None \notin Dir /\ MaxDirs \in Nat
  BY LifecycleAssumption DEF LifecycleAssumption, Dir
\* A step that makes no directory, links none, and writes only into one made before.
<1>m. ASSUME UNCHANGED parent, NEW e \in 1 .. made,
             \A d \in Dir \ {e} : files'[d] = files[d] /\ filesDisk'[d] = filesDisk[d],
             \A p \in Proc : dir'[p] \in {dir[p], path, None}
      PROVE  FreshInv'
  BY <1>m DEF FreshInv, TypeOK
<1>u. ASSUME UNCHANGED <<parent, contents>>,
             \A p \in Proc : dir'[p] \in {dir[p], path, None}
      PROVE  FreshInv'
  BY <1>u DEF FreshInv, TypeOK
<1>h. ASSUME NEW p \in Proc, pc[p] \in {"create", "write", "parent", "lock", "validate", "owner"}
      PROVE  dir[p] \in Dir /\ dir[p] \in 1 .. made
  BY <1>h DEF HandleInv, FreshInv, TypeOK
<1>x. ASSUME NEW p \in Proc, Fail(p)
      PROVE  \A q \in Proc : dir'[q] \in {dir[q], path, None}
  BY <1>x DEF Fail, TypeOK
<1>1. ASSUME NEW p \in Proc, Create(p)
      PROVE  FreshInv'
  <2>1. made' = made + 1 /\ made' \in Nat /\ path' = made + 1
    BY <1>1 DEF Create, Link, TypeOK
  <2>2. pathDisk' \subseteq pathDisk \cup {made + 1} /\ UNCHANGED <<contents, dir>>
    BY <1>1 DEF Create, Link, Unsynced
  <2>3. \A i \in 1 .. made : i \in 1 .. made'
    BY <2>1 DEF TypeOK
  <2>4. made + 1 \in 1 .. made'
    BY <2>1 DEF TypeOK
  <2>5. {path'} \cup pathDisk' \subseteq (1 .. made') \cup {None}
    BY <2>1, <2>2, <2>3, <2>4 DEF FreshInv
  <2>6. \A d \in Dir : d > made' => d > made
    BY <2>1 DEF TypeOK, Dir
  <2>7. QED
    BY <2>2, <2>3, <2>5, <2>6 DEF FreshInv
<1>2. ASSUME NEW p \in Proc, OpenRoot(p)
      PROVE  FreshInv'
  BY <1>2, <1>u DEF OpenRoot, TypeOK
<1>3. ASSUME NEW p \in Proc, CreateFile(p)
      PROVE  FreshInv'
  <2>1. dir[p] \in Dir /\ dir[p] \in 1 .. made
    BY <1>3, <1>h DEF CreateFile
  <2>2. \A d \in Dir \ {dir[p]} : files'[d] = files[d] /\ filesDisk'[d] = filesDisk[d]
    BY <1>3, <2>1, SetFileEffect DEF CreateFile
  <2>3. UNCHANGED <<parent, dir>>
    BY <1>3 DEF CreateFile
  <2>4. QED
    BY <1>m, <2>1, <2>2, <2>3
<1>4. ASSUME NEW p \in Proc, WriteFile(p)
      PROVE  FreshInv'
  <2>1. dir[p] \in Dir /\ dir[p] \in 1 .. made
    BY <1>4, <1>h DEF WriteFile
  <2>2. PICK f \in File : SetFile(dir[p], f, "whole")
    BY <1>4 DEF WriteFile
  <2>3. \A d \in Dir \ {dir[p]} : files'[d] = files[d] /\ filesDisk'[d] = filesDisk[d]
    BY <2>1, <2>2, SetFileEffect
  <2>4. UNCHANGED <<parent, dir>>
    BY <1>4 DEF WriteFile
  <2>5. QED
    BY <1>m, <2>1, <2>3, <2>4
<1>5. ASSUME NEW p \in Proc, SyncRoot(p)
      PROVE  FreshInv'
  <2>1. dir[p] \in Dir /\ dir[p] \in 1 .. made
    BY <1>5, <1>h DEF SyncRoot
  <2>2. \A d \in Dir \ {dir[p]} : files'[d] = files[d] /\ filesDisk'[d] = filesDisk[d]
    BY <1>5 DEF SyncRoot, TypeOK
  <2>3. UNCHANGED <<parent, dir>>
    BY <1>5 DEF SyncRoot
  <2>4. QED
    BY <1>m, <2>1, <2>2, <2>3
<1>6. ASSUME NEW p \in Proc, SyncParent(p)
      PROVE  FreshInv'
  <2>1. \A q \in Proc : dir'[q] \in {dir[q], None}
    BY <1>6 DEF SyncParent, TypeOK
  <2>2. UNCHANGED <<made, path, contents>> /\ pathDisk' = {path}
    BY <1>6 DEF SyncParent
  <2>3. QED
    BY <2>1, <2>2 DEF FreshInv
<1>7. ASSUME NEW p \in Proc, RemoveFile(p)
      PROVE  FreshInv'
  <2>1. path \in Dir /\ path \in 1 .. made
    BY <1>7 DEF RemoveFile, TypeOK, FreshInv
  <2>2. PICK f \in File : SetFile(path, f, "none")
    BY <1>7 DEF RemoveFile
  <2>3. \A d \in Dir \ {path} : files'[d] = files[d] /\ filesDisk'[d] = filesDisk[d]
    BY <2>1, <2>2, SetFileEffect
  <2>4. UNCHANGED <<parent, dir>>
    BY <1>7 DEF RemoveFile
  <2>5. QED
    BY <1>m, <2>1, <2>3, <2>4
<1>8. ASSUME NEW p \in Proc, RemoveDirectory(p)
      PROVE  FreshInv'
  BY <1>8 DEF RemoveDirectory, Link, Unsynced, FreshInv
<1>9. ASSUME NEW p \in Proc, Open(p)
      PROVE  FreshInv'
  BY <1>9, <1>u, <1>x DEF Open, TypeOK
<1>10. ASSUME NEW p \in Proc, Lock(p)
       PROVE  FreshInv'
  BY <1>10, <1>u, <1>x DEF Lock
<1>11. ASSUME NEW p \in Proc, Validate(p)
       PROVE  FreshInv'
  BY <1>11, <1>u, <1>x DEF Validate
<1>12. ASSUME NEW p \in Proc, AppendRecord(p)
       PROVE  FreshInv'
  <2>1. dir[p] \in Dir /\ dir[p] \in 1 .. made
    BY <1>12, <1>h DEF AppendRecord
  <2>2. \A d \in Dir \ {dir[p]} : files'[d] = files[d] /\ filesDisk'[d] = filesDisk[d]
    BY <1>12 DEF AppendRecord, TypeOK
  <2>3. UNCHANGED <<parent, dir>>
    BY <1>12 DEF AppendRecord
  <2>4. QED
    BY <1>m, <2>1, <2>2, <2>3
<1>13. ASSUME NEW p \in Proc, Close(p)
       PROVE  FreshInv'
  BY <1>13, <1>u DEF Close, TypeOK
<1>14. ASSUME NEW p \in Proc, CallFails(p)
       PROVE  FreshInv'
  BY <1>14, <1>u, <1>x DEF CallFails
<1>14a. ASSUME NEW p \in Proc, RemoveFails(p)
       PROVE  FreshInv'
  BY <1>14a, <1>u DEF RemoveFails, TypeOK
<1>15. ASSUME NEW p \in Proc, Kill(p)
       PROVE  FreshInv'
  BY <1>15, <1>u DEF Kill, TypeOK
<1>16. CASE PowerLoss
  <2>1. \A d \in Dir : files'[d] \in filesDisk[d] /\ filesDisk'[d] = {files'[d]}
    BY <1>16 DEF PowerLoss
  <2>2. path' \in pathDisk /\ pathDisk' = {path'} /\ made' = made
        /\ \A p \in Proc : dir'[p] = None
    BY <1>16 DEF PowerLoss
  <2>3. QED
    BY <2>1, <2>2 DEF FreshInv
<1>17. CASE UNCHANGED vars
  BY <1>17 DEF vars, FreshInv
<1>18. QED
  BY <1>1, <1>2, <1>3, <1>4, <1>5, <1>6, <1>7, <1>8, <1>9, <1>10, <1>11, <1>12, <1>13,
     <1>14, <1>14a, <1>15, <1>16, <1>17 DEF Next, Step

\* A Create leaves its clean-up with nothing, or succeeds with everything.
LEMMA CleanStep ==
  TypeOK /\ HandleInv /\ PatientInv /\ CleanInv /\ [Next]_vars => CleanInv'
<1> SUFFICES ASSUME TypeOK, HandleInv, PatientInv, CleanInv, [Next]_vars,
                    env'.faults \subseteq {"io"}, env'.patient, creating' = {}
             PROVE  path' = None \/ files'[path'] = Whole
  BY DEF CleanInv
<1> USE DEF parent, contents, faults
<1>e. env' = env
  BY DEF Next, Step, vars, Create, OpenRoot, CreateFile, WriteFile, SyncRoot, SyncParent,
         RemoveFile, RemoveDirectory, Open, Lock, Validate, AppendRecord, Close, CallFails,
         RemoveFails, Kill, PowerLoss, Fault
<1>p. env.patient /\ env.faults \cap {"open", "remove", "kill", "power"} = {}
  BY <1>e
<1>c. creating = {} => path = None \/ files[path] = Whole
  BY <1>e DEF CleanInv
\* A step outside Create that changes neither the path nor a file.
<1>m. ASSUME UNCHANGED <<path, files>>, creating' = creating
      PROVE  path' = None \/ files'[path'] = Whole
  BY <1>m, <1>c
\* A step inside Create leaves it open.
<1>i. ASSUME NEW p \in Proc, pc[p] \in {"root", "create", "write", "parent", "open", "remove"}
      PROVE  creating # {}
  BY <1>i, <1>p DEF PatientInv
<1>1. ASSUME NEW p \in Proc, Create(p) \/ OpenRoot(p) \/ CreateFile(p) \/ WriteFile(p)
                             \/ SyncRoot(p) \/ SyncParent(p) \/ RemoveFile(p)
      PROVE  FALSE
  BY <1>1, <1>i DEF Create, OpenRoot, CreateFile, WriteFile, SyncRoot, SyncParent, RemoveFile
<1>2. ASSUME NEW p \in Proc, RemoveDirectory(p)
      PROVE  path' = None
  BY <1>2 DEF RemoveDirectory, Link
<1>3. ASSUME NEW p \in Proc, Open(p) \/ Lock(p) \/ AppendRecord(p) \/ Close(p)
      PROVE  path' = None \/ files'[path'] = Whole
  BY <1>3, <1>m DEF Open, Lock, AppendRecord, Close, Fail
<1>4. ASSUME NEW p \in Proc, Validate(p)
      PROVE  path' = None \/ files'[path'] = Whole
  <2>1. dir[p] = path
    BY <1>4, <1>p DEF Validate, PatientInv, HandleInv
  <2>2. QED
    BY <1>4, <1>m, <2>1 DEF Validate, Fail
<1>5. ASSUME NEW p \in Proc, CallFails(p)
      PROVE  path' = None \/ files'[path'] = Whole
  BY <1>5, <1>m, <1>p DEF CallFails, Fail, Fault
<1>6. ASSUME NEW p \in Proc, Kill(p) \/ RemoveFails(p)
      PROVE  FALSE
  BY <1>6, <1>p DEF Kill, RemoveFails, Fault
<1>7. CASE PowerLoss
  BY <1>7, <1>p DEF PowerLoss, Fault
<1>8. CASE UNCHANGED vars
  BY <1>8, <1>m DEF vars
<1>9. QED
  BY <1>1, <1>2, <1>3, <1>4, <1>5, <1>6, <1>7, <1>8 DEF Next, Step

-----------------------------------------------------------------------------
(* Durability. *)

\* A directory is locked only once its entry is synced, and one in which an append
\* was confirmed stays at the path, whole.
LEMMA DurableStep ==
  TypeOK /\ HandleInv /\ PatientInv /\ FreshInv /\ DurableInv /\ [Next]_vars => DurableInv'
<1> SUFFICES ASSUME TypeOK, HandleInv, PatientInv, FreshInv, DurableInv, [Next]_vars,
                    env'.patient, env'.faults \cap {"kill", "remove"} = {}
             PROVE  DurableInv'
  BY DEF DurableInv
<1> USE DEF parent, contents, faults
<1>n. None \notin Proc /\ None \notin Dir
  BY LifecycleAssumption DEF LifecycleAssumption, Dir
<1>e. env' = env
  BY DEF Next, Step, vars, Create, OpenRoot, CreateFile, WriteFile, SyncRoot, SyncParent,
         RemoveFile, RemoveDirectory, Open, Lock, Validate, AppendRecord, Close, CallFails,
         RemoveFails, Kill, PowerLoss, Fault
<1>p. env.patient /\ env.faults \cap {"kill", "remove"} = {}
  BY <1>e
<1>i. /\ path = None => creating = {} /\ \A p \in Proc : pc[p] = "idle"
      /\ \A p \in creating : pc[p] \notin {"idle", "owner"}
                             /\ \A q \in Proc \ {p} : pc[q] = "idle"
      /\ \A p \in Proc :
           pc[p] \in {"root", "create", "write", "parent", "open", "remove"} => p \in creating
      /\ \A p \in Proc : dir[p] # None => dir[p] = path
      /\ \A p \in Proc : pc[p] = "owner" => files[dir[p]] = Whole
  BY <1>p DEF PatientInv
<1>d. /\ path # None /\ creating = {} => pathDisk = {path} \/ files[path] = Empty
      /\ \A p \in creating : pc[p] = "root" => files[path] = Empty
      /\ \A p \in creating : pc[p] \in {"open", "lock"} => pathDisk = {path}
      /\ \A p \in Proc : pc[p] \in {"validate", "owner"} => pathDisk = {path}
      /\ \A d \in confirmed :
           /\ creating = {} /\ path = d /\ files[d] = Whole
           /\ pathDisk = {d} /\ filesDisk[d] = {Whole}
  BY <1>p DEF DurableInv
<1>h. \A p \in Proc : dir[p] # None <=>
        pc[p] \in {"create", "write", "parent", "lock", "validate", "owner"}
  BY DEF HandleInv
\* A step inside Create, after which it is inside still.
<1>c. ASSUME NEW p \in creating, creating' = creating, confirmed' = confirmed,
             \A q \in Proc \ {p} : pc'[q] = pc[q],
             pc'[p] = "root" => files'[path'] = Empty,
             pc'[p] \in {"open", "lock", "validate"} => pathDisk' = {path'},
             pc'[p] # "owner"
      PROVE  DurableInv'
  <2>1. confirmed = {} /\ p \in Proc
    BY <1>c, <1>d DEF TypeOK
  <2>2. \A q \in Proc \ {p} : pc'[q] = "idle" /\ q \notin creating
    BY <1>c, <1>i DEF TypeOK
  <2>3. creating' \subseteq Proc
    BY <1>c DEF TypeOK
  <2>4. QED
    BY <1>c, <2>1, <2>2, <2>3 DEF DurableInv
\* A step that changes no directory and keeps who creates.
<1>u. ASSUME UNCHANGED <<path, pathDisk, files, filesDisk, creating, confirmed>>,
             NEW p \in Proc, \A q \in Proc \ {p} : pc'[q] = pc[q],
             pc'[p] # "root",
             pc'[p] \in {"open", "lock"} => creating = {} \/ pathDisk = {path},
             pc'[p] \in {"validate", "owner"} => pathDisk = {path}
      PROVE  DurableInv'
  BY <1>u, <1>d DEF DurableInv, TypeOK
<1>x. ASSUME NEW p \in Proc, Fail(p), UNCHANGED <<path, pathDisk, files, filesDisk, confirmed>>
      PROVE  DurableInv'
  <2>1. pc'[p] \in {"idle", "remove"} /\ \A q \in Proc \ {p} : pc'[q] = pc[q]
    BY <1>x, GotoEffect DEF Fail
  <2>2. QED
    BY <1>x, <1>u, <2>1 DEF Fail
<1>1. ASSUME NEW p \in Proc, Create(p)
      PROVE  DurableInv'
  <2>1. path = None /\ creating = {} /\ \A q \in Proc : pc[q] = "idle"
    BY <1>1, <1>i DEF Create
  <2>2. confirmed = {}
    BY <1>d, <1>n, <2>1 DEF TypeOK
  <2>3. pc'[p] = "root" /\ \A q \in Proc \ {p} : pc'[q] = "idle"
    BY <1>1, <2>1, GotoEffect DEF Create
  <2>4. path' = made + 1 /\ files' = files /\ creating' = {p} /\ confirmed' = confirmed
    BY <1>1, <2>1 DEF Create, Link
  <2>5. made + 1 \in Dir /\ made + 1 > made
    BY <1>1, LifecycleAssumption DEF Create, TypeOK, Dir, LifecycleAssumption
  <2>6. files'[path'] = Empty
    BY <2>4, <2>5 DEF FreshInv
  <2>7. QED
    BY <2>2, <2>3, <2>4, <2>6 DEF DurableInv
<1>2. ASSUME NEW p \in Proc, OpenRoot(p)
      PROVE  DurableInv'
  <2>1. p \in creating
    BY <1>2, <1>i DEF OpenRoot
  <2>2. pc'[p] = "create" /\ \A q \in Proc \ {p} : pc'[q] = pc[q]
    BY <1>2, GotoEffect DEF OpenRoot
  <2>3. QED
    BY <1>2, <1>c, <2>1, <2>2 DEF OpenRoot
<1>3. ASSUME NEW p \in Proc, CreateFile(p)
      PROVE  DurableInv'
  <2>1. p \in creating
    BY <1>3, <1>i DEF CreateFile
  <2>2. pc'[p] \in {"create", "write"} /\ \A q \in Proc \ {p} : pc'[q] = pc[q]
    BY <1>3, GotoEffect DEF CreateFile
  <2>3. QED
    BY <1>3, <1>c, <2>1, <2>2 DEF CreateFile
<1>4. ASSUME NEW p \in Proc, WriteFile(p)
      PROVE  DurableInv'
  <2>1. p \in creating
    BY <1>4, <1>i DEF WriteFile
  <2>2. pc'[p] = "create" /\ \A q \in Proc \ {p} : pc'[q] = pc[q]
    BY <1>4, GotoEffect DEF WriteFile
  <2>3. QED
    BY <1>4, <1>c, <2>1, <2>2 DEF WriteFile
<1>5. ASSUME NEW p \in Proc, SyncRoot(p)
      PROVE  DurableInv'
  <2>1. p \in creating
    BY <1>5, <1>i DEF SyncRoot
  <2>2. pc'[p] = "parent" /\ \A q \in Proc \ {p} : pc'[q] = pc[q]
    BY <1>5, GotoEffect DEF SyncRoot
  <2>3. QED
    BY <1>5, <1>c, <2>1, <2>2 DEF SyncRoot
<1>6. ASSUME NEW p \in Proc, SyncParent(p)
      PROVE  DurableInv'
  <2>1. p \in creating
    BY <1>6, <1>i DEF SyncParent
  <2>2. pc'[p] = "open" /\ \A q \in Proc \ {p} : pc'[q] = pc[q]
    BY <1>6, GotoEffect DEF SyncParent
  <2>3. QED
    BY <1>6, <1>c, <2>1, <2>2 DEF SyncParent
<1>7. ASSUME NEW p \in Proc, RemoveFile(p)
      PROVE  DurableInv'
  <2>1. p \in creating
    BY <1>7, <1>i DEF RemoveFile
  <2>2. QED
    BY <1>7, <1>c, <2>1 DEF RemoveFile
<1>8. ASSUME NEW p \in Proc, RemoveDirectory(p)
      PROVE  DurableInv'
  <2>1. p \in creating /\ \A q \in Proc \ {p} : pc[q] = "idle"
    BY <1>8, <1>i DEF RemoveDirectory
  <2>2. creating = {p} /\ confirmed = {}
    BY <2>1, <1>i, <1>d DEF TypeOK
  <2>3. \A q \in Proc : pc'[q] = "idle"
    BY <1>8, <2>1, GotoEffect DEF RemoveDirectory
  <2>4. path' = None /\ creating' = {} /\ confirmed' = {}
    BY <1>8, <2>2 DEF RemoveDirectory, Link
  <2>5. QED
    BY <2>3, <2>4 DEF DurableInv
<1>9. ASSUME NEW p \in Proc, Open(p)
      PROVE  DurableInv'
  <2>1. path # None
    BY <1>9, <1>i DEF Open
  <2>2. pc'[p] = "lock" /\ \A q \in Proc \ {p} : pc'[q] = pc[q]
    BY <1>9, <2>1, GotoEffect DEF Open
  <2>3. creating = {} \/ pathDisk = {path}
    BY <1>9, <1>i, <1>d, <1>p DEF Open
  <2>4. QED
    BY <1>9, <1>u, <2>1, <2>2, <2>3 DEF Open
<1>10. ASSUME NEW p \in Proc, Lock(p)
       PROVE  DurableInv'
  <2>1. CASE files[dir[p]]["journal.lock"] = "whole" /\ lock[dir[p]] = None
    <3>1. pc'[p] = "validate" /\ \A q \in Proc \ {p} : pc'[q] = pc[q]
      BY <1>10, <2>1, GotoEffect DEF Lock
    <3>2. dir[p] = path /\ path # None
      BY <1>10, <1>i, <1>h DEF Lock
    <3>3. files[path] # Empty
      <4>1. "journal.lock" \in File
        BY DEF File, FileOrder
      <4>2. QED
        BY <2>1, <3>2, <4>1 DEF Empty
    <3>4. pathDisk = {path}
      <4>1. CASE p \in creating
        BY <1>10, <1>d, <4>1 DEF Lock
      <4>2. CASE p \notin creating
        <5>1. creating = {}
          BY <1>10, <1>i, <4>2 DEF Lock, TypeOK
        <5>2. QED
          BY <1>d, <3>2, <3>3, <5>1
      <4>3. QED
        BY <4>1, <4>2
    <3>5. QED
      BY <1>10, <1>u, <2>1, <3>1, <3>4 DEF Lock
  <2>2. CASE Fail(p)
    BY <1>10, <1>x, <2>2 DEF Lock
  <2>3. QED
    BY <1>10, <2>1, <2>2 DEF Lock
<1>11. ASSUME NEW p \in Proc, Validate(p)
       PROVE  DurableInv'
  <2>1. CASE files[dir[p]] = Whole
    <3>1. pc'[p] = "owner" /\ \A q \in Proc \ {p} : pc'[q] = pc[q]
      BY <1>11, <2>1, GotoEffect DEF Validate
    <3>2. UNCHANGED <<path, pathDisk, files, filesDisk, confirmed>>
      BY <1>11, <2>1 DEF Validate
    <3>3. creating' = {}
      BY <1>11, <1>i, <2>1 DEF Validate, TypeOK
    <3>4. pathDisk = {path}
      BY <1>11, <1>d DEF Validate
    <3>5. \A d \in confirmed : path = d /\ files[d] = Whole /\ pathDisk = {d}
                               /\ filesDisk[d] = {Whole}
      BY <1>d
    <3>6. QED
      BY <3>1, <3>2, <3>3, <3>4, <3>5 DEF DurableInv
  <2>2. CASE Fail(p)
    BY <1>11, <1>x, <2>2 DEF Validate
  <2>3. QED
    BY <1>11, <2>1, <2>2 DEF Validate
<1>12. ASSUME NEW p \in Proc, AppendRecord(p)
       PROVE  DurableInv'
  <2>1. dir[p] = path /\ path \in Dir /\ files[path] = Whole /\ pathDisk = {path}
    BY <1>12, <1>i, <1>h, <1>d DEF AppendRecord, TypeOK
  <2>2. creating = {}
    BY <1>12, <1>i DEF AppendRecord, TypeOK
  <2>3. filesDisk'[path] = {Whole}
    BY <1>12, <2>1 DEF AppendRecord, TypeOK
  <2>4. UNCHANGED <<path, pathDisk, files, pc, creating>> /\ confirmed' = confirmed \cup {path}
    BY <1>12, <2>1 DEF AppendRecord
  <2>5. \A d \in confirmed' : d = path
    BY <2>4, <1>d
  <2>6. QED
    BY <1>d, <2>1, <2>2, <2>3, <2>4, <2>5 DEF DurableInv
<1>13. ASSUME NEW p \in Proc, Close(p)
       PROVE  DurableInv'
  <2>1. pc'[p] = "idle" /\ \A q \in Proc \ {p} : pc'[q] = pc[q]
    BY <1>13, GotoEffect DEF Close
  <2>2. QED
    BY <1>13, <1>u, <2>1 DEF Close
<1>14. ASSUME NEW p \in Proc, CallFails(p)
       PROVE  DurableInv'
  <2>1. CASE Fail(p)
    BY <1>14, <1>x, <2>1 DEF CallFails
  <2>2. CASE pc[p] = "root" /\ Goto(p, "idle") /\ creating' = creating \ {p}
    <3>1. pc'[p] = "idle" /\ \A q \in Proc \ {p} : pc'[q] = pc[q]
      BY <2>2, GotoEffect
    <3>2. p \in creating /\ files[path] = Empty
      BY <1>i, <1>d, <2>2
    <3>3. creating' = {} /\ confirmed = {} /\ \A q \in Proc : pc'[q] = "idle"
      BY <1>i, <1>d, <2>2, <3>1, <3>2 DEF TypeOK
    <3>4. UNCHANGED <<path, pathDisk, files, filesDisk, confirmed>>
      BY <1>14 DEF CallFails
    <3>5. QED
      BY <3>2, <3>3, <3>4 DEF DurableInv
  <2>3. QED
    BY <1>14, <2>1, <2>2 DEF CallFails
<1>14a. ASSUME NEW p \in Proc, RemoveFails(p)
       PROVE  DurableInv'
  BY <1>14a, <1>p DEF RemoveFails, Fault
<1>15. ASSUME NEW p \in Proc, Kill(p)
       PROVE  DurableInv'
  BY <1>15, <1>p DEF Kill, Fault
<1>16. CASE PowerLoss
  <2>1. \A d \in Dir : files'[d] \in filesDisk[d] /\ filesDisk'[d] = {files'[d]}
    BY <1>16 DEF PowerLoss
  <2>2. path' \in pathDisk /\ pathDisk' = {path'} /\ creating' = {} /\ confirmed' = confirmed
        /\ \A p \in Proc : pc'[p] = "idle"
    BY <1>16 DEF PowerLoss
  <2>3. \A d \in confirmed : d \in Dir /\ path' = d /\ files'[d] = Whole
    BY <1>d, <2>1, <2>2 DEF TypeOK
  <2>4. QED
    BY <2>1, <2>2, <2>3 DEF DurableInv
<1>17. CASE UNCHANGED vars
  BY <1>17, <1>d DEF vars, DurableInv
<1>18. QED
  BY <1>1, <1>2, <1>3, <1>4, <1>5, <1>6, <1>7, <1>8, <1>9, <1>10, <1>11, <1>12, <1>13,
     <1>14, <1>14a, <1>15, <1>16, <1>17 DEF Next, Step

-----------------------------------------------------------------------------
(* The theorems. *)

\* The invariant holds of a path that names nothing.
LEMMA LifecycleInit == Init => LifecycleInv
<1> SUFFICES ASSUME Init
             PROVE  LifecycleInv
  OBVIOUS
<1>1. Empty \in Contents
  BY DEF Empty, Contents
<1>2. TypeOK
  BY <1>1, LifecycleAssumption DEF Init, TypeOK, PCs, LifecycleAssumption
<1>3. HandleInv
  BY DEF Init, HandleInv
<1>4. PatientInv
  BY DEF Init, PatientInv
<1>5. FreshInv
  BY DEF Init, FreshInv
<1>6. CleanInv /\ DurableInv
  BY DEF Init, CleanInv, DurableInv
<1>7. QED
  BY <1>2, <1>3, <1>4, <1>5, <1>6 DEF LifecycleInv

\* Create, Open, Append, Close, their failures, those of the clean-up, kills and losses
\* of power keep it.
THEOREM LifecycleInvariant == Spec => []LifecycleInv
<1>1. LifecycleInv /\ [Next]_vars => LifecycleInv'
  BY TypeStep, HandleStep, PatientStep, FreshStep, CleanStep, DurableStep DEF LifecycleInv
<1>2. QED
  BY <1>1, LifecycleInit, PTL DEF Spec

\* However processes race to create and open the journal, one of them owns each
\* directory, and one the path where who opens waits for Create (flock in openRoot).
THEOREM OneOwnerTheorem == Spec => []OneOwnerPerDirectory
<1>1. LifecycleInv => OneOwnerPerDirectory
  BY DEF LifecycleInv, TypeOK, HandleInv, PatientInv, OneOwnerPerDirectory, Owners
<1>2. QED
  BY <1>1, LifecycleInvariant, PTL

\* Whoever owns a journal owns a whole one, at the path: neither a Create that fails
\* beside it nor the clean-up of one takes a file of it away.
THEOREM OwnedIsWholeTheorem == Spec => []OwnedIsWhole
<1>1. LifecycleInv => OwnedIsWhole
  BY DEF LifecycleInv, TypeOK, HandleInv, PatientInv, OwnedIsWhole, Owners
<1>2. QED
  BY <1>1, LifecycleInvariant, PTL

\* The syncs of Create come early enough: where no Create is killed and RemoveAll does
\* not fail, what an append confirmed is found again after any loss of power, directory
\* entry included.
THEOREM ConfirmedIsDurableTheorem == Spec => []ConfirmedIsDurable
<1>1. LifecycleInv => ConfirmedIsDurable
  BY DEF LifecycleInv, DurableInv, ConfirmedIsDurable
<1>2. QED
  BY <1>1, LifecycleInvariant, PTL

\* A Create that fails with its directory open cleans the path up, where RemoveAll does
\* not fail as well; and no lock outlives its handle, whatever fails.
THEOREM FailureLeavesNothingTheorem == Spec => []FailureLeavesNothing
<1>1. LifecycleInv => FailureLeavesNothing
  BY DEF LifecycleInv, TypeOK, HandleInv, PatientInv, CleanInv, FailureLeavesNothing
<1>2. QED
  BY <1>1, LifecycleInvariant, PTL
=============================================================================
