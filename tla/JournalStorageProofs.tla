------------------------ MODULE JournalStorageProofs ------------------------
(***************************************************************************)
(* Proofs about JournalStorage, for every set of records, every bound and  *)
(* every set of faults.                                                    *)
(***************************************************************************)
EXTENDS JournalStorage, TLAPS

-----------------------------------------------------------------------------
(* Prefixes. *)

\* A prefix agrees with the longer history position by position.
LEMMA PrefixPointwise ==
  ASSUME NEW s \in History, NEW t \in History
  PROVE  IsPrefix(s, t) <=> /\ Len(s) <= Len(t)
                            /\ \A i \in 1 .. Len(s) : s[i] = t[i]
  BY DEF IsPrefix, History

\* A history is a prefix of itself.
LEMMA PrefixReflexive ==
  ASSUME NEW s \in History
  PROVE  IsPrefix(s, s)
  BY PrefixPointwise DEF History

\* Appending keeps the prefixes of a history.
LEMMA PrefixAppend ==
  ASSUME NEW s \in History, NEW t \in History, NEW r \in Record, IsPrefix(s, t)
  PROVE  /\ Append(t, r) \in History
         /\ Len(Append(t, r)) = Len(t) + 1
         /\ IsPrefix(s, Append(t, r))
<1>1. Append(t, r) \in History /\ Len(Append(t, r)) = Len(t) + 1
  BY DEF History
<1>2. \A i \in 1 .. Len(t) : Append(t, r)[i] = t[i]
  BY DEF History
<1>3. Len(s) <= Len(t) /\ \A i \in 1 .. Len(s) : s[i] = t[i]
  BY PrefixPointwise
<1>4. Len(s) \in Nat /\ Len(t) \in Nat
  BY DEF History
<1>5. Len(s) <= Len(Append(t, r)) /\ \A i \in 1 .. Len(s) : s[i] = Append(t, r)[i]
  BY <1>1, <1>2, <1>3, <1>4
<1>6. QED
  BY <1>1, <1>5, PrefixPointwise

\* Cutting a history off keeps the prefixes that end before the cut.
LEMMA PrefixCut ==
  ASSUME NEW s \in History, NEW t \in History, IsPrefix(s, t),
         NEW k \in Nat, Len(s) <= k, k <= Len(t)
  PROVE  /\ SubSeq(t, 1, k) \in History
         /\ Len(SubSeq(t, 1, k)) = k
         /\ IsPrefix(s, SubSeq(t, 1, k))
<1>1. SubSeq(t, 1, k) \in History /\ Len(SubSeq(t, 1, k)) = k
  BY DEF History
<1>2. \A i \in 1 .. k : SubSeq(t, 1, k)[i] = t[i]
  BY DEF History
<1>3. Len(s) \in Nat /\ Len(s) <= Len(t) /\ \A i \in 1 .. Len(s) : s[i] = t[i]
  BY PrefixPointwise DEF History
<1>4. \A i \in 1 .. Len(s) : s[i] = SubSeq(t, 1, k)[i]
  BY <1>2, <1>3
<1>5. QED
  BY <1>1, <1>4, PrefixPointwise

\* A prefix of a prefix is a prefix.
LEMMA PrefixTransitive ==
  ASSUME NEW s \in History, NEW t \in History, NEW u \in History,
         IsPrefix(s, t), IsPrefix(t, u)
  PROVE  IsPrefix(s, u)
<1>1. Len(s) \in Nat /\ Len(t) \in Nat /\ Len(u) \in Nat
  BY DEF History
<1>2. /\ Len(s) <= Len(t) /\ \A i \in 1 .. Len(s) : s[i] = t[i]
      /\ Len(t) <= Len(u) /\ \A i \in 1 .. Len(t) : t[i] = u[i]
  BY PrefixPointwise
<1>3. Len(s) <= Len(u) /\ \A i \in 1 .. Len(s) : s[i] = u[i]
  BY <1>1, <1>2
<1>4. QED
  BY <1>3, PrefixPointwise

-----------------------------------------------------------------------------
(* Types. *)

\* Every step keeps every variable in its type.
LEMMA TypeStep == TypeOK /\ [Next]_vars => TypeOK'
<1> SUFFICES ASSUME TypeOK, [Next]_vars
             PROVE  TypeOK'
  OBVIOUS
<1> USE DEF TypeOK, PCs, logVars, dirVars, handleVars, ghostVars
<1>f. ASSUME NEW kind, Fault(kind)
      PROVE  faults' \in [count : 0 .. MaxFaults, kinds : SUBSET Faults]
  BY <1>f, StorageAssumption DEF Fault
<1>n. Len(frames) \in Nat
  BY DEF History
<1>1. ASSUME NEW r \in Record, AppendWrite(r)
      PROVE  TypeOK'
  BY <1>1 DEF AppendWrite, History
<1>2. CASE AppendSync
  <2>1. frames' = frames /\ synced' = Len(frames)
    BY <1>2 DEF AppendSync
  <2>2. synced' \in 0 .. Len(frames')
    BY <1>n, <2>1
  <2>3. QED
    BY <1>2, <2>2 DEF AppendSync
<1>3. CASE HeadWriteTmp
  BY <1>3 DEF HeadWriteTmp
<1>4. CASE HeadRename
  BY <1>4 DEF HeadRename
<1>5. CASE HeadSyncRoot
  BY <1>5 DEF HeadSyncRoot
<1>6. CASE OpenLock
  BY <1>6 DEF OpenLock
<1>7. CASE OpenValidateDirectory
  <2>1. tmp' \in BOOLEAN /\ dirty' \in BOOLEAN
    BY <1>7 DEF OpenValidateDirectory
  <2>2. pc' \in PCs
    BY <1>7 DEF OpenValidateDirectory
  <2>3. QED
    BY <1>7, <2>1, <2>2 DEF OpenValidateDirectory
<1>8. CASE OpenSyncRoot
  BY <1>8 DEF OpenSyncRoot
<1>9. CASE ReplayClean
  BY <1>9 DEF ReplayClean
<1>10. CASE ReplayTruncate
  BY <1>10 DEF ReplayTruncate
<1>11. CASE ReplayTruncateSync
  <2>1. frames' = frames /\ synced' = Len(frames)
    BY <1>11 DEF ReplayTruncateSync
  <2>2. synced' \in 0 .. Len(frames')
    BY <1>n, <2>1
  <2>3. QED
    BY <1>11, <2>2 DEF ReplayTruncateSync
<1>12. CASE ReplayRepair
  BY <1>12 DEF ReplayRepair
<1>13. CASE ReplayRefuse
  BY <1>13 DEF ReplayRefuse
<1>14. CASE Confirm
  BY <1>14 DEF Confirm
<1>15. CASE Close
  BY <1>15 DEF Close
<1>16. CASE AppendWriteFails
  BY <1>16, <1>f DEF AppendWriteFails, Tails
<1>17. CASE AppendSyncFails
  BY <1>17, <1>f DEF AppendSyncFails
<1>18. CASE ReplaceHeadFails
  BY <1>18, <1>f DEF ReplaceHeadFails
<1>19. CASE OpenFails
  BY <1>19, <1>f DEF OpenFails
<1>20. CASE Kill
  <2>1. torn' \in {"none", "header", "part"}
    BY <1>20 DEF Kill, Tails
  <2>2. QED
    BY <1>20, <2>1, <1>f DEF Kill
<1>21. CASE PowerLoss
  <2>1. PICK k \in synced .. Len(frames) :
          frames' = SubSeq(frames, 1, k) /\ synced' = k
    BY <1>21 DEF PowerLoss
  <2>2. frames' \in History /\ synced' \in 0 .. Len(frames')
    BY <2>1 DEF History
  <2>3. torn' \in {"none", "header", "part"} /\ tornOnDisk' \in BOOLEAN /\ tmp' \in BOOLEAN
    BY <1>21 DEF PowerLoss, Tails
  <2>4. QED
    BY <1>21, <2>2, <2>3, <1>f DEF PowerLoss
<1>22. CASE UNCHANGED vars
  BY <1>22 DEF vars
<1>23. QED
  BY <1>1, <1>2, <1>3, <1>4, <1>5, <1>6, <1>7, <1>8, <1>9, <1>10, <1>11, <1>12,
     <1>13, <1>14, <1>15, <1>16, <1>17, <1>18, <1>19, <1>20, <1>21, <1>22
     DEF Next, HandleStep, Failure

\* Create leaves a well-typed state.
LEMMA TypeInit == Init => TypeOK
<1>1. << >> \in History /\ 0 \in 0 .. Len(<< >>) /\ 0 \in 0 .. MaxFaults
  BY StorageAssumption DEF History
<1>2. [count |-> 0, kinds |-> {}] \in [count : 0 .. MaxFaults, kinds : SUBSET Faults]
  BY <1>1
<1>3. QED
  BY <1>1, <1>2 DEF Init, TypeOK, PCs

\* The storage state stays well typed in every behaviour.
THEOREM TypeCorrect == Spec => []TypeOK
  BY TypeInit, TypeStep, PTL DEF Spec

-----------------------------------------------------------------------------
(* The inductive invariant.  AckedDurable alone is not inductive: that an  *)
(* acknowledgement is safe rests on where the handle stands, namely on the *)
(* log having been synced before the head is replaced on behalf of an      *)
(* append, and on the handle holding exactly the log it appends to.        *)
(***************************************************************************)

\* What the handle knows about the files at each point of its work.
HandleInStep ==
  /\ pc \in {"idle", "truncated"} => mem = frames /\ torn = "none" /\ head = mem
  /\ pc = "written" => torn = "none" /\ target = frames
  /\ pc \in {"headNext", "headTmp", "headRenamed"} => torn = "none" /\ target = frames
  /\ pc = "headRenamed" => head = target
  /\ pc \in {"headNext", "headTmp", "headRenamed"} =>
       /\ job \in {"append", "repair"}
       /\ job = "append" => synced = Len(frames)
  /\ pc = "written" => job = "append"
  /\ pc \notin {"written", "headNext", "headTmp", "headRenamed"} => job = "none"

StorageInv == TypeOK /\ head \in heads /\ HandleInStep /\ AckedDurable

\* Every step preserves the invariant.
LEMMA StorageStep == StorageInv /\ [Next]_vars => StorageInv'
<1> SUFFICES ASSUME StorageInv, [Next]_vars
             PROVE  StorageInv'
  OBVIOUS
<1>t. TypeOK /\ TypeOK'
  BY TypeStep DEF StorageInv
<1>h. frames \in History /\ head \in History /\ mem \in History /\ target \in History
      /\ acked \in History /\ heads \subseteq History /\ pc \in PCs
      /\ Len(frames) \in Nat /\ synced \in 0 .. Len(frames) /\ Len(acked) \in Nat
  BY <1>t DEF TypeOK, History
<1>i. head \in heads /\ HandleInStep /\ AckedDurable
  BY DEF StorageInv
<1> SUFFICES (head \in heads)' /\ HandleInStep' /\ AckedDurable'
  BY <1>t DEF StorageInv
<1> USE DEF HandleInStep, AckedDurable, logVars, dirVars, handleVars, ghostVars
<1>1. ASSUME NEW r \in Record, AppendWrite(r)
      PROVE  (head \in heads)' /\ HandleInStep' /\ AckedDurable'
  <2>1. Len(acked) <= synced' /\ IsPrefix(acked, frames')
    BY <1>1, <1>h, <1>i, PrefixAppend DEF AppendWrite
  <2>2. QED
    BY <1>1, <1>i, <2>1 DEF AppendWrite
<1>2. CASE AppendSync
  BY <1>2, <1>h, <1>i DEF AppendSync
<1>3. CASE HeadWriteTmp
  BY <1>3, <1>i DEF HeadWriteTmp
<1>4. CASE HeadRename
  BY <1>4, <1>i DEF HeadRename
<1>5. CASE HeadSyncRoot
  <2>1. IsPrefix(target, target)
    BY <1>h, PrefixReflexive
  <2>2. CASE job = "append"
    BY <1>5, <2>1, <2>2, <1>h, <1>i DEF HeadSyncRoot
  <2>3. CASE job = "repair"
    BY <1>5, <2>3, <1>i DEF HeadSyncRoot
  <2>4. QED
    BY <1>5, <1>i, <2>2, <2>3 DEF HeadSyncRoot
<1>6. CASE OpenLock
  BY <1>6, <1>i DEF OpenLock
<1>7. CASE OpenValidateDirectory
  BY <1>7, <1>i DEF OpenValidateDirectory
<1>8. CASE OpenSyncRoot
  BY <1>8, <1>i DEF OpenSyncRoot
<1>9. CASE ReplayClean
  BY <1>9, <1>i DEF ReplayClean, Clean
<1>10. CASE ReplayTruncate
  BY <1>10, <1>i DEF ReplayTruncate, TornTail
<1>11. CASE ReplayTruncateSync
  BY <1>11, <1>h, <1>i DEF ReplayTruncateSync
<1>12. CASE ReplayRepair
  BY <1>12, <1>i DEF ReplayRepair, StaleHead
<1>13. CASE ReplayRefuse
  BY <1>13, <1>i DEF ReplayRefuse
<1>14. CASE Confirm
  BY <1>14, <1>i DEF Confirm
<1>15. CASE Close
  BY <1>15, <1>i DEF Close
<1>16. CASE AppendWriteFails
  BY <1>16, <1>i DEF AppendWriteFails
<1>17. CASE AppendSyncFails
  BY <1>17, <1>i DEF AppendSyncFails
<1>18. CASE ReplaceHeadFails
  BY <1>18, <1>i DEF ReplaceHeadFails
<1>19. CASE OpenFails
  BY <1>19, <1>i DEF OpenFails
<1>20. CASE Kill
  BY <1>20, <1>i DEF Kill
<1>21. CASE PowerLoss
  <2>1. PICK k \in synced .. Len(frames) :
          frames' = SubSeq(frames, 1, k) /\ synced' = k
    BY <1>21 DEF PowerLoss
  <2>2. Len(acked) <= synced' /\ IsPrefix(acked, frames')
    BY <1>h, <1>i, <2>1, PrefixCut
  <2>3. QED
    BY <1>21, <1>i, <2>2 DEF PowerLoss
<1>22. CASE UNCHANGED vars
  BY <1>22, <1>i DEF vars
<1>23. QED
  BY <1>1, <1>2, <1>3, <1>4, <1>5, <1>6, <1>7, <1>8, <1>9, <1>10, <1>11, <1>12,
     <1>13, <1>14, <1>15, <1>16, <1>17, <1>18, <1>19, <1>20, <1>21, <1>22
     DEF Next, HandleStep, Failure

\* The invariant holds in every behaviour.
LEMMA StorageInvariant == Spec => []StorageInv
<1>1. Init => StorageInv
  <2> SUFFICES ASSUME Init PROVE StorageInv
    OBVIOUS
  <2>0. << >> \in History /\ Len(<< >>) = 0
    BY DEF History
  <2>1. IsPrefix(<< >>, << >>) /\ Len(<< >>) = 0
    BY <2>0, PrefixReflexive
  <2>2. head \in heads /\ HandleInStep
    BY DEF Init, HandleInStep
  <2>3. AckedDurable
    BY <2>1 DEF Init, AckedDurable
  <2>4. QED
    BY <2>2, <2>3, TypeInit DEF StorageInv
<1>2. QED
  BY <1>1, StorageStep, PTL DEF Spec

\* A record appendRecord returned success for is on stable storage, and named
\* by every head a power loss may leave, for ever after.
THEOREM AcknowledgedRecordsAreDurable == Spec => []AckedDurable
  BY StorageInvariant, PTL DEF StorageInv

\* An open handle appends exactly at the end of the log it holds.
THEOREM AppendsAreContiguous == Spec => []AppendsContinueLog
<1>1. StorageInv => AppendsContinueLog
  BY DEF StorageInv, HandleInStep, AppendsContinueLog
<1>2. QED
  BY <1>1, StorageInvariant, PTL

\* Acknowledgements only extend what was acknowledged before.
THEOREM AcknowledgementsGrow == Spec => AckedOnlyGrows
<1>1. StorageInv /\ [Next]_vars => [IsPrefix(acked, acked')]_vars
  <2> SUFFICES ASSUME StorageInv, [Next]_vars, ~UNCHANGED vars
               PROVE  IsPrefix(acked, acked')
    OBVIOUS
  <2>h. acked \in History
    BY DEF StorageInv, TypeOK
  <2>1. CASE UNCHANGED acked
    BY <2>1, <2>h, PrefixReflexive
  <2>2. CASE HeadSyncRoot /\ job = "append"
    BY <2>2 DEF HeadSyncRoot, StorageInv, HandleInStep, AckedDurable
  <2>3. QED
    BY <2>1, <2>2 DEF Next, HandleStep, Failure, ghostVars, handleVars,
       AppendWrite, AppendSync, HeadWriteTmp, HeadRename, HeadSyncRoot, OpenLock,
       OpenValidateDirectory, OpenSyncRoot, ReplayClean, ReplayTruncate,
       ReplayTruncateSync, ReplayRepair, ReplayRefuse, Confirm, Close,
       AppendWriteFails, AppendSyncFails, ReplaceHeadFails, OpenFails, Kill, PowerLoss
<1>2. QED
  BY <1>1, StorageInvariant, PTL DEF Spec, AckedOnlyGrows

-----------------------------------------------------------------------------
(* Killed processes and failing system calls alone never spoil the files,  *)
(* and neither do losses of power alone, unless one of them cuts a frame   *)
(* exactly behind its header.  The two have different reasons.             *)
(* A kill keeps everything that was written, so the head is never more     *)
(* than one frame behind what replay reads.  A loss of power may take back *)
(* whatever was not synced; but as long as nothing else went wrong, a      *)
(* handle only ever replaces the head after it synced the log.             *)
(***************************************************************************)

\* The head names all of the log but at most its last frame; only a log that
\* ends at the head has a torn frame behind it; and nothing exceeds MaxRecords.
FilesRecoverable ==
  /\ Recoverable
  /\ Len(frames) <= MaxRecords
  /\ pc = "headRenamed" => frames = head

\* What a loss of power may leave is recoverable as well: no head is ahead of
\* the synced frames, and only a log that ends at every head is torn.
DiskRecoverable ==
  /\ \A h \in heads : /\ IsPrefix(h, frames) /\ Len(h) <= synced
                      /\ Len(frames) <= Len(h) + 1
  /\ pc # "written" => synced = Len(frames)
  /\ pc # "headRenamed" => heads = {head}
  /\ tornOnDisk => torn # "none" \/ pc = "truncated"
  /\ torn # "none" \/ tornOnDisk => \A h \in heads : h = frames

\* The strengthening of RefusedOnlyAfterMixedFaults that is inductive.
RecoveryInv ==
  ~Mixed /\ ~HeaderCut =>
    /\ FilesRecoverable
    /\ opened # "corrupt"
    /\ faults.kinds \subseteq {"power"} => DiskRecoverable

\* Every step but a loss of power leaves files that replay accepts, if it does not
\* cut a frame behind its header.
LEMMA FilesStep ==
  ASSUME StorageInv, FilesRecoverable, opened # "corrupt", [Next]_vars, ~PowerLoss,
         torn' # "header"
  PROVE  FilesRecoverable' /\ opened' # "corrupt"
<1>h. frames \in History /\ head \in History /\ mem \in History /\ pc \in PCs
      /\ Len(frames) \in Nat /\ Len(head) \in Nat /\ torn \in {"none", "header", "part"}
  BY DEF StorageInv, TypeOK, History
<1>i. HandleInStep
  BY DEF StorageInv
<1> USE DEF FilesRecoverable, Recoverable, Clean, TornTail, StaleHead, HandleInStep,
        logVars, dirVars, handleVars, ghostVars
<1>1. ASSUME NEW r \in Record, AppendWrite(r)
      PROVE  FilesRecoverable' /\ opened' # "corrupt"
  <2>1. /\ frames = head /\ torn = "none" /\ frames = mem /\ Len(mem) < MaxRecords
        /\ frames' = Append(frames, r) /\ head' = head /\ torn' = "none" /\ pc' = "written"
    BY <1>1, <1>i DEF AppendWrite
  <2>2. IsPrefix(head, frames)
    BY <1>h, <2>1, PrefixReflexive
  <2>3. IsPrefix(head, Append(frames, r)) /\ Len(Append(frames, r)) = Len(frames) + 1
    BY <1>h, <2>2, PrefixAppend
  <2>c. Len(frames') = Len(frames) + 1
    BY <2>1, <2>3
  <2>d. Len(head') = Len(frames) /\ Len(frames) < MaxRecords
    BY <2>1
  <2>4. Len(frames') = Len(head') + 1 /\ Len(frames') <= MaxRecords
    BY <1>h, <2>c, <2>d, StorageAssumption
  <2>5. StaleHead'
    BY <2>1, <2>3, <2>4
  <2>6. QED
    BY <1>1, <2>1, <2>4, <2>5 DEF AppendWrite
<1>2. CASE AppendSync
  BY <1>2 DEF AppendSync
<1>3. CASE HeadWriteTmp
  BY <1>3 DEF HeadWriteTmp
<1>4. CASE HeadRename
  BY <1>4, <1>i DEF HeadRename
<1>5. CASE HeadSyncRoot
  BY <1>5 DEF HeadSyncRoot
<1>6. CASE OpenLock
  BY <1>6 DEF OpenLock
<1>7. CASE OpenValidateDirectory
  BY <1>7 DEF OpenValidateDirectory
<1>8. CASE OpenSyncRoot
  BY <1>8 DEF OpenSyncRoot
<1>9. CASE ReplayClean
  BY <1>9 DEF ReplayClean
<1>10. CASE ReplayTruncate
  BY <1>10 DEF ReplayTruncate
<1>11. CASE ReplayTruncateSync
  BY <1>11 DEF ReplayTruncateSync
<1>12. CASE ReplayRepair
  BY <1>12 DEF ReplayRepair
<1>13. CASE ReplayRefuse
  BY <1>13, <1>h, StorageAssumption DEF ReplayRefuse
<1>14. CASE Confirm
  BY <1>14 DEF Confirm
<1>15. CASE Close
  BY <1>15 DEF Close
<1>16. CASE AppendWriteFails
  BY <1>16, <1>i DEF AppendWriteFails, Tails
<1>17. CASE AppendSyncFails
  BY <1>17 DEF AppendSyncFails
<1>18. CASE ReplaceHeadFails
  BY <1>18 DEF ReplaceHeadFails
<1>19. CASE OpenFails
  BY <1>19 DEF OpenFails
<1>20. CASE Kill
  BY <1>20, <1>i DEF Kill, Tails
<1>21. CASE UNCHANGED vars
  BY <1>21 DEF vars
<1>22. QED
  BY <1>1, <1>2, <1>3, <1>4, <1>5, <1>6, <1>7, <1>8, <1>9, <1>10, <1>11, <1>12,
     <1>13, <1>14, <1>15, <1>16, <1>17, <1>18, <1>19, <1>20, <1>21
     DEF Next, HandleStep, Failure

\* A step without a fault keeps the disk recoverable.
LEMMA DiskStep ==
  ASSUME StorageInv, FilesRecoverable, DiskRecoverable, [Next]_vars, ~Failure
  PROVE  DiskRecoverable'
<1>h. frames \in History /\ head \in History /\ mem \in History /\ target \in History
      /\ pc \in PCs /\ Len(frames) \in Nat /\ synced \in 0 .. Len(frames)
      /\ torn \in {"none", "header", "part"} /\ tornOnDisk \in BOOLEAN /\ heads \subseteq History
  BY DEF StorageInv, TypeOK, History
<1>i. HandleInStep /\ head \in heads
  BY DEF StorageInv
<1>p. IsPrefix(frames, frames)
  BY <1>h, PrefixReflexive
<1> USE DEF DiskRecoverable, HandleInStep, logVars, dirVars, handleVars, ghostVars
<1>1. ASSUME NEW r \in Record, AppendWrite(r)
      PROVE  DiskRecoverable'
  <2>1. /\ frames' = Append(frames, r) /\ heads' = heads /\ head' = head
        /\ synced' = synced /\ torn' = torn /\ tornOnDisk' = tornOnDisk
        /\ pc = "idle" /\ pc' = "written"
    BY <1>1 DEF AppendWrite
  <2>2. torn = "none" /\ ~tornOnDisk /\ heads = {frames} /\ synced = Len(frames)
    BY <2>1, <1>i
  <2>3. IsPrefix(frames, frames') /\ Len(frames') = Len(frames) + 1
    BY <1>h, <1>p, <2>1, PrefixAppend
  <2>4. QED
    BY <1>h, <2>1, <2>2, <2>3
<1>2. CASE AppendSync
  <2>1. /\ frames' = frames /\ heads' = heads /\ synced' = Len(frames)
        /\ torn' = torn /\ ~tornOnDisk' /\ pc' = "headNext" /\ pc = "written" /\ torn = "none"
        /\ head' = head
    BY <1>2, <1>i DEF AppendSync
  <2>2. \A h \in heads : IsPrefix(h, frames) /\ Len(h) <= Len(frames)
    BY <1>h, PrefixPointwise
  <2>3. QED
    BY <2>1, <2>2
<1>3. CASE HeadWriteTmp
  BY <1>3 DEF HeadWriteTmp
<1>4. CASE HeadRename
  <2>1. /\ frames' = frames /\ heads' = {head, frames} /\ synced' = synced
        /\ torn' = torn /\ tornOnDisk' = tornOnDisk /\ pc' = "headRenamed" /\ pc = "headTmp"
        /\ torn = "none"
    BY <1>4, <1>i DEF HeadRename
  <2>2. synced = Len(frames) /\ ~tornOnDisk
    BY <2>1
  <2>3. QED
    BY <1>h, <1>i, <1>p, <2>1, <2>2
<1>5. CASE HeadSyncRoot
  BY <1>5, <1>i DEF HeadSyncRoot
<1>6. CASE OpenLock
  BY <1>6 DEF OpenLock
<1>7. CASE OpenValidateDirectory
  BY <1>7 DEF OpenValidateDirectory
<1>8. CASE OpenSyncRoot
  BY <1>8, <1>i DEF OpenSyncRoot
<1>9. CASE ReplayClean
  BY <1>9 DEF ReplayClean
<1>10. CASE ReplayTruncate
  BY <1>10 DEF ReplayTruncate, TornTail
<1>11. CASE ReplayTruncateSync
  BY <1>11, <1>i DEF ReplayTruncateSync
<1>12. CASE ReplayRepair
  BY <1>12 DEF ReplayRepair
<1>13. CASE ReplayRefuse
  BY <1>13 DEF ReplayRefuse
<1>14. CASE Confirm
  BY <1>14 DEF Confirm
<1>15. CASE Close
  BY <1>15 DEF Close
<1>16. CASE UNCHANGED vars
  BY <1>16 DEF vars
<1>17. QED
  BY <1>1, <1>2, <1>3, <1>4, <1>5, <1>6, <1>7, <1>8, <1>9, <1>10, <1>11, <1>12,
     <1>13, <1>14, <1>15, <1>16 DEF Next, HandleStep

\* A loss of power leaves one of the states DiskRecoverable speaks of.
LEMMA PowerLossStep ==
  ASSUME StorageInv, FilesRecoverable, DiskRecoverable, PowerLoss, torn' # "header"
  PROVE  FilesRecoverable' /\ DiskRecoverable'
<1>h. frames \in History /\ Len(frames) \in Nat /\ synced \in 0 .. Len(frames)
      /\ torn \in {"none", "header", "part"} /\ tornOnDisk \in BOOLEAN /\ heads \subseteq History
  BY DEF StorageInv, TypeOK, History
<1>1. PICK k \in synced .. Len(frames) :
        /\ frames' = SubSeq(frames, 1, k) /\ synced' = k
        /\ torn' \in IF k < Len(frames) \/ torn # "none" \/ tornOnDisk THEN Tails ELSE {"none"}
  BY DEF PowerLoss
<1>2. /\ tornOnDisk' = (torn' # "none") /\ head' \in heads /\ heads' = {head'} /\ pc' = "down"
  BY DEF PowerLoss
<1>3. /\ head' \in History /\ Len(head') \in Nat /\ IsPrefix(head', frames)
      /\ Len(head') <= synced /\ Len(frames) <= Len(head') + 1
  BY <1>h, <1>2 DEF DiskRecoverable, History
<1>4. /\ frames' \in History /\ Len(frames') = k /\ IsPrefix(head', frames')
      /\ Len(head') <= k /\ k <= Len(head') + 1 /\ k \in Nat
  BY <1>h, <1>1, <1>3, PrefixCut
<1>5. k = Len(head') => frames' = head'
  <2> SUFFICES ASSUME k = Len(head') PROVE frames' = head'
    OBVIOUS
  <2>1. \A i \in 1 .. k : frames'[i] = head'[i]
    BY <1>3, <1>4, PrefixPointwise
  <2>2. QED
    BY <1>3, <1>4, <2>1 DEF History
<1>6. torn' # "none" => k = Len(head')
  <2>1. CASE k < Len(frames)
    BY <1>h, <1>3, <1>4, <2>1
  <2>2. CASE k = Len(frames) /\ (torn # "none" \/ tornOnDisk)
    BY <1>2, <2>2 DEF DiskRecoverable
  <2>3. torn' # "none" => k < Len(frames) \/ torn # "none" \/ tornOnDisk
    BY <1>1
  <2>4. k < Len(frames) \/ k = Len(frames)
    BY <1>h
  <2>5. QED
    BY <2>1, <2>2, <2>3, <2>4
<1>7. torn' \in {"none", "part"}
  BY <1>1 DEF Tails
<1>8. Recoverable'
  <2>1. CASE torn' = "part"
    BY <1>5, <1>6, <2>1 DEF Recoverable, TornTail
  <2>2. CASE torn' = "none" /\ k = Len(head')
    BY <1>5, <2>2 DEF Recoverable, Clean
  <2>3. CASE torn' = "none" /\ k = Len(head') + 1
    BY <1>4, <2>3 DEF Recoverable, StaleHead
  <2>4. QED
    BY <1>3, <1>4, <1>7, <2>1, <2>2, <2>3
<1>9. Len(frames') <= MaxRecords
  BY <1>h, <1>1, <1>4, StorageAssumption DEF FilesRecoverable
<1>10. FilesRecoverable'
  BY <1>2, <1>8, <1>9 DEF FilesRecoverable
<1>11. DiskRecoverable'
  BY <1>1, <1>2, <1>4, <1>5, <1>6 DEF DiskRecoverable
<1>12. QED
  BY <1>10, <1>11

\* A step records the kind of the fault it is, if it is one, and forgets none.
LEMMA FaultKinds ==
  ASSUME StorageInv, [Next]_vars
  PROVE  /\ faults.kinds \subseteq faults'.kinds
         /\ PowerLoss => "power" \in faults'.kinds
         /\ Failure /\ ~PowerLoss => faults'.kinds \cap {"io", "kill"} # {}
         /\ torn' = "header" => torn = "header" \/ "header" \in faults'.kinds
<1>1. ASSUME NEW kind, Fault(kind)
      PROVE  faults'.kinds = faults.kinds \cup {kind} \cup ({"header"} \cap {torn'})
  BY <1>1 DEF Fault
<1>2. CASE PowerLoss
  <2>1. faults'.kinds = faults.kinds \cup {"power"} \cup ({"header"} \cap {torn'})
    BY <1>1, <1>2 DEF PowerLoss
  <2>2. QED
    BY <1>2, <2>1
<1>3. CASE Failure /\ ~PowerLoss
  <2>1. \E kind \in {"io", "kill"} : Fault(kind)
    BY <1>3 DEF Failure, AppendWriteFails, AppendSyncFails, ReplaceHeadFails,
       OpenFails, Kill
  <2>2. PICK kind \in {"io", "kill"} :
          faults'.kinds = faults.kinds \cup {kind} \cup ({"header"} \cap {torn'})
    BY <1>1, <2>1
  <2>3. QED
    BY <1>3, <2>2
<1>4. CASE ~Failure
  <2>1. faults' = faults /\ torn' \in {torn, "none"}
    BY <1>4 DEF Next, HandleStep, vars, logVars, AppendWrite, AppendSync, HeadWriteTmp,
       HeadRename, HeadSyncRoot, OpenLock, OpenValidateDirectory, OpenSyncRoot,
       ReplayClean, ReplayTruncate, ReplayTruncateSync, ReplayRepair, ReplayRefuse,
       Confirm, Close
  <2>2. ~PowerLoss
    BY <1>4 DEF Failure
  <2>3. QED
    BY <1>4, <2>1, <2>2
<1>5. QED
  BY <1>2, <1>3, <1>4

\* Every step preserves the invariant of recovery.
LEMMA RecoveryStep == StorageInv /\ RecoveryInv /\ [Next]_vars => RecoveryInv'
<1> SUFFICES ASSUME StorageInv, RecoveryInv, [Next]_vars, ~Mixed', ~HeaderCut'
             PROVE  /\ FilesRecoverable' /\ opened' # "corrupt"
                    /\ faults'.kinds \subseteq {"power"} => DiskRecoverable'
  BY DEF RecoveryInv
<1>1. ~Mixed /\ ~HeaderCut
  BY FaultKinds DEF Mixed, HeaderCut
<1>2. /\ FilesRecoverable /\ opened # "corrupt"
      /\ faults.kinds \subseteq {"power"} => DiskRecoverable
  BY <1>1 DEF RecoveryInv
<1>t. torn' # "header"
  <2>1. torn # "header"
    BY <1>2 DEF FilesRecoverable, Recoverable, Clean, TornTail, StaleHead
  <2>2. QED
    BY <2>1, FaultKinds DEF HeaderCut
<1>k. faults.kinds \subseteq {"kill", "io", "power", "header"}
  BY StorageAssumption DEF StorageInv, TypeOK
<1>3. CASE PowerLoss
  <2>1. faults.kinds \subseteq {"power"}
    <3>1. faults.kinds \cap {"kill", "io"} = {}
      BY <1>3, FaultKinds DEF Mixed
    <3>2. QED
      BY <1>1, <1>k, <3>1 DEF HeaderCut
  <2>2. opened' = opened
    BY <1>3 DEF PowerLoss
  <2>3. QED
    BY <1>2, <1>3, <1>t, <2>1, <2>2, PowerLossStep
<1>4. CASE ~PowerLoss
  <2>1. FilesRecoverable' /\ opened' # "corrupt"
    BY <1>2, <1>4, <1>t, FilesStep
  <2>2. ASSUME faults'.kinds \subseteq {"power"}
        PROVE  DiskRecoverable'
    <3>1. ~Failure
      BY <1>4, <2>2, FaultKinds
    <3>2. faults.kinds \subseteq {"power"}
      BY <2>2, FaultKinds
    <3>3. QED
      BY <1>2, <3>1, <3>2, DiskStep
  <2>3. QED
    BY <2>1, <2>2
<1>5. QED
  BY <1>3, <1>4

LEMMA RecoveryInvariant == Spec => [](StorageInv /\ RecoveryInv)
<1>1. Init => RecoveryInv
  <2> SUFFICES ASSUME Init PROVE RecoveryInv
    OBVIOUS
  <2>0. << >> \in History /\ Len(<< >>) = 0
    BY DEF History
  <2>1. << >> \in History /\ Len(<< >>) = 0 /\ IsPrefix(<< >>, << >>)
    BY <2>0, PrefixReflexive
  <2>2. FilesRecoverable /\ opened # "corrupt"
    BY <2>1, StorageAssumption DEF Init, FilesRecoverable, Recoverable, Clean
  <2>3. DiskRecoverable
    BY <2>1 DEF Init, DiskRecoverable
  <2>4. QED
    BY <2>2, <2>3 DEF RecoveryInv
<1>2. QED
  BY <1>1, RecoveryStep, StorageInvariant, PTL DEF Spec

\* Open refuses the journal only if a process was killed or a system call
\* failed and power was lost, or if one of them cut a frame exactly behind its
\* header: otherwise kills and errors alone, at any step of any call or recovery,
\* are survived, and so are losses of power alone.
THEOREM CorruptOnlyAfterMixedFaults == Spec => []RefusedOnlyAfterMixedFaults
<1>1. RecoveryInv => RefusedOnlyAfterMixedFaults
  BY DEF RecoveryInv, RefusedOnlyAfterMixedFaults
<1>2. QED
  BY <1>1, RecoveryInvariant, PTL

-----------------------------------------------------------------------------
(* Every step leads nearer to an open journal. *)

\* The most steps that remain until the journal is open for appending, if none of
\* them fails: close the poisoned handle, lock, clean the directory, sync it, replay,
\* write, rename and sync the head.
StepsLeft ==
  [idle |-> 0, headRenamed |-> 1, truncated |-> 1, headTmp |-> 2, headNext |-> 3, written |-> 4,
   replay |-> 4, cleaned |-> 5, locked |-> 6, down |-> 7, poisoned |-> 8][pc]

\* Until the journal is open, a step uses up a fault or brings the journal nearer to being
\* open.  (Faults are limited, so that this can go on for so long only.)
NearsOpen ==
  [][~Mixed' /\ ~HeaderCut' /\ pc # "idle" =>
       \/ faults'.count > faults.count
       \/ faults'.count = faults.count /\ StepsLeft' < StepsLeft]_vars

\* And there always is such a step: the files are never ones that replay refuses
\* (as they are once a frame was cut right behind its header).
\* (At every other program point the step that follows has no condition.)
ReplayGoesOn ==
  ~Mixed /\ ~HeaderCut /\ pc = "replay" =>
     Len(frames) <= MaxRecords /\ (Clean \/ TornTail \/ StaleHead)

LEMMA NearsOpenStep ==
  ASSUME StorageInv, RecoveryInv, [Next]_vars, ~UNCHANGED vars, ~Mixed', ~HeaderCut', pc # "idle"
  PROVE  \/ faults'.count > faults.count
         \/ faults'.count = faults.count /\ StepsLeft' < StepsLeft
<1>0. faults.count \in Nat
  BY StorageAssumption DEF StorageInv, TypeOK
<1>1. CASE Failure
  <2>1. \E kind : Fault(kind)
    BY <1>1 DEF Failure, AppendWriteFails, AppendSyncFails, ReplaceHeadFails, OpenFails, Kill, PowerLoss
  <2>2. faults'.count = faults.count + 1
    BY <2>1 DEF Fault
  <2>3. QED
    BY <1>0, <2>2
<1>2. CASE HandleStep
  <2>1. ~Mixed /\ ~HeaderCut
    BY FaultKinds DEF Mixed, HeaderCut
  <2>2. ~ReplayRefuse
    <3>1. Len(frames) \in Nat /\ MaxRecords \in Nat
      BY StorageAssumption DEF StorageInv, TypeOK, History
    <3>2. Recoverable /\ Len(frames) <= MaxRecords
      BY <2>1 DEF RecoveryInv, FilesRecoverable
    <3>3. QED
      BY <3>1, <3>2 DEF ReplayRefuse
  <2>3. faults' = faults
    BY <1>2 DEF HandleStep, AppendSync, HeadWriteTmp, HeadRename, HeadSyncRoot, OpenLock,
       OpenValidateDirectory, OpenSyncRoot, ReplayClean, ReplayTruncate, ReplayTruncateSync,
       ReplayRepair, ReplayRefuse
  <2>4. StepsLeft' < StepsLeft
    BY <1>2, <2>2 DEF HandleStep, AppendSync, HeadWriteTmp, HeadRename, HeadSyncRoot, OpenLock,
       OpenValidateDirectory, OpenSyncRoot, ReplayClean, ReplayTruncate, ReplayTruncateSync,
       ReplayRepair, StepsLeft
  <2>5. QED
    BY <2>3, <2>4
<1>3. CASE Close
  BY <1>3 DEF Close, StepsLeft
<1>4. CASE Confirm \/ \E r \in Record : AppendWrite(r)
  BY <1>4 DEF Confirm, AppendWrite
<1>5. QED
  BY <1>1, <1>2, <1>3, <1>4 DEF Next

\* What AlwaysReopens rests on beside fairness: wherever Open or an append was
\* interrupted, what Open, replay and replaceHead do next leads to an open journal.
THEOREM NearsOpenTheorem == Spec => NearsOpen /\ []ReplayGoesOn
<1>1. StorageInv /\ RecoveryInv /\ [Next]_vars =>
        [~Mixed' /\ ~HeaderCut' /\ pc # "idle" =>
           \/ faults'.count > faults.count
           \/ faults'.count = faults.count /\ StepsLeft' < StepsLeft]_vars
  BY NearsOpenStep
<1>2. RecoveryInv => ReplayGoesOn
  BY DEF RecoveryInv, FilesRecoverable, Recoverable, ReplayGoesOn
<1>3. QED
  BY <1>1, <1>2, RecoveryInvariant, PTL DEF Spec, NearsOpen

-----------------------------------------------------------------------------
(* Refinement. *)

\* The initial files are an empty abstract log.
LEMMA AbstractInit == Init => Abstract!Init
  BY DEF Init, Abstract!Init, HandleOpen

\* Every step of the storage is a step of the abstract log, or none.
LEMMA AbstractStep ==
  StorageInv /\ [Next]_vars => [Abstract!Next]_(Abstract!abstractVars)
<1> SUFFICES ASSUME StorageInv, [Next]_vars
             PROVE  Abstract!Next \/ UNCHANGED <<frames, acked, HandleOpen>>
  BY DEF Abstract!abstractVars
<1>h. frames \in History /\ acked \in History /\ Len(frames) \in Nat /\ Len(acked) \in Nat
      /\ synced \in 0 .. Len(frames) /\ pc \in PCs
  BY DEF StorageInv, TypeOK, History
<1>i. HandleInStep /\ AckedDurable
  BY DEF StorageInv
<1>s. ASSUME frames' = frames, acked' = acked, HandleOpen' = FALSE
      PROVE  Abstract!Stop
  <2>1. SubSeq(frames, 1, Len(frames)) = frames
    BY <1>h DEF History
  <2>2. Len(frames) \in Len(acked) .. Len(frames)
    BY <1>h, <1>i DEF AckedDurable
  <2>3. QED
    BY <1>s, <2>1, <2>2 DEF Abstract!Stop
<1> USE DEF HandleOpen, HandleInStep, logVars, dirVars, handleVars, ghostVars
<1>1. ASSUME NEW r \in Record, AppendWrite(r)
      PROVE  Abstract!Next
  BY <1>1 DEF AppendWrite, Abstract!Next, Abstract!Write
<1>2. CASE HeadSyncRoot
  <2>1. CASE job = "append"
    BY <1>2, <1>i, <2>1 DEF HeadSyncRoot, Abstract!Next, Abstract!Acknowledge
  <2>2. CASE job = "repair"
    BY <1>2, <1>i, <2>2 DEF HeadSyncRoot, Abstract!Next, Abstract!Serve
  <2>3. QED
    BY <1>2, <1>i, <2>1, <2>2 DEF HeadSyncRoot
<1>3. CASE ReplayClean \/ ReplayTruncateSync
  BY <1>3, <1>i DEF ReplayClean, ReplayTruncateSync, Abstract!Next, Abstract!Serve
<1>4. CASE AppendSync \/ HeadWriteTmp \/ HeadRename \/ Confirm
  BY <1>4, <1>i DEF AppendSync, HeadWriteTmp, HeadRename, Confirm
<1>5. CASE OpenLock \/ OpenValidateDirectory \/ OpenSyncRoot
  BY <1>5, <1>i DEF OpenLock, OpenValidateDirectory, OpenSyncRoot
<1>6. CASE ReplayTruncate \/ ReplayRepair \/ ReplayRefuse
  BY <1>6, <1>i DEF ReplayTruncate, ReplayRepair, ReplayRefuse
<1>7. CASE AppendWriteFails \/ AppendSyncFails
  BY <1>7, <1>i DEF AppendWriteFails, AppendSyncFails
<1>8. CASE ReplaceHeadFails
  BY <1>8, <1>i DEF ReplaceHeadFails
<1>9. CASE OpenFails \/ Close \/ Kill
  BY <1>9, <1>i, <1>s DEF OpenFails, Close, Kill, Abstract!Next
<1>10. CASE PowerLoss
  <2>1. PICK k \in synced .. Len(frames) : frames' = SubSeq(frames, 1, k)
    BY <1>10 DEF PowerLoss
  <2>2. k \in Len(acked) .. Len(frames)
    BY <1>h, <1>i, <2>1 DEF AckedDurable
  <2>3. QED
    BY <1>10, <2>1, <2>2 DEF PowerLoss, Abstract!Next, Abstract!Stop
<1>11. CASE UNCHANGED vars
  BY <1>11 DEF vars
<1>12. QED
  BY <1>1, <1>2, <1>3, <1>4, <1>5, <1>6, <1>7, <1>8, <1>9, <1>10, <1>11
     DEF Next, HandleStep, Failure

\* The log, head and directory together implement the abstract durable log.
THEOREM StorageImplementsDurableLog == Spec => ImplementsDurableLog
  BY AbstractInit, AbstractStep, StorageInvariant, PTL
     DEF Spec, ImplementsDurableLog, Abstract!Spec
=============================================================================
