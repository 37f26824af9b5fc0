------------------------- MODULE StateManager_proofs -------------------------
(***************************************************************************)
(* FileLock for any number of hooks and inodes: the state stays well       *)
(* formed, no lock is stranded, and where nothing can unlink an open lock  *)
(* file at most one process is inside the `with` block.  And on top of it: *)
(* no update of a session's state is lost, for any number of hooks, keys   *)
(* and updates, while the session's lock excludes and nothing uses the     *)
(* file without it: StateManager then implements AtomicState.              *)
(***************************************************************************)
EXTENDS StateManager, TLAPS

-----------------------------------------------------------------------------
(* FileLock *)

(* Why exclusion holds: with nothing to unlink it, the path is the inode   *)
(* of every open descriptor, so that all processes compete for one inode's *)
(* lock.  A caller that may not break the lock never starts to.            *)
PathStable ==
  /\ Unbreakable => \A p \in Procs : fd[p] # NoInode => fd[p] = path
  /\ ~mode.breaks => \A p \in Procs : pc[p] \notin {"expired", "unlinked", "reopened"}

LockInv == TypeOK /\ NoStrandedLock /\ PathStable

-----------------------------------------------------------------------------

(* The start: no descriptor is open and no inode is locked.                *)
LEMMA InitInv == Init => LockInv
  BY LockAssumption
  DEF Init, LockInv, TypeOK, NoStrandedLock, PathStable, PC

(* Steps that close a descriptor keep the lock table exact.                *)
LEMMA CloseKeepsExact ==
  ASSUME LockInv, NEW p \in Procs, NEW pcp \in {"idle", "expired"},
         CloseFd(p), pc' = [pc EXCEPT ![p] = pcp],
         pcp = "expired" => mode.breaks,
         UNCHANGED <<mode, path>>
  PROVE  LockInv'
<1> USE LockAssumption DEF LockInv, CloseFd
<1>1. TypeOK'
  BY DEF TypeOK, PC
<1>2. NoStrandedLock'
  BY DEF TypeOK, NoStrandedLock
<1>3. PathStable'
  BY DEF TypeOK, PathStable, Unbreakable
<1> QED
  BY <1>1, <1>2, <1>3

(* Steps that take the lock of the open inode, when nobody has it.         *)
LEMMA LockKeepsInv ==
  ASSUME LockInv, NEW p \in Procs,
         pc[p] \in {"trying", "reopened"},
         holder[fd[p]] = NoProc,
         holder' = [holder EXCEPT ![fd[p]] = p],
         pc' = [pc EXCEPT ![p] = "held"],
         UNCHANGED <<mode, path, fd>>
  PROVE  LockInv'
<1> USE LockAssumption DEF LockInv
<1>0. fd[p] \in Inodes
  BY DEF TypeOK
<1>1. TypeOK'
  BY <1>0 DEF TypeOK, PC
<1>2. NoStrandedLock'
  BY <1>0 DEF TypeOK, NoStrandedLock
<1>3. PathStable'
  BY DEF TypeOK, PathStable, Unbreakable
<1> QED
  BY <1>1, <1>2, <1>3

(* Opening the path: with nothing unlinked, a missing path means that      *)
(* nobody has a descriptor, and the new inode becomes everybody's.         *)
LEMMA OpenKeepsInv ==
  ASSUME LockInv, NEW p \in Procs, NEW pcp \in {"trying", "reopened"},
         pc[p] \in {"idle", "unlinked"},
         pcp = "reopened" => pc[p] = "unlinked",
         OpenPath(p), pc' = [pc EXCEPT ![p] = pcp],
         UNCHANGED <<mode, holder>>
  PROVE  LockInv'
<1> USE LockAssumption DEF LockInv
<1>0. PICK i \in Inodes :
        /\ IF path = NoInode THEN Free(i) ELSE i = path
        /\ path' = i
        /\ fd' = [fd EXCEPT ![p] = i]
  BY DEF OpenPath
<1>1. TypeOK'
  BY <1>0 DEF TypeOK, PC
<1>2. NoStrandedLock'
  BY <1>0 DEF TypeOK, NoStrandedLock
<1>3. PathStable'
  BY <1>0 DEF TypeOK, PathStable, Unbreakable
<1> QED
  BY <1>1, <1>2, <1>3

(* Unlinking the path, where that is allowed at all, leaves the            *)
(* descriptors alone; if it is refused nothing happens.                    *)
LEMMA UnlinkKeepsPathStable ==
  ASSUME LockInv, mode.breaks \/ mode.removed,
         path' = NoInode, CanUnlink, UNCHANGED <<mode, fd>>
  PROVE  Unbreakable => \A p \in Procs : fd[p] # NoInode => fd'[p] = path'
  BY LockAssumption DEF LockInv, TypeOK, PathStable, Unbreakable, CanUnlink

LEMMA StepInv == LockInv /\ [Next]_vars => LockInv'
<1> SUFFICES ASSUME LockInv, [Next]_vars PROVE LockInv'
  OBVIOUS
<1>1. ASSUME NEW p \in Procs, Open(p) PROVE LockInv'
  BY <1>1, OpenKeepsInv DEF Open
<1>2. ASSUME NEW p \in Procs, Lock(p) PROVE LockInv'
  BY <1>2, LockKeepsInv DEF Lock
<1>3. ASSUME NEW p \in Procs, Timeout(p) PROVE LockInv'
  <2>1. CASE mode.breaks
    BY <1>3, <2>1, CloseKeepsExact DEF Timeout
  <2>2. CASE ~mode.breaks
    BY <1>3, <2>2, CloseKeepsExact DEF Timeout
  <2> QED
    BY <2>1, <2>2
<1>4. ASSUME NEW p \in Procs, Unlink(p) PROVE LockInv'
  <2> USE <1>4, LockAssumption DEF Unlink
  <2>0. mode.breaks
    BY DEF LockInv, PathStable
  <2>1. TypeOK'
    BY DEF LockInv, TypeOK, PC
  <2>2. NoStrandedLock'
    BY DEF LockInv, TypeOK, NoStrandedLock
  <2>3. Unbreakable' => \A q \in Procs : fd'[q] # NoInode => fd'[q] = path'
    <3>1. CASE CanUnlink
      BY <2>0, <3>1, UnlinkKeepsPathStable DEF Unbreakable
    <3>2. CASE ~CanUnlink
      BY <3>2 DEF LockInv, PathStable, Unbreakable
    <3> QED
      BY <3>1, <3>2
  <2>4. PathStable'
    BY <2>0, <2>3 DEF PathStable
  <2> QED
    BY <2>1, <2>2, <2>4 DEF LockInv
<1>5. ASSUME NEW p \in Procs, Reopen(p) PROVE LockInv'
  BY <1>5, OpenKeepsInv DEF Reopen
<1>6. ASSUME NEW p \in Procs, LockReopened(p) PROVE LockInv'
  BY <1>6, LockKeepsInv DEF LockReopened
<1>7. ASSUME NEW p \in Procs, LockRefused(p) \/ Release(p) \/ Crash(p) PROVE LockInv'
  BY <1>7, CloseKeepsExact DEF LockRefused, Release, Crash
<1>8. CASE RemoveLockFile
  <2> USE <1>8, LockAssumption DEF RemoveLockFile
  <2>1. TypeOK'
    BY DEF LockInv, TypeOK
  <2>2. NoStrandedLock'
    BY DEF LockInv, NoStrandedLock
  <2>3. Unbreakable' => \A q \in Procs : fd'[q] # NoInode => fd'[q] = path'
    BY UnlinkKeepsPathStable DEF Unbreakable
  <2>4. PathStable'
    BY <2>3 DEF LockInv, PathStable
  <2> QED
    BY <2>1, <2>2, <2>4 DEF LockInv
<1>9. CASE UNCHANGED vars
  BY <1>9 DEF vars, LockInv, TypeOK, NoStrandedLock, PathStable, Unbreakable
<1> QED
  BY <1>1, <1>2, <1>3, <1>4, <1>5, <1>6, <1>7, <1>8, <1>9 DEF Next, Acquire

(* The invariant holds in every state of every behaviour.                  *)
THEOREM LockInvariant == Spec => []LockInv
  BY InitInv, StepInv, PTL DEF Spec

(* TypeOK: descriptors are open exactly where the code has them open.      *)
THEOREM TypeCorrect == Spec => []TypeOK
<1>1. LockInv => TypeOK
  BY DEF LockInv
<1> QED
  BY <1>1, LockInvariant, PTL

(* NoStrandedLock: a lock is held by exactly the processes in the block.   *)
THEOREM NoLockIsStranded == Spec => []NoStrandedLock
<1>1. LockInv => NoStrandedLock
  BY DEF LockInv
<1> QED
  BY <1>1, LockInvariant, PTL

(* MutualExclusion: two processes in the block have the path's inode open  *)
(* and hold its lock, so they are one.                                     *)
LEMMA InvExcludes == LockInv => MutualExclusion
<1> SUFFICES ASSUME LockInv, Unbreakable,
                    NEW p \in Procs, NEW q \in Procs,
                    pc[p] = "held", pc[q] = "held"
             PROVE  p = q
  BY DEF MutualExclusion
<1>1. fd[p] # NoInode /\ fd[q] # NoInode
  BY DEF LockInv, TypeOK
<1>2. fd[p] = path /\ fd[q] = path /\ path \in Inodes
  BY <1>1 DEF LockInv, TypeOK, PathStable
<1>3. holder[path] = p /\ holder[path] = q
  BY <1>2 DEF LockInv, NoStrandedLock
<1> QED
  BY <1>3

THEOREM Exclusion == Spec => []MutualExclusion
  BY LockInvariant, InvExcludes, PTL

-----------------------------------------------------------------------------
(* StateManager *)

(* What a hook has read under the lock is still what the file holds when   *)
(* it writes.                                                              *)
ReadIsFresh ==
  Orderly => /\ file \in Dicts
             /\ \A p \in Procs : /\ stage[p] # "create"
                                 /\ stage[p] = "read" => buf[p] = file

StateInv == LockInv /\ StateTypeOK /\ ReadIsFresh

-----------------------------------------------------------------------------

(* An update of a dict is a dict: a word or a number replaces one value.   *)
LEMMA EffectType ==
  ASSUME NEW o \in Ops, NEW d \in Dicts
  PROVE  Effect(o, d) \in Dicts
<1>1. o \in OpType /\ o.key \in Keys
  BY DataAssumption DEF OpType
<1>2. CASE o.kind = "set"
  <2>1. o.val \in Vals
    BY <1>1, <1>2 DEF OpType
  <2>2. Effect(o, d) = [d EXCEPT ![o.key] = o.val]
    BY <1>2 DEF Effect
  <2> QED
    BY <1>1, <2>1, <2>2 DEF Dicts
<1>3. CASE o.kind = "delete"
  <2>1. Effect(o, d) = [d EXCEPT ![o.key] = Missing]
    BY <1>3 DEF Effect
  <2> QED
    BY <1>1, <2>1 DEF Dicts
<1>4. CASE o.kind = "increment"
  <2>1. Effect(o, d) = [d EXCEPT ![o.key] = Successor(d[o.key])]
    BY <1>1, <1>4 DEF Effect, Dicts
  <2>2. Successor(d[o.key]) \in Vals
    BY DEF Successor, Vals
  <2> QED
    BY <1>1, <2>1, <2>2 DEF Dicts
<1> QED
  BY <1>1, <1>2, <1>3, <1>4 DEF OpType

LEMMA EmptyType == Empty \in Dicts
  BY DEF Empty, Dicts

LEMMA ReadSafeType == StateTypeOK => ReadSafe \in Dicts
  BY EmptyType DEF StateTypeOK, ReadSafe

LEMMA StateInitInv == StateInit => StateInv
<1> SUFFICES ASSUME StateInit PROVE StateInv
  OBVIOUS
<1>1. LockInv
  BY InitInv DEF StateInit
<1>2. (CHOOSE o \in Ops : TRUE) \in Ops
  BY FileAssumption
<1>3. StateTypeOK
  BY <1>1, <1>2, EmptyType DEF StateInit, StateTypeOK, LockInv, Stages, Init
<1>4. ReadIsFresh
  BY EmptyType DEF StateInit, ReadIsFresh, Orderly
<1> QED
  BY <1>1, <1>3, <1>4 DEF StateInv

(* Every step of a StateManager call is a step of the lock or leaves the   *)
(* lock alone.                                                             *)
LEMMA StepsTheLock == [StateNext]_stateVars => [Next]_vars
  BY DEF StateNext, StateStep, Begin, Enter, ReadState, WriteState, WriteFails,
         Leave, InitCheck, InitWrite, RemoveStateFile, Die, stateVars, Next

(* Two hooks are never both between their read and their write.            *)
LEMMA OneUpdater ==
  ASSUME StateInv, Orderly, NEW p \in Procs, NEW q \in Procs,
         stage[p] = "read", stage[q] \in {"read", "done"}
  PROVE  p = q
  BY InvExcludes DEF StateInv, StateTypeOK, Orderly, MutualExclusion

LEMMA StateStepInv == StateInv /\ [StateNext]_stateVars => StateInv'
<1> SUFFICES ASSUME StateInv, [StateNext]_stateVars PROVE StateInv'
  OBVIOUS
<1>0. LockInv' /\ TypeOK'
  BY StepsTheLock, StepInv DEF StateInv, LockInv
<1>a. UNCHANGED mode
  BY StepsTheLock DEF Next, Acquire, Open, Lock, Timeout, Unlink, Reopen,
     LockReopened, LockRefused, Release, Crash, RemoveLockFile, vars
<1> USE <1>0, <1>a, EmptyType DEF StateInv, Stages
<1>1. ASSUME NEW p \in Procs, NEW o \in Ops, Begin(p, o) PROVE StateInv'
  <2>1. StateTypeOK'
    BY <1>1 DEF StateTypeOK, Begin, Open, Goto
  <2>2. ReadIsFresh'
    BY <1>1 DEF StateTypeOK, ReadIsFresh, Orderly, Unbreakable, Begin, Goto
  <2> QED
    BY <2>1, <2>2
<1>2. ASSUME NEW p \in Procs, Enter(p) PROVE StateInv'
  <2>0. \A q \in Procs : q # p => pc'[q] = pc[q]
    BY <1>2 DEF StateTypeOK, TypeOK, Enter, Acquire, Lock, Timeout, Unlink,
                Reopen, LockReopened, LockRefused
  <2>1. StateTypeOK'
    BY <1>2, <2>0 DEF StateTypeOK, Enter, Goto
  <2>2. ReadIsFresh'
    BY <1>2 DEF StateTypeOK, ReadIsFresh, Orderly, Unbreakable, Enter, Goto
  <2> QED
    BY <2>1, <2>2
<1>3. ASSUME NEW p \in Procs, ReadState(p) PROVE StateInv'
  <2>1. StateTypeOK'
    BY <1>3, ReadSafeType DEF StateTypeOK, ReadState, Goto, vars
  <2>2. ReadIsFresh'
    <3> SUFFICES ASSUME Orderly PROVE ReadIsFresh'
      BY <1>3 DEF ReadIsFresh, Orderly, Unbreakable, ReadState
    <3>1. ReadSafe = file
      BY FileAssumption DEF ReadIsFresh, ReadSafe
    <3> QED
      BY <1>3, <3>1 DEF StateTypeOK, ReadIsFresh, Orderly, Unbreakable, ReadState, Goto
  <2> QED
    BY <2>1, <2>2
<1>4. ASSUME NEW p \in Procs, WriteState(p) PROVE StateInv'
  <2>0. Effect(op[p], buf[p]) \in Dicts
    BY EffectType DEF StateTypeOK
  <2>1. StateTypeOK'
    BY <1>4, <2>0 DEF StateTypeOK, WriteState, Goto, Forget, vars
  <2>2. ReadIsFresh'
    <3> SUFFICES ASSUME Orderly PROVE ReadIsFresh'
      BY <1>4 DEF ReadIsFresh, Orderly, Unbreakable, WriteState
    <3>1. \A q \in Procs : stage[q] = "read" => q = p
      BY <1>4, OneUpdater DEF WriteState
    <3> QED
      BY <1>4, <2>0, <3>1 DEF StateTypeOK, ReadIsFresh, WriteState, Goto
  <2> QED
    BY <2>1, <2>2
<1>5. ASSUME NEW p \in Procs, WriteFails(p) PROVE StateInv'
  <2>1. StateTypeOK'
    BY <1>5 DEF StateTypeOK, WriteFails, Goto, Forget, vars
  <2>2. ReadIsFresh'
    BY <1>5 DEF StateTypeOK, ReadIsFresh, Orderly, Unbreakable, WriteFails, Goto, Forget
  <2> QED
    BY <2>1, <2>2
<1>6. ASSUME NEW p \in Procs, Leave(p) PROVE StateInv'
  <2>1. StateTypeOK'
    BY <1>6 DEF StateTypeOK, TypeOK, Leave, Goto, Release
  <2>2. ReadIsFresh'
    BY <1>6 DEF StateTypeOK, ReadIsFresh, Orderly, Unbreakable, Leave, Goto
  <2> QED
    BY <2>1, <2>2
<1>7. ASSUME NEW p \in Procs, InitCheck(p) PROVE StateInv'
  <2>1. StateTypeOK'
    BY <1>7 DEF StateTypeOK, InitCheck, Goto, vars
  <2>2. ReadIsFresh'
    BY <1>7, FileAssumption
    DEF StateTypeOK, ReadIsFresh, Orderly, Unbreakable, InitCheck, Goto
  <2> QED
    BY <2>1, <2>2
<1>8. ASSUME NEW p \in Procs, InitWrite(p) PROVE StateInv'
  <2>1. StateTypeOK'
    BY <1>8 DEF StateTypeOK, InitWrite, Goto, vars
  <2>2. ReadIsFresh'
    BY <1>8 DEF StateTypeOK, ReadIsFresh, Orderly, Unbreakable, InitWrite, Goto
  <2> QED
    BY <2>1, <2>2
<1>9. ASSUME NEW p \in Procs, Die(p) PROVE StateInv'
  <2>1. StateTypeOK'
    BY <1>9 DEF StateTypeOK, TypeOK, Die, Goto, Forget, Crash, vars
  <2>2. ReadIsFresh'
    BY <1>9 DEF StateTypeOK, ReadIsFresh, Orderly, Unbreakable, Die, Goto, Forget
  <2> QED
    BY <2>1, <2>2
<1>10. CASE RemoveStateFile
  BY <1>10 DEF RemoveStateFile, StateTypeOK, ReadIsFresh, Orderly, Unbreakable, vars
<1>11. CASE RemoveLockFile /\ UNCHANGED fileVars
  BY <1>11 DEF RemoveLockFile, fileVars, StateTypeOK, ReadIsFresh, Orderly, Unbreakable
<1>12. CASE UNCHANGED stateVars
  BY <1>12 DEF stateVars, fileVars, vars, StateTypeOK, ReadIsFresh, Orderly, Unbreakable
<1> QED
  BY <1>1, <1>2, <1>3, <1>4, <1>5, <1>6, <1>7, <1>8, <1>9, <1>10, <1>11, <1>12
  DEF StateNext, StateStep

(* StateTypeOK: an update touches the file only while it holds the lock.   *)
THEOREM StateTypeCorrect == StateSpec => []StateTypeOK
<1>1. StateInv => StateTypeOK
  BY DEF StateInv
<1> QED
  BY <1>1, StateInitInv, StateStepInv, PTL DEF StateSpec

(* Only the write of an update changes an orderly session's dict, and it   *)
(* applies the update to the dict that was there.                          *)
LEMMA StepIsUpdate ==
  ASSUME StateInv, [StateNext]_stateVars, Orderly
  PROVE  Abstract!Next \/ UNCHANGED ReadSafe
<1>1. ReadSafe = file
  BY FileAssumption DEF StateInv, ReadIsFresh, ReadSafe
<1>2. ASSUME NEW p \in Procs, WriteState(p) PROVE Abstract!Next
  <2>1. file' = Effect(op[p], file) /\ op[p] \in Ops
    BY <1>2 DEF WriteState, StateInv, StateTypeOK, ReadIsFresh
  <2>2. file' \in Dicts
    BY <2>1, EffectType DEF StateInv, ReadIsFresh
  <2>3. ReadSafe' = file'
    BY <2>2, FileAssumption DEF ReadSafe
  <2> QED
    BY <1>1, <2>1, <2>3 DEF Abstract!Next, Abstract!Effect, Abstract!Successor, Effect, Successor
<1>3. ASSUME NEW p \in Procs, InitWrite(p) PROVE FALSE
  BY <1>3 DEF InitWrite, StateInv, ReadIsFresh
<1>4. CASE UNCHANGED file
  BY <1>4 DEF ReadSafe
<1>5. CASE RemoveStateFile
  BY <1>5 DEF RemoveStateFile, Orderly
<1> QED
  BY <1>2, <1>3, <1>4, <1>5
  DEF StateNext, StateStep, Begin, Enter, ReadState, WriteFails, Leave, InitCheck,
      Die, fileVars, stateVars

(* AtomicUpdates: no update is lost in an orderly session.                 *)
THEOREM UpdatesAreAtomic == StateSpec => AtomicUpdates
<1>1. StateInv /\ [StateNext]_stateVars => [Orderly => Abstract!Next]_ReadSafe
  BY StepIsUpdate
<1> QED
  BY <1>1, StateInitInv, StateStepInv, PTL DEF StateSpec, AtomicUpdates

(* An orderly session's StateManager implements the atomic dict.           *)
THEOREM ImplementsAtomicState == StateSpec /\ Orderly => Abstract!Spec
<1>1. StateInit => Abstract!Init
  <2>1. StateInit => ReadSafe \in Dicts
    BY StateInitInv, ReadSafeType DEF StateInv
  <2> QED
    BY <2>1 DEF Abstract!Init, Abstract!Dicts, Abstract!Vals, Dicts, Vals
<1>2. Orderly /\ [StateNext]_stateVars => Orderly'
  <2> SUFFICES ASSUME Orderly, [StateNext]_stateVars PROVE Orderly'
    OBVIOUS
  <2>1. UNCHANGED mode
    BY StepsTheLock DEF Next, Acquire, Open, Lock, Timeout, Unlink, Reopen,
       LockReopened, LockRefused, Release, Crash, RemoveLockFile, vars
  <2>2. UNCHANGED life
    BY DEF StateNext, StateStep, Begin, Enter, ReadState, WriteState, WriteFails,
           Leave, InitCheck, InitWrite, RemoveStateFile, Die, fileVars, stateVars
  <2> QED
    BY <2>1, <2>2 DEF Orderly, Unbreakable
<1>3. StateInv /\ Orderly /\ [StateNext]_stateVars => [Abstract!Next]_ReadSafe
  BY StepIsUpdate
<1> QED
  BY <1>1, <1>2, <1>3, StateInitInv, StateStepInv, PTL DEF StateSpec, Abstract!Spec
=============================================================================
