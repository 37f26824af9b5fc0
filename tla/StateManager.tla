---------------------------- MODULE StateManager ----------------------------
(***************************************************************************)
(* core.common.StateManager: one session's state file, shared by the hook  *)
(* processes of that session.  set, delete and increment read the file,    *)
(* change it and replace it while they hold the session's FileLock;        *)
(* init_state and the deletion of the file at the end of a session do not  *)
(* take the lock.                                                          *)
(***************************************************************************)
EXTENDS FileLock, StateData

CONSTANTS
  Absent,    (* the state file does not exist                            *)
  Corrupt,   (* it exists but is not a JSON object                       *)
  MaxOps     (* bound on the number of updates begun                     *)

VARIABLES
  life,   (* which unlocked uses of the file this behaviour has, LifeType *)
  file,   (* the state file                                              *)
  stage,  (* per process, how far its StateManager call has come         *)
  op,     (* per process, the update it was asked for                    *)
  buf,    (* per process, the dict it read under the lock                *)
  begun   (* number of updates begun                                     *)

fileVars == <<life, file, stage, op, buf, begun>>
stateVars == <<vars, fileVars>>

(* fresh: hooks find no usable file at first.                              *)
(* ends:  a SessionEnd hook may delete the file.                           *)
LifeType == [fresh : BOOLEAN, ends : BOOLEAN]

Stages == {"out", "lock", "read", "done", "create"}

ASSUME FileAssumption ==
  /\ Absent \notin Dicts
  /\ Corrupt \notin Dicts
  /\ Ops # {}
  /\ MaxOps \in Nat

(* _read_safe: a file that cannot be read is an empty dict.                *)
ReadSafe == IF file \in {Absent, Corrupt} THEN Empty ELSE file

-----------------------------------------------------------------------------

StateInit ==
  /\ Init
  /\ life \in LifeType
  /\ file \in IF life.fresh THEN {Absent, Corrupt} ELSE {Empty}
  /\ stage = [p \in Procs |-> "out"]
  /\ op = [p \in Procs |-> CHOOSE o \in Ops : TRUE]
  /\ buf = [p \in Procs |-> Empty]
  /\ begun = 0

Goto(p, s) == stage' = [stage EXCEPT ![p] = s]

(* The dict a process has read is a local variable of the call.            *)
Forget(p) == buf' = [buf EXCEPT ![p] = Empty]

(* set, delete and increment begin: `with self._lock()`.                   *)
Begin(p, o) ==
  /\ stage[p] = "out"
  /\ begun < MaxOps
  /\ Open(p)
  /\ Goto(p, "lock")
  /\ op' = [op EXCEPT ![p] = o]
  /\ begun' = begun + 1
  /\ UNCHANGED <<life, file, buf>>

(* Mutant of Enter: the lock swallows its error and the block runs anyway. *)
EnterWithoutLock(p) ==
  /\ stage[p] = "lock"
  /\ Acquire(p)
  /\ Goto(p, IF pc'[p] = "idle" THEN "read" ELSE "lock")
  /\ UNCHANGED <<life, file, op, buf, begun>>

(* A TimeoutError or BlockingIOError from the lock is logged by the        *)
(* caller's except clause and the update is dropped.                       *)
Enter(p) ==
  /\ stage[p] = "lock"
  /\ Acquire(p)
  /\ Goto(p, IF pc'[p] = "idle" THEN "out" ELSE "lock")
  /\ UNCHANGED <<life, file, op, buf, begun>>

(* Mutant of ReadState: the lock is held for the read only.                *)
ReadAndRelease(p) ==
  /\ stage[p] = "lock"
  /\ buf' = [buf EXCEPT ![p] = ReadSafe]
  /\ Release(p)
  /\ Goto(p, "read")
  /\ UNCHANGED <<life, file, op, begun>>

ReadState(p) ==
  /\ stage[p] = "lock"
  /\ pc[p] = "held"
  /\ buf' = [buf EXCEPT ![p] = ReadSafe]
  /\ Goto(p, "read")
  /\ UNCHANGED <<vars, life, file, op, begun>>

(* _write replaces the file by rename: it holds the old dict or the new    *)
(* one, never a part of either.                                            *)
WriteState(p) ==
  /\ stage[p] = "read"
  /\ file' = Effect(op[p], buf[p])
  /\ Goto(p, "done")
  /\ Forget(p)
  /\ UNCHANGED <<vars, life, op, begun>>

(* The temporary file cannot be written or renamed: it is removed and the  *)
(* error is logged.                                                        *)
WriteFails(p) ==
  /\ stage[p] = "read"
  /\ Goto(p, "done")
  /\ Forget(p)
  /\ UNCHANGED <<vars, life, file, op, begun>>

Leave(p) ==
  /\ stage[p] = "done"
  /\ Release(p)
  /\ Goto(p, "out")
  /\ UNCHANGED <<life, file, op, buf, begun>>

(* init_state looks at the file without the lock...                        *)
InitCheck(p) ==
  /\ stage[p] = "out"
  /\ file \in {Absent, Corrupt}
  /\ Goto(p, "create")
  /\ UNCHANGED <<vars, life, file, op, buf, begun>>

(* ... and then writes an empty dict, whatever is there by now.            *)
InitWrite(p) ==
  /\ stage[p] = "create"
  /\ file' = Empty
  /\ Goto(p, "out")
  /\ UNCHANGED <<vars, life, op, buf, begun>>

(* SessionEnd unlinks the state file without the lock.                     *)
RemoveStateFile ==
  /\ life.ends
  /\ file # Absent
  /\ file' = Absent
  /\ UNCHANGED <<vars, life, stage, op, buf, begun>>

Die(p) ==
  /\ stage[p] # "out"
  /\ IF pc[p] = "idle" THEN UNCHANGED vars ELSE Crash(p)
  /\ Goto(p, "out")
  /\ Forget(p)
  /\ UNCHANGED <<life, file, op, begun>>

StateStep(p) ==
  \/ \E o \in Ops : Begin(p, o)
  \/ Enter(p) \/ ReadState(p) \/ WriteState(p) \/ WriteFails(p) \/ Leave(p)
  \/ InitCheck(p) \/ InitWrite(p) \/ Die(p)

StateNext ==
  \/ \E p \in Procs : StateStep(p)
  \/ RemoveStateFile
  \/ RemoveLockFile /\ UNCHANGED fileVars

StateSpec == StateInit /\ [][StateNext]_stateVars

-----------------------------------------------------------------------------

(* The state is well formed, and an update touches the file only between   *)
(* taking the lock and releasing it.                                       *)
StateTypeOK ==
  /\ TypeOK
  /\ life \in LifeType
  /\ file \in Dicts \cup {Absent, Corrupt}
  /\ stage \in [Procs -> Stages]
  /\ op \in [Procs -> Ops]
  /\ buf \in [Procs -> Dicts]
  /\ begun \in Nat
  /\ \A p \in Procs :
       /\ stage[p] \in {"read", "done"} => pc[p] = "held"
       /\ stage[p] \in {"out", "create"} => pc[p] = "idle"

(* Nothing but locked updates uses the file, and the lock excludes.        *)
Orderly == Unbreakable /\ ~life.fresh /\ ~life.ends

Abstract == INSTANCE AtomicState WITH dict <- ReadSafe

(* No lost update: whatever changes the stored dict is one update applied  *)
(* to the dict its predecessor left, however the reads and the writes of   *)
(* the hooks interleave and wherever one of them dies.                     *)
AtomicUpdates == [][Orderly => Abstract!Next]_ReadSafe

(* init_state's docstring: "If file doesn't exist, create with empty dict. *)
(* If file exists but is corrupted, overwrite with empty dict."  It never  *)
(* discards what an update has stored.                                     *)
InitKeepsContent ==
  [][\A p \in Procs : InitWrite(p) => UNCHANGED ReadSafe]_stateVars
=============================================================================
