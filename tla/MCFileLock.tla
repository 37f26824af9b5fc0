----------------------------- MODULE MCFileLock -----------------------------
(* FileLock for TLC: which modes a run checks. *)
EXTENDS FileLock

AllModes == ModeType

(* StateManager._lock on POSIX: the defaults of FileLock.                  *)
PosixDefault == {[breaks |-> TRUE, unlinkOpen |-> TRUE, removed |-> FALSE]}
=============================================================================
