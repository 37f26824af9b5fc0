------------------------------ MODULE FileLock ------------------------------
(***************************************************************************)
(* core.common.FileLock: the advisory file lock under every read-modify-   *)
(* write of hook state.  A hook process opens the lock path, tries a       *)
(* non-blocking lock on the inode it got, and after its deadline either    *)
(* gives up (break_on_timeout=False) or "breaks" the lock: it unlinks the  *)
(* path, opens whatever inode is there now and tries that one once.        *)
(*                                                                         *)
(* The lock belongs to the INODE, the path is only how a process finds     *)
(* one; everything that can go wrong comes from the two drifting apart.    *)
(* The fcntl and the msvcrt implementation differ only in whether a path   *)
(* that somebody has open can be unlinked.                                 *)
(***************************************************************************)
EXTENDS FiniteSets

CONSTANTS
  Procs,    (* hook processes contending for one lock path               *)
  Inodes,   (* inode identities; a freed one is used again               *)
  NoInode,  (* no inode: the path does not exist, or nothing is open     *)
  NoProc,   (* nobody holds the inode's lock                             *)
  Modes     (* how this path is locked; see ModeType                     *)

(* breaks:    break_on_timeout, TRUE for all callers but the opencode      *)
(*            handler lock                                                 *)
(* unlinkOpen: POSIX lets an open file be unlinked, Windows refuses        *)
(* removed:   some caller deletes the lock file while others may use it    *)
ModeType == [breaks : BOOLEAN, unlinkOpen : BOOLEAN, removed : BOOLEAN]

ASSUME LockAssumption ==
  /\ NoInode \notin Inodes
  /\ NoProc \notin Procs
  /\ Modes \subseteq ModeType

VARIABLES
  mode,    (* the mode of this path, fixed by its callers                *)
  path,    (* the inode lock_path names                                  *)
  holder,  (* per inode, the process whose descriptor holds its lock     *)
  fd,      (* per process, the inode self._fd has open                   *)
  pc       (* per process, how far __enter__ has come                    *)

vars == <<mode, path, holder, fd, pc>>

PC == {"idle", "trying", "expired", "unlinked", "reopened", "held"}

-----------------------------------------------------------------------------

Free(i) == i # path /\ \A q \in Procs : fd[q] # i

(* open(lock_path, "w") creates the file when the path is missing.         *)
OpenPath(p) ==
  \E i \in Inodes :
    /\ IF path = NoInode THEN Free(i) ELSE i = path
    /\ path' = i
    /\ fd' = [fd EXCEPT ![p] = i]

(* Closing the descriptor drops the lock it holds.                         *)
CloseFd(p) ==
  /\ fd' = [fd EXCEPT ![p] = NoInode]
  /\ holder' = [i \in Inodes |-> IF holder[i] = p THEN NoProc ELSE holder[i]]

CanUnlink == mode.unlinkOpen \/ \A q \in Procs : fd[q] # path

Init ==
  /\ mode \in Modes
  /\ path = NoInode
  /\ holder = [i \in Inodes |-> NoProc]
  /\ fd = [p \in Procs |-> NoInode]
  /\ pc = [p \in Procs |-> "idle"]

Open(p) ==
  /\ pc[p] = "idle"
  /\ OpenPath(p)
  /\ pc' = [pc EXCEPT ![p] = "trying"]
  /\ UNCHANGED <<mode, holder>>

Lock(p) ==
  /\ pc[p] = "trying"
  /\ holder[fd[p]] = NoProc
  /\ holder' = [holder EXCEPT ![fd[p]] = p]
  /\ pc' = [pc EXCEPT ![p] = "held"]
  /\ UNCHANGED <<mode, path, fd>>

(* Mutants of Timeout: the descriptor stays open; the option is ignored;   *)
(* a caller that may not break the lock has no deadline.                   *)
TimeoutLeaksFd(p) ==
  /\ pc[p] = "trying"
  /\ holder[fd[p]] # NoProc
  /\ pc' = [pc EXCEPT ![p] = IF mode.breaks THEN "expired" ELSE "idle"]
  /\ UNCHANGED <<mode, path, holder, fd>>

TimeoutAlwaysBreaks(p) ==
  /\ pc[p] = "trying"
  /\ holder[fd[p]] # NoProc
  /\ CloseFd(p)
  /\ pc' = [pc EXCEPT ![p] = "expired"]
  /\ UNCHANGED <<mode, path>>

TimeoutOnlyToBreak(p) == mode.breaks /\ TimeoutAlwaysBreaks(p)

(* The non-blocking lock failed and the deadline has passed: the file is   *)
(* closed, then TimeoutError leaves __enter__ or the lock gets broken.     *)
(* Before the deadline a failed try only sleeps and changes nothing.       *)
Timeout(p) ==
  /\ pc[p] = "trying"
  /\ holder[fd[p]] # NoProc
  /\ CloseFd(p)
  /\ pc' = [pc EXCEPT ![p] = IF mode.breaks THEN "expired" ELSE "idle"]
  /\ UNCHANGED <<mode, path>>

(* lock_path.unlink(missing_ok=True); a refused unlink is swallowed.       *)
Unlink(p) ==
  /\ pc[p] = "expired"
  /\ path' = IF CanUnlink THEN NoInode ELSE path
  /\ pc' = [pc EXCEPT ![p] = "unlinked"]
  /\ UNCHANGED <<mode, holder, fd>>

Reopen(p) ==
  /\ pc[p] = "unlinked"
  /\ OpenPath(p)
  /\ pc' = [pc EXCEPT ![p] = "reopened"]
  /\ UNCHANGED <<mode, holder>>

LockReopened(p) ==
  /\ pc[p] = "reopened"
  /\ holder[fd[p]] = NoProc
  /\ holder' = [holder EXCEPT ![fd[p]] = p]
  /\ pc' = [pc EXCEPT ![p] = "held"]
  /\ UNCHANGED <<mode, path, fd>>

(* The one try on the reopened file fails: BlockingIOError leaves          *)
(* __enter__, and the dropped lock object closes its file.                 *)
LockRefused(p) ==
  /\ pc[p] = "reopened"
  /\ holder[fd[p]] # NoProc
  /\ CloseFd(p)
  /\ pc' = [pc EXCEPT ![p] = "idle"]
  /\ UNCHANGED <<mode, path>>

(* Mutant of Release: the file is dropped without unlocking the inode.     *)
ReleaseKeepsLock(p) ==
  /\ pc[p] = "held"
  /\ fd' = [fd EXCEPT ![p] = NoInode]
  /\ pc' = [pc EXCEPT ![p] = "idle"]
  /\ UNCHANGED <<mode, path, holder>>

Release(p) ==
  /\ pc[p] = "held"
  /\ CloseFd(p)
  /\ pc' = [pc EXCEPT ![p] = "idle"]
  /\ UNCHANGED <<mode, path>>

(* The process dies anywhere; the kernel closes what it had open.          *)
Crash(p) ==
  /\ pc[p] # "idle"
  /\ CloseFd(p)
  /\ pc' = [pc EXCEPT ![p] = "idle"]
  /\ UNCHANGED <<mode, path>>

(* Gemini's SessionEnd and the adapters' stale-state sweeps unlink the     *)
(* lock file without holding it.                                           *)
RemoveLockFile ==
  /\ mode.removed
  /\ path # NoInode
  /\ CanUnlink
  /\ path' = NoInode
  /\ UNCHANGED <<mode, holder, fd, pc>>

(* One turn of the loop in __enter__ that gets somewhere.                  *)
Acquire(p) ==
  Lock(p) \/ Timeout(p) \/ Unlink(p) \/ Reopen(p) \/ LockReopened(p) \/ LockRefused(p)

Next ==
  \/ \E p \in Procs : Open(p) \/ Acquire(p) \/ Release(p) \/ Crash(p)
  \/ RemoveLockFile

Spec == Init /\ [][Next]_vars

(* A process inside __enter__ keeps running; nobody has to open the lock,  *)
(* and a holder may keep it for ever (a hung hook).                        *)
FairSpec == Spec /\ \A p \in Procs : WF_vars(Acquire(p))

-----------------------------------------------------------------------------

(* The state is well formed: a process has a file open exactly where       *)
(* _acquire_fcntl and _acquire_msvcrt have one, and the inode the path     *)
(* names, every descriptor and every lock holder exist.                    *)
TypeOK ==
  /\ mode \in Modes
  /\ path \in Inodes \cup {NoInode}
  /\ holder \in [Inodes -> Procs \cup {NoProc}]
  /\ fd \in [Procs -> Inodes \cup {NoInode}]
  /\ pc \in [Procs -> PC]
  /\ \A p \in Procs : fd[p] = NoInode <=> pc[p] \in {"idle", "expired", "unlinked"}

(* A lock is held by exactly the processes inside the `with` block: no     *)
(* early exit, timeout, refusal or crash leaves an inode locked behind it, *)
(* whatever has happened to the path meanwhile.                            *)
NoStrandedLock ==
  \A p \in Procs, i \in Inodes : holder[i] = p <=> pc[p] = "held" /\ fd[p] = i

(* The modes in which the path cannot drift away from an inode in use.     *)
Unbreakable == mode.unlinkOpen => ~mode.breaks /\ ~mode.removed

(* At most one process is inside the `with` block, as long as nothing      *)
(* unlinks the path of an open file: with break_on_timeout=False on POSIX, *)
(* and on Windows even with it, because the unlink that breaks the lock is *)
(* refused while the holder has the file open.                             *)
MutualExclusion ==
  Unbreakable => \A p, q \in Procs : pc[p] = "held" /\ pc[q] = "held" => p = q

(* No hook waits for ever behind another one that hangs in its section:    *)
(* the deadline turns every wait into a lock, a break or an error.         *)
NoEndlessWait ==
  \A p \in Procs : pc[p] = "trying" ~> pc[p] \in {"held", "idle"}
=============================================================================
