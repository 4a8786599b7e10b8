---------------------------- MODULE CommandLock ----------------------------
(***************************************************************************)
(* The stop files and the advisory lock files of one stanza on one host    *)
(* (pgbr-command/src/lock.rs), and how commands use them: probe the stop   *)
(* files, take one non-blocking flock per lock file, run, and drop the     *)
(* handles.  A lock file is a directory entry that names an inode; flock   *)
(* locks the inode, and removing the entry leaves the inode alive as long  *)
(* as a process has it open.  Every system call is an action of its own,   *)
(* because nothing but these calls keeps two commands apart.               *)
(***************************************************************************)
EXTENDS Naturals, FiniteSets

CONSTANTS
  Proc,     \* pgbackrust processes on this host
  Inode,    \* inodes the lock directory may use
  Cmd,      \* the commands the processes may run, a subset of Command
  StopFile, \* the stop files the operator writes and removes
  NoInode,  \* no directory entry, no open descriptor
  NoProc    \* nobody holds the flock

Name == {"archive", "backup"}
Command == {"archive", "backup", "expire", "stanza", "delete"}

ASSUME CmdAssumption == Cmd \subseteq Command
ASSUME StopFileAssumption == StopFile \subseteq {"stanza", "all"}
ASSUME NoInodeAssumption == NoInode \notin Inode
ASSUME NoProcAssumption == NoProc \notin Proc

VARIABLES
  stopFiles,  \* the stop files present in the lock path
  entry,      \* entry[n]: the inode <stanza>-n.lock names
  flock,      \* flock[i]: the process that holds the flock of inode i
  pc,         \* pc[p]: where process p is
  cmd,        \* cmd[p]: the command p runs
  fd,         \* fd[p][n]: the inode p has open for lock file n
  raced,      \* history: lock files unlinked while another process had them open
  since       \* history: stop files present ever since p's command began

vars == <<stopFiles, entry, flock, pc, cmd, fd, raced, since>>

\* The lock files a command takes; "archive" comes first when it takes both.
lock_type_names(c) ==
  IF c = "archive" THEN {"archive"}
  ELSE IF c \in {"stanza", "delete"} THEN Name
  ELSE {"backup"}

\* What the command does with is_stopped before it takes its locks.
Refuses(c) == c \in {"archive", "backup"}
Requires(c) == c = "delete"

PC == {"idle", "probe_stanza", "probe_all", "open", "lock", "run", "drop", "unlink"}
NoFds == [n \in Name |-> NoInode]

Init ==
  /\ stopFiles = {}
  /\ entry = NoFds
  /\ flock = [i \in Inode |-> NoProc]
  /\ pc = [p \in Proc |-> "idle"]
  /\ cmd \in [Proc -> Cmd]
  /\ fd = [p \in Proc |-> NoFds]
  /\ raced = {}
  /\ since = [p \in Proc |-> {}]

-----------------------------------------------------------------------------
(* The operator: stop publishes a stop file with a rename, start removes it. *)

\* Mutant: the rename is left out, and the stop file keeps its temporary name.
stop_unpublished(f) ==
  /\ stopFiles' = stopFiles \union {"tmp"}
  /\ UNCHANGED <<entry, flock, pc, cmd, fd, raced, since>>

stop(f) ==
  /\ stopFiles' = stopFiles \union {f}
  /\ UNCHANGED <<entry, flock, pc, cmd, fd, raced, since>>

start(f) ==
  /\ stopFiles' = stopFiles \ {f}
  /\ since' = [p \in Proc |-> since[p] \ {f}]
  /\ UNCHANGED <<entry, flock, pc, cmd, fd, raced>>

-----------------------------------------------------------------------------
(* A command.                                                              *)

Begin(p, c) ==
  /\ pc[p] = "idle"
  /\ cmd' = [cmd EXCEPT ![p] = c]
  /\ since' = [since EXCEPT ![p] = stopFiles]
  /\ pc' = [pc EXCEPT ![p] = IF Refuses(c) \/ Requires(c) THEN "probe_stanza" ELSE "open"]
  /\ UNCHANGED <<stopFiles, entry, flock, fd, raced>>

\* Where p goes once is_stopped has its answer.
Gate(p, stopped) ==
  pc' = [pc EXCEPT ![p] = IF stopped <=> Requires(cmd[p]) THEN "open" ELSE "idle"]

\* Mutant: is_stopped looks at the stanza's stop file only.
ProbeStanza_only(p) ==
  /\ pc[p] = "probe_stanza"
  /\ Gate(p, "stanza" \in stopFiles)
  /\ UNCHANGED <<stopFiles, entry, flock, cmd, fd, raced, since>>

\* is_stopped probes the two files one after the other.
ProbeStanza(p) ==
  /\ pc[p] = "probe_stanza"
  /\ IF "stanza" \in stopFiles
     THEN Gate(p, TRUE)
     ELSE pc' = [pc EXCEPT ![p] = "probe_all"]
  /\ UNCHANGED <<stopFiles, entry, flock, cmd, fd, raced, since>>

ProbeAll(p) ==
  /\ pc[p] = "probe_all"
  /\ Gate(p, "all" \in stopFiles)
  /\ UNCHANGED <<stopFiles, entry, flock, cmd, fd, raced, since>>

\* The lock file lock_acquire is at: archive before backup.
Target(p) ==
  IF "archive" \in lock_type_names(cmd[p])
     /\ (fd[p]["archive"] = NoInode \/ flock[fd[p]["archive"]] # p)
  THEN "archive" ELSE "backup"

\* An inode no directory entry names and no process has open.
Free(i) ==
  /\ \A n \in Name : entry[n] # i
  /\ \A p \in Proc, n \in Name : fd[p][n] # i

\* The inode a new file gets.  Which one it is makes no difference.
NewInode == CHOOSE i \in Inode : Free(i)

\* acquire_one opens the file, creating it when it does not exist.
Open(p) ==
  /\ pc[p] = "open"
  /\ LET n == Target(p)
     IN \E i \in Inode :
          /\ IF entry[n] = NoInode THEN Free(i) /\ i = NewInode ELSE i = entry[n]
          /\ entry' = [entry EXCEPT ![n] = i]
          /\ fd' = [fd EXCEPT ![p][n] = i]
  /\ pc' = [pc EXCEPT ![p] = "lock"]
  /\ UNCHANGED <<stopFiles, flock, cmd, raced, since>>

\* Mutant: the handles taken before the failure are forgotten, not dropped.
Abandon_leaks(p, n) ==
  /\ fd' = [fd EXCEPT ![p][n] = NoInode]
  /\ pc' = [pc EXCEPT ![p] = "idle"]

\* p gives up on lock file n: the file is closed without being removed, and
\* the handles taken before it drop.
Abandon(p, n) ==
  /\ fd' = [fd EXCEPT ![p][n] = NoInode]
  /\ pc' = [pc EXCEPT ![p] =
              IF \E m \in Name \ {n} : fd[p][m] # NoInode THEN "drop" ELSE "idle"]

\* Mutant: the lock is taken shared.
Lock_shared(p) ==
  /\ pc[p] = "lock"
  /\ LET n == Target(p)
     IN /\ flock' = [flock EXCEPT ![fd[p][n]] = p]
        /\ pc' = [pc EXCEPT ![p] =
                    IF n = "archive" /\ "backup" \in lock_type_names(cmd[p])
                    THEN "open" ELSE "run"]
  /\ UNCHANGED <<stopFiles, entry, cmd, fd, raced, since>>

\* try_lock_exclusive succeeds and the pid is written.
Lock(p) ==
  /\ pc[p] = "lock"
  /\ LET n == Target(p)
     IN /\ flock[fd[p][n]] = NoProc
        /\ flock' = [flock EXCEPT ![fd[p][n]] = p]
        /\ pc' = [pc EXCEPT ![p] =
                    IF n = "archive" /\ "backup" \in lock_type_names(cmd[p])
                    THEN "open" ELSE "run"]
  /\ UNCHANGED <<stopFiles, entry, cmd, fd, raced, since>>

\* Mutant: the lock is awaited.
WouldBlock_waits(p) == FALSE

\* try_lock_exclusive reports WouldBlock.
WouldBlock(p) ==
  /\ pc[p] = "lock"
  /\ flock[fd[p][Target(p)]] # NoProc
  /\ Abandon(p, Target(p))
  /\ UNCHANGED <<stopFiles, entry, flock, cmd, raced, since>>

\* The open fails, or the flock or the pid write does with any other error.
AcquireFails(p) ==
  /\ pc[p] \in {"open", "lock"}
  /\ Abandon(p, Target(p))
  /\ UNCHANGED <<stopFiles, entry, flock, cmd, raced, since>>

\* The command returns, with or without an error.
Finish(p) ==
  /\ pc[p] = "run"
  /\ pc' = [pc EXCEPT ![p] = "drop"]
  /\ UNCHANGED <<stopFiles, entry, flock, cmd, fd, raced, since>>

\* The handle being dropped: they drop in the order they were taken.
Dropping(p) == IF fd[p]["archive"] # NoInode THEN "archive" ELSE "backup"

\* LockHandle::drop, first half: release the flock ...
Unlock(p) ==
  /\ pc[p] = "drop"
  /\ flock' = [flock EXCEPT ![fd[p][Dropping(p)]] = NoProc]
  /\ pc' = [pc EXCEPT ![p] = "unlink"]
  /\ UNCHANGED <<stopFiles, entry, cmd, fd, raced, since>>

\* ... second half: remove the file by its path, whatever inode that names by
\* now, and close the descriptor.
Unlink(p) ==
  /\ pc[p] = "unlink"
  /\ LET n == Dropping(p)
     IN /\ entry' = [entry EXCEPT ![n] = NoInode]
        /\ raced' = IF \E q \in Proc \ {p} : entry[n] # NoInode /\ fd[q][n] = entry[n]
                    THEN raced \union {n} ELSE raced
        /\ Abandon(p, n)
  /\ UNCHANGED <<stopFiles, flock, cmd, since>>

\* The process dies: the kernel closes its files, which frees its flocks, and
\* the lock files stay behind.
Crash(p) ==
  /\ pc[p] # "idle"
  /\ pc' = [pc EXCEPT ![p] = "idle"]
  /\ fd' = [fd EXCEPT ![p] = NoFds]
  /\ flock' = [i \in Inode |-> IF flock[i] = p THEN NoProc ELSE flock[i]]
  /\ UNCHANGED <<stopFiles, entry, cmd, raced, since>>

Step(p) ==
  \/ ProbeStanza(p) \/ ProbeAll(p)
  \/ Open(p) \/ Lock(p) \/ WouldBlock(p)
  \/ Finish(p) \/ Unlock(p) \/ Unlink(p)

Next ==
  \/ \E f \in StopFile : stop(f) \/ start(f)
  \/ \E p \in Proc : Step(p) \/ AcquireFails(p) \/ Crash(p) \/ \E c \in Cmd : Begin(p, c)

Spec == Init /\ [][Next]_vars

\* A process the operating system schedules takes its next system call.
\* Nothing is assumed of errors, crashes, new commands or the operator.
FairSpec == Spec /\ \A p \in Proc : WF_vars(Step(p))

-----------------------------------------------------------------------------
(* Properties.                                                             *)

\* Every variable stays in its domain: the stop files that stop publishes have
\* the names is_stopped probes, and every lock file names an inode or nothing.
TypeOK ==
  /\ stopFiles \subseteq StopFile
  /\ entry \in [Name -> Inode \union {NoInode}]
  /\ flock \in [Inode -> Proc \union {NoProc}]
  /\ pc \in [Proc -> PC]
  /\ cmd \in [Proc -> Cmd]
  /\ fd \in [Proc -> [Name -> Inode \union {NoInode}]]
  /\ raced \subseteq Name
  /\ since \in [Proc -> SUBSET StopFile]

\* p runs its command under lock file n.
Runs(p, n) == pc[p] = "run" /\ n \in lock_type_names(cmd[p])

\* lock.rs, module comment: a command "takes a non-blocking exclusive flock",
\* so two commands that take the same lock file never run together.
MutualExclusion ==
  \A p, q \in Proc, n \in Name : p # q => ~(Runs(p, n) /\ Runs(q, n))

\* The flock keeps two commands under the same lock file apart in every
\* behaviour in which LockHandle::drop never removed that file while another
\* process had it open: the unlock-then-remove window is the only hole.
ExclusiveUnlessRaced ==
  \A p, q \in Proc, n \in Name :
    p # q /\ n \notin raced => ~(Runs(p, n) /\ Runs(q, n))

\* A flock is held only by a live process that still has the inode open, and
\* an idle process has nothing open: no error path of lock_acquire, and no
\* crash, leaves a lock behind that a later command would block on.
LocksHaveLiveOwners ==
  /\ \A i \in Inode : flock[i] # NoProc => \E n \in Name : fd[flock[i]][n] = i
  /\ \A p \in Proc : pc[p] \in {"idle", "probe_stanza", "probe_all"} => fd[p] = NoFds

\* The command has passed its stop gate.
PastGate(p) == pc[p] \in {"open", "lock", "run"}

\* A command that refuses to run while stopped never gets past is_stopped when
\* either stop file was there before it began and stayed, whichever of the two
\* files it is and whatever other stop and start commands run meanwhile.
StopBlocks ==
  \A p \in Proc : Refuses(cmd[p]) /\ PastGate(p) => since[p] = {}

\* The acquisition is non-blocking: commands that compete for one lock file or
\* for both never wait for one another, so each of them ends.
CommandsEnd == \A p \in Proc : pc[p] # "idle" ~> pc[p] = "idle"
=============================================================================
