------------------------- MODULE CommandLockProofs -------------------------
(***************************************************************************)
(* What CommandLock guarantees for any number of processes, inodes and     *)
(* commands.                                                               *)
(***************************************************************************)
EXTENDS CommandLock, TLAPS

Opened(p, n) == fd[p][n] # NoInode
Holds(p, n) == fd[p][n] \in Inode /\ flock[fd[p][n]] = p

\* A lock file that was never unlinked under another process is the one file
\* every process that opened it by this name has open.
OpenIsLinked ==
  \A p \in Proc, n \in Name : n \notin raced /\ Opened(p, n) => fd[p][n] = entry[n]

\* An inode belongs to one lock file.
OneNameEach ==
  \A n, m \in Name : n # m =>
    /\ entry[n] # NoInode => entry[n] # entry[m]
    /\ \A p \in Proc : Opened(p, n) => fd[p][n] # entry[m]
    /\ \A p, q \in Proc : Opened(p, n) => fd[p][n] # fd[q][m]

\* What a process has open and locked at each point of its command.
Progress(p) ==
  /\ pc[p] \in {"idle", "probe_stanza", "probe_all"} => \A n \in Name : ~Opened(p, n)
  /\ pc[p] = "open" =>
       /\ ~Opened(p, "backup")
       /\ Opened(p, "archive") => Holds(p, "archive") /\ lock_type_names(cmd[p]) = Name
  /\ pc[p] = "lock" =>
       LET t == Target(p)
       IN /\ t \in lock_type_names(cmd[p])
          /\ Opened(p, t) /\ ~Holds(p, t)
          /\ t = "archive" => ~Opened(p, "backup")
          /\ t = "backup" =>
               /\ Opened(p, "archive") => Holds(p, "archive")
               /\ "archive" \in lock_type_names(cmd[p]) => Holds(p, "archive")
  /\ pc[p] = "run" => \A n \in Name :
       /\ n \in lock_type_names(cmd[p]) => Holds(p, n)
       /\ Opened(p, n) => Holds(p, n)
  /\ pc[p] = "drop" =>
       /\ Opened(p, Dropping(p))
       /\ \A n \in Name : Opened(p, n) => Holds(p, n)
  /\ pc[p] = "unlink" =>
       /\ Opened(p, Dropping(p)) /\ ~Holds(p, Dropping(p))
       /\ \A n \in Name \ {Dropping(p)} : Opened(p, n) => Holds(p, n)

Owners == \A i \in Inode : flock[i] # NoProc => \E n \in Name : fd[flock[i]][n] = i

\* While a command that refuses to run when stopped is at its gate, the stop
\* files it has already looked for are not among those present since it began.
GateProgress ==
  \A p \in Proc : Refuses(cmd[p]) =>
    /\ pc[p] \in {"probe_stanza", "probe_all"} => since[p] \subseteq stopFiles
    /\ pc[p] = "probe_all" => "stanza" \notin since[p]
    /\ PastGate(p) => since[p] = {}

IndInv ==
  /\ TypeOK
  /\ OpenIsLinked
  /\ OneNameEach
  /\ \A p \in Proc : Progress(p)
  /\ Owners
  /\ GateProgress

-----------------------------------------------------------------------------
(* Lemmas on the parts of a state a step leaves alone.                     *)

\* The lock files a command takes are never none.
LEMMA NamesLemma ==
  ASSUME NEW c \in Command
  PROVE  /\ lock_type_names(c) \subseteq Name
         /\ "archive" \notin lock_type_names(c) => lock_type_names(c) = {"backup"}
         /\ "backup" \notin lock_type_names(c) => lock_type_names(c) = {"archive"}
  BY DEF lock_type_names, Name, Command

\* A process whose command, descriptors and flocks a step leaves alone keeps
\* its progress.
LEMMA FrameLemma ==
  ASSUME NEW q \in Proc, TypeOK, TypeOK', Progress(q),
         pc'[q] = pc[q], cmd'[q] = cmd[q], fd'[q] = fd[q],
         \A n \in Name : Holds(q, n)' <=> Holds(q, n)
  PROVE  Progress(q)'
  <1>1. \A n \in Name : Opened(q, n)' <=> Opened(q, n)
    BY DEF Opened
  <1>2. Target(q)' = Target(q) /\ Target(q) \in Name
    BY NoInodeAssumption DEF Target, Holds, TypeOK, Name
  <1>3. Dropping(q)' = Dropping(q) /\ Dropping(q) \in Name
    BY DEF Dropping, Name
  <1> QED
    BY <1>1, <1>2, <1>3 DEF Progress, Name

-----------------------------------------------------------------------------
(* The invariant is inductive.                                             *)

LEMMA InitInv == Init => IndInv
  <1> SUFFICES ASSUME Init PROVE IndInv
    OBVIOUS
  <1> USE CmdAssumption, NoInodeAssumption, NoProcAssumption
  <1>1. TypeOK
    BY DEF Init, TypeOK, NoFds, PC
  <1>2. \A p \in Proc : pc[p] = "idle" /\ fd[p] = NoFds
    BY DEF Init
  <1>3. \A p \in Proc, n \in Name : ~Opened(p, n)
    BY <1>2 DEF Opened, NoFds
  <1>4. OpenIsLinked /\ OneNameEach /\ Owners
    BY <1>3 DEF Init, OpenIsLinked, OneNameEach, Owners, NoFds
  <1>5. \A p \in Proc : Progress(p)
    BY <1>2, <1>3 DEF Progress
  <1>6. GateProgress
    BY <1>2 DEF GateProgress, PastGate
  <1> QED
    BY <1>1, <1>4, <1>5, <1>6 DEF IndInv

\* The operator's commands touch nothing but the stop files.
LEMMA OperatorStep ==
  ASSUME IndInv, NEW f \in StopFile, stop(f) \/ start(f)
  PROVE  IndInv'
  <1>1. TypeOK'
    BY DEF IndInv, TypeOK, stop, start
  <1>2. UNCHANGED <<entry, flock, pc, cmd, fd, raced>>
    BY DEF stop, start
  <1>3. OpenIsLinked' /\ OneNameEach' /\ Owners'
    BY <1>2 DEF IndInv, OpenIsLinked, OneNameEach, Owners, Opened
  <1>4. ASSUME NEW p \in Proc PROVE Progress(p)'
    BY <1>1, <1>2, FrameLemma DEF IndInv, Holds
  <1>5. GateProgress'
    BY DEF IndInv, TypeOK, GateProgress, PastGate, stop, start
  <1> QED
    BY <1>1, <1>3, <1>4, <1>5 DEF IndInv

\* Beginning, passing the gate and finishing move pc alone.
LEMMA LocalStep ==
  ASSUME IndInv, NEW p \in Proc,
         \/ \E c \in Cmd : Begin(p, c)
         \/ ProbeStanza(p) \/ ProbeAll(p) \/ Finish(p)
  PROVE  IndInv'
  <1> USE CmdAssumption, NoInodeAssumption, NoProcAssumption, StopFileAssumption
  <1>1. TypeOK'
    <2>1. CASE \E c \in Cmd : Begin(p, c)
      BY <2>1 DEF IndInv, TypeOK, Begin, PC
    <2>2. CASE ProbeStanza(p)
      BY <2>2 DEF IndInv, TypeOK, ProbeStanza, Gate, PC
    <2>3. CASE ProbeAll(p)
      BY <2>3 DEF IndInv, TypeOK, ProbeAll, Gate, PC
    <2>4. CASE Finish(p)
      BY <2>4 DEF IndInv, TypeOK, Finish, PC
    <2> QED
      BY <2>1, <2>2, <2>3, <2>4
  <1>2. UNCHANGED <<entry, flock, fd, raced>> /\ \A q \in Proc \ {p} : pc'[q] = pc[q] /\ cmd'[q] = cmd[q]
    BY DEF IndInv, TypeOK, Begin, ProbeStanza, ProbeAll, Finish, Gate
  <1>3. OpenIsLinked' /\ OneNameEach' /\ Owners'
    BY <1>2 DEF IndInv, OpenIsLinked, OneNameEach, Owners, Opened
  <1>4. \A n \in Name, q \in Proc : (Opened(q, n)' <=> Opened(q, n)) /\ (Holds(q, n)' <=> Holds(q, n))
    BY <1>2 DEF Opened, Holds
  <1>5. ASSUME NEW q \in Proc PROVE Progress(q)'
    <2>1. CASE q # p
      BY <1>1, <1>2, <1>4, <2>1, FrameLemma DEF IndInv
    <2>2. CASE q = p
      <3>1. CASE Finish(p)
        <4>1. pc[p] = "run" /\ pc'[p] = "drop" /\ cmd'[p] = cmd[p]
          BY <3>1 DEF Finish, IndInv, TypeOK
        <4>2. lock_type_names(cmd[p]) \subseteq Name /\ lock_type_names(cmd[p]) # {}
          BY DEF IndInv, TypeOK, lock_type_names, Name, Command
        <4>3. Dropping(p)' = Dropping(p) /\ Opened(p, Dropping(p))
          BY <1>2, <4>1, <4>2 DEF Dropping, Opened, IndInv, Progress, Name, Holds
        <4> QED
          BY <1>2, <1>4, <2>2, <4>1, <4>3 DEF Progress, IndInv, Name, Dropping
      <3>2. CASE ~Finish(p)
        <4>1. /\ pc[p] \in {"idle", "probe_stanza", "probe_all"}
              /\ pc'[p] \in {"idle", "probe_stanza", "probe_all", "open"}
          BY <3>2 DEF IndInv, TypeOK, Begin, ProbeStanza, ProbeAll, Gate
        <4>2. \A n \in Name : ~Opened(p, n)'
          BY <1>4, <4>1 DEF IndInv, Progress
        <4> QED
          BY <2>2, <4>1, <4>2 DEF Progress, Name
      <3> QED
        BY <3>1, <3>2
    <2> QED
      BY <2>1, <2>2
  <1>6. GateProgress'
    <2> SUFFICES ASSUME NEW q \in Proc, Refuses(cmd'[q])
                 PROVE  /\ pc'[q] \in {"probe_stanza", "probe_all"} => since'[q] \subseteq stopFiles'
                        /\ pc'[q] = "probe_all" => "stanza" \notin since'[q]
                        /\ PastGate(q)' => since'[q] = {}
      BY DEF GateProgress
    <2> USE DEF IndInv, TypeOK, GateProgress, PastGate, Refuses, Requires
    <2>1. CASE \E c \in Cmd : Begin(p, c)
      BY <2>1 DEF Begin
    <2>2. CASE ProbeStanza(p)
      BY <2>2 DEF ProbeStanza, Gate
    <2>3. CASE ProbeAll(p)
      <3>1. CASE q # p
        BY <2>3, <3>1 DEF ProbeAll, Gate
      <3>2. CASE q = p /\ "all" \in stopFiles
        BY <2>3, <3>2 DEF ProbeAll, Gate
      <3>3. CASE q = p /\ "all" \notin stopFiles
        <4>1. since'[p] = since[p] /\ since[p] \subseteq {"stanza", "all"}
          BY <2>3 DEF ProbeAll
        <4>2. since[p] \subseteq stopFiles /\ "stanza" \notin since[p]
          BY <2>3, <3>3 DEF ProbeAll
        <4> QED
          BY <2>3, <3>3, <4>1, <4>2 DEF ProbeAll, Gate
      <3> QED
        BY <3>1, <3>2, <3>3
    <2>4. CASE Finish(p)
      BY <2>4 DEF Finish
    <2> QED
      BY <2>1, <2>2, <2>3, <2>4
  <1> QED
    BY <1>1, <1>3, <1>5, <1>6 DEF IndInv

\* No step past the gate changes what the gate looked at.
LEMMA GateFrame ==
  ASSUME IndInv, NEW p \in Proc, UNCHANGED <<stopFiles, cmd, since>>,
         \A q \in Proc \ {p} : pc'[q] = pc[q],
         \/ pc'[p] \in {"idle", "drop", "unlink"}
         \/ PastGate(p) /\ PastGate(p)'
  PROVE  GateProgress'
  BY DEF IndInv, GateProgress, PastGate

\* Opening a lock file.
LEMMA OpenStep ==
  ASSUME IndInv, NEW p \in Proc, Open(p)
  PROVE  IndInv'
  <1> USE NoInodeAssumption
  <1>a. PICK n \in Name : n = Target(p)
    BY DEF Target, Name
  <1>0. n \in Name /\ cmd[p] \in Command
    BY CmdAssumption DEF Name, IndInv, TypeOK
  <1>1. PICK i \in Inode :
          /\ entry[n] # NoInode => i = entry[n]
          /\ entry[n] = NoInode => Free(i)
          /\ entry' = [entry EXCEPT ![n] = i]
          /\ fd' = [fd EXCEPT ![p][n] = i]
    BY <1>a DEF Open
  <1>2. /\ pc[p] = "open" /\ pc' = [pc EXCEPT ![p] = "lock"]
        /\ UNCHANGED <<stopFiles, flock, cmd, raced, since>>
    BY DEF Open
  <1>3. TypeOK'
    BY <1>0, <1>1, <1>2 DEF IndInv, TypeOK, PC
  <1>4. /\ ~Opened(p, n)
        /\ n \in lock_type_names(cmd[p])
        /\ n = "archive" => ~Opened(p, "backup")
        /\ n = "backup" => /\ Opened(p, "archive") => Holds(p, "archive")
                           /\ "archive" \in lock_type_names(cmd[p]) => Holds(p, "archive")
    BY <1>a, <1>0, <1>2, NamesLemma DEF IndInv, TypeOK, Progress, Target, Opened, Holds, Name
  <1>5. /\ \A q \in Proc, m \in Name : q # p \/ m # n => fd'[q][m] = fd[q][m]
        /\ \A m \in Name \ {n} : entry'[m] = entry[m]
        /\ fd'[p][n] = i /\ entry'[n] = i
    BY <1>0, <1>1 DEF IndInv, TypeOK
  <1>6. \A q \in Proc, m \in Name : m # n => entry[m] # i /\ fd[q][m] # i
    <2>1. CASE entry[n] = NoInode
      BY <1>1, <2>1 DEF Free
    <2>2. CASE entry[n] # NoInode
      BY <1>0, <1>1, <2>2 DEF IndInv, OneNameEach, Opened
    <2> QED
      BY <2>1, <2>2
  <1>7. flock[i] # p
    BY <1>0, <1>4, <1>6, NoProcAssumption DEF IndInv, Owners, Opened
  <1>8. OpenIsLinked'
    <2> SUFFICES ASSUME NEW q \in Proc, NEW m \in Name, m \notin raced, Opened(q, m)'
                 PROVE  fd'[q][m] = entry'[m]
      BY <1>2 DEF OpenIsLinked
    <2>1. CASE m # n
      BY <1>5, <2>1 DEF IndInv, OpenIsLinked, Opened
    <2>2. CASE m = n /\ q = p
      BY <1>5, <2>2
    <2>3. CASE m = n /\ q # p
      <3>1. fd[q][n] = entry[n] /\ fd[q][n] # NoInode
        BY <1>5, <2>3 DEF IndInv, OpenIsLinked, Opened
      <3> QED
        BY <1>1, <1>5, <2>3, <3>1
    <2> QED
      BY <2>1, <2>2, <2>3
  <1>9. OneNameEach'
    BY <1>5, <1>6 DEF IndInv, OneNameEach, Opened
  <1>10. ASSUME NEW q \in Proc PROVE Progress(q)'
    <2>1. CASE q # p
      <3>1. pc'[q] = pc[q] /\ cmd'[q] = cmd[q] /\ fd'[q] = fd[q]
        BY <1>1, <1>2, <2>1 DEF IndInv, TypeOK
      <3>2. \A m \in Name : Holds(q, m)' <=> Holds(q, m)
        BY <1>2, <3>1 DEF Holds
      <3> QED
        BY <1>3, <3>1, <3>2, FrameLemma DEF IndInv
    <2>2. CASE q = p
      <3>1. Target(p)' = n
        <4>1. CASE n = "archive"
          <5>1. "archive" \in lock_type_names(cmd'[p]) /\ flock'[fd'[p]["archive"]] # p
            BY <1>2, <1>4, <1>5, <1>7, <4>1
          <5> QED
            BY <4>1, <5>1 DEF Target
        <4>2. CASE n = "backup"
          <5>1. fd'[p]["archive"] = fd[p]["archive"] /\ cmd' = cmd /\ flock' = flock
            BY <1>2, <1>5, <4>2 DEF Name
          <5>2. "archive" \in lock_type_names(cmd[p]) =>
                  fd[p]["archive"] # NoInode /\ flock[fd[p]["archive"]] = p
            BY <1>4, <4>2 DEF Holds
          <5>3. Target(p)' = "backup"
            BY <5>1, <5>2 DEF Target
          <5> QED
            BY <4>2, <5>3
        <4> QED
          BY <1>0, <4>1, <4>2 DEF Name
      <3>2. Opened(p, n)' /\ ~Holds(p, n)'
        BY <1>2, <1>5, <1>7 DEF Opened, Holds
      <3>3. \A m \in Name \ {n} : (Opened(p, m)' <=> Opened(p, m)) /\ (Holds(p, m)' <=> Holds(p, m))
        BY <1>2, <1>5 DEF Opened, Holds
      <3>4. pc'[p] = "lock" /\ cmd'[p] = cmd[p]
        BY <1>2 DEF IndInv, TypeOK
      <3> QED
        BY <1>4, <2>2, <3>1, <3>2, <3>3, <3>4 DEF Progress, Name
    <2> QED
      BY <2>1, <2>2
  <1>11. Owners'
    <2> SUFFICES ASSUME NEW j \in Inode, flock[j] # NoProc
                 PROVE  \E m \in Name : fd'[flock[j]][m] = j
      BY <1>2 DEF Owners
    <2>1. PICK m \in Name : fd[flock[j]][m] = j
      BY DEF IndInv, Owners
    <2>2. flock[j] \in Proc
      BY DEF IndInv, TypeOK
    <2>3. flock[j] # p \/ m # n
      BY <1>4, <2>1 DEF Opened
    <2> QED
      BY <1>5, <2>1, <2>2, <2>3
  <1>12. GateProgress'
    BY <1>2, GateFrame DEF IndInv, TypeOK, PastGate
  <1> QED
    BY <1>3, <1>8, <1>9, <1>10, <1>11, <1>12 DEF IndInv

\* Taking the flock of the file just opened.
LEMMA LockStep ==
  ASSUME IndInv, NEW p \in Proc, Lock(p)
  PROVE  IndInv'
  <1> USE NoInodeAssumption, NoProcAssumption
  <1>a. PICK n \in Name : n = Target(p)
    BY DEF Target, Name
  <1>0. cmd[p] \in Command
    BY CmdAssumption DEF IndInv, TypeOK
  <1>1. /\ pc[p] = "lock" /\ flock[fd[p][n]] = NoProc
        /\ flock' = [flock EXCEPT ![fd[p][n]] = p]
        /\ pc' = [pc EXCEPT ![p] = IF n = "archive" /\ "backup" \in lock_type_names(cmd[p])
                                   THEN "open" ELSE "run"]
        /\ UNCHANGED <<stopFiles, entry, cmd, fd, raced, since>>
    BY <1>a DEF Lock
  <1>2. TypeOK'
    BY <1>1 DEF IndInv, TypeOK, PC
  <1>3. /\ n \in lock_type_names(cmd[p])
        /\ fd[p][n] \in Inode
        /\ n = "archive" => ~Opened(p, "backup")
        /\ n = "backup" => /\ Opened(p, "archive") => Holds(p, "archive")
                           /\ "archive" \in lock_type_names(cmd[p]) => Holds(p, "archive")
    BY <1>a, <1>1 DEF IndInv, TypeOK, Progress, Opened, Name
  <1>4. \A q \in Proc, m \in Name : q # p \/ m # n => (Holds(q, m)' <=> Holds(q, m))
    BY <1>1, <1>3 DEF IndInv, TypeOK, Holds, OneNameEach, Opened
  <1>5. Holds(p, n)' /\ \A q \in Proc, m \in Name : Opened(q, m)' <=> Opened(q, m)
    BY <1>1, <1>3 DEF IndInv, TypeOK, Holds, Opened
  <1>6. OpenIsLinked' /\ OneNameEach'
    BY <1>1 DEF IndInv, OpenIsLinked, OneNameEach, Opened
  <1>7. ASSUME NEW q \in Proc PROVE Progress(q)'
    <2>1. CASE q # p
      <3>1. pc'[q] = pc[q] /\ cmd'[q] = cmd[q] /\ fd'[q] = fd[q]
        BY <1>1, <2>1 DEF IndInv, TypeOK
      <3> QED
        BY <1>2, <1>4, <2>1, <3>1, FrameLemma DEF IndInv
    <2>2. CASE q = p /\ n = "archive"
      <3>1. ~Opened(p, "backup")' /\ Holds(p, "archive")' /\ cmd'[p] = cmd[p]
        BY <1>1, <1>3, <1>5, <2>2 DEF Name
      <3>2. pc'[p] = IF "backup" \in lock_type_names(cmd[p]) THEN "open" ELSE "run"
        BY <1>1, <2>2 DEF IndInv, TypeOK
      <3>3. "backup" \in lock_type_names(cmd[p]) => lock_type_names(cmd[p]) = Name
        BY <1>0, <1>3, <2>2 DEF lock_type_names, Name, Command
      <3> QED
        BY <1>0, <2>2, <3>1, <3>2, <3>3, NamesLemma DEF Progress, Name
    <2>3. CASE q = p /\ n = "backup"
      <3>1. /\ Holds(p, "backup")' /\ cmd'[p] = cmd[p]
            /\ Opened(p, "archive")' => Holds(p, "archive")'
            /\ "archive" \in lock_type_names(cmd[p]) => Holds(p, "archive")'
        BY <1>1, <1>3, <1>4, <1>5, <2>3 DEF Name
      <3>2. pc'[p] = "run"
        BY <1>1, <2>3 DEF IndInv, TypeOK
      <3> QED
        BY <2>3, <3>1, <3>2 DEF Progress, Name
    <2> QED
      BY <2>1, <2>2, <2>3 DEF Name
  <1>8. Owners'
    BY <1>1, <1>3 DEF IndInv, TypeOK, Owners
  <1>9. GateProgress'
    BY <1>1, GateFrame DEF IndInv, TypeOK, PastGate
  <1> QED
    BY <1>2, <1>6, <1>7, <1>8, <1>9 DEF IndInv

\* Closing a lock file whose flock p does not hold, with or without removing
\* the file, when every other file p has open is locked.
LEMMA AbandonLemma ==
  ASSUME IndInv, NEW p \in Proc, NEW n \in Name, Abandon(p, n), ~Holds(p, n),
         \A m \in Name \ {n} : Opened(p, m) => Holds(p, m),
         UNCHANGED <<stopFiles, flock, cmd, since>>,
         raced \subseteq raced', raced' \subseteq Name,
         \/ entry' = entry
         \/ /\ entry' = [entry EXCEPT ![n] = NoInode]
            /\ \A q \in Proc \ {p} : entry[n] # NoInode /\ fd[q][n] = entry[n] => n \in raced'
  PROVE  IndInv'
  <1> USE NoInodeAssumption, NoProcAssumption
  <1>1. /\ fd' = [fd EXCEPT ![p][n] = NoInode]
        /\ pc' = [pc EXCEPT ![p] = IF \E m \in Name \ {n} : fd[p][m] # NoInode
                                   THEN "drop" ELSE "idle"]
    BY DEF Abandon
  <1>2. TypeOK'
    BY <1>1 DEF IndInv, TypeOK, PC
  <1>3. /\ \A q \in Proc, m \in Name : q # p \/ m # n => fd'[q][m] = fd[q][m]
        /\ fd'[p][n] = NoInode
        /\ \A m \in Name \ {n} : entry'[m] = entry[m]
        /\ entry'[n] \in {entry[n], NoInode}
    BY <1>1 DEF IndInv, TypeOK
  <1>4. \A q \in Proc, m \in Name : q # p \/ m # n =>
          (Opened(q, m)' <=> Opened(q, m)) /\ (Holds(q, m)' <=> Holds(q, m))
    BY <1>3 DEF Opened, Holds
  <1>5. OpenIsLinked'
    <2> SUFFICES ASSUME NEW q \in Proc, NEW m \in Name, m \notin raced', Opened(q, m)'
                 PROVE  fd'[q][m] = entry'[m]
      BY DEF OpenIsLinked
    <2>1. q # p \/ m # n
      BY <1>3 DEF Opened
    <2>2. fd'[q][m] = fd[q][m] /\ fd[q][m] = entry[m] /\ fd[q][m] # NoInode
      BY <1>3, <1>4, <2>1 DEF IndInv, OpenIsLinked, Opened
    <2> QED
      BY <1>3, <2>1, <2>2
  <1>6. OneNameEach'
    <2> SUFFICES ASSUME NEW k \in Name, NEW m \in Name, k # m
                 PROVE  /\ entry'[k] # NoInode => entry'[k] # entry'[m]
                        /\ \A q \in Proc : Opened(q, k)' => fd'[q][k] # entry'[m]
                        /\ \A q, r \in Proc : Opened(q, k)' => fd'[q][k] # fd'[r][m]
      BY DEF OneNameEach
    <2> QED
      BY <1>3 DEF IndInv, OneNameEach, Opened
  <1>7. ASSUME NEW q \in Proc PROVE Progress(q)'
    <2>1. CASE q # p
      <3>1. pc'[q] = pc[q] /\ cmd'[q] = cmd[q] /\ fd'[q] = fd[q]
        BY <1>1, <2>1 DEF IndInv, TypeOK
      <3> QED
        BY <1>2, <1>4, <2>1, <3>1, FrameLemma DEF IndInv
    <2>2. CASE q = p
      <3>1. \A m \in Name : Opened(p, m)' => Holds(p, m)' /\ m # n
        BY <1>3, <1>4 DEF Opened
      <3>2. pc'[p] = IF \E m \in Name : Opened(p, m)' THEN "drop" ELSE "idle"
        BY <1>1, <1>3, <1>4 DEF IndInv, TypeOK, Opened
      <3>3. (\E m \in Name : Opened(p, m)') => Opened(p, Dropping(p))'
        BY DEF Dropping, Opened, Name
      <3> QED
        BY <2>2, <3>1, <3>2, <3>3 DEF Progress
    <2> QED
      BY <2>1, <2>2
  <1>8. Owners'
    <2> SUFFICES ASSUME NEW j \in Inode, flock[j] # NoProc
                 PROVE  \E m \in Name : fd'[flock[j]][m] = j
      BY DEF Owners
    <2>1. PICK m \in Name : fd[flock[j]][m] = j
      BY DEF IndInv, Owners
    <2>2. flock[j] \in Proc
      BY DEF IndInv, TypeOK
    <2>3. flock[j] # p \/ m # n
      BY <2>1 DEF Holds
    <2> QED
      BY <1>3, <2>1, <2>2, <2>3
  <1>9. GateProgress'
    BY <1>1, GateFrame DEF IndInv, TypeOK, PastGate
  <1> QED
    BY <1>2, <1>5, <1>6, <1>7, <1>8, <1>9 DEF IndInv

\* A failed acquisition.
LEMMA AcquireFailsStep ==
  ASSUME IndInv, NEW p \in Proc, WouldBlock(p) \/ AcquireFails(p)
  PROVE  IndInv'
  <1>a. PICK n \in Name : n = Target(p)
    BY DEF Target, Name
  <1>1. /\ pc[p] \in {"open", "lock"} /\ Abandon(p, n)
        /\ UNCHANGED <<stopFiles, entry, flock, cmd, raced, since>>
    BY <1>a DEF WouldBlock, AcquireFails
  <1>2. ~Holds(p, n)
    BY <1>a, <1>1, NoInodeAssumption DEF IndInv, Progress, Target, Holds, Opened, Name
  <1>3. \A m \in Name \ {n} : Opened(p, m) => Holds(p, m)
    BY <1>a, <1>1, <1>2 DEF IndInv, Progress, Target, Name
  <1> QED
    BY <1>1, <1>2, <1>3, AbandonLemma DEF IndInv, TypeOK

\* LockHandle::drop releases the flock.
LEMMA UnlockStep ==
  ASSUME IndInv, NEW p \in Proc, Unlock(p)
  PROVE  IndInv'
  <1> USE NoInodeAssumption, NoProcAssumption
  <1>a. PICK n \in Name : n = Dropping(p)
    BY DEF Dropping, Name
  <1>1. /\ pc[p] = "drop" /\ flock' = [flock EXCEPT ![fd[p][n]] = NoProc]
        /\ pc' = [pc EXCEPT ![p] = "unlink"]
        /\ UNCHANGED <<stopFiles, entry, cmd, fd, raced, since>>
    BY <1>a DEF Unlock
  <1>2. TypeOK'
    BY <1>1 DEF IndInv, TypeOK, PC
  <1>3. Holds(p, n) /\ \A m \in Name : Opened(p, m) => Holds(p, m)
    BY <1>a, <1>1 DEF IndInv, Progress
  <1>4. /\ ~Holds(p, n)'
        /\ \A q \in Proc, m \in Name : Opened(q, m)' <=> Opened(q, m)
    BY <1>1, <1>3 DEF IndInv, TypeOK, Holds, Opened
  <1>5. \A q \in Proc, m \in Name : q # p \/ m # n => (Holds(q, m)' <=> Holds(q, m))
    BY <1>1, <1>3 DEF IndInv, TypeOK, Holds, OneNameEach, Opened
  <1>6. OpenIsLinked' /\ OneNameEach'
    BY <1>1 DEF IndInv, OpenIsLinked, OneNameEach, Opened
  <1>7. ASSUME NEW q \in Proc PROVE Progress(q)'
    <2>1. CASE q # p
      <3>1. pc'[q] = pc[q] /\ cmd'[q] = cmd[q] /\ fd'[q] = fd[q]
        BY <1>1, <2>1 DEF IndInv, TypeOK
      <3> QED
        BY <1>2, <1>5, <2>1, <3>1, FrameLemma DEF IndInv
    <2>2. CASE q = p
      <3>1. Dropping(p)' = n /\ pc'[p] = "unlink"
        BY <1>a, <1>1 DEF Dropping, IndInv, TypeOK
      <3>2. Opened(p, n)' /\ \A m \in Name \ {n} : Opened(p, m)' => Holds(p, m)'
        BY <1>3, <1>4, <1>5 DEF Holds, Opened
      <3> QED
        BY <1>4, <2>2, <3>1, <3>2 DEF Progress
    <2> QED
      BY <2>1, <2>2
  <1>8. Owners'
    BY <1>1, <1>3 DEF IndInv, TypeOK, Owners, Holds
  <1>9. GateProgress'
    BY <1>1, GateFrame DEF IndInv, TypeOK, PastGate
  <1> QED
    BY <1>2, <1>6, <1>7, <1>8, <1>9 DEF IndInv

\* LockHandle::drop removes the file by its path.
LEMMA UnlinkStep ==
  ASSUME IndInv, NEW p \in Proc, Unlink(p)
  PROVE  IndInv'
  <1>a. PICK n \in Name : n = Dropping(p)
    BY DEF Dropping, Name
  <1>1. /\ pc[p] = "unlink" /\ Abandon(p, n)
        /\ entry' = [entry EXCEPT ![n] = NoInode]
        /\ raced' = IF \E q \in Proc \ {p} : entry[n] # NoInode /\ fd[q][n] = entry[n]
                    THEN raced \union {n} ELSE raced
        /\ UNCHANGED <<stopFiles, flock, cmd, since>>
    BY <1>a DEF Unlink
  <1>2. ~Holds(p, n) /\ \A m \in Name \ {n} : Opened(p, m) => Holds(p, m)
    BY <1>a, <1>1 DEF IndInv, Progress
  <1>3. /\ raced \subseteq raced' /\ raced' \subseteq Name
        /\ \A q \in Proc \ {p} : entry[n] # NoInode /\ fd[q][n] = entry[n] => n \in raced'
    BY <1>1 DEF IndInv, TypeOK
  <1> QED
    BY <1>1, <1>2, <1>3, AbandonLemma

\* A crash closes what the process had open and releases its flocks only.
LEMMA CrashStep ==
  ASSUME IndInv, NEW p \in Proc, Crash(p)
  PROVE  IndInv'
  <1> USE NoInodeAssumption, NoProcAssumption
  <1>1. /\ pc' = [pc EXCEPT ![p] = "idle"] /\ fd' = [fd EXCEPT ![p] = NoFds]
        /\ flock' = [i \in Inode |-> IF flock[i] = p THEN NoProc ELSE flock[i]]
        /\ UNCHANGED <<stopFiles, entry, cmd, raced, since>>
    BY DEF Crash
  <1>2. TypeOK'
    BY <1>1 DEF IndInv, TypeOK, PC, NoFds
  <1>3. \A q \in Proc \ {p} : pc'[q] = pc[q] /\ cmd'[q] = cmd[q] /\ fd'[q] = fd[q]
    BY <1>1 DEF IndInv, TypeOK
  <1>4. \A q \in Proc \ {p}, m \in Name :
          (Opened(q, m)' <=> Opened(q, m)) /\ (Holds(q, m)' <=> Holds(q, m))
    BY <1>1, <1>3 DEF IndInv, TypeOK, Holds, Opened
  <1>5. pc'[p] = "idle" /\ \A m \in Name : fd'[p][m] = NoInode
    BY <1>1 DEF IndInv, TypeOK, NoFds
  <1>6. OpenIsLinked' /\ OneNameEach'
    <2>1. OpenIsLinked'
      BY <1>1, <1>3, <1>5 DEF IndInv, OpenIsLinked, Opened
    <2>2. OneNameEach'
      BY <1>1, <1>3, <1>5 DEF IndInv, OneNameEach, Opened
    <2> QED
      BY <2>1, <2>2
  <1>7. ASSUME NEW q \in Proc PROVE Progress(q)'
    <2>1. CASE q # p
      BY <1>2, <1>3, <1>4, <2>1, FrameLemma DEF IndInv
    <2>2. CASE q = p
      BY <1>5, <2>2 DEF Progress, Opened
    <2> QED
      BY <2>1, <2>2
  <1>8. Owners'
    BY <1>1, <1>3 DEF IndInv, TypeOK, Owners
  <1>9. GateProgress'
    BY <1>1, GateFrame DEF IndInv, TypeOK, PastGate
  <1> QED
    BY <1>2, <1>6, <1>7, <1>8, <1>9 DEF IndInv

\* A stuttering step.
LEMMA StutterStep ==
  ASSUME IndInv, UNCHANGED vars
  PROVE  IndInv'
  BY DEF vars, IndInv, TypeOK, OpenIsLinked, OneNameEach, Progress, Owners, GateProgress, Opened,
         Holds, Target, Dropping, PastGate

LEMMA NextInv == IndInv /\ [Next]_vars => IndInv'
  <1> SUFFICES ASSUME IndInv, [Next]_vars PROVE IndInv'
    OBVIOUS
  <1>1. CASE \E f \in StopFile : stop(f) \/ start(f)
    BY <1>1, OperatorStep
  <1>2. CASE \E p \in Proc : Step(p) \/ AcquireFails(p) \/ Crash(p) \/ \E c \in Cmd : Begin(p, c)
    BY <1>2, LocalStep, OpenStep, LockStep, AcquireFailsStep, UnlockStep, UnlinkStep, CrashStep
       DEF Step
  <1>3. CASE UNCHANGED vars
    BY <1>3, StutterStep
  <1> QED
    BY <1>1, <1>2, <1>3 DEF Next

-----------------------------------------------------------------------------
(* The theorems.                                                           *)

\* The invariant holds in every reachable state.
LEMMA Invariance == Spec => []IndInv
  BY InitInv, NextInv, PTL DEF Spec

\* Every variable of lock.rs's model stays in its domain.
THEOREM TypeCorrect == Spec => []TypeOK
  <1>1. IndInv => TypeOK
    BY DEF IndInv
  <1> QED
    BY Invariance, <1>1, PTL

\* For any number of processes: two commands run under one lock file only
\* after LockHandle::drop has removed that file while somebody had it open.
THEOREM Exclusive == Spec => []ExclusiveUnlessRaced
  <1>1. IndInv => ExclusiveUnlessRaced
    <2> SUFFICES ASSUME IndInv, NEW p \in Proc, NEW q \in Proc, NEW n \in Name,
                        p # q, n \notin raced, Runs(p, n), Runs(q, n)
                 PROVE  FALSE
      BY DEF ExclusiveUnlessRaced
    <2>1. Holds(p, n) /\ Holds(q, n)
      BY DEF IndInv, Progress, Runs
    <2>2. fd[p][n] = entry[n] /\ fd[q][n] = entry[n]
      BY <2>1, NoInodeAssumption DEF IndInv, OpenIsLinked, Holds, Opened
    <2> QED
      BY <2>1, <2>2 DEF Holds
  <1> QED
    BY Invariance, <1>1, PTL

\* No error path of lock_acquire, no drop and no crash leaves a flock behind.
THEOREM NoStaleLock == Spec => []LocksHaveLiveOwners
  <1>1. IndInv => LocksHaveLiveOwners
    BY DEF IndInv, TypeOK, Owners, LocksHaveLiveOwners, Progress, Opened, NoFds
  <1> QED
    BY Invariance, <1>1, PTL

\* is_stopped, though it looks at its two files one after the other, stops
\* every gated command that begins after either file was published for good.
THEOREM StopIsEffective == Spec => []StopBlocks
  <1>1. IndInv => StopBlocks
    BY DEF IndInv, GateProgress, StopBlocks
  <1> QED
    BY Invariance, <1>1, PTL
=============================================================================
