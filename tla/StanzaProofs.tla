---------------------------- MODULE StanzaProofs ----------------------------
(***************************************************************************)
(* Proofs about Stanza, for any number of repositories, any set of         *)
(* clusters, both modes of archive-push and any number of deaths.          *)
(***************************************************************************)
EXTENDS Stanza, TLAPS

\* A running command knows the identity it started with, and a push that
\* copies knows the archive-id it files under.
Identified == cmd # "idle" => ident \in Cluster
Filing == cmd = "push" /\ step = "copy" => aid.id \in Nat /\ aid.as \in Cluster

\* backup.info's current id is in its history, and so is a backup's id, with
\* the identity its entry records; a connection makes that the cluster's own.
CurrentIsRecorded == \A r \in Repo : Recorded(binfo[r]) => bid[r] \in DOMAIN binfo[r]
BackupsListed ==
  \A r \in Repo : \A b \in backups[r] :
    b.id \in DOMAIN binfo[r] /\ binfo[r][b.id] = b.as /\ (b.online => b.of = b.as)

\* Between its two writes a create has archive.info and no backup.info yet, an
\* upgrade has the new cluster in archive.info, a delete has no archive.info.
Midway ==
  \A r \in Repo : step = "backup" /\ r \in todo /\ (\A q \in todo : r <= q) =>
    /\ cmd = "create" => ainfo[r] = <<ident>> /\ DOMAIN binfo[r] = {}
    /\ cmd = "upgrade" => Len(ainfo[r]) > 0 /\ ainfo[r][Len(ainfo[r])] = ident
    /\ cmd = "delete" => ainfo[r] = <<>>

Facts == Identified /\ Filing
Info == HistoriesAgree /\ CurrentIsRecorded /\ BackupsListed /\ Midway
IInv == TypeOK /\ Facts /\ Info

-----------------------------------------------------------------------------
(* Sequences and histories.                                                *)

LEMMA SeqDomain ==
  ASSUME NEW s \in Seq(Cluster)
  PROVE  /\ DOMAIN s = 1..Len(s) /\ Len(s) \in Nat
         /\ Recorded(s) <=> Len(s) > 0
         /\ \A i \in DOMAIN s : s[i] \in Cluster
  BY DEF Recorded

LEMMA SingleHistory ==
  ASSUME NEW c \in Cluster
  PROVE  <<c>> \in Seq(Cluster) /\ DOMAIN <<c>> = {1} /\ <<c>>[1] = c /\ Len(<<c>>) = 1
  OBVIOUS

LEMMA EmptyHistory ==
  /\ None \in Seq(Cluster) /\ DOMAIN None = {} /\ ~Recorded(None) /\ HistoryType(None)
  BY DEF None, Recorded, HistoryType

LEMMA AppendHistory ==
  ASSUME NEW s \in Seq(Cluster), NEW c \in Cluster
  PROVE  /\ Append(s, c) \in Seq(Cluster) /\ Len(Append(s, c)) = Len(s) + 1
         /\ Append(s, c)[Len(s) + 1] = c
         /\ \A i \in DOMAIN s : i \in DOMAIN Append(s, c) /\ Append(s, c)[i] = s[i]
  OBVIOUS

LEMMA InsertHistory ==
  ASSUME NEW h, HistoryType(h), NEW i \in Nat \ {0}, NEW c \in Cluster
  PROVE  /\ HistoryType(Insert(h, i, c))
         /\ DOMAIN Insert(h, i, c) = DOMAIN h \union {i}
         /\ Insert(h, i, c)[i] = c
         /\ \A j \in DOMAIN h : j # i => Insert(h, i, c)[j] = h[j]
  BY DEF HistoryType, Insert

-----------------------------------------------------------------------------
(* The initial states.                                                     *)

LEMMA InitIInv == Init => IInv
<1> SUFFICES ASSUME Init PROVE IInv
  OBVIOUS
<1>1. TypeOK
  <2>1. ainfo \in [Repo -> Seq(Cluster)] /\ \A r \in Repo : HistoryType(binfo[r])
    BY EmptyHistory DEF Init
  <2>2. configured \subseteq Repo
    BY RepoAssumption DEF Init, Repo
  <2>3. moves \in 0..MaxMoves /\ faults \in 0..MaxFaults
    BY BoundAssumption DEF Init
  <2> QED BY <2>1, <2>2, <2>3 DEF Init, TypeOK, Cmd, Outcome
<1>2. Facts
  BY DEF Init, Facts, Identified, Filing
<1>3. Info
  <2>1. HistoriesAgree /\ CurrentIsRecorded
    BY EmptyHistory DEF Init, HistoriesAgree, CurrentIsRecorded
  <2>2. BackupsListed /\ Midway
    BY DEF Init, BackupsListed, Midway
  <2> QED BY <2>1, <2>2 DEF Info
<1> QED BY <1>1, <1>2, <1>3 DEF IInv

-----------------------------------------------------------------------------
(* Types.                                                                  *)

LEMMA TypeStep == IInv /\ [Next]_vars => TypeOK' /\ Facts'
<1> SUFFICES ASSUME IInv, [Next]_vars PROVE TypeOK' /\ Facts'
  OBVIOUS
<1> USE DEF IInv, TypeOK, Facts, Identified, Filing
<1>1. CASE StopStart
  BY <1>1 DEF StopStart, repoVars
<1>2. ASSUME NEW c \in Cluster, Replace(c) PROVE TypeOK' /\ Facts'
  BY <1>2, BoundAssumption DEF Replace, repoVars
<1>3. ASSUME NEW r \in Repo, Configure(r) PROVE TypeOK' /\ Facts'
  BY <1>3 DEF Configure, repoVars, Outcome
<1>4. CASE CreateBegin \/ UpgradeBegin \/ DeleteBegin \/ PushBegin
  BY <1>4 DEF CreateBegin, UpgradeBegin, DeleteBegin, PushBegin, Begin, envVars, repoVars, Cmd, Outcome
<1>5. CASE CreateEnd \/ UpgradeEnd \/ DeleteEnd \/ PushRefuse \/ PushEnd
  BY <1>5 DEF CreateEnd, UpgradeEnd, DeleteEnd, PushRefuse, PushEnd, End, envVars, repoVars, Cmd, Outcome
<1>6. ASSUME NEW r \in Repo, CreateRefuse(r) \/ UpgradeRefuse(r) PROVE TypeOK' /\ Facts'
  BY <1>6 DEF CreateRefuse, UpgradeRefuse, End, envVars, repoVars, Cmd, Outcome
<1>7. ASSUME NEW r \in Repo, UpgradeSkip(r) PROVE TypeOK' /\ Facts'
  BY <1>7 DEF UpgradeSkip, Leave, At, envVars, repoVars
<1>8. ASSUME NEW r \in Repo, CreateArchive(r) PROVE TypeOK' /\ Facts'
  BY <1>8, SingleHistory DEF CreateArchive, At, envVars
<1>9. ASSUME NEW r \in Repo, CreateBackup(r) PROVE TypeOK' /\ Facts'
  <2>1. ident \in Cluster /\ HistoryType(<<ident>>)
    BY <1>9, SingleHistory DEF CreateBackup, At, HistoryType
  <2> QED BY <1>9, <2>1 DEF CreateBackup, At, Leave, envVars
<1>10. ASSUME NEW r \in Repo, UpgradeArchive(r) PROVE TypeOK' /\ Facts'
  BY <1>10, AppendHistory DEF UpgradeArchive, At, envVars
<1>11. ASSUME NEW r \in Repo, UpgradeBackup(r) PROVE TypeOK' /\ Facts'
  <2>1. ident \in Cluster /\ Len(ainfo[r]) \in Nat \ {0}
    BY <1>11, SeqDomain DEF UpgradeBackup, At, Info, Midway
  <2>2. HistoryType(Insert(binfo[r], Len(ainfo[r]), ident))
    BY <2>1, InsertHistory
  <2> QED BY <1>11, <2>1, <2>2 DEF UpgradeBackup, At, Leave, envVars
<1>12. ASSUME NEW r \in Repo, DeleteArchiveInfo(r) \/ DeleteWal(r) \/ DeleteArchiveEnd(r) PROVE TypeOK' /\ Facts'
  BY <1>12, EmptyHistory DEF DeleteArchiveInfo, DeleteWal, DeleteArchiveEnd, At, envVars, repoVars
<1>13. ASSUME NEW r \in Repo, DeleteBackup(r) PROVE TypeOK' /\ Facts'
  BY <1>13, EmptyHistory DEF DeleteBackup, Leave, At, envVars
<1>14. ASSUME NEW r \in Repo, PushLoad(r) PROVE TypeOK' /\ Facts'
  <2>1. Len(ainfo[r]) \in Nat /\ Current(r) \in Cluster /\ ident \in Cluster
    BY <1>14, SeqDomain DEF PushLoad, Holder, Current
  <2> QED BY <1>14, <2>1 DEF PushLoad, envVars, repoVars
<1>15. ASSUME NEW r \in Repo, PushCopy(r) PROVE TypeOK' /\ Facts'
  <2> DEFINE new == {[id |-> aid.id, as |-> aid.as, of |-> c] : c \in IF Async THEN staged ELSE {ident}}
  <2>1. new \subseteq Wal
    BY <1>15 DEF PushCopy, At, Wal
  <2> HIDE DEF new
  <2>2. stored' = [stored EXCEPT ![r] = stored[r] \union new]
    BY <1>15 DEF PushCopy, new
  <2> QED BY <1>15, <2>1, <2>2 DEF PushCopy, At, envVars
<1>16. ASSUME NEW r \in Repo, NEW online \in BOOLEAN, Backup(r, online) PROVE TypeOK' /\ Facts'
  <2> DEFINE e == [id |-> bid[r], as |-> CurrentBackup(r), of |-> cluster, online |-> online]
  <2>1. CurrentBackup(r) \in Cluster
    BY <1>16 DEF Backup, Info, CurrentIsRecorded, CurrentBackup, HistoryType
  <2>2. e \in Entry
    BY <2>1 DEF Entry
  <2>3. backups' = [backups EXCEPT ![r] = backups[r] \union {e}]
    BY <1>16 DEF Backup
  <2> HIDE DEF e
  <2> QED BY <1>16, <2>2, <2>3 DEF Backup, envVars
<1>17. CASE Die
  BY <1>17, BoundAssumption DEF Die, End, envVars, repoVars, Cmd, Outcome
<1>18. CASE UNCHANGED vars
  BY <1>18 DEF vars
<1> QED
  BY <1>1, <1>2, <1>3, <1>4, <1>5, <1>6, <1>7, <1>8, <1>9, <1>10, <1>11, <1>12, <1>13, <1>14,
     <1>15, <1>16, <1>17, <1>18 DEF Next, Operator, Create, Upgrade, Delete, Push

-----------------------------------------------------------------------------
(* The info files.                                                         *)

\* A step that changes no info file and is not the first half of a pair.
LEMMA InfoKept ==
  ASSUME IInv, UNCHANGED <<ainfo, binfo, bid, backups>>,
         step' # "backup" \/ UNCHANGED <<cmd, step, todo, ident>>
  PROVE  Info'
<1> USE DEF IInv, Info
<1>1. HistoriesAgree' /\ CurrentIsRecorded' /\ BackupsListed'
  BY DEF HistoriesAgree, CurrentIsRecorded, BackupsListed
<1>2. Midway'
  BY DEF Midway
<1> QED BY <1>1, <1>2

LEMMA InfoStep == IInv /\ [Next]_vars => Info'
<1> SUFFICES ASSUME IInv, [Next]_vars PROVE Info'
  OBVIOUS
<1> USE DEF IInv, Info
<1>1. CASE StopStart
  BY <1>1, InfoKept DEF StopStart, repoVars
<1>2. ASSUME NEW c \in Cluster, Replace(c) PROVE Info'
  BY <1>2, InfoKept DEF Replace, repoVars
<1>3. ASSUME NEW r \in Repo, Configure(r) PROVE Info'
  BY <1>3, InfoKept DEF Configure, repoVars
<1>4. CASE CreateBegin \/ UpgradeBegin \/ DeleteBegin \/ PushBegin
  BY <1>4, InfoKept DEF CreateBegin, UpgradeBegin, DeleteBegin, PushBegin, Begin, repoVars
<1>5. CASE CreateEnd \/ UpgradeEnd \/ DeleteEnd \/ PushRefuse \/ PushEnd
  BY <1>5, InfoKept DEF CreateEnd, UpgradeEnd, DeleteEnd, PushRefuse, PushEnd, End, repoVars
<1>6. ASSUME NEW r \in Repo, CreateRefuse(r) \/ UpgradeRefuse(r) PROVE Info'
  BY <1>6, InfoKept DEF CreateRefuse, UpgradeRefuse, End, repoVars
<1>7. ASSUME NEW r \in Repo, UpgradeSkip(r) PROVE Info'
  BY <1>7, InfoKept DEF UpgradeSkip, Leave, repoVars
<1>8. ASSUME NEW r \in Repo, CreateArchive(r) PROVE Info'
  <2>1. /\ ident \in Cluster /\ DOMAIN binfo[r] = {}
        /\ ainfo' = [ainfo EXCEPT ![r] = <<ident>>]
        /\ UNCHANGED <<binfo, bid, backups, cmd, todo, ident>> /\ cmd = "create"
        /\ \A q \in todo : r <= q
    BY <1>8 DEF CreateArchive, At, Exists, Recorded, Facts, Identified
  <2>2. HistoriesAgree'
    BY <2>1 DEF HistoriesAgree, TypeOK
  <2>3. CurrentIsRecorded' /\ BackupsListed'
    BY <2>1 DEF CurrentIsRecorded, BackupsListed
  <2>4. Midway'
    <3> SUFFICES ASSUME NEW q \in Repo, q \in todo, \A t \in todo : q <= t
                 PROVE  ainfo'[q] = <<ident>> /\ DOMAIN binfo[q] = {}
      BY <2>1 DEF Midway
    <3>1. q = r
      BY <1>8, <2>1 DEF CreateArchive, At, Repo
    <3> QED BY <3>1, <2>1 DEF TypeOK
  <2> QED BY <2>2, <2>3, <2>4
<1>9. ASSUME NEW r \in Repo, CreateBackup(r) PROVE Info'
  <2>1. /\ ident \in Cluster /\ ainfo[r] = <<ident>> /\ DOMAIN binfo[r] = {}
        /\ binfo' = [binfo EXCEPT ![r] = <<ident>>] /\ bid' = [bid EXCEPT ![r] = 1]
        /\ UNCHANGED <<ainfo, backups>> /\ step' = "archive"
    BY <1>9 DEF CreateBackup, At, Leave, Facts, Identified, Midway
  <2>2. DOMAIN <<ident>> = {1} /\ <<ident>>[1] = ident
    BY <2>1, SingleHistory
  <2>3. HistoriesAgree'
    BY <2>1, <2>2 DEF HistoriesAgree, TypeOK
  <2>4. CurrentIsRecorded' /\ BackupsListed'
    BY <2>1, <2>2 DEF CurrentIsRecorded, BackupsListed, TypeOK
  <2> QED BY <2>1, <2>3, <2>4 DEF Midway
<1>10. ASSUME NEW r \in Repo, UpgradeArchive(r) PROVE Info'
  <2>1. /\ ident \in Cluster /\ ainfo[r] \in Seq(Cluster) /\ Recorded(ainfo[r])
        /\ ainfo' = [ainfo EXCEPT ![r] = Append(ainfo[r], ident)]
        /\ UNCHANGED <<binfo, bid, backups, cmd, todo, ident>> /\ cmd = "upgrade"
        /\ \A q \in todo : r <= q
    BY <1>10 DEF UpgradeArchive, At, Facts, Identified, TypeOK
  <2>2. HistoriesAgree'
    BY <2>1, AppendHistory DEF HistoriesAgree, TypeOK
  <2>3. CurrentIsRecorded' /\ BackupsListed'
    BY <2>1 DEF CurrentIsRecorded, BackupsListed
  <2>4. Midway'
    <3> SUFFICES ASSUME NEW q \in Repo, q \in todo, \A t \in todo : q <= t
                 PROVE  Len(ainfo'[q]) > 0 /\ ainfo'[q][Len(ainfo'[q])] = ident
      BY <2>1 DEF Midway
    <3>1. q = r
      BY <1>10, <2>1 DEF UpgradeArchive, At, Repo
    <3> QED BY <3>1, <2>1, AppendHistory, SeqDomain DEF TypeOK
  <2> QED BY <2>2, <2>3, <2>4
<1>11. ASSUME NEW r \in Repo, UpgradeBackup(r) PROVE Info'
  <2> DEFINE n == Len(ainfo[r])
             h == Insert(binfo[r], n, ident)
  <2>1. /\ ident \in Cluster /\ n \in Nat \ {0} /\ n \in DOMAIN ainfo[r] /\ ainfo[r][n] = ident
        /\ Recorded(ainfo[r])
    BY <1>11, SeqDomain DEF UpgradeBackup, At, Facts, Identified, Midway, TypeOK
  <2>2. /\ DOMAIN h = DOMAIN binfo[r] \union {n} /\ h[n] = ident
        /\ \A j \in DOMAIN binfo[r] : j # n => h[j] = binfo[r][j]
    <3>1. HistoryType(binfo[r])
      BY DEF TypeOK
    <3> HIDE DEF n
    <3> QED BY <2>1, <3>1, InsertHistory
  <2>3. \A j \in DOMAIN binfo[r] : j \in DOMAIN ainfo[r] /\ binfo[r][j] = ainfo[r][j]
    BY <2>1 DEF HistoriesAgree
  <2>4. \A j \in DOMAIN binfo[r] : h[j] = binfo[r][j]
    BY <2>1, <2>2, <2>3
  <2>5. /\ binfo' = [binfo EXCEPT ![r] = h] /\ bid' = [bid EXCEPT ![r] = n]
        /\ UNCHANGED <<ainfo, backups>> /\ step' = "archive"
    BY <1>11 DEF UpgradeBackup, Leave
  <2> HIDE DEF n, h
  <2>6. HistoriesAgree'
    BY <2>1, <2>2, <2>3, <2>4, <2>5 DEF HistoriesAgree, TypeOK
  <2>7. CurrentIsRecorded' /\ BackupsListed'
    BY <2>2, <2>4, <2>5 DEF CurrentIsRecorded, BackupsListed, TypeOK
  <2> QED BY <2>5, <2>6, <2>7 DEF Midway
<1>12. ASSUME NEW r \in Repo, DeleteArchiveInfo(r) PROVE Info'
  <2>1. /\ ainfo' = [ainfo EXCEPT ![r] = None] /\ UNCHANGED <<binfo, bid, backups>>
        /\ step' = "archive"
    BY <1>12 DEF DeleteArchiveInfo
  <2> QED BY <2>1, EmptyHistory DEF HistoriesAgree, CurrentIsRecorded, BackupsListed, Midway, TypeOK
<1>13. ASSUME NEW r \in Repo, DeleteWal(r) PROVE Info'
  BY <1>13, InfoKept DEF DeleteWal
<1>14. ASSUME NEW r \in Repo, DeleteArchiveEnd(r) PROVE Info'
  <2>1. /\ ainfo[r] = <<>> /\ cmd = "delete" /\ UNCHANGED <<ainfo, binfo, bid, backups, cmd, todo, ident>>
        /\ \A q \in todo : r <= q
    <3>1. Len(ainfo[r]) = 0 /\ ainfo[r] \in Seq(Cluster)
      BY <1>14, SeqDomain DEF DeleteArchiveEnd, TypeOK
    <3> QED BY <3>1, <1>14 DEF DeleteArchiveEnd, At, repoVars
  <2>2. HistoriesAgree' /\ CurrentIsRecorded' /\ BackupsListed'
    BY <2>1 DEF HistoriesAgree, CurrentIsRecorded, BackupsListed
  <2>3. Midway'
    <3> SUFFICES ASSUME NEW q \in Repo, q \in todo, \A t \in todo : q <= t
                 PROVE  ainfo[q] = <<>>
      BY <2>1 DEF Midway
    <3>1. q = r
      BY <1>14, <2>1 DEF DeleteArchiveEnd, At, Repo
    <3> QED BY <3>1, <2>1
  <2> QED BY <2>2, <2>3
<1>15. ASSUME NEW r \in Repo, DeleteBackup(r) PROVE Info'
  <2>1. /\ binfo' = [binfo EXCEPT ![r] = None] /\ bid' = [bid EXCEPT ![r] = 0]
        /\ backups' = [backups EXCEPT ![r] = {}] /\ UNCHANGED ainfo /\ step' = "archive"
    BY <1>15 DEF DeleteBackup, Leave
  <2>2. HistoriesAgree'
    BY <2>1, EmptyHistory DEF HistoriesAgree, TypeOK
  <2>3. CurrentIsRecorded' /\ BackupsListed'
    BY <2>1, EmptyHistory DEF CurrentIsRecorded, BackupsListed, TypeOK
  <2> QED BY <2>1, <2>2, <2>3 DEF Midway
<1>16. ASSUME NEW r \in Repo, PushLoad(r) \/ PushCopy(r) PROVE Info'
  BY <1>16, InfoKept DEF PushLoad, PushCopy, repoVars
<1>17. ASSUME NEW r \in Repo, NEW online \in BOOLEAN, Backup(r, online) PROVE Info'
  <2> DEFINE e == [id |-> bid[r], as |-> CurrentBackup(r), of |-> cluster, online |-> online]
  <2>1. /\ backups' = [backups EXCEPT ![r] = backups[r] \union {e}]
        /\ UNCHANGED <<ainfo, binfo, bid, cmd, step, todo, ident>>
        /\ Recorded(binfo[r]) /\ (online => binfo[r][bid[r]] = cluster)
    BY <1>17 DEF Backup, ServerMatches, CurrentBackup
  <2>2. HistoriesAgree' /\ CurrentIsRecorded' /\ Midway'
    BY <2>1 DEF HistoriesAgree, CurrentIsRecorded, Midway
  <2>3. e.id \in DOMAIN binfo[r] /\ binfo[r][e.id] = e.as /\ (e.online => e.of = e.as)
    BY <2>1 DEF CurrentIsRecorded, CurrentBackup
  <2> HIDE DEF e
  <2>4. BackupsListed'
    BY <2>1, <2>3 DEF BackupsListed, TypeOK
  <2> QED BY <2>2, <2>4
<1>18. CASE Die
  BY <1>18, InfoKept DEF Die, End, repoVars
<1>19. CASE UNCHANGED vars
  BY <1>19, InfoKept DEF vars
<1> QED
  BY <1>1, <1>2, <1>3, <1>4, <1>5, <1>6, <1>7, <1>8, <1>9, <1>10, <1>11, <1>12, <1>13, <1>14,
     <1>15, <1>16, <1>17, <1>18, <1>19 DEF Next, Operator, Create, Upgrade, Delete, Push

-----------------------------------------------------------------------------
(* The theorems.                                                           *)

LEMMA Inductive == Spec => []IInv
<1>1. Init => IInv
  BY InitIInv
<1>2. IInv /\ [Next]_vars => IInv'
  BY TypeStep, InfoStep DEF IInv
<1> QED BY <1>1, <1>2, PTL DEF Spec

\* Every reachable state has the types the module declares.
THEOREM TypeCorrect == Spec => []TypeOK
<1>1. IInv => TypeOK
  BY DEF IInv
<1> QED BY <1>1, Inductive, PTL

\* Wherever stanza-create, stanza-upgrade and stanza-delete die, archive.info
\* and backup.info of a repository never give an id to two clusters.
THEOREM IdsNeverConflict == Spec => []HistoriesAgree
<1>1. IInv => HistoriesAgree
  BY DEF IInv, Info
<1> QED BY <1>1, Inductive, PTL

\* However stanza-create, stanza-upgrade and stanza-delete go on and die, a
\* backup's id keeps naming the cluster its entry recorded, in backup.info and
\* in archive.info, and the cluster of a backup with a connection is that one.
THEOREM BackupsAttributed == Spec => []BackupsUnderTheirCluster
<1>1. IInv => BackupsUnderTheirCluster
  <2> SUFFICES ASSUME IInv, NEW r \in Repo, NEW b \in backups[r]
               PROVE  /\ b.id \in DOMAIN binfo[r] /\ binfo[r][b.id] = b.as
                      /\ Recorded(ainfo[r]) => b.id \in DOMAIN ainfo[r] /\ ainfo[r][b.id] = b.as
                      /\ b.online => b.of = b.as
    BY DEF BackupsUnderTheirCluster
  <2>1. b.id \in DOMAIN binfo[r] /\ binfo[r][b.id] = b.as /\ (b.online => b.of = b.as)
    BY DEF IInv, Info, BackupsListed
  <2> QED BY <2>1 DEF IInv, Info, HistoriesAgree
<1> QED BY <1>1, Inductive, PTL

\* No step but a delete's changes what archive.info says of an id.
THEOREM HistoryGrows == Spec => HistoryOnlyGrows
<1> DEFINE Grows == \A r \in Repo : Recorded(ainfo'[r]) =>
               \A i \in DOMAIN ainfo[r] : i \in DOMAIN ainfo'[r] /\ ainfo'[r][i] = ainfo[r][i]
<1>1. IInv /\ [Next]_vars => [Grows]_vars
  <2> SUFFICES ASSUME IInv, Next, NEW r \in Repo, Recorded(ainfo'[r]), NEW i \in DOMAIN ainfo[r]
               PROVE  i \in DOMAIN ainfo'[r] /\ ainfo'[r][i] = ainfo[r][i]
    OBVIOUS
  <2> USE DEF IInv, TypeOK
  <2>1. CASE UNCHANGED ainfo
    BY <2>1
  <2>2. ASSUME NEW q \in Repo, CreateArchive(q) PROVE i \in DOMAIN ainfo'[r] /\ ainfo'[r][i] = ainfo[r][i]
    BY <2>2 DEF CreateArchive, Exists, Recorded
  <2>3. ASSUME NEW q \in Repo, UpgradeArchive(q) PROVE i \in DOMAIN ainfo'[r] /\ ainfo'[r][i] = ainfo[r][i]
    <3>1. ident \in Cluster /\ ainfo' = [ainfo EXCEPT ![q] = Append(ainfo[q], ident)]
      BY <2>3 DEF UpgradeArchive, At, Facts, Identified
    <3> QED BY <3>1, AppendHistory
  <2>4. ASSUME NEW q \in Repo, DeleteArchiveInfo(q) PROVE i \in DOMAIN ainfo'[r] /\ ainfo'[r][i] = ainfo[r][i]
    BY <2>4, EmptyHistory DEF DeleteArchiveInfo
  <2>5. \/ UNCHANGED ainfo
        \/ \E q \in Repo : CreateArchive(q) \/ UpgradeArchive(q) \/ DeleteArchiveInfo(q)
    BY DEF Next, Operator, Create, Upgrade, Delete, Push, repoVars, StopStart, Replace, Configure,
       CreateBegin, CreateEnd, CreateRefuse, CreateBackup, UpgradeBegin, UpgradeEnd, UpgradeRefuse,
       UpgradeSkip, UpgradeBackup, DeleteBegin, DeleteEnd, DeleteWal, DeleteArchiveEnd, DeleteBackup,
       PushBegin, PushRefuse, PushEnd, PushLoad, PushCopy, Backup, Die
  <2> QED BY <2>1, <2>2, <2>3, <2>4, <2>5
<1> QED BY <1>1, Inductive, PTL DEF Spec, HistoryOnlyGrows
=============================================================================
