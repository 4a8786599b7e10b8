------------------------------- MODULE Stanza -------------------------------
(***************************************************************************)
(* The life of a stanza's identity: stanza-create, stanza-upgrade and      *)
(* stanza-delete (pgbr-command/src/stanza.rs) over several repositories,   *)
(* and the two commands that file data under the identity they record,     *)
(* archive-push and backup.                                                *)
(*                                                                         *)
(* Each repository keeps archive.info and backup.info, and in both of them *)
(* a history that gives every db-id the cluster it stands for, and the id  *)
(* that is the current one.  A cluster is its (system-id, version) pair.   *)
(* A save writes .copy and then the primary, each with an atomic rename,   *)
(* and nothing reads .copy while the primary is intact, so that here a     *)
(* save is one step.  The writes of two files are two steps, and a command *)
(* can die between any two of them.                                        *)
(***************************************************************************)
EXTENDS Naturals, Sequences, FiniteSets

CONSTANTS
  Cluster,     \* the clusters that may stand behind the stanza
  NRepo,       \* repositories, numbered in configuration order
  Async,       \* archive-async
  HeaderCheck, \* archive-header-check
  MaxMoves,    \* bound: how often PostgreSQL is replaced by another cluster
  MaxFaults,   \* bound: how many commands die
  MaxBackups,  \* bound: how many backups a repository lists
  NoCluster

Repo == 1..NRepo

ASSUME RepoAssumption == NRepo \in Nat \ {0}
ASSUME ModeAssumption == Async \in BOOLEAN /\ HeaderCheck \in BOOLEAN
ASSUME BoundAssumption == MaxMoves \in Nat /\ MaxFaults \in Nat /\ MaxBackups \in Nat
ASSUME ClusterAssumption == Cluster # {} /\ NoCluster \notin Cluster

VARIABLES
  cluster,    \* the cluster PostgreSQL runs now
  stopped,    \* the stanza's stop file exists
  configured, \* the repositories in the configuration
  ainfo,      \* ainfo[r]: history of archive.info, empty when there is none
  binfo,      \* binfo[r]: history of backup.info, empty when there is none
  bid,        \* bid[r]: the current db-id of backup.info
  backups,    \* backups[r]: the backups backup.info lists, a set of Entry
  stored,     \* stored[r]: the WAL in r's archive, [id, as, of]
  staged,     \* the clusters that the WAL in the spool's out/ came from
  cmd,        \* the command that runs
  step,       \* the info file it writes next
  todo,       \* the repositories it has not finished
  ident,      \* the cluster identity it read when it started
  aid,        \* push: the archive-id it files under, [id, as]
  outcome,    \* how the last command ended
  half,       \* history: repositories where a create died between its two files
  moves,      \* bound: replacements of the cluster so far
  faults      \* bound: commands that died so far

repoVars == <<ainfo, binfo, bid, backups, stored>>
envVars == <<cluster, stopped, configured, moves>>
vars == <<cluster, stopped, configured, ainfo, binfo, bid, backups, stored, staged, cmd, step, todo,
          ident, aid, outcome, half, moves, faults>>

Cmd == {"idle", "create", "upgrade", "delete", "push"}
Outcome == {"none", "created", "upgraded", "deleted", "pushed", "refused", "died"}
NoAid == [id |-> 0, as |-> NoCluster]
Wal == [id : Nat, as : Cluster, of : Cluster]

\* A listed backup: the id and the identity its entry records, the cluster its
\* files were copied from, and whether a connection to PostgreSQL drove it.
Entry == [id : Nat, as : Cluster, of : Cluster, online : BOOLEAN]

\* An info file's history maps ids to clusters.  archive.info's ids are 1..n
\* with n the current one; those of backup.info may have gaps.
None == <<>>
Recorded(info) == DOMAIN info # {}
Current(r) == ainfo[r][Len(ainfo[r])]
CurrentBackup(r) == binfo[r][bid[r]]
Insert(info, id, c) == [i \in DOMAIN info \union {id} |-> IF i = id THEN c ELSE info[i]]

Init ==
  /\ cluster \in Cluster /\ stopped = FALSE /\ configured = {1}
  /\ ainfo = [r \in Repo |-> None] /\ binfo = [r \in Repo |-> None] /\ bid = [r \in Repo |-> 0]
  /\ backups = [r \in Repo |-> {}] /\ stored = [r \in Repo |-> {}] /\ staged = {}
  /\ cmd = "idle" /\ step = "archive" /\ todo = {} /\ ident = NoCluster /\ aid = NoAid
  /\ outcome = "none" /\ half = {} /\ moves = 0 /\ faults = 0

-----------------------------------------------------------------------------
(* The operator and PostgreSQL.                                            *)

\* pg_upgrade or a new initdb: another cluster takes the stanza's place.
Replace(c) ==
  /\ moves < MaxMoves /\ c # cluster /\ cmd # "push"
  /\ cluster' = c /\ moves' = moves + 1
  /\ UNCHANGED <<stopped, configured, repoVars, staged, cmd, step, todo, ident, aid, outcome, half, faults>>

\* A repository is added to the configuration.
Configure(r) ==
  /\ cmd = "idle" /\ r \notin configured
  /\ configured' = configured \union {r} /\ outcome' = "none"
  /\ UNCHANGED <<cluster, stopped, moves, repoVars, staged, cmd, step, todo, ident, aid, half, faults>>

\* The stop and start commands.
StopStart ==
  /\ stopped' = ~stopped
  /\ UNCHANGED <<cluster, configured, moves, repoVars, staged, cmd, step, todo, ident, aid, outcome, half, faults>>

-----------------------------------------------------------------------------
(* What every command does: it takes its locks, which exclude the others   *)
(* here, reads the cluster's identity once, and visits the repositories in *)
(* order.                                                                  *)

Begin(c) ==
  /\ cmd = "idle"
  /\ cmd' = c /\ step' = "archive" /\ todo' = configured /\ ident' = cluster /\ outcome' = "none"

\* Repository r is the one the command is at.
At(c, r) == cmd = c /\ r \in todo /\ \A q \in todo : r <= q

\* r is done: on to the next repository.
Leave(r) == todo' = todo \ {r} /\ step' = "archive" /\ UNCHANGED <<cmd, ident, aid, outcome>>

\* The command ends.
End(result) ==
  /\ cmd' = "idle" /\ step' = "archive" /\ todo' = {} /\ aid' = NoAid /\ outcome' = result
  /\ UNCHANGED ident

-----------------------------------------------------------------------------
(* stanza-create.                                                          *)

CreateBegin == Begin("create") /\ UNCHANGED <<envVars, repoVars, staged, aid, half, faults>>

\* Mutant: archive.info alone tells whether the stanza exists.
Exists_archiveOnly(r) == Recorded(ainfo[r])

Exists(r) == Recorded(ainfo[r]) \/ Recorded(binfo[r])

\* "stanza already exists": the command ends, whatever repositories follow.
CreateRefuse(r) ==
  /\ At("create", r) /\ step = "archive" /\ Exists(r)
  /\ End("refused")
  /\ UNCHANGED <<envVars, repoVars, staged, half, faults>>

CreateArchive(r) ==
  /\ At("create", r) /\ step = "archive" /\ ~Exists(r)
  /\ ainfo' = [ainfo EXCEPT ![r] = <<ident>>] /\ step' = "backup"
  /\ UNCHANGED <<envVars, binfo, bid, backups, stored, staged, cmd, todo, ident, aid, outcome, half, faults>>

CreateBackup(r) ==
  /\ At("create", r) /\ step = "backup"
  /\ binfo' = [binfo EXCEPT ![r] = <<ident>>] /\ bid' = [bid EXCEPT ![r] = 1]
  /\ Leave(r)
  /\ UNCHANGED <<envVars, ainfo, backups, stored, staged, half, faults>>

CreateEnd ==
  /\ cmd = "create" /\ todo = {}
  /\ End("created")
  /\ UNCHANGED <<envVars, repoVars, staged, half, faults>>

-----------------------------------------------------------------------------
(* stanza-upgrade.                                                         *)

UpgradeBegin == Begin("upgrade") /\ UNCHANGED <<envVars, repoVars, staged, aid, half, faults>>

\* "stanza not initialized; run stanza-create first".
UpgradeRefuse(r) ==
  /\ At("upgrade", r) /\ step = "archive"
  /\ ~Recorded(ainfo[r]) \/ ~Recorded(binfo[r])
  /\ End("refused")
  /\ UNCHANGED <<envVars, repoVars, staged, half, faults>>

\* Mutant: the oldest entry of the history is compared, not the current one.
Changed_firstEntry(r) == ainfo[r][1] # ident

\* Only archive.info is compared with the cluster.
Changed(r) == Current(r) # ident

UpgradeSkip(r) ==
  /\ At("upgrade", r) /\ step = "archive" /\ Recorded(ainfo[r]) /\ Recorded(binfo[r])
  /\ ~Changed(r)
  /\ Leave(r)
  /\ UNCHANGED <<envVars, repoVars, staged, half, faults>>

\* Mutant: the new entry takes the place of the current one.
UpgradeArchive_overwrites(r) ==
  /\ At("upgrade", r) /\ step = "archive" /\ Recorded(ainfo[r]) /\ Recorded(binfo[r])
  /\ Changed(r)
  /\ ainfo' = [ainfo EXCEPT ![r][Len(ainfo[r])] = ident] /\ step' = "backup"
  /\ UNCHANGED <<envVars, binfo, bid, backups, stored, staged, cmd, todo, ident, aid, outcome, half, faults>>

\* next_id is one past the highest id of archive.info's history.
UpgradeArchive(r) ==
  /\ At("upgrade", r) /\ step = "archive" /\ Recorded(ainfo[r]) /\ Recorded(binfo[r])
  /\ Changed(r)
  /\ ainfo' = [ainfo EXCEPT ![r] = Append(@, ident)] /\ step' = "backup"
  /\ UNCHANGED <<envVars, binfo, bid, backups, stored, staged, cmd, todo, ident, aid, outcome, half, faults>>

\* Mutant: backup.info numbers its own history.
UpgradeBackup_ownId(r) ==
  /\ At("upgrade", r) /\ step = "backup"
  /\ binfo' = [binfo EXCEPT ![r] = Insert(@, bid[r] + 1, ident)]
  /\ bid' = [bid EXCEPT ![r] = @ + 1]
  /\ Leave(r)
  /\ UNCHANGED <<envVars, ainfo, backups, stored, staged, half, faults>>

\* backup.info gets the same id, whatever its own history holds.
UpgradeBackup(r) ==
  /\ At("upgrade", r) /\ step = "backup"
  /\ binfo' = [binfo EXCEPT ![r] = Insert(@, Len(ainfo[r]), ident)]
  /\ bid' = [bid EXCEPT ![r] = Len(ainfo[r])]
  /\ Leave(r)
  /\ UNCHANGED <<envVars, ainfo, backups, stored, staged, half, faults>>

UpgradeEnd ==
  /\ cmd = "upgrade" /\ todo = {}
  /\ End("upgraded")
  /\ UNCHANGED <<envVars, repoVars, staged, half, faults>>

-----------------------------------------------------------------------------
(* stanza-delete.                                                          *)

DeleteBegin == stopped /\ Begin("delete") /\ UNCHANGED <<envVars, repoVars, staged, aid, half, faults>>

\* remove_path takes the files of archive/<stanza> in no particular order.
DeleteArchiveInfo(r) ==
  /\ At("delete", r) /\ step = "archive" /\ Recorded(ainfo[r])
  /\ ainfo' = [ainfo EXCEPT ![r] = None]
  /\ UNCHANGED <<envVars, binfo, bid, backups, stored, staged, cmd, step, todo, ident, aid, outcome, half, faults>>

DeleteWal(r) ==
  /\ At("delete", r) /\ step = "archive"
  /\ \E w \in stored[r] : stored' = [stored EXCEPT ![r] = @ \ {w}]
  /\ UNCHANGED <<envVars, ainfo, binfo, bid, backups, staged, cmd, step, todo, ident, aid, outcome, half, faults>>

\* Mutant: backup/<stanza> is removed while archive/<stanza> still is.
DeleteArchiveEnd_early(r) ==
  /\ At("delete", r) /\ step = "archive" /\ ~Recorded(ainfo[r])
  /\ step' = "backup" /\ half' = half \ {r}
  /\ UNCHANGED <<envVars, repoVars, staged, cmd, todo, ident, aid, outcome, faults>>

DeleteArchiveEnd(r) ==
  /\ At("delete", r) /\ step = "archive" /\ ~Recorded(ainfo[r]) /\ stored[r] = {}
  /\ step' = "backup" /\ half' = half \ {r}
  /\ UNCHANGED <<envVars, repoVars, staged, cmd, todo, ident, aid, outcome, faults>>

\* backup.info goes, and with it the list of backups.
DeleteBackup(r) ==
  /\ At("delete", r) /\ step = "backup"
  /\ binfo' = [binfo EXCEPT ![r] = None] /\ bid' = [bid EXCEPT ![r] = 0]
  /\ backups' = [backups EXCEPT ![r] = {}]
  /\ Leave(r)
  /\ UNCHANGED <<envVars, ainfo, stored, staged, half, faults>>

DeleteEnd ==
  /\ cmd = "delete" /\ todo = {}
  /\ End("deleted")
  /\ UNCHANGED <<envVars, repoVars, staged, half, faults>>

-----------------------------------------------------------------------------
(* archive-push of a segment, and backup.                                  *)

PushBegin == ~stopped /\ Begin("push") /\ UNCHANGED <<envVars, repoVars, staged, aid, half, faults>>

\* load_archive_info: the first repository that has an archive.info.
Holder(r) == Recorded(ainfo[r]) /\ \A q \in todo : Recorded(ainfo[q]) => r <= q

\* Mutant: the system-id of the segment is not looked at.
HeaderMatches_always(r) == TRUE

\* check_wal_header: the segment comes from the cluster archive.info names.
HeaderMatches(r) == HeaderCheck => Current(r) = ident

\* The archive-id is that of the first archive.info, for all repositories; in
\* asynchronous mode the segment is staged next to what is there already.
PushLoad(r) ==
  /\ cmd = "push" /\ step = "archive" /\ r \in todo /\ Holder(r) /\ HeaderMatches(r)
  /\ aid' = [id |-> Len(ainfo[r]), as |-> Current(r)]
  /\ staged' = (IF Async THEN staged \union {ident} ELSE staged) /\ step' = "copy"
  /\ UNCHANGED <<envVars, repoVars, cmd, todo, ident, outcome, half, faults>>

\* Mutant: a missing archive.info is no error, the archive-id stays empty.
PushRefuse_tolerates ==
  /\ cmd = "push" /\ step = "archive"
  /\ ~\E r \in todo : Holder(r) /\ HeaderMatches(r)
  /\ step' = "copy"
  /\ UNCHANGED <<envVars, repoVars, staged, cmd, todo, ident, aid, outcome, half, faults>>

\* No archive.info at all, or a segment of another cluster: an error.
PushRefuse ==
  /\ cmd = "push" /\ step = "archive"
  /\ ~\E r \in todo : Holder(r) /\ HeaderMatches(r)
  /\ End("refused")
  /\ UNCHANGED <<envVars, repoVars, staged, half, faults>>

\* The segment, and in asynchronous mode all that is staged, goes to r.
PushCopy(r) ==
  /\ At("push", r) /\ step = "copy"
  /\ stored' = [stored EXCEPT ![r] = @ \union
       {[id |-> aid.id, as |-> aid.as, of |-> c] : c \in IF Async THEN staged ELSE {ident}}]
  /\ todo' = todo \ {r}
  /\ UNCHANGED <<envVars, ainfo, binfo, bid, backups, staged, cmd, step, ident, aid, outcome, half, faults>>

\* Everything staged has reached every repository.
PushEnd ==
  /\ cmd = "push" /\ step = "copy" /\ todo = {}
  /\ staged' = {} /\ End("pushed")
  /\ UNCHANGED <<envVars, repoVars, half, faults>>

\* Mutant: the server is not compared with the stanza.
ServerMatches_always(r) == TRUE

\* validate_server_against_stanza.
ServerMatches(r) == CurrentBackup(r) = cluster

\* backup to r: it excludes the stanza commands but not archive-push.  The
\* entry records backup.info's current id and identity whatever was copied;
\* only a backup that a connection drives compares the server with them.
Backup(r, online) ==
  /\ ~stopped /\ cmd \in {"idle", "push"} /\ r \in configured
  /\ Recorded(binfo[r]) /\ (online => ServerMatches(r))
  /\ Cardinality(backups[r]) < MaxBackups
  /\ backups' = [backups EXCEPT ![r] = @ \union
       {[id |-> bid[r], as |-> CurrentBackup(r), of |-> cluster, online |-> online]}]
  /\ UNCHANGED <<envVars, ainfo, binfo, bid, stored, staged, cmd, step, todo, ident, aid, outcome, half, faults>>

-----------------------------------------------------------------------------
\* The command is killed or a write fails.
Die ==
  /\ cmd # "idle" /\ faults < MaxFaults
  /\ End("died") /\ faults' = faults + 1
  /\ half' = half \union {r \in Repo : At("create", r) /\ step = "backup"}
  /\ UNCHANGED <<envVars, repoVars, staged>>

Create == CreateBegin \/ CreateEnd \/ \E r \in Repo : CreateRefuse(r) \/ CreateArchive(r) \/ CreateBackup(r)
Upgrade ==
  \/ UpgradeBegin \/ UpgradeEnd
  \/ \E r \in Repo : UpgradeRefuse(r) \/ UpgradeSkip(r) \/ UpgradeArchive(r) \/ UpgradeBackup(r)
Delete ==
  \/ DeleteBegin \/ DeleteEnd
  \/ \E r \in Repo : DeleteArchiveInfo(r) \/ DeleteWal(r) \/ DeleteArchiveEnd(r) \/ DeleteBackup(r)
Push == PushBegin \/ PushRefuse \/ PushEnd \/ \E r \in Repo : PushLoad(r) \/ PushCopy(r)
Operator == StopStart \/ (\E c \in Cluster : Replace(c)) \/ \E r \in Repo : Configure(r)

Next ==
  \/ Operator \/ Create \/ Upgrade \/ Delete \/ Push \/ Die
  \/ \E r \in Repo, online \in BOOLEAN : Backup(r, online)

Spec == Init /\ [][Next]_vars

-----------------------------------------------------------------------------
(* Properties.                                                             *)

HistoryType(info) == DOMAIN info \subseteq Nat \ {0} /\ \A i \in DOMAIN info : info[i] \in Cluster

\* Every variable stays in its domain.
TypeOK ==
  /\ cluster \in Cluster /\ stopped \in BOOLEAN /\ configured \subseteq Repo
  /\ ainfo \in [Repo -> Seq(Cluster)]
  /\ DOMAIN binfo = Repo /\ (\A r \in Repo : HistoryType(binfo[r])) /\ bid \in [Repo -> Nat]
  /\ DOMAIN backups = Repo /\ \A r \in Repo : backups[r] \subseteq Entry
  /\ DOMAIN stored = Repo /\ \A r \in Repo : stored[r] \subseteq Wal
  /\ staged \subseteq Cluster /\ cmd \in Cmd /\ step \in {"archive", "backup", "copy"}
  /\ todo \subseteq configured /\ ident \in Cluster \union {NoCluster}
  /\ aid = NoAid \/ (aid.id \in Nat /\ aid.as \in Cluster)
  /\ outcome \in Outcome /\ half \subseteq Repo /\ moves \in 0..MaxMoves /\ faults \in 0..MaxFaults

\* The two info files of a repository never give one db-id to two clusters,
\* and backup.info knows no id archive.info does not: wherever a create, an
\* upgrade or a delete died, a backup's db-id names the archive its WAL is in.
HistoriesAgree ==
  \A r \in Repo : Recorded(ainfo[r]) =>
    \A i \in DOMAIN binfo[r] : i \in DOMAIN ainfo[r] /\ binfo[r][i] = ainfo[r][i]

\* The id of a listed backup goes on naming, in backup.info and in
\* archive.info if there is one, the cluster the entry recorded when it was
\* filed, through every later upgrade, create and delete that died.  A backup
\* that a connection drove also comes from that cluster; without one nothing
\* says so, since backup then compares nothing.
BackupsUnderTheirCluster ==
  \A r \in Repo : \A b \in backups[r] :
    /\ b.id \in DOMAIN binfo[r] /\ binfo[r][b.id] = b.as
    /\ Recorded(ainfo[r]) => b.id \in DOMAIN ainfo[r] /\ ainfo[r][b.id] = b.as
    /\ b.online => b.of = b.as

\* With archive-header-check, "ensure that the WAL is being copied to the
\* correct stanza": a repository's archive-id holds the WAL of the cluster
\* that its own archive.info gives the id to, and of no other, unless what a
\* create left half done was deleted and the delete died as well.
WalUnderItsCluster ==
  \A r \in Repo \ half : \A w \in stored[r] :
    /\ w.as = w.of
    /\ Recorded(ainfo[r]) => w.id \in DOMAIN ainfo[r] /\ ainfo[r][w.id] = w.of

\* stanza-create never takes over what a stanza-delete that died has left: no
\* WAL is there when archive.info appears, because backup.info outlives it all
\* and refuses the create; a create that died before backup.info is excepted.
CreateAdoptsNothing ==
  [][\A r \in Repo \ half : ~Recorded(ainfo[r]) /\ Recorded(ainfo'[r]) => stored[r] = {}]_vars

\* Short of a delete, no step changes or drops what archive.info says of an id.
HistoryOnlyGrows ==
  [][\A r \in Repo : Recorded(ainfo'[r]) =>
       \A i \in DOMAIN ainfo[r] : i \in DOMAIN ainfo'[r] /\ ainfo'[r][i] = ainfo[r][i]]_vars

\* After a stanza-upgrade that reports success, archive.info names the current
\* cluster in every repository, whatever died before it.
UpgradeReachesArchiveInfo ==
  outcome = "upgraded" => \A r \in configured : Current(r) = ident

\* upgrade: it compares the cluster with "what archive.info / backup.info
\* already record.  If either differs, a new history entry is appended": after
\* it succeeds backup.info names the current cluster too.
UpgradeReachesBackupInfo ==
  outcome = "upgraded" => \A r \in configured : CurrentBackup(r) = ident
=============================================================================
