# TLA+ models of pgbackrust

pgbackrust backs up PostgreSQL clusters: it archives write-ahead log (WAL) segments, takes full,
differential and incremental backups into one or more repositories, expires both by retention
rules, and restores them.  It is a family of short-lived processes that share nothing but files:
the repository, the spool, the lock directory.  There is no daemon that remembers anything, so
correctness is a matter of what these files say after any sequence of commands, some of which run
together and some of which die half way.

This directory holds TLA+ models of the parts that carry that burden, TLC runs that check them on
small instances, and theorems that TLAPS proves for every value of the constants.  `PROJECT.json`
lists components, runs, mutants, the map from definitions to source lines, findings, hazards and
theorems.

    tlc -config MCStanza_single.cfg MCStanza      # one run
    tlapm StanzaProofs.tla                        # one module's proofs

Paths below are under `src/crates/`; `archive.rs`, `backup.rs`, `expire.rs`, `lock.rs`,
`stanza.rs` without a crate are those of `pgbr-command/src`.

## Inventory

| Component | State it keeps | Operations | What makes it correct |
|---|---|---|---|
| Stop files and locks (`lock.rs`) | `<stanza>.stop`, `all.stop`; `<stanza>-archive.lock`, `-backup.lock` and the flocks on them | stop, start, is_stopped, lock_acquire, drop of a handle | one command per lock; no lock without a live owner; a stop file blocks; nobody waits for ever |
| archive-push (`archive.rs`) | `pg_wal`, the spool's `out/` with `.ok` and `.error` statuses, the archive of every repository | push, staging, drains (serial, several files, several repositories), status hand-over, queue limit | what is acknowledged is in every repository; PostgreSQL never gets stuck |
| archive-get (`archive.rs`, `lib.rs`) | the spool's `in/` | serve, fetch over repositories, prefetch | the segment served is the archived one, whole; prefetch terminates |
| Stanza commands (`stanza.rs`) | `archive.info`, `backup.info` and their `.copy` | create, upgrade, delete | an id names one cluster, in both files, for good |
| backup (`backup.rs`, `backup_control.rs`, `pipeline.rs`, `bundle.rs`, `block.rs`) | backup directory, manifest, `backup.info` | resolve prior, start, copy (jobs, retries, resume, bundles, blocks), stop, wait for WAL, save, expire-auto | a listed backup can be restored |
| expire (`expire.rs`) | the same, and the archive | retention by count or time, differential retention, WAL retention per archive-id, `--set`, `--oldest` | nothing a kept backup needs goes |
| annotate (`annotate.rs`) | `backup.info` | load, merge, save | loses no backup |
| restore (`restore.rs`) | the data directory | plan, delta, write, recovery settings, `pg_control` last | the result is the backup; an interrupted restore cannot start |
| verify, check, info (`verify.rs`, `check.rs`, `info.rs`) | none | WAL ranges, backup status, a test segment | they report what is there |
| repo-sync (`sync/`) | another repository | mirror archive and backups | references are mirrored before what refers to them |
| Info files (`pgbr-info`) | text with a checksum, a `.copy` beside it | load_keyed, save, save_keyed | a crash leaves one readable version |
| Parallel executor, protocol, server, workers (`pgbr-protocol`, `server.rs`, `worker.rs`, `remote_db.rs`) | job queue, sessions | run jobs, request and reply, streams | every job settles once; no reply for another request |
| Storage (`pgbr-storage`) | objects | read, write in place, write_atomic, list, remove, multipart upload | POSIX contract the rest relies on |
| Configuration and command line (`pgbr-config`, `pgbr-cli`) | option values | parse, merge, validate | precedence and dependencies of options |
| Filters, compression, encryption, encoding, PostgreSQL formats, core, generators | none of their own | byte transformations | lossless |

How they interact.  Every command but archive-get, info and the read-only ones takes a lock file
first: archive-push the archive lock, backup, expire and annotate the backup lock, the stanza
commands both.  Some ask is_stopped before that, stanza-delete insists on the stop file, expire and
stanza-create never ask.  archive-push and backup read the identity stanza-create wrote; backup
waits for segments that archive-push delivers and calls expire in its own process; expire reads and
rewrites the list that backup extends; restore and archive-get read what all of them left.
PostgreSQL drives archive-push, one file at a time, and repeats it until it succeeds.

What is hard to get right, and hard to test: a lock file removed while another process waits for
it; a command that dies between two files it meant to change together (`archive.info` and
`backup.info`, directories and `backup.info`, staged copy and status); statuses and staged copies
that outlive the process that wrote them; a segment in some repositories and not in others; WAL
that arrives while expire computes what to remove; chains of incrementals under three kinds of
retention at once.  `hazards` in `PROJECT.json` lists each at its line.

## Plan

Order, most important first.  The modules marked done are in this directory.

1. **CommandLock** (done): locks and stop files at system-call granularity.
2. **ArchivePush** (done): the path of every WAL segment.
3. **Stanza** (done): the identity everything is filed under; composes the stanza commands with
   archive-push and backup as its users.
4. **BackupSet** (done): chains, listing, retention of backups and WAL; composes backup, expire,
   annotate, stanza-upgrade and archive-push on one repository.
5. **ArchiveGet**: fetch and prefetch, with the archive as ArchivePush leaves it; refinement of an
   abstract "serve what is archived or report that it is absent".
6. **ParallelExecutor**: job queue, workers, first error; abstract specification "every job settles
   exactly once", which ArchivePush and BackupSet assume and the detailed module implements.
7. **BackupCopy**: the copy pipeline under that executor: retries, the half-way manifest, resume of
   an interrupted backup, bundles and blocks.
8. **Restore**: delta and full restore, crash and restart, `pg_control` last; composed with expire,
   which holds no lock against it.
9. **Verify**, **Check**: WAL ranges and status as operators against a reference definition.
10. **RepoSync**, **Session** (protocol and server), **Storage** (multipart upload, retries),
    **Config** (precedence, dependencies).

Theorems to come: KeptAreRestorable without differential retention; WalUnderItsCluster with one
repository; the executor's refinement; ArchiveGet's "never a torn segment" for whole archives.

## Modules

### CommandLock

State: `stopFiles`; `entry` (which inode a lock file's name refers to), `flock` (who holds the flock
of an inode), and per process its program counter, command and open descriptors.  `raced` and
`since` are history variables: the lock files that were unlinked while another process had them
open, and the stop files that have been there since a command began.

`Begin` picks a command; `ProbeStanza` and `ProbeAll` are the two file tests of `is_stopped`;
`Open`, `Lock`, `WouldBlock`, `AcquireFails` are `acquire_one`; `Abandon` is the unwinding of
`lock_acquire` when the second lock is refused; `Unlock` and `Unlink` are the two halves of
`LockHandle::drop`; `Crash` is the kernel closing a dead process's files.  Inodes matter because
`drop` unlocks first and removes the file *by name* afterwards.

### ArchivePush

State: PostgreSQL's `wal`, `ready` and what it was told is `acked`; the spool (`out`, `okf`,
`errf`); `repo[r][f]`; the running command (`pc`, `cur`, `batch`, `unmarked`, `wr`).  A file's
content is "none", "torn" or "whole", because writes truncate first and are not atomic.

`Invoke` is the archiver: history files first, then the oldest segment, until success.  `Check` is
the queue limit; `ConsumeStatus` is `consume_push_status`, called before staging and after the
drain; `StageStart`/`StageEnd` are `stage_push_segment`; `CopyStart`, `CopyEnd`, `CopyFail` one
repository's copy; `RemoveStaged`, `MarkOk`, `MarkError` the end of a drained file, in the code's
order; `CopiesOver` and `Result` the exit.  `MayCopy`, `Settled` and `MayMark` hold the difference
between the serial drain, the drain of several files at once and that of one file to several
repositories.  `Abort` is a death or an unhandled error anywhere.

### Stanza

State per repository: `ainfo` (archive.info's history, a sequence: ids are positions), `binfo` and
`bid` (backup.info's history, which may have gaps, and its current id), the `backups` and the WAL
`stored` under each id; the current `cluster` of PostgreSQL; `staged` WAL; the running command with
the repositories it still has `todo` and the identity it read when it began.  A listed backup is
the id and identity its entry records, the cluster it was copied from, and whether a connection
drove it.

create, upgrade and delete are one action per file they write or remove, repository after
repository, with their refusals as actions of their own; `PushBegin`..`PushEnd` and `Backup` use the
identity.  `Backup` comes in two kinds.  With a connection, `validate_server_against_stanza` compares
the server with backup.info.  Without one, which is the case when neither `DATABASE_URL` nor a host,
socket or path of PostgreSQL is configured (`backup.rs:1045-1057`), nothing is compared
(`backup.rs:4173-4176`) and the entry gets backup.info's current id and identity (`backup.rs:4503-4509`)
whatever was copied.  `Replace` is pg_upgrade or a restore of another cluster, `Configure` adds a repository,
`Die` ends a command anywhere.

### BackupSet

State: `made[n]`, what the n-th backup is (type, prior, the backups whose files it uses, first and
last segment, cluster id); `dir[n]`; `list`, `torn`, `copy` (backup.info and its `.copy`); the
archive `wal`; the running command with the list it has in memory.

`BackupBegin`..`BackupEnd` are `run_backup` with `resolve_prior`, the wait for WAL and its timeout;
`SaveBegin`/`SaveEnd` are the two ways backup.info is saved: by renames with a `.copy` when the
repository is encrypted, truncated in place otherwise; `Expired`, `Dependents`, `MaySet`,
`MayOldest` say which backups go, `RemoveSome`, `RemoveAll`, `RemoveEnd` remove them (in order, or
several at a time); `Expendable` is `compute_archive_plan`, `WalRemove` its execution, with
`Archive` adding WAL meanwhile.  Under time retention any point may be the limit of the window.

## Runs

| Run | Instance | Distinct states | Shows |
|---|---|---|---|
| lock_safety | 2 processes, 4 inodes, the commands backup, stanza and delete, one stop file | 453,198 | ExclusiveUnlessRaced, LocksHaveLiveOwners, StopBlocks, CommandsEnd |
| lock_exclusion | the same with backup only | violation | MutualExclusion fails: two backups run together |
| push_sync | 3 segments, 1 history file, 2 repositories, limit 3, 3 faults | 301,732 | AckedIsArchived, EveryFileAcknowledged |
| push_async | 2 segments, 1 history file, 2 repositories, 2 workers, 3 faults | 78,397 | AckedIsArchivedUnlessTorn, StatusIsTrue, StagedKeptUntilArchived, EveryFileAcknowledged, SpoolDrains |
| push_torn | 1 repository, 1 fault | violation | AckedIsArchived fails in asynchronous mode |
| stanza_single | 2 clusters, 1 repository, 3 moves, 3 deaths, 2 listed backups | 901,260 | HistoriesAgree, BackupsUnderTheirCluster, WalUnderItsCluster, CreateAdoptsNothing, HistoryOnlyGrows |
| stanza_multi | 2 clusters, 2 repositories, asynchronous, 2 moves, 1 death, 1 listed backup each | 847,356 | HistoriesAgree, BackupsUnderTheirCluster, UpgradeReachesArchiveInfo |
| stanza_upgrade | 1 repository, 1 death | violation | UpgradeReachesBackupInfo fails |
| set_crash | encrypted, 3 backups, 2 segments, full and WAL retention 1, `--oldest`, parallel removal, 2 deaths | 160,754 | KeptAreRestorable, CompleteAreListed, OneFullRemains, KeptHaveTheirWal, ExpireFinishes |
| set_wal | unencrypted, 4 backups, 3 segments, 2 clusters, time retention, `--set` and `--oldest`, no deaths | 1,860,834 | KeptHaveTheirWal, KeptAreRestorable, OneFullRemains, RollForwardKept |
| set_torn | unencrypted, 2 backups, 1 death | violation | CompleteAreListed fails |
| set_diff | 5 offline backups, differential retention 1 | violation | KeptAreRestorable fails |

Why the bounds are enough for the cases they are meant for.  Two processes suffice for every race
on a lock file, since one of them may crash and begin again, and four inodes for every file two
processes can have open.  Two segments and a history file give PostgreSQL a choice of what to
push next while a leftover of another file is in the spool; two repositories give partial failure.
Two clusters can take turns, so that a stanza returns to a cluster it knew.  Three backups give a
full with a chain under a later full, four with `--set` in between; a segment per online backup is
the least that lets the wait for WAL end.  Two listed backups let one with a connection and one
without, or one of each cluster, stand side by side.  Two deaths let the command that should repair the first
die as well.  Differential retention is in no passing run, because KeptAreRestorable fails with it (set_diff: an
incremental on top of an incremental takes four backups, and a newer differential a fifth), nor is
an `--set` that dies, after which KeptAreRestorable and OneFullRemains fail; so set_crash has
retention and `--oldest` with deaths, set_wal `--set` too but none.  What a bound cuts off, the
theorems cover where there is one: the asynchronous
queue limit, the serial drain and more than one stop file are not in a passing run, and the proofs
hold for every value of these constants, differential retention included.

Each property has a mutant in `PROJECT.json`: a plausible change of the code's model under which
TLC finds the property violated with the same configuration.

### Fairness

* CommandLock: a process that has a next system call takes it (`WF(Step(p))`).  Nothing is assumed
  of new commands, errors, crashes or the operator.
* ArchivePush: the archiver keeps invoking the command for a file it has to archive, which is what
  PostgreSQL's archiver does, and an invoked command goes on.  Faults are bounded, so they stop.
* BackupSet: a running command goes on, WAL keeps arriving, and expire is run again and again, which
  is what scheduling it, or expire-auto, amounts to.

### Findings

Five runs show a disagreement between the code and what a comment or the help text says.

* `LockHandle::drop` unlocks, then removes the file by its path (`lock.rs:205-210`).  A process that
  had opened the file locks an inode without a name while a newcomer creates and locks a new file.
* `stage_push_segment` writes `out/<segment>` in place (`archive.rs:857`).  A truncated staged copy
  is drained by the push of a history file, marked `.ok`, and the retry of the segment is
  acknowledged from that status.
* `upgrade_with_identity` decides from archive.info alone (`stanza.rs:758`): after an upgrade that
  died between the two files it reports success for ever and backup refuses the cluster.
* An unencrypted backup.info is truncated and rewritten in place, its `.copy` left as the last
  stanza command wrote it (`pgbr-info/src/backup.rs:110`): a crash there forgets every backup since.
* `apply_diff_retention` follows one reference only (`expire.rs:783`): an incremental on top of an
  incremental of an expired differential is kept without its files.

Known differences between the code and the help text that no run states:

* expire, stanza-create and stanza-upgrade do not ask is_stopped (`pgbr-build/inputs/help.xml:2815`);
  restore takes no lock although `lock.rs:13` lists it; `stop --force` sends no signal
  (help.xml:2822).
* archive-push-queue-max: in asynchronous mode only staged files count, which a push drains at once;
  in synchronous mode archived segments that are not yet recycled count too; a drop leaves what is
  staged (help.xml:1615, 1627, 1629; `archive.rs:430-470`, 746).
* stanza-create fails at a repository that has the stanza instead of skipping it (help.xml:2903,
  `stanza.rs:537`).  A create that died between the two files can be neither repeated nor upgraded;
  stanza-delete leads out.
* The archive-id of the first repository is used for all (`archive.rs:808-809`), although a
  repository added after an upgrade numbers its own history from 1.  Segments staged before an
  upgrade are drained under the new id (`archive.rs:811`, help.xml:479).
* A backup without a connection compares nothing with the stanza (`backup.rs:4173-4176`): taken after
  PostgreSQL was replaced and before stanza-upgrade, it is filed under the old cluster's id and
  identity.
* A full whose removal died is still listed and counts as the full that must remain
  (`expire.rs:547`, help.xml:2311); after an expire `--set` that died, a partly removed backup may
  become the prior of the next one.  resolve_prior does not look at the cluster's id.
* Time-based retention and the default of repo-retention-archive differ from help.xml:937 and 975.
* annotate cannot read an encrypted repository.  Labels have a resolution of one second.  The
  directory of an interrupted backup is never removed.

## Theorems

All are proved from the assumptions named in the modules (kinds of constants and lower bounds such
as "at least one repository"), for every value of the constants.  Each follows the same pattern: an
inductive invariant that holds initially, is preserved by each action, and implies the property.

**CommandLockProofs.**  `TypeCorrect`, `Exclusive` (ExclusiveUnlessRaced), `NoStaleLock`
(LocksHaveLiveOwners), `StopIsEffective` (StopBlocks).  Exclusion alone is not inductive: one has to
know that two processes with the same lock file open have the same *inode* open (`OpenIsLinked`, as
long as the file was not unlinked under anyone), that an inode never serves two lock files
(`OneNameEach`), that a flock's owner has the inode open (`Owners`), and at each program counter
which locks are held (`Progress`).  `GateProgress` carries the first probe's answer to the second.

**ArchivePushProofs.**  `TypeCorrect`, `AckedSafe` (AckedIsArchivedUnlessTorn), `StatusSafe`
(StatusIsTrue), `StagedSafe` (StagedKeptUntilArchived).  The invariant says what a finished copy
stands for (`CopiesTrue`), that a staged copy is there until its file is in every repository
(`StagedWhileCopied`), that a file with a `.ok` status has left the spool (`OkTrue`: no later drain
can truncate the repository's copy), the same for acknowledged files (`AckedTrue`), and what the
running command knows of its own file (`CommandTrue`).

**StanzaProofs.**  `TypeCorrect`, `IdsNeverConflict` (HistoriesAgree), `BackupsAttributed`
(BackupsUnderTheirCluster), `HistoryGrows` (HistoryOnlyGrows).  What makes HistoriesAgree inductive is
`Midway`: between its two writes a create has archive.info and no backup.info, an upgrade has the new
cluster at the end of archive.info, a delete has no archive.info.  `CurrentIsRecorded` and
`BackupsListed` tie the current id and the backups to the history.  BackupsUnderTheirCluster says that
an entry's id goes on naming the identity the entry recorded, for backups with and without a
connection, and that a backup with one was copied from that cluster; of one without nothing of the
kind is true.

**BackupSetProofs.**  `TypeCorrect`, `RollForward` (RollForwardKept), and for encrypted repositories
`CompletedStayListed` (CompleteAreListed) and `ListedHaveTheirWal` (KeptHaveTheirWal).  `Shape` adds to the
types that what commands know of has been taken (`Known`), that the backup being taken is not listed
(`Unlisted`), and that the starts of online backups are ordered (`Ordered`).  From that,
`ExpendableIsLater`: a segment after a backup's start is expendable only when the backup is older
than its cluster's retention backup and stopped before the segment.  `Listed` says that what a
command is about to save contains every backup no expire has chosen; `WalThere` that listed backups
and those about to be listed have their WAL.  The premise is needed: set_torn shows that
CompleteAreListed fails for an unencrypted repository.

Only model-checked: all liveness (CommandsEnd, EveryFileAcknowledged, SpoolDrains, ExpireFinishes), which the
prover cannot express; AckedIsArchived in synchronous mode as such (AckedSafe implies it, since nothing is
tainted without a spool); WalUnderItsCluster, CreateAdoptsNothing and UpgradeReachesArchiveInfo; and
KeptAreRestorable and OneFullRemains, which hold under the restrictions of the options named above.

## What is not modelled

* archive-get, restore, verify, check, repo-sync, the copy pipeline, the executor, the protocol, the
  storage backends and the configuration: planned, in the order above.
* Inside the modelled parts: `--dry-run`, `.history` files and backup.history manifests, the legacy flat
  archive layout (expire); archive-check off (backup); ciphers and how the cluster's identity is read
  (stanza); compression, encryption and the WAL header's bytes (push), of which the outcome remains.
* Text formats and their checksums: a file is intact or does not parse.  Filters, compression,
  encryption, encoding and PostgreSQL's binary formats are byte transformations with no protocol of
  their own; logging, memory contexts and build-time generators carry no state the commands share.
